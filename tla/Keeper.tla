------------------------------- MODULE Keeper -------------------------------
(***************************************************************************)
(* The reference verifier of signed keeper instructions                    *)
(* (internal/identity/keeperctl): VerifyControl, AddGrant and RevokeGrant, *)
(* called from several goroutines over one MemoryNonceStore and one        *)
(* FileGrantStore.  A call reads the clock and the policy when it starts   *)
(* and then takes the lock of a store once or twice; what happens between  *)
(* is the other calls, the clock, and the embedding program replacing the  *)
(* policy or restarting.                                                   *)
(*                                                                         *)
(* A signature verifies when the registry of the policy resolves the tuple *)
(* {from, epoch} of the document: documents are signed by their own tuple. *)
(* The schema gates are not modelled, a document here has passed them.     *)
(***************************************************************************)
EXTENDS Integers, FiniteSets

CONSTANTS
    Calls,          \* the goroutines that may be inside the verifier at once
    Requests,       \* signed control requests [from, epoch, keeper, action, issued, nonce, gid]
    Grants,         \* signed grants [id, from, epoch, grantee, keepers, scopes, expires]
    Revokes,        \* signed revocations [gid, from, epoch, issued, nonce]
    Policies,       \* what the program may pass as Policy: [live, owners, from, until]
    MaxAge, MaxSkew,
    MaxStall,       \* longest time from a call's clock reading to its nonce check
    NoCall, None,
    MaxClock        \* bound of the model

Ids == {g.id : g \in Grants}

ASSUME KeeperAssumption ==
    /\ MaxAge \in Nat /\ MaxSkew \in Nat /\ MaxStall \in Nat /\ MaxClock \in Nat
    /\ MaxStall < MaxSkew
    /\ \A g \in Grants : g.expires \in Nat
    /\ \A r \in Requests \cup Revokes : r.issued \in Nat

VARIABLES
    clock,          \* wall time in whole seconds
    policy,         \* the Policy the next call is given
    notBefore,      \* Policy.NotBefore: when the program started
    nonces,         \* MemoryNonceStore.entries: [from, nonce, until]
    state,          \* FileGrantStore.state: id -> [grant, revoked] or None
    failed,         \* FileGrantStore.failed: the handle refuses every call
    disk,           \* the snapshot under the store's path
    calls,          \* the calls under way
    accepted,       \* history: how often this run of the program accepted each request
    doneBefore,     \* history: requests accepted by an earlier run
    acked,          \* history: grants whose Put returned no error
    dead            \* history: grants whose MarkRevoked returned no error

storeVars == <<state, failed, disk, acked, dead>>
history == <<accepted, doneBefore>>
vars == <<clock, policy, notBefore, nonces, state, failed, disk, calls,
          accepted, doneBefore, acked, dead>>

Stored == [grant : Grants, revoked : BOOLEAN]
ControlCall == [op : {"control"}, doc : Requests, now : Nat, policy : Policies,
                at : {"nonce", "store"}, seen : {None}]
AddCall == [op : {"add"}, doc : Grants, now : {0}, policy : {None}, at : {"store"}, seen : {None}]
RevokeCall == [op : {"revoke"}, doc : Revokes, now : Nat, policy : {None},
               at : {"nonce", "store", "mark"}, seen : Grants \cup {None}]
Call == ControlCall \cup AddCall \cup RevokeCall

ASSUME SentinelAssumption == NoCall \notin Call /\ None \notin Stored

----------------------------------------------------------------------------
(* The checks a call makes on what it read when it started *)

\* the registry's window, both ends included, and the live binding of the tuple
verifySigned(p, doc, now) ==
    /\ p.from <= now /\ now <= p.until
    /\ <<doc.from, doc.epoch>> \in p.live

fresh(issued, now) ==
    /\ issued >= notBefore
    /\ issued >= now - MaxAge
    /\ issued <= now + MaxSkew

isRead(action) == action \in {"read_status", "read_context"}

ScopeOf(action) == IF action = "read_context" THEN "context" ELSE "status"

\* fault: the revocation of the grant is not looked at
grantAccess_Unrevoked(s, r, now) ==
    /\ s.grant.grantee = r.from
    /\ r.keeper \in s.grant.keepers
    /\ now < s.grant.expires
    /\ ScopeOf(r.action) \in s.grant.scopes

grantAccess(s, r, now) ==
    /\ ~s.revoked
    /\ s.grant.grantee = r.from
    /\ r.keeper \in s.grant.keepers
    /\ now < s.grant.expires
    /\ ScopeOf(r.action) \in s.grant.scopes

\* the last checks of authorizeRead, on the stored grant s
ReadAllowed(call, s) ==
    /\ grantAccess(s, call.doc, call.now)
    /\ s.grant.from = call.policy.owners[call.doc.keeper]
    /\ verifySigned(call.policy, s.grant, call.now)

----------------------------------------------------------------------------
(* The nonce store *)

\* fault: the nonce is kept only as long as a request without skew stays fresh
Retained_NoSkew(issued) == issued + MaxAge

Retained(issued) == issued + MaxAge + MaxSkew

\* Entries go once the clock is past their second of retention; in that very
\* second it depends on the fraction of the second that has passed.
Survivors == {{e \in nonces : e.until >= clock}, {e \in nonces : e.until > clock}}

Seen(kept, doc) == \E e \in kept : e.from = doc.from /\ e.nonce = doc.nonce

\* fault: retention counted from the arrival of the request
Record_FromNow(kept, doc) ==
    kept \cup {[from |-> doc.from, nonce |-> doc.nonce, until |-> Retained(clock)]}

Record(kept, doc) ==
    kept \cup {[from |-> doc.from, nonce |-> doc.nonce, until |-> Retained(doc.issued)]}

----------------------------------------------------------------------------
(* The grant store *)

\* fault: pruned in the last second in which the grant still holds
pruneState_Early(s, now) ==
    [i \in Ids |-> IF s[i] # None /\ now + 1 >= s[i].grant.expires THEN None ELSE s[i]]

pruneState(s, now) ==
    [i \in Ids |-> IF s[i] # None /\ now >= s[i].grant.expires THEN None ELSE s[i]]

\* fault: only the document is compared, a revoked id is put again
PutAllowed_Reinstall(s, g) ==
    s[g.id] \in {None} \cup {[grant |-> g, revoked |-> b] : b \in BOOLEAN}

\* putGrant refuses a revoked id and another document of the same id
PutAllowed(s, g) == s[g.id] \in {None, [grant |-> g, revoked |-> FALSE]}

putGrant(s, g) == [s EXCEPT ![g.id] = [grant |-> g, revoked |-> FALSE]]

\* the snapshot is written and renamed, and becomes the state of the handle
Saved(next) == disk' = next /\ state' = next /\ UNCHANGED failed

\* The save fails, before or after the rename: the handle keeps its state and
\* answers nothing more until the store is opened again.
SaveFails(next) == disk' \in {disk, next} /\ failed' = TRUE /\ UNCHANGED state

----------------------------------------------------------------------------
Init ==
    /\ clock = 1
    /\ policy \in Policies
    /\ notBefore = 1
    /\ nonces = {}
    /\ state = [i \in Ids |-> None]
    /\ failed = FALSE
    /\ disk = [i \in Ids |-> None]
    /\ calls = [c \in Calls |-> NoCall]
    /\ accepted = [r \in Requests |-> 0]
    /\ doneBefore = {}
    /\ acked = {}
    /\ dead = {}

Idle(c) == calls[c] = NoCall
At(c, op, at) == calls[c] # NoCall /\ calls[c].op = op /\ calls[c].at = at

\* a call starts; only a control request asks its policy again later
Enter(c, op, doc, at) ==
    calls' = [calls EXCEPT ![c] =
        [op |-> op, doc |-> doc, now |-> IF op = "add" THEN 0 ELSE clock,
         policy |-> IF op = "control" THEN policy ELSE None, at |-> at, seen |-> None]]
Return(c) == calls' = [calls EXCEPT ![c] = NoCall]

Accept(c) ==
    accepted' = [accepted EXCEPT ![calls[c].doc] = @ + 1] /\ Return(c)

(***************************************************************************)
(* VerifyControl up to the nonce store: a request that fails one of these  *)
(* checks is refused with nothing changed.                                 *)
(***************************************************************************)
VerifyControl(c, r) ==
    /\ Idle(c)
    /\ verifySigned(policy, r, clock)
    /\ r.keeper \in DOMAIN policy.owners
    /\ fresh(r.issued, clock)
    /\ Enter(c, "control", r, "nonce")
    /\ UNCHANGED <<clock, policy, notBefore, nonces, storeVars, history>>

(***************************************************************************)
(* recordNonce of a control request, and what needs no grant: an owner is  *)
(* accepted, anything but a read is refused to everyone else.              *)
(***************************************************************************)
RecordControl(c) ==
    /\ At(c, "control", "nonce")
    /\ LET r == calls[c].doc
           isOwner == r.from = calls[c].policy.owners[r.keeper] IN
       \E kept \in Survivors :
          \/ /\ Seen(kept, r)
             /\ nonces' = kept
             /\ Return(c) /\ UNCHANGED accepted
          \/ /\ ~Seen(kept, r)
             /\ nonces' = Record(kept, r)
             /\ \/ isOwner /\ Accept(c)
                \/ ~isOwner /\ ~isRead(r.action) /\ Return(c) /\ UNCHANGED accepted
                \/ /\ ~isOwner /\ isRead(r.action)
                   /\ calls' = [calls EXCEPT ![c] = [@ EXCEPT !.at = "store"]]
                   /\ UNCHANGED accepted
    /\ UNCHANGED <<clock, policy, notBefore, storeVars, doneBefore>>

(***************************************************************************)
(* authorizeRead: the stored grant is fetched and judged by the clock and  *)
(* the policy of the call.                                                 *)
(***************************************************************************)
authorizeRead(c) ==
    /\ At(c, "control", "store")
    /\ LET gid == calls[c].doc.gid IN
       IF ~failed /\ gid \in Ids /\ state[gid] # None /\ ReadAllowed(calls[c], state[gid])
       THEN Accept(c)
       ELSE Return(c) /\ UNCHANGED accepted
    /\ UNCHANGED <<clock, policy, notBefore, nonces, storeVars, doneBefore>>

\* AddGrant up to the store: the issuer owns every keeper of the grant
AddGrant(c, g) ==
    /\ Idle(c)
    /\ verifySigned(policy, g, clock)
    /\ \A k \in g.keepers : k \in DOMAIN policy.owners /\ policy.owners[k] = g.from
    /\ clock < g.expires
    /\ Enter(c, "add", g, "store")
    /\ UNCHANGED <<clock, policy, notBefore, nonces, storeVars, history>>

(***************************************************************************)
(* FileGrantStore.Put under its lock, by the clock of the moment: expired  *)
(* grants are pruned, the grant is put, the snapshot published.  A refused *)
(* Put publishes nothing.                                                  *)
(***************************************************************************)
Put(c) ==
    /\ At(c, "add", "store")
    /\ LET g == calls[c].doc
           pruned == pruneState(state, clock) IN
       \/ /\ failed \/ ~PutAllowed(pruned, g)
          /\ UNCHANGED storeVars
       \/ /\ ~failed /\ PutAllowed(pruned, g)
          /\ Saved(putGrant(pruned, g))
          /\ acked' = acked \cup {g} /\ UNCHANGED dead
       \/ /\ ~failed /\ PutAllowed(pruned, g)
          /\ SaveFails(putGrant(pruned, g))
          /\ UNCHANGED <<acked, dead>>
    /\ Return(c)
    /\ UNCHANGED <<clock, policy, notBefore, nonces, history>>

RevokeGrant(c, r) ==
    /\ Idle(c)
    /\ verifySigned(policy, r, clock)
    /\ fresh(r.issued, clock)
    /\ Enter(c, "revoke", r, "nonce")
    /\ UNCHANGED <<clock, policy, notBefore, nonces, storeVars, history>>

RecordRevoke(c) ==
    /\ At(c, "revoke", "nonce")
    /\ \E kept \in Survivors :
          \/ Seen(kept, calls[c].doc) /\ nonces' = kept /\ Return(c)
          \/ /\ ~Seen(kept, calls[c].doc)
             /\ nonces' = Record(kept, calls[c].doc)
             /\ calls' = [calls EXCEPT ![c] = [@ EXCEPT !.at = "store"]]
    /\ UNCHANGED <<clock, policy, notBefore, storeVars, history>>

\* only the issuer of the grant found under the id goes on to revoke it
CheckIssuer(c) ==
    /\ At(c, "revoke", "store")
    /\ LET r == calls[c].doc IN
       IF ~failed /\ r.gid \in Ids /\ state[r.gid] # None /\ state[r.gid].grant.from = r.from
       THEN calls' = [calls EXCEPT ![c] = [@ EXCEPT !.at = "mark", !.seen = state[r.gid].grant]]
       ELSE Return(c)
    /\ UNCHANGED <<clock, policy, notBefore, nonces, storeVars, history>>

\* FileGrantStore.MarkRevoked: whatever the id holds now, without pruning
MarkRevoked(c) ==
    /\ At(c, "revoke", "mark")
    /\ LET id == calls[c].doc.gid
           next == [state EXCEPT ![id] = [grant |-> state[id].grant, revoked |-> TRUE]] IN
       \/ /\ failed \/ state[id] = None
          /\ UNCHANGED storeVars
       \/ /\ ~failed /\ state[id] # None
          /\ Saved(next)
          /\ dead' = dead \cup {state[id].grant} /\ UNCHANGED acked
       \/ /\ ~failed /\ state[id] # None
          /\ SaveFails(next)
          /\ UNCHANGED <<acked, dead>>
    /\ Return(c)
    /\ UNCHANGED <<clock, policy, notBefore, nonces, history>>

(***************************************************************************)
(* The program ends at any point, also inside a call, and starts again:    *)
(* the nonce store is new, NotBefore is the time of the start, and         *)
(* OpenFileGrantStore prunes what the disk holds and saves it.  An open    *)
(* that fails leaves no usable store.                                      *)
(***************************************************************************)
Restart ==
    /\ notBefore' = clock
    /\ nonces' = {}
    /\ calls' = [c \in Calls |-> NoCall]
    /\ accepted' = [r \in Requests |-> 0]
    /\ doneBefore' = doneBefore \cup {r \in Requests : accepted[r] > 0}
    /\ state' = pruneState(disk, clock)
    /\ \/ disk' = pruneState(disk, clock) /\ failed' = FALSE
       \/ disk' \in {disk, pruneState(disk, clock)} /\ failed' = TRUE
    /\ UNCHANGED <<clock, policy, acked, dead>>

\* keys rotate and keepers change hands: the next call is given another Policy
ChangePolicy ==
    /\ policy' \in Policies \ {policy}
    /\ UNCHANGED <<clock, notBefore, nonces, storeVars, calls, history>>

\* Time passes, but no call waits longer than MaxStall before the nonce store.
Tick ==
    /\ clock < MaxClock
    /\ \A c \in Calls : ~Idle(c) /\ calls[c].at = "nonce" => clock < calls[c].now + MaxStall
    /\ clock' = clock + 1
    /\ UNCHANGED <<policy, notBefore, nonces, storeVars, calls, history>>

Next ==
    \/ \E c \in Calls :
          \/ \E r \in Requests : VerifyControl(c, r)
          \/ RecordControl(c)
          \/ authorizeRead(c)
          \/ \E g \in Grants : AddGrant(c, g)
          \/ Put(c)
          \/ \E r \in Revokes : RevokeGrant(c, r)
          \/ RecordRevoke(c)
          \/ CheckIssuer(c)
          \/ MarkRevoked(c)
    \/ Restart
    \/ ChangePolicy
    \/ Tick

Spec == Init /\ [][Next]_vars
----------------------------------------------------------------------------
(* Properties *)

\* The stores, the handle and the calls hold what the code's types say; the
\* grant under an id has that id.
TypeOK ==
    /\ clock \in Nat /\ notBefore \in Nat /\ policy \in Policies
    /\ nonces \subseteq {[from |-> d.from, nonce |-> d.nonce, until |-> Retained(d.issued)] :
                             d \in Requests \cup Revokes}
    /\ state \in [Ids -> Stored \cup {None}] /\ disk \in [Ids -> Stored \cup {None}]
    /\ \A i \in Ids : /\ state[i] # None => state[i].grant.id = i
                      /\ disk[i] # None => disk[i].grant.id = i
    /\ failed \in BOOLEAN
    /\ calls \in [Calls -> Call \cup {NoCall}]
    /\ accepted \in [Requests -> Nat] /\ doneBefore \subseteq Requests
    /\ acked \subseteq Grants /\ dead \subseteq Grants

\* A signed request is accepted at most once by a run of the program, however
\* its calls interleave and however long the nonce is kept; after a restart
\* only a request issued at or after the new start can be accepted again
\* (MemoryNonceStore.CheckAndRecord and Policy.NotBefore).
AcceptedOnce ==
    \A r \in Requests :
        /\ accepted[r] <= 1
        /\ r \in doneBefore /\ accepted[r] = 1 => r.issued >= notBefore

\* What AddGrant and RevokeGrant acknowledged is on disk until the grant
\* expires: a crash, a failed save, a pruning Put or a second document of the
\* same id takes back neither the grant nor its revocation.
AcknowledgedIsDurable ==
    \A g \in Grants : clock < g.expires =>
        /\ g \in acked => disk[g.id] # None /\ disk[g.id].grant = g
        /\ g \in dead => disk[g.id] = [grant |-> g, revoked |-> TRUE]

\* No read is accepted under a grant whose revocation was acknowledged, except
\* by a call that read the clock before the grant expired and looked the grant
\* up afterwards, when the revocation may have been pruned and the grant put
\* again.
RevocationHolds ==
    [][\A c \in Calls :
          /\ At(c, "control", "store") /\ calls'[c] = NoCall
          /\ accepted'[calls[c].doc] > accepted[calls[c].doc]
          => LET g == state[calls[c].doc.gid].grant IN g \notin dead \/ clock >= g.expires]_vars

\* A grant becomes revoked only by a revocation of its own issuer, or of the
\* issuer of an expired grant of the same id: between looking the grant up and
\* marking it the id can change hands only by expiring.
RevokedByIssuer ==
    [][\A i \in Ids :
          disk[i] # None /\ ~disk[i].revoked /\ disk'[i] # None /\ disk'[i].revoked =>
             \E c \in Calls :
                 /\ At(c, "revoke", "mark") /\ calls[c].doc.gid = i
                 /\ \/ calls[c].doc.from = disk[i].grant.from
                    \/ clock >= calls[c].seen.expires]_vars

\* What the snapshot on disk says of a grant
Standing(g) ==
    IF disk[g.id] = None \/ disk[g.id].grant # g THEN "none"
    ELSE IF disk[g.id].revoked THEN "revoked" ELSE "live"

Ledger == INSTANCE GrantLedger WITH held <- [g \in Grants |-> Standing(g)]

\* The persisted store keeps the promise of GrantLedger through failed saves,
\* crashes and restarts: no grant turns from revoked to live, is replaced, or
\* is forgotten before it expires.
KeepsLedger == Ledger!LedgerSpec
=============================================================================
