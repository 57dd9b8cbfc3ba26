--------------------------- MODULE IdentityProofs ---------------------------
(***************************************************************************)
(* What Keeper promises for every set of calls, requests, grants and       *)
(* policies, and for every window with MaxStall < MaxSkew; and what        *)
(* RegistryTrust promises for any registries, enrollments, fetches and     *)
(* time.                                                                   *)
(*                                                                         *)
(* Two inductive invariants carry the proofs about Keeper.  StoreInv       *)
(* relates the handle of the grant store to the disk and the disk to what  *)
(* was acknowledged; NonceInv says why a second acceptance of a request    *)
(* cannot get past the nonce store: as long as a call may still bring the  *)
(* request, its nonce is retained.                                         *)
(*                                                                         *)
(* About RegistryTrust: a key shown as revoked stays revoked, the copy     *)
(* stays under the pinned root, and the countdown foresees the verdict.    *)
(***************************************************************************)
EXTENDS Keeper, RegistryTrust, SequenceTheorems, TLAPS

\* a handle that answers holds what the disk holds
HandleCurrent == ~failed => state = disk

\* the grant a revocation looked up is still under the id, or has expired
SeenStands ==
    \A c \in Calls : At(c, "revoke", "mark") =>
        /\ calls[c].seen \in Grants
        /\ calls[c].seen.id = calls[c].doc.gid /\ calls[c].seen.from = calls[c].doc.from
        /\ ~failed /\ clock < calls[c].seen.expires =>
              disk[calls[c].doc.gid] # None /\ disk[calls[c].doc.gid].grant = calls[c].seen

StoreInv == HandleCurrent /\ AcknowledgedIsDurable /\ SeenStands

\* a call on its way to the nonce store carries a document that is still young
CallsFresh ==
    \A c \in Calls : calls[c] # NoCall /\ calls[c].at = "nonce" =>
        /\ clock <= calls[c].now + MaxStall
        /\ calls[c].doc.issued >= calls[c].now - MaxAge
        /\ calls[c].doc.issued >= notBefore

\* a request that was accepted, or is past the nonce store
Used(r) == accepted[r] >= 1 \/ \E c \in Calls : At(c, "control", "store") /\ calls[c].doc = r

\* its nonce is retained until no call can bring the request any more
NonceKept ==
    \A r \in Requests : Used(r) =>
        \/ clock >= Retained(r.issued)
        \/ [from |-> r.from, nonce |-> r.nonce, until |-> Retained(r.issued)] \in nonces

\* a request is past the nonce store once
OneUse ==
    /\ \A r \in Requests : accepted[r] <= 1
    /\ \A r \in Requests : Used(r) => r.issued >= notBefore
    /\ \A c \in Calls : At(c, "control", "store") => accepted[calls[c].doc] = 0
    /\ \A c, d \in Calls : /\ At(c, "control", "store") /\ At(d, "control", "store")
                           /\ calls[c].doc = calls[d].doc
                           => c = d

NonceInv == CallsFresh /\ NonceKept /\ OneUse

----------------------------------------------------------------------------
(* Types *)

LEMMA CallTypes ==
    ASSUME TypeOK, NEW c \in Calls
    PROVE  /\ \A at : At(c, "control", at) => calls[c] \in ControlCall
           /\ \A at : At(c, "add", at) => calls[c] \in AddCall
           /\ \A at : At(c, "revoke", at) => calls[c] \in RevokeCall
           /\ calls[c] # NoCall => calls[c] \in Call
  <1>1. calls[c] \in Call \cup {NoCall}
    BY DEF TypeOK
  <1>2. \A k \in ControlCall : k.op = "control"
    BY DEF ControlCall
  <1>3. \A k \in AddCall : k.op = "add"
    BY DEF AddCall
  <1>4. \A k \in RevokeCall : k.op = "revoke"
    BY DEF RevokeCall
  <1> QED BY <1>1, <1>2, <1>3, <1>4 DEF At, Call

\* what the calls become: one of them changes, to a value of the right type
LEMMA CallsType ==
    ASSUME TypeOK, NEW c \in Calls, NEW k \in Call \cup {NoCall}, calls' = [calls EXCEPT ![c] = k]
    PROVE  calls' \in [Calls -> Call \cup {NoCall}]
  BY DEF TypeOK

LEMMA StoredIsSome ==
    \A g \in Grants, b \in BOOLEAN : [grant |-> g, revoked |-> b] # None
  <1>1. \A g \in Grants, b \in BOOLEAN : [grant |-> g, revoked |-> b] \in Stored
    BY DEF Stored
  <1> QED BY <1>1, SentinelAssumption

LEMMA PruneType ==
    ASSUME NEW s \in [Ids -> Stored \cup {None}], NEW now,
           \A i \in Ids : s[i] # None => s[i].grant.id = i
    PROVE  /\ pruneState(s, now) \in [Ids -> Stored \cup {None}]
           /\ \A i \in Ids : pruneState(s, now)[i] # None => pruneState(s, now)[i].grant.id = i
           /\ \A i \in Ids : pruneState(s, now)[i] # None => pruneState(s, now)[i] = s[i]
           /\ \A i \in Ids : pruneState(s, now)[i] = None => s[i] = None \/ now >= s[i].grant.expires
  BY DEF pruneState

LEMMA PutType ==
    ASSUME NEW s \in [Ids -> Stored \cup {None}], NEW g \in Grants,
           \A i \in Ids : s[i] # None => s[i].grant.id = i
    PROVE  /\ g.id \in Ids
           /\ putGrant(s, g) \in [Ids -> Stored \cup {None}]
           /\ \A i \in Ids : putGrant(s, g)[i] # None => putGrant(s, g)[i].grant.id = i
           /\ putGrant(s, g)[g.id] = [grant |-> g, revoked |-> FALSE]
           /\ \A i \in Ids \ {g.id} : putGrant(s, g)[i] = s[i]
  <1>1. g.id \in Ids
    BY DEF Ids
  <1>2. [grant |-> g, revoked |-> FALSE] \in Stored
    BY DEF Stored
  <1> QED BY <1>1, <1>2 DEF putGrant

\* the save of a snapshot of the right type, whatever its outcome
LEMMA SaveType ==
    ASSUME TypeOK, NEW next \in [Ids -> Stored \cup {None}],
           \A i \in Ids : next[i] # None => next[i].grant.id = i,
           Saved(next) \/ SaveFails(next)
    PROVE  /\ state' \in [Ids -> Stored \cup {None}] /\ disk' \in [Ids -> Stored \cup {None}]
           /\ \A i \in Ids : /\ state'[i] # None => state'[i].grant.id = i
                             /\ disk'[i] # None => disk'[i].grant.id = i
           /\ failed' \in BOOLEAN
  BY DEF TypeOK, Saved, SaveFails

NonceTypes == {[from |-> d.from, nonce |-> d.nonce, until |-> Retained(d.issued)] :
                   d \in Requests \cup Revokes}

LEMMA RecordType ==
    ASSUME TypeOK, NEW d \in Requests \cup Revokes, NEW kept \in Survivors
    PROVE  kept \subseteq NonceTypes /\ Record(kept, d) \subseteq NonceTypes
  <1>1. nonces \subseteq NonceTypes
    BY DEF TypeOK, NonceTypes
  <1>2. kept \subseteq nonces
    BY DEF Survivors
  <1>3. [from |-> d.from, nonce |-> d.nonce, until |-> Retained(d.issued)] \in NonceTypes
    BY DEF NonceTypes
  <1> QED BY <1>1, <1>2, <1>3 DEF Record

LEMMA EnterType ==
    ASSUME TypeOK, NEW c \in Calls
    PROVE  /\ \A r \in Requests : Enter(c, "control", r, "nonce") => calls' \in [Calls -> Call \cup {NoCall}]
           /\ \A g \in Grants : Enter(c, "add", g, "store") => calls' \in [Calls -> Call \cup {NoCall}]
           /\ \A r \in Revokes : Enter(c, "revoke", r, "nonce") => calls' \in [Calls -> Call \cup {NoCall}]
  <1>1. ASSUME NEW r \in Requests
        PROVE  [op |-> "control", doc |-> r, now |-> clock, policy |-> policy, at |-> "nonce",
                seen |-> None] \in Call
    BY DEF Call, ControlCall, TypeOK
  <1>2. ASSUME NEW g \in Grants
        PROVE  [op |-> "add", doc |-> g, now |-> 0, policy |-> None, at |-> "store",
                seen |-> None] \in Call
    BY DEF Call, AddCall
  <1>3. ASSUME NEW r \in Revokes
        PROVE  [op |-> "revoke", doc |-> r, now |-> clock, policy |-> None, at |-> "nonce",
                seen |-> None] \in Call
    BY DEF Call, RevokeCall, TypeOK
  <1> QED BY <1>1, <1>2, <1>3 DEF Enter, TypeOK

LEMMA ReturnType ==
    ASSUME TypeOK, NEW c \in Calls, Return(c)
    PROVE  calls' \in [Calls -> Call \cup {NoCall}]
  BY DEF Return, TypeOK

LEMMA RecordControlType == ASSUME TypeOK, NEW c \in Calls, RecordControl(c) PROVE TypeOK'
  <1>1. calls[c] \in ControlCall /\ calls[c].doc \in Requests
    BY CallTypes DEF RecordControl, ControlCall
  <1>2. nonces' \subseteq NonceTypes
    BY <1>1, RecordType DEF RecordControl
  <1>3. accepted' \in [Requests -> Nat]
    BY <1>1 DEF RecordControl, Accept, TypeOK
  <1>4. [calls[c] EXCEPT !.at = "store"] \in Call
    BY <1>1 DEF Call, ControlCall
  <1>5. calls' \in [Calls -> Call \cup {NoCall}]
    <2>1. \/ Return(c) \/ calls' = [calls EXCEPT ![c] = [@ EXCEPT !.at = "store"]]
      BY DEF RecordControl, Accept
    <2> QED BY <2>1, <1>4, ReturnType DEF TypeOK
  <1> QED BY <1>2, <1>3, <1>5 DEF TypeOK, RecordControl, storeVars, NonceTypes

LEMMA authorizeReadType == ASSUME TypeOK, NEW c \in Calls, authorizeRead(c) PROVE TypeOK'
  <1>1. calls[c].doc \in Requests
    BY CallTypes DEF authorizeRead, ControlCall
  <1>2. accepted' \in [Requests -> Nat] /\ Return(c)
    BY <1>1 DEF authorizeRead, Accept, TypeOK
  <1> QED BY <1>2, ReturnType DEF TypeOK, authorizeRead, storeVars

LEMMA PutNext ==
    ASSUME TypeOK, NEW c \in Calls, Put(c)
    PROVE  /\ calls[c].doc \in Grants
           /\ LET next == putGrant(pruneState(state, clock), calls[c].doc) IN
              \/ UNCHANGED storeVars
              \/ /\ ~failed /\ PutAllowed(pruneState(state, clock), calls[c].doc)
                 /\ \/ Saved(next) /\ acked' = acked \cup {calls[c].doc} /\ UNCHANGED dead
                    \/ SaveFails(next) /\ UNCHANGED <<acked, dead>>
           /\ Return(c)
           /\ UNCHANGED <<clock, policy, notBefore, nonces, history>>
  BY CallTypes DEF Put, AddCall

LEMMA PutActionType == ASSUME TypeOK, NEW c \in Calls, Put(c) PROVE TypeOK'
  <1> DEFINE pruned == pruneState(state, clock)
             g == calls[c].doc
  <1>0. g \in Grants
    BY PutNext
  <1>1. /\ pruned \in [Ids -> Stored \cup {None}]
        /\ \A i \in Ids : pruned[i] # None => pruned[i].grant.id = i
    BY PruneType DEF TypeOK
  <1>2. /\ putGrant(pruned, g) \in [Ids -> Stored \cup {None}]
        /\ \A i \in Ids : putGrant(pruned, g)[i] # None => putGrant(pruned, g)[i].grant.id = i
    BY <1>0, <1>1, PutType
  <1> HIDE DEF pruned
  <1>3. /\ state' \in [Ids -> Stored \cup {None}] /\ disk' \in [Ids -> Stored \cup {None}]
        /\ \A i \in Ids : /\ state'[i] # None => state'[i].grant.id = i
                          /\ disk'[i] # None => disk'[i].grant.id = i
        /\ failed' \in BOOLEAN
        /\ acked' \subseteq Grants /\ dead' \subseteq Grants
    <2>1. CASE UNCHANGED storeVars
      BY <2>1 DEF storeVars, TypeOK
    <2>2. CASE /\ Saved(putGrant(pruned, g)) \/ SaveFails(putGrant(pruned, g))
               /\ acked' \in {acked, acked \cup {g}} /\ UNCHANGED dead
      BY <2>2, <1>0, <1>2, SaveType DEF TypeOK
    <2> QED BY <2>1, <2>2, PutNext DEF pruned
  <1>4. calls' \in [Calls -> Call \cup {NoCall}]
    BY PutNext, ReturnType
  <1> QED BY <1>3, <1>4, PutNext DEF TypeOK, history

LEMMA RecordRevokeType == ASSUME TypeOK, NEW c \in Calls, RecordRevoke(c) PROVE TypeOK'
  <1>1. calls[c] \in RevokeCall /\ calls[c].doc \in Revokes
    BY CallTypes DEF RecordRevoke, RevokeCall
  <1>2. nonces' \subseteq NonceTypes
    BY <1>1, RecordType DEF RecordRevoke
  <1>3. [calls[c] EXCEPT !.at = "store"] \in Call
    BY <1>1 DEF Call, RevokeCall
  <1>4. calls' \in [Calls -> Call \cup {NoCall}]
    <2>1. \/ Return(c) \/ calls' = [calls EXCEPT ![c] = [@ EXCEPT !.at = "store"]]
      BY DEF RecordRevoke
    <2> QED BY <2>1, <1>3, ReturnType DEF TypeOK
  <1> QED BY <1>2, <1>4 DEF TypeOK, RecordRevoke, storeVars, history, NonceTypes

LEMMA IssuerNext ==
    ASSUME TypeOK, NEW c \in Calls, CheckIssuer(c)
    PROVE  /\ calls[c] \in RevokeCall
           /\ \/ Return(c)
              \/ /\ ~failed /\ calls[c].doc.gid \in Ids /\ state[calls[c].doc.gid] # None
                 /\ state[calls[c].doc.gid].grant.from = calls[c].doc.from
                 /\ calls' = [calls EXCEPT ![c] =
                        [@ EXCEPT !.at = "mark", !.seen = state[calls[c].doc.gid].grant]]
           /\ UNCHANGED <<clock, policy, notBefore, nonces, storeVars, history>>
  BY CallTypes DEF CheckIssuer

LEMMA CheckIssuerType == ASSUME TypeOK, NEW c \in Calls, CheckIssuer(c) PROVE TypeOK'
  <1>1. calls' \in [Calls -> Call \cup {NoCall}]
    <2>1. CASE Return(c)
      BY <2>1, ReturnType
    <2>2. CASE /\ calls[c].doc.gid \in Ids /\ state[calls[c].doc.gid] # None
               /\ calls' = [calls EXCEPT ![c] =
                      [@ EXCEPT !.at = "mark", !.seen = state[calls[c].doc.gid].grant]]
      <3>1. state[calls[c].doc.gid].grant \in Grants
        BY <2>2 DEF TypeOK, Stored
      <3>2. [calls[c] EXCEPT !.at = "mark", !.seen = state[calls[c].doc.gid].grant] \in Call
        BY <3>1, IssuerNext DEF Call, RevokeCall
      <3> QED BY <2>2, <3>2 DEF TypeOK
    <2> QED BY <2>1, <2>2, IssuerNext
  <1> QED BY <1>1, IssuerNext DEF TypeOK, storeVars, history

LEMMA MarkNext ==
    ASSUME TypeOK, SeenStands, NEW c \in Calls, MarkRevoked(c), NEW id, id = calls[c].doc.gid
    PROVE  /\ id \in Ids /\ calls[c].seen \in Grants /\ calls[c].seen.id = id
           /\ calls[c].seen.from = calls[c].doc.from
           /\ LET next == [state EXCEPT ![id] = [grant |-> state[id].grant, revoked |-> TRUE]] IN
              \/ UNCHANGED storeVars
              \/ /\ ~failed /\ state[id] # None
                 /\ \/ Saved(next) /\ dead' = dead \cup {state[id].grant} /\ UNCHANGED acked
                    \/ SaveFails(next) /\ UNCHANGED <<acked, dead>>
           /\ Return(c)
           /\ UNCHANGED <<clock, policy, notBefore, nonces, history>>
  <1>1. At(c, "revoke", "mark")
    BY DEF MarkRevoked
  <1> QED BY <1>1 DEF MarkRevoked, SeenStands, Ids

LEMMA MarkType ==
    ASSUME TypeOK, NEW id \in Ids, state[id] # None
    PROVE  LET next == [state EXCEPT ![id] = [grant |-> state[id].grant, revoked |-> TRUE]] IN
           /\ next \in [Ids -> Stored \cup {None}]
           /\ \A i \in Ids : next[i] # None => next[i].grant.id = i
           /\ state[id].grant \in Grants
  <1>1. state[id].grant \in Grants /\ [grant |-> state[id].grant, revoked |-> TRUE] \in Stored
    BY DEF TypeOK, Stored
  <1> QED BY <1>1 DEF TypeOK

LEMMA MarkRevokedType ==
    ASSUME TypeOK, SeenStands, NEW c \in Calls, MarkRevoked(c)
    PROVE  TypeOK'
  <1> DEFINE id == calls[c].doc.gid
             next == [state EXCEPT ![id] = [grant |-> state[id].grant, revoked |-> TRUE]]
  <1>1. /\ state' \in [Ids -> Stored \cup {None}] /\ disk' \in [Ids -> Stored \cup {None}]
        /\ \A i \in Ids : /\ state'[i] # None => state'[i].grant.id = i
                          /\ disk'[i] # None => disk'[i].grant.id = i
        /\ failed' \in BOOLEAN
        /\ acked' \subseteq Grants /\ dead' \subseteq Grants
    <2>1. CASE UNCHANGED storeVars
      BY <2>1 DEF storeVars, TypeOK
    <2>2. CASE /\ state[id] # None
               /\ Saved(next) \/ SaveFails(next)
               /\ dead' \in {dead, dead \cup {state[id].grant}} /\ UNCHANGED acked
      <3>1. /\ next \in [Ids -> Stored \cup {None}]
            /\ \A i \in Ids : next[i] # None => next[i].grant.id = i
            /\ state[id].grant \in Grants
        BY <2>2, MarkNext, MarkType
      <3> HIDE DEF next
      <3> QED BY <2>2, <3>1, SaveType DEF TypeOK
    <2> QED BY <2>1, <2>2, MarkNext
  <1>2. calls' \in [Calls -> Call \cup {NoCall}]
    BY MarkNext, ReturnType
  <1> QED BY <1>1, <1>2, MarkNext DEF TypeOK, history

LEMMA RestartType == ASSUME TypeOK, Restart PROVE TypeOK'
  <1>1. /\ pruneState(disk, clock) \in [Ids -> Stored \cup {None}]
        /\ \A i \in Ids : pruneState(disk, clock)[i] # None => pruneState(disk, clock)[i].grant.id = i
    BY PruneType DEF TypeOK
  <1> QED BY <1>1 DEF Restart, TypeOK

LEMMA EntryType ==
    ASSUME TypeOK, NEW c \in Calls,
           \/ \E r \in Requests : VerifyControl(c, r)
           \/ \E g \in Grants : AddGrant(c, g)
           \/ \E r \in Revokes : RevokeGrant(c, r)
    PROVE  /\ calls' \in [Calls -> Call \cup {NoCall}]
           /\ UNCHANGED <<clock, policy, notBefore, nonces, storeVars, history>>
  BY EnterType DEF VerifyControl, AddGrant, RevokeGrant

LEMMA TypeNext == ASSUME TypeOK, SeenStands, [Next]_vars PROVE TypeOK'
  <1>1. ASSUME NEW c \in Calls,
               \/ \E r \in Requests : VerifyControl(c, r)
               \/ \E g \in Grants : AddGrant(c, g)
               \/ \E r \in Revokes : RevokeGrant(c, r)
        PROVE  TypeOK'
    BY <1>1, EntryType DEF TypeOK, storeVars, history
  <1>2. ASSUME NEW c \in Calls,
               \/ RecordControl(c) \/ authorizeRead(c) \/ Put(c) \/ RecordRevoke(c)
               \/ CheckIssuer(c) \/ MarkRevoked(c)
        PROVE  TypeOK'
    BY <1>2, RecordControlType, authorizeReadType, PutActionType, RecordRevokeType,
       CheckIssuerType, MarkRevokedType
  <1>3. CASE ChangePolicy
    BY <1>3 DEF ChangePolicy, TypeOK, storeVars, history
  <1>4. CASE Tick
    BY <1>4 DEF Tick, TypeOK, storeVars, history
  <1>5. CASE UNCHANGED vars
    BY <1>5 DEF vars, TypeOK
  <1> QED BY <1>1, <1>2, <1>3, <1>4, <1>5, RestartType DEF Next

----------------------------------------------------------------------------
(* The grant store *)

\* what pruning keeps and what it takes
LEMMA PruneKeeps ==
    ASSUME NEW s \in [Ids -> Stored \cup {None}], NEW i \in Ids
    PROVE  /\ pruneState(s, clock)[i] # None => pruneState(s, clock)[i] = s[i]
           /\ s[i] # None /\ pruneState(s, clock)[i] = None => clock >= s[i].grant.expires
           /\ s[i] = None => pruneState(s, clock)[i] = None
  BY DEF pruneState

\* A step that prunes the disk, puts a grant where nothing or the same grant
\* was, or revokes what is there, keeps every grant that has not expired.
Keeps(before, after) ==
    \A i \in Ids : before[i] # None /\ clock < before[i].grant.expires =>
        /\ after[i] # None /\ after[i].grant = before[i].grant
        /\ before[i].revoked => after[i].revoked

LEMMA PruneKept ==
    ASSUME TypeOK, NEW s \in [Ids -> Stored \cup {None}]
    PROVE  Keeps(s, pruneState(s, clock))
  <1>1. ASSUME NEW i \in Ids, s[i] # None
        PROVE  s[i].grant.expires \in Nat
    BY <1>1, KeeperAssumption DEF Stored
  <1>2. clock \in Nat
    BY DEF TypeOK
  <1>3. ASSUME NEW i \in Ids, s[i] # None, clock < s[i].grant.expires
        PROVE  pruneState(s, clock)[i] = s[i]
    BY <1>1, <1>2, <1>3 DEF pruneState
  <1> QED BY <1>3 DEF Keeps

LEMMA PutKept ==
    ASSUME TypeOK, NEW g \in Grants, PutAllowed(pruneState(state, clock), g)
    PROVE  Keeps(state, putGrant(pruneState(state, clock), g))
  <1> DEFINE pruned == pruneState(state, clock)
  <1>1. state \in [Ids -> Stored \cup {None}]
    BY DEF TypeOK
  <1>2. Keeps(state, pruned) /\ pruned \in [Ids -> Stored \cup {None}]
    BY <1>1, PruneKept DEF pruneState
  <1>3. g.id \in Ids /\ [grant |-> g, revoked |-> FALSE] # None
    BY StoredIsSome DEF Ids
  <1>4. pruned[g.id] \in {None, [grant |-> g, revoked |-> FALSE]}
    BY DEF PutAllowed
  <1> HIDE DEF pruned
  <1>5. ASSUME NEW i \in Ids, state[i] # None, clock < state[i].grant.expires
        PROVE  /\ putGrant(pruned, g)[i] # None /\ putGrant(pruned, g)[i].grant = state[i].grant
               /\ state[i].revoked => putGrant(pruned, g)[i].revoked
    <2>1. /\ pruned[i] # None /\ pruned[i].grant = state[i].grant
          /\ state[i].revoked => pruned[i].revoked
      BY <1>2, <1>5 DEF Keeps
    <2>2. putGrant(pruned, g)[i] = pruned[i]
      BY <2>1, <1>2, <1>3, <1>4 DEF putGrant
    <2> QED BY <2>1, <2>2
  <1> QED BY <1>5 DEF Keeps, pruned

LEMMA MarkKept ==
    ASSUME TypeOK, NEW id \in Ids, state[id] # None
    PROVE  Keeps(state, [state EXCEPT ![id] = [grant |-> state[id].grant, revoked |-> TRUE]])
  <1>1. [grant |-> state[id].grant, revoked |-> TRUE] \in Stored
    BY MarkType DEF Stored
  <1>2. [grant |-> state[id].grant, revoked |-> TRUE] # None
    BY <1>1, SentinelAssumption
  <1> QED BY <1>2 DEF Keeps, TypeOK

LEMMA DurableKept ==
    ASSUME TypeOK, TypeOK', AcknowledgedIsDurable, clock' >= clock, Keeps(disk, disk'),
           \A g \in acked' \ acked : disk'[g.id] # None /\ disk'[g.id].grant = g,
           \A g \in dead' \ dead : disk'[g.id] = [grant |-> g, revoked |-> TRUE]
    PROVE  AcknowledgedIsDurable'
  <1> SUFFICES ASSUME NEW g \in Grants, clock' < g.expires
               PROVE  /\ g \in acked' => disk'[g.id] # None /\ disk'[g.id].grant = g
                      /\ g \in dead' => disk'[g.id] = [grant |-> g, revoked |-> TRUE]
    BY DEF AcknowledgedIsDurable
  <1>1. clock < g.expires
    BY KeeperAssumption DEF TypeOK
  <1>2. g.id \in Ids /\ [grant |-> g, revoked |-> TRUE] # None
    BY StoredIsSome DEF Ids
  <1>3. ASSUME g \in acked \cup dead
        PROVE  disk'[g.id] # None /\ disk'[g.id].grant = g
    <2>1. disk[g.id] # None /\ disk[g.id].grant = g
      <3>1. CASE g \in acked
        BY <3>1, <1>1 DEF AcknowledgedIsDurable
      <3>2. CASE g \in dead
        <4>1. disk[g.id] = [grant |-> g, revoked |-> TRUE]
          BY <3>2, <1>1 DEF AcknowledgedIsDurable
        <4> QED BY <4>1, <1>2
      <3> QED BY <1>3, <3>1, <3>2
    <2> QED BY <2>1, <1>1, <1>2 DEF Keeps
  <1>4. ASSUME g \in dead
        PROVE  disk'[g.id] = [grant |-> g, revoked |-> TRUE]
    <2>1. disk[g.id] = [grant |-> g, revoked |-> TRUE]
      BY <1>1, <1>4 DEF AcknowledgedIsDurable
    <2>2. disk'[g.id] # None /\ disk'[g.id].grant = g /\ disk'[g.id].revoked
      BY <2>1, <1>1, <1>2 DEF Keeps
    <2>3. disk'[g.id] \in Stored
      BY <2>2, <1>2 DEF TypeOK
    <2> QED BY <2>2, <2>3 DEF Stored
  <1> QED BY <1>3, <1>4

LEMMA SeenKept ==
    ASSUME TypeOK, TypeOK', SeenStands, clock' >= clock, Keeps(disk, disk'), failed => failed',
           \A c \in Calls : At(c, "revoke", "mark")' => calls'[c] = calls[c]
    PROVE  SeenStands'
  <1> SUFFICES ASSUME NEW c \in Calls, At(c, "revoke", "mark")'
               PROVE  /\ calls[c].seen \in Grants
                      /\ calls[c].seen.id = calls[c].doc.gid /\ calls[c].seen.from = calls[c].doc.from
                      /\ ~failed' /\ clock' < calls[c].seen.expires =>
                            /\ disk'[calls[c].doc.gid] # None
                            /\ disk'[calls[c].doc.gid].grant = calls[c].seen
    BY DEF SeenStands
  <1>1. At(c, "revoke", "mark")
    BY DEF At
  <1>2. /\ calls[c].seen \in Grants
        /\ calls[c].seen.id = calls[c].doc.gid /\ calls[c].seen.from = calls[c].doc.from
        /\ ~failed /\ clock < calls[c].seen.expires =>
              disk[calls[c].doc.gid] # None /\ disk[calls[c].doc.gid].grant = calls[c].seen
    BY <1>1 DEF SeenStands
  <1>3. calls[c].doc.gid \in Ids /\ calls[c].seen.expires \in Nat
    BY <1>2, KeeperAssumption DEF Ids
  <1>4. clock' < calls[c].seen.expires => clock < calls[c].seen.expires
    BY <1>3 DEF TypeOK
  <1> QED BY <1>2, <1>3, <1>4 DEF Keeps

\* a step that leaves the store alone
LEMMA StoreSame ==
    ASSUME TypeOK, TypeOK', StoreInv, clock' >= clock, UNCHANGED storeVars,
           \A c \in Calls : At(c, "revoke", "mark")' => calls'[c] = calls[c]
    PROVE  StoreInv'
  <1>1. Keeps(disk, disk')
    BY DEF Keeps, storeVars
  <1> QED BY <1>1, DurableKept, SeenKept DEF StoreInv, HandleCurrent, storeVars

\* the calls that are marking a grant stay as they are when another call moves
LEMMA ReturnKeepsMarks ==
    ASSUME TypeOK, NEW c \in Calls,
           \/ Return(c)
           \/ calls[c] # NoCall /\ calls' = [calls EXCEPT ![c] = [@ EXCEPT !.at = "store"]]
    PROVE  \A d \in Calls : At(d, "revoke", "mark")' => calls'[d] = calls[d]
  <1>1. ASSUME NEW d \in Calls, d # c
        PROVE  calls'[d] = calls[d]
    BY <1>1 DEF TypeOK, Return
  <1>2. \/ calls'[c] = NoCall
        \/ calls[c] # NoCall /\ calls'[c] = [calls[c] EXCEPT !.at = "store"]
    BY DEF TypeOK, Return
  <1>3. ASSUME calls[c] # NoCall
        PROVE  [calls[c] EXCEPT !.at = "store"].at = "store"
    <2>1. calls[c] \in Call
      BY <1>3, CallTypes
    <2> QED BY <2>1 DEF Call, ControlCall, AddCall, RevokeCall
  <1> QED BY <1>1, <1>2, <1>3 DEF At

LEMMA InitStore == Init => StoreInv
  BY DEF Init, StoreInv, HandleCurrent, AcknowledgedIsDurable, SeenStands, At

\* a save whose snapshot keeps what has not expired
LEMMA StoreSaved ==
    ASSUME TypeOK, TypeOK', StoreInv, ~failed, clock' = clock, NEW next, Keeps(state, next),
           \/ /\ Saved(next)
              /\ \A g \in acked' \ acked : next[g.id] # None /\ next[g.id].grant = g
              /\ \A g \in dead' \ dead : next[g.id] = [grant |-> g, revoked |-> TRUE]
           \/ SaveFails(next) /\ UNCHANGED <<acked, dead>>,
           \A c \in Calls : At(c, "revoke", "mark")' => calls'[c] = calls[c]
    PROVE  StoreInv'
  <1>1. state = disk
    BY DEF StoreInv, HandleCurrent
  <1>2. Keeps(disk, disk')
    BY <1>1 DEF Saved, SaveFails, Keeps
  <1>3. clock' >= clock
    BY DEF TypeOK
  <1>4. HandleCurrent'
    BY <1>1 DEF HandleCurrent, Saved, SaveFails
  <1>5. /\ \A g \in acked' \ acked : disk'[g.id] # None /\ disk'[g.id].grant = g
        /\ \A g \in dead' \ dead : disk'[g.id] = [grant |-> g, revoked |-> TRUE]
    BY DEF Saved, SaveFails
  <1> QED BY <1>2, <1>3, <1>4, <1>5, DurableKept, SeenKept DEF StoreInv

LEMMA PutStore == ASSUME TypeOK, TypeOK', StoreInv, NEW c \in Calls, Put(c) PROVE StoreInv'
  <1> DEFINE next == putGrant(pruneState(state, clock), calls[c].doc)
  <1>1. \A d \in Calls : At(d, "revoke", "mark")' => calls'[d] = calls[d]
    BY PutNext, ReturnKeepsMarks
  <1>2. clock' = clock /\ clock' >= clock
    BY PutNext DEF TypeOK
  <1>3. CASE UNCHANGED storeVars
    BY <1>1, <1>2, <1>3, StoreSame
  <1>4. CASE /\ ~failed /\ PutAllowed(pruneState(state, clock), calls[c].doc)
             /\ \/ Saved(next) /\ acked' = acked \cup {calls[c].doc} /\ UNCHANGED dead
                \/ SaveFails(next) /\ UNCHANGED <<acked, dead>>
    <2>1. calls[c].doc \in Grants
      BY PutNext
    <2>2. Keeps(state, next)
      BY <1>4, <2>1, PutKept
    <2>3. /\ pruneState(state, clock) \in [Ids -> Stored \cup {None}]
          /\ \A i \in Ids : pruneState(state, clock)[i] # None => pruneState(state, clock)[i].grant.id = i
      BY PruneType DEF TypeOK
    <2>4. next[calls[c].doc.id] = [grant |-> calls[c].doc, revoked |-> FALSE]
      BY <2>1, <2>3, PutType
    <2> HIDE DEF next
    <2>5. next[calls[c].doc.id] # None /\ next[calls[c].doc.id].grant = calls[c].doc
      <3>1. [grant |-> calls[c].doc, revoked |-> FALSE] # None
        BY <2>1, StoredIsSome
      <3> QED BY <2>4, <3>1
    <2>6. CASE Saved(next) /\ acked' = acked \cup {calls[c].doc} /\ UNCHANGED dead
      BY <1>1, <1>2, <1>4, <2>2, <2>5, <2>6, StoreSaved
    <2>7. CASE SaveFails(next) /\ UNCHANGED <<acked, dead>>
      BY <1>1, <1>2, <1>4, <2>2, <2>7, StoreSaved
    <2> QED BY <1>4, <2>6, <2>7
  <1> QED BY <1>3, <1>4, PutNext

LEMMA MarkStore == ASSUME TypeOK, TypeOK', StoreInv, NEW c \in Calls, MarkRevoked(c) PROVE StoreInv'
  <1> DEFINE id == calls[c].doc.gid
             next == [state EXCEPT ![id] = [grant |-> state[id].grant, revoked |-> TRUE]]
  <1>0. SeenStands
    BY DEF StoreInv
  <1>1. \A d \in Calls : At(d, "revoke", "mark")' => calls'[d] = calls[d]
    BY <1>0, MarkNext, ReturnKeepsMarks
  <1>2. clock' = clock /\ clock' >= clock
    <2>1. clock' = clock
      BY <1>0, MarkNext
    <2> QED BY <2>1 DEF TypeOK
  <1>3. CASE UNCHANGED storeVars
    BY <1>1, <1>2, <1>3, StoreSame
  <1>4. CASE /\ ~failed /\ state[id] # None
             /\ \/ Saved(next) /\ dead' = dead \cup {state[id].grant} /\ UNCHANGED acked
                \/ SaveFails(next) /\ UNCHANGED <<acked, dead>>
    <2>1. id \in Ids
      BY <1>0, MarkNext
    <2>2. Keeps(state, next)
      BY <1>4, <2>1, MarkKept
    <2>3. state[id].grant.id = id
      BY <1>4, <2>1 DEF TypeOK
    <2>4. next[id] = [grant |-> state[id].grant, revoked |-> TRUE]
      BY <2>1 DEF TypeOK
    <2> HIDE DEF next
    <2>5. CASE Saved(next) /\ dead' = dead \cup {state[id].grant} /\ UNCHANGED acked
      BY <1>1, <1>2, <1>4, <2>2, <2>3, <2>4, <2>5, StoreSaved
    <2>6. CASE SaveFails(next) /\ UNCHANGED <<acked, dead>>
      BY <1>1, <1>2, <1>4, <2>2, <2>6, StoreSaved
    <2> QED BY <1>4, <2>5, <2>6
  <1> QED BY <1>0, <1>3, <1>4, MarkNext

\* the lookup that precedes the mark finds the grant it will revoke
LEMMA IssuerStore ==
    ASSUME TypeOK, TypeOK', StoreInv, NEW c \in Calls, CheckIssuer(c)
    PROVE  StoreInv'
  <1> DEFINE gid == calls[c].doc.gid
  <1>0. /\ UNCHANGED storeVars /\ clock' = clock /\ clock' >= clock
        /\ calls[c] \in RevokeCall /\ calls[c] # NoCall
    <2>1. /\ UNCHANGED storeVars /\ clock' = clock
          /\ calls[c] \in RevokeCall
      BY IssuerNext
    <2>2. calls[c] # NoCall
      BY DEF CheckIssuer, At
    <2> QED BY <2>1, <2>2 DEF TypeOK
  <1>1. CASE Return(c)
    BY <1>0, <1>1, ReturnKeepsMarks, StoreSame
  <1>2. CASE /\ ~failed /\ gid \in Ids /\ state[gid] # None
             /\ state[gid].grant.from = calls[c].doc.from
             /\ calls' = [calls EXCEPT ![c] = [@ EXCEPT !.at = "mark", !.seen = state[gid].grant]]
    <2>1. state = disk /\ state[gid].grant \in Grants /\ state[gid].grant.id = gid
      BY <1>2 DEF StoreInv, HandleCurrent, TypeOK, Stored
    <2>2. /\ calls'[c].seen = state[gid].grant /\ calls'[c].doc = calls[c].doc
          /\ \A d \in Calls \ {c} : calls'[d] = calls[d]
      BY <1>0, <1>2 DEF TypeOK, RevokeCall
    <2>3. ASSUME NEW d \in Calls, At(d, "revoke", "mark")'
          PROVE  /\ calls'[d].seen \in Grants
                 /\ calls'[d].seen.id = calls'[d].doc.gid /\ calls'[d].seen.from = calls'[d].doc.from
                 /\ ~failed' /\ clock' < calls'[d].seen.expires =>
                       /\ disk'[calls'[d].doc.gid] # None
                       /\ disk'[calls'[d].doc.gid].grant = calls'[d].seen
      <3>1. CASE d = c
        BY <1>0, <1>2, <2>1, <2>2, <3>1 DEF storeVars
      <3>2. CASE d # c
        <4>1. At(d, "revoke", "mark") /\ calls'[d] = calls[d]
          BY <2>2, <2>3, <3>2 DEF At
        <4> QED BY <1>0, <4>1 DEF StoreInv, SeenStands, storeVars
      <3> QED BY <3>1, <3>2
    <2>4. SeenStands'
      BY <2>3 DEF SeenStands
    <2> QED BY <1>0, <2>4 DEF StoreInv, HandleCurrent, AcknowledgedIsDurable, storeVars
  <1> QED BY <1>1, <1>2, IssuerNext

LEMMA RestartStore == ASSUME TypeOK, TypeOK', StoreInv, Restart PROVE StoreInv'
  <1>1. Keeps(disk, disk')
    <2>1. Keeps(disk, pruneState(disk, clock)) /\ Keeps(disk, disk)
      BY PruneKept DEF TypeOK, Keeps
    <2> QED BY <2>1 DEF Restart
  <1>2. clock' = clock /\ clock' >= clock
    BY DEF Restart, TypeOK
  <1>3. AcknowledgedIsDurable'
    BY <1>1, <1>2, DurableKept DEF StoreInv, Restart
  <1>4. SeenStands'
    BY DEF Restart, SeenStands, At
  <1>5. HandleCurrent'
    BY DEF Restart, HandleCurrent
  <1> QED BY <1>3, <1>4, <1>5 DEF StoreInv

LEMMA EntryStore ==
    ASSUME TypeOK, NEW c \in Calls,
           \/ \E r \in Requests : VerifyControl(c, r)
           \/ \E g \in Grants : AddGrant(c, g)
           \/ \E r \in Revokes : RevokeGrant(c, r)
    PROVE  \A d \in Calls : At(d, "revoke", "mark")' => calls'[d] = calls[d]
  <1>1. \A d \in Calls \ {c} : calls'[d] = calls[d]
    BY DEF TypeOK, VerifyControl, AddGrant, RevokeGrant, Enter
  <1>2. calls'[c].at \in {"nonce", "store"}
    BY DEF TypeOK, VerifyControl, AddGrant, RevokeGrant, Enter
  <1> QED BY <1>1, <1>2 DEF At

LEMMA StoreNext == ASSUME TypeOK, TypeOK', StoreInv, [Next]_vars PROVE StoreInv'
  <1>0. clock >= clock
    BY DEF TypeOK
  <1>1. ASSUME NEW c \in Calls,
               \/ \E r \in Requests : VerifyControl(c, r)
               \/ \E g \in Grants : AddGrant(c, g)
               \/ \E r \in Revokes : RevokeGrant(c, r)
        PROVE  StoreInv'
    BY <1>0, <1>1, EntryType, EntryStore, StoreSame
  <1>2. ASSUME NEW c \in Calls, RecordControl(c) \/ authorizeRead(c) \/ RecordRevoke(c)
        PROVE  StoreInv'
    <2>1. UNCHANGED storeVars /\ clock' = clock
      BY <1>2 DEF RecordControl, authorizeRead, RecordRevoke
    <2>2. \/ Return(c)
          \/ calls[c] # NoCall /\ calls' = [calls EXCEPT ![c] = [@ EXCEPT !.at = "store"]]
      BY <1>2 DEF RecordControl, authorizeRead, RecordRevoke, Accept, At
    <2> QED BY <1>0, <2>1, <2>2, ReturnKeepsMarks, StoreSame
  <1>3. ASSUME NEW c \in Calls, Put(c) \/ CheckIssuer(c) \/ MarkRevoked(c)
        PROVE  StoreInv'
    BY <1>3, PutStore, IssuerStore, MarkStore
  <1>4. CASE ChangePolicy \/ UNCHANGED vars
    BY <1>0, <1>4, StoreSame DEF ChangePolicy, vars, storeVars
  <1>5. CASE Tick
    <2>1. clock' >= clock
      BY <1>5 DEF Tick, TypeOK
    <2> QED BY <1>5, <2>1, StoreSame DEF Tick
  <1> QED BY <1>1, <1>2, <1>3, <1>4, <1>5, RestartStore DEF Next

----------------------------------------------------------------------------
(* The nonce store *)

LEMMA InitNonce == Init => NonceInv
  BY DEF Init, NonceInv, CallsFresh, NonceKept, OneUse, Used, At

\* a young document is younger than the retention of its nonce
LEMMA StillRetained ==
    ASSUME TypeOK, CallsFresh, NEW c \in Calls, calls[c] # NoCall, calls[c].at = "nonce",
           calls[c].op \in {"control", "revoke"}
    PROVE  clock < Retained(calls[c].doc.issued) /\ calls[c].doc.issued >= notBefore
  <1>1. calls[c].now \in Nat /\ calls[c].doc.issued \in Nat
    <2>1. calls[c] \in Call
      BY CallTypes
    <2>2. calls[c].now \in Nat /\ calls[c].doc \in Requests \cup Revokes
      BY <2>1 DEF Call, ControlCall, AddCall, RevokeCall
    <2> QED BY <2>2, KeeperAssumption
  <1>2. /\ clock <= calls[c].now + MaxStall
        /\ calls[c].doc.issued >= calls[c].now - MaxAge
        /\ calls[c].doc.issued >= notBefore
    BY DEF CallsFresh
  <1>3. clock \in Nat /\ MaxAge \in Nat /\ MaxSkew \in Nat /\ MaxStall \in Nat /\ MaxStall < MaxSkew
    BY KeeperAssumption DEF TypeOK
  <1> QED BY <1>1, <1>2, <1>3 DEF Retained

\* pruning takes no nonce before its time
LEMMA SurvivorsKeep ==
    ASSUME TypeOK, NonceKept, NEW kept \in Survivors, NEW r \in Requests, Used(r)
    PROVE  \/ clock >= Retained(r.issued)
           \/ [from |-> r.from, nonce |-> r.nonce, until |-> Retained(r.issued)] \in kept
  <1> DEFINE entry == [from |-> r.from, nonce |-> r.nonce, until |-> Retained(r.issued)]
  <1>1. clock >= Retained(r.issued) \/ entry \in nonces
    BY DEF NonceKept
  <1>2. entry.until = Retained(r.issued)
    OBVIOUS
  <1>3. Retained(r.issued) \in Nat /\ clock \in Nat
    BY KeeperAssumption DEF Retained, TypeOK
  <1> HIDE DEF entry
  <1>4. entry \in nonces /\ clock < Retained(r.issued) => entry \in kept
    BY <1>2, <1>3 DEF Survivors
  <1> QED BY <1>1, <1>3, <1>4 DEF entry

\* a step that neither accepts a request nor lets one past the nonce store
LEMMA NonceSame ==
    ASSUME TypeOK, TypeOK', NonceInv, CallsFresh',
           clock' >= clock, notBefore' = notBefore, accepted' = accepted,
           \/ nonces' = nonces
           \/ \E kept \in Survivors : kept \subseteq nonces',
           \A d \in Calls : At(d, "control", "store")' => calls'[d] = calls[d]
    PROVE  NonceInv'
  <1>1. ASSUME NEW d \in Calls, At(d, "control", "store")'
        PROVE  At(d, "control", "store") /\ calls'[d] = calls[d]
    BY <1>1 DEF At
  <1>2. ASSUME NEW r \in Requests, Used(r)'
        PROVE  Used(r)
    BY <1>1, <1>2 DEF Used
  <1>3. NonceKept'
    <2> SUFFICES ASSUME NEW r \in Requests, Used(r)'
                 PROVE  \/ clock' >= Retained(r.issued)
                        \/ [from |-> r.from, nonce |-> r.nonce, until |-> Retained(r.issued)] \in nonces'
      BY DEF NonceKept, Retained
    <2>1. Used(r)
      BY <1>2
    <2>2. \/ clock >= Retained(r.issued)
          \/ [from |-> r.from, nonce |-> r.nonce, until |-> Retained(r.issued)] \in nonces'
      <3>1. CASE nonces' = nonces
        BY <2>1, <3>1 DEF NonceInv, NonceKept
      <3>2. CASE \E kept \in Survivors : kept \subseteq nonces'
        BY <2>1, <3>2, SurvivorsKeep DEF NonceInv
      <3> QED BY <3>1, <3>2
    <2>3. Retained(r.issued) \in Nat /\ clock \in Nat /\ clock' \in Nat
      BY KeeperAssumption DEF Retained, TypeOK
    <2> QED BY <2>2, <2>3
  <1>4. OneUse'
    BY <1>1, <1>2 DEF NonceInv, OneUse
  <1> QED BY <1>3, <1>4 DEF NonceInv

\* the calls on their way to the nonce store, when no call enters
LEMMA FreshSame ==
    ASSUME TypeOK, CallsFresh, clock' = clock, notBefore' = notBefore, NEW c \in Calls,
           \A d \in Calls \ {c} : calls'[d] = calls[d],
           calls'[c] = NoCall \/ calls'[c].at # "nonce"
    PROVE  CallsFresh'
  BY DEF CallsFresh

LEMMA EnterNonce ==
    ASSUME TypeOK, TypeOK', NonceInv, NEW c \in Calls,
           \/ \E r \in Requests : VerifyControl(c, r)
           \/ \E g \in Grants : AddGrant(c, g)
           \/ \E r \in Revokes : RevokeGrant(c, r)
    PROVE  NonceInv'
  <1>1. \A d \in Calls \ {c} : calls'[d] = calls[d]
    BY DEF TypeOK, VerifyControl, AddGrant, RevokeGrant, Enter
  <1>2. UNCHANGED <<clock, policy, notBefore, nonces, storeVars, history>>
    BY DEF VerifyControl, AddGrant, RevokeGrant
  <1>3. clock \in Nat /\ MaxStall \in Nat
    BY KeeperAssumption DEF TypeOK
  <1>4. CASE \E g \in Grants : AddGrant(c, g)
    <2>1. calls'[c].op = "add" /\ calls'[c].at = "store"
      BY <1>4 DEF AddGrant, Enter, TypeOK
    <2>2. CallsFresh'
      BY <1>1, <1>2, <2>1, FreshSame DEF NonceInv
    <2>3. \A d \in Calls : At(d, "control", "store")' => calls'[d] = calls[d]
      BY <1>1, <2>1 DEF At
    <2> QED BY <1>2, <1>3, <2>2, <2>3, NonceSame DEF history
  <1>5. CASE \E r \in Requests \cup Revokes : /\ calls'[c].doc = r /\ calls'[c].now = clock
                                             /\ calls'[c].at = "nonce" /\ fresh(r.issued, clock)
    <2>1. /\ clock <= clock + MaxStall
          /\ calls'[c].doc.issued >= clock - MaxAge
          /\ calls'[c].doc.issued >= notBefore
      BY <1>3, <1>5 DEF fresh
    <2>2. CallsFresh'
      BY <1>1, <1>2, <1>5, <2>1 DEF NonceInv, CallsFresh
    <2>3. \A d \in Calls : At(d, "control", "store")' => calls'[d] = calls[d]
      BY <1>1, <1>5 DEF At
    <2> QED BY <1>2, <1>3, <2>2, <2>3, NonceSame DEF history
  <1>6. ASSUME NEW r \in Requests, VerifyControl(c, r)
        PROVE  /\ calls'[c].doc = r /\ calls'[c].now = clock
               /\ calls'[c].at = "nonce" /\ fresh(r.issued, clock)
    BY <1>6 DEF VerifyControl, Enter, TypeOK
  <1>7. ASSUME NEW r \in Revokes, RevokeGrant(c, r)
        PROVE  /\ calls'[c].doc = r /\ calls'[c].now = clock
               /\ calls'[c].at = "nonce" /\ fresh(r.issued, clock)
    BY <1>7 DEF RevokeGrant, Enter, TypeOK
  <1> QED BY <1>4, <1>5, <1>6, <1>7

\* a nonce that is not seen belongs to a request that was never past the store
LEMMA UnseenIsUnused ==
    ASSUME TypeOK, NonceInv, NEW c \in Calls, At(c, "control", "nonce"),
           NEW kept \in Survivors, ~Seen(kept, calls[c].doc)
    PROVE  ~Used(calls[c].doc)
  <1> DEFINE r == calls[c].doc
             entry == [from |-> r.from, nonce |-> r.nonce, until |-> Retained(r.issued)]
  <1>1. r \in Requests
    BY CallTypes DEF ControlCall
  <1>2. clock < Retained(r.issued)
    BY StillRetained DEF At, NonceInv
  <1>3. Retained(r.issued) \in Nat /\ clock \in Nat
    BY <1>1, KeeperAssumption DEF Retained, TypeOK
  <1>4. entry \notin kept
    BY DEF Seen
  <1>5. ASSUME Used(r)
        PROVE  clock >= Retained(r.issued) \/ entry \in kept
    BY <1>1, <1>5, SurvivorsKeep DEF NonceInv
  <1> HIDE DEF r, entry
  <1>6. ~Used(r)
    BY <1>2, <1>3, <1>4, <1>5
  <1> QED BY <1>6 DEF r

\* the step that lets a request past the nonce store, or accepts it there
LEMMA PassNonce ==
    ASSUME TypeOK, TypeOK', NonceInv, NEW c \in Calls, At(c, "control", "nonce"),
           NEW kept \in Survivors, ~Seen(kept, calls[c].doc),
           nonces' = Record(kept, calls[c].doc), clock' = clock, notBefore' = notBefore,
           \/ Accept(c)
           \/ Return(c) /\ accepted' = accepted
           \/ calls' = [calls EXCEPT ![c] = [@ EXCEPT !.at = "store"]] /\ accepted' = accepted
    PROVE  NonceInv'
  <1> DEFINE r == calls[c].doc
  <1>1. r \in Requests /\ calls[c] \in ControlCall
    BY CallTypes DEF ControlCall
  <1>2. ~Used(r) /\ accepted[r] = 0 /\ r.issued >= notBefore
    <2>1. ~Used(r)
      BY UnseenIsUnused
    <2>2. accepted[r] \in Nat
      BY <1>1 DEF TypeOK
    <2>3. r.issued >= notBefore
      BY StillRetained DEF At, NonceInv
    <2> QED BY <2>1, <2>2, <2>3 DEF Used
  <1>3. /\ \A d \in Calls \ {c} : calls'[d] = calls[d]
        /\ \/ calls'[c] = NoCall
           \/ calls'[c].at = "store" /\ calls'[c].doc = r
    BY <1>1 DEF TypeOK, Accept, Return, ControlCall
  <1>4. \A q \in Requests : q # r => accepted'[q] = accepted[q]
    BY <1>1 DEF Accept, TypeOK
  <1>5. /\ accepted'[r] \in {0, 1}
        /\ accepted'[r] = 1 => calls'[c] = NoCall
    BY <1>1, <1>2 DEF Accept, Return, TypeOK
  <1> HIDE DEF r
  <1>6. ASSUME NEW d \in Calls, At(d, "control", "store")', d # c
        PROVE  At(d, "control", "store") /\ calls'[d] = calls[d] /\ calls[d].doc \in Requests
               /\ calls[d].doc # r
    <2>1. At(d, "control", "store") /\ calls'[d] = calls[d]
      BY <1>3, <1>6 DEF At
    <2>2. calls[d].doc \in Requests
      BY <2>1, CallTypes DEF ControlCall
    <2> QED BY <2>1, <2>2, <1>2 DEF Used
  <1>7. ASSUME NEW q \in Requests, Used(q)', q # r
        PROVE  Used(q)
    <2>1. CASE accepted'[q] >= 1
      BY <2>1, <1>4, <1>7 DEF Used
    <2>2. CASE \E d \in Calls : At(d, "control", "store")' /\ calls'[d].doc = q
      <3>1. PICK d \in Calls : At(d, "control", "store")' /\ calls'[d].doc = q
        BY <2>2
      <3>2. d # c
        BY <3>1, <1>3, <1>7 DEF At
      <3> QED BY <3>1, <3>2, <1>6 DEF Used
    <2> QED BY <2>1, <2>2, <1>7 DEF Used
  <1>8. CallsFresh'
    BY <1>3, FreshSame DEF NonceInv
  <1>9. NonceKept'
    <2>1. ASSUME NEW q \in Requests, Used(q)', q # r
          PROVE  \/ clock >= Retained(q.issued)
                 \/ [from |-> q.from, nonce |-> q.nonce, until |-> Retained(q.issued)] \in nonces'
      BY <2>1, <1>7, SurvivorsKeep DEF Record, NonceInv
    <2>2. [from |-> r.from, nonce |-> r.nonce, until |-> Retained(r.issued)] \in nonces'
      BY DEF Record, r
    <2> QED BY <2>1, <2>2 DEF NonceKept, Retained
  <1>10. OneUse'
    <2>1. \A q \in Requests : accepted'[q] <= 1
      BY <1>4, <1>5 DEF NonceInv, OneUse
    <2>2. \A q \in Requests : Used(q)' => q.issued >= notBefore'
      BY <1>2, <1>7 DEF NonceInv, OneUse
    <2>3. ASSUME NEW d \in Calls, At(d, "control", "store")'
          PROVE  accepted'[calls'[d].doc] = 0
      <3>1. CASE d = c
        BY <3>1, <2>3, <1>3, <1>5 DEF At
      <3>2. CASE d # c
        BY <3>2, <2>3, <1>4, <1>6 DEF NonceInv, OneUse
      <3> QED BY <3>1, <3>2
    <2>4. ASSUME NEW d \in Calls, NEW e \in Calls, At(d, "control", "store")',
                 At(e, "control", "store")', calls'[d].doc = calls'[e].doc
          PROVE  d = e
      <3>1. CASE d # c /\ e # c
        BY <3>1, <2>4, <1>6 DEF NonceInv, OneUse
      <3>2. CASE d = c /\ e # c
        BY <3>2, <2>4, <1>3, <1>6 DEF At
      <3>3. CASE d # c /\ e = c
        BY <3>3, <2>4, <1>3, <1>6 DEF At
      <3> QED BY <3>1, <3>2, <3>3
    <2> QED BY <2>1, <2>2, <2>3, <2>4 DEF OneUse
  <1> QED BY <1>8, <1>9, <1>10 DEF NonceInv

LEMMA RecordControlNonce ==
    ASSUME TypeOK, TypeOK', NonceInv, NEW c \in Calls, RecordControl(c)
    PROVE  NonceInv'
  <1>1. clock' = clock /\ notBefore' = notBefore /\ At(c, "control", "nonce")
    BY DEF RecordControl
  <1>2. PICK kept \in Survivors :
           \/ Seen(kept, calls[c].doc) /\ nonces' = kept /\ Return(c) /\ accepted' = accepted
           \/ /\ ~Seen(kept, calls[c].doc) /\ nonces' = Record(kept, calls[c].doc)
              /\ \/ Accept(c)
                 \/ Return(c) /\ accepted' = accepted
                 \/ /\ calls' = [calls EXCEPT ![c] = [@ EXCEPT !.at = "store"]]
                    /\ accepted' = accepted
    BY DEF RecordControl
  <1>3. CASE nonces' = kept /\ Return(c) /\ accepted' = accepted
    <2>1. calls'[c] = NoCall /\ \A d \in Calls \ {c} : calls'[d] = calls[d]
      BY <1>3 DEF Return, TypeOK
    <2>2. CallsFresh'
      BY <1>1, <2>1, FreshSame DEF NonceInv
    <2>3. \A d \in Calls : At(d, "control", "store")' => calls'[d] = calls[d]
      BY <2>1 DEF At
    <2>4. clock' >= clock
      BY <1>1 DEF TypeOK
    <2> QED BY <1>1, <1>3, <2>2, <2>3, <2>4, NonceSame
  <1> QED BY <1>1, <1>2, <1>3, PassNonce

LEMMA authorizeReadNonce ==
    ASSUME TypeOK, TypeOK', NonceInv, NEW c \in Calls, authorizeRead(c)
    PROVE  NonceInv'
  <1> DEFINE r == calls[c].doc
  <1>1. /\ r \in Requests /\ At(c, "control", "store") /\ Return(c)
        /\ UNCHANGED <<clock, notBefore, nonces>>
        /\ Accept(c) \/ accepted' = accepted
    BY CallTypes DEF authorizeRead, ControlCall, Accept
  <1>2. Used(r) /\ accepted[r] = 0
    BY <1>1 DEF Used, NonceInv, OneUse
  <1>3. calls'[c] = NoCall /\ \A d \in Calls \ {c} : calls'[d] = calls[d]
    BY <1>1 DEF Return, TypeOK
  <1>4. /\ \A q \in Requests : q # r => accepted'[q] = accepted[q]
        /\ accepted'[r] \in {0, 1}
    BY <1>1, <1>2 DEF Accept, TypeOK
  <1> HIDE DEF r
  <1>5. ASSUME NEW d \in Calls, At(d, "control", "store")'
        PROVE  At(d, "control", "store") /\ calls'[d] = calls[d] /\ calls[d].doc \in Requests
               /\ calls[d].doc # r
    <2>1. At(d, "control", "store") /\ calls'[d] = calls[d] /\ d # c
      BY <1>3, <1>5 DEF At
    <2>2. calls[d].doc # r
      BY <1>1, <2>1 DEF NonceInv, OneUse, r
    <2>3. calls[d].doc \in Requests
      BY <2>1, CallTypes DEF ControlCall
    <2> QED BY <2>1, <2>2, <2>3
  <1>6. ASSUME NEW q \in Requests, Used(q)'
        PROVE  Used(q)
    BY <1>2, <1>4, <1>5, <1>6 DEF Used
  <1>7. CallsFresh'
    BY <1>1, <1>3, FreshSame DEF NonceInv
  <1>8. NonceKept'
    BY <1>1, <1>6 DEF NonceInv, NonceKept, Retained
  <1>9. OneUse'
    <2>1. \A q \in Requests : accepted'[q] <= 1
      BY <1>4 DEF NonceInv, OneUse
    <2>2. \A q \in Requests : Used(q)' => q.issued >= notBefore'
      BY <1>1, <1>6 DEF NonceInv, OneUse
    <2>3. \A d \in Calls : At(d, "control", "store")' => accepted'[calls'[d].doc] = 0
      BY <1>4, <1>5 DEF NonceInv, OneUse
    <2>4. \A d, e \in Calls : /\ At(d, "control", "store")' /\ At(e, "control", "store")'
                              /\ calls'[d].doc = calls'[e].doc
                              => d = e
      BY <1>5 DEF NonceInv, OneUse
    <2> QED BY <2>1, <2>2, <2>3, <2>4 DEF OneUse
  <1> QED BY <1>7, <1>8, <1>9 DEF NonceInv

\* the steps of a call after which it waits for no nonce and is not accepted
LEMMA OtherNonce ==
    ASSUME TypeOK, TypeOK', NonceInv, SeenStands, NEW c \in Calls,
           Put(c) \/ RecordRevoke(c) \/ CheckIssuer(c) \/ MarkRevoked(c)
    PROVE  NonceInv'
  <1>1. /\ clock' = clock /\ notBefore' = notBefore /\ accepted' = accepted
        /\ nonces' = nonces \/ \E kept \in Survivors : kept \subseteq nonces'
    BY DEF Put, RecordRevoke, CheckIssuer, MarkRevoked, history, Record
  <1>2. CASE Return(c)
    <2>1. calls'[c] = NoCall /\ \A d \in Calls \ {c} : calls'[d] = calls[d]
      BY <1>2 DEF Return, TypeOK
    <2>2. CallsFresh'
      BY <1>1, <2>1, FreshSame DEF NonceInv
    <2>3. \A d \in Calls : At(d, "control", "store")' => calls'[d] = calls[d]
      BY <2>1 DEF At
    <2> QED BY <1>1, <2>2, <2>3, NonceSame DEF TypeOK
  <1>3. CASE \E k : /\ calls[c] \in RevokeCall /\ calls' = [calls EXCEPT ![c] = k]
                    /\ k.op = "revoke" /\ k.at # "nonce"
    <2>1. /\ calls'[c].op = "revoke" /\ calls'[c].at # "nonce"
          /\ \A d \in Calls \ {c} : calls'[d] = calls[d]
      BY <1>3 DEF TypeOK
    <2>2. CallsFresh'
      BY <1>1, <2>1, FreshSame DEF NonceInv
    <2>3. \A d \in Calls : At(d, "control", "store")' => calls'[d] = calls[d]
      BY <2>1 DEF At
    <2> QED BY <1>1, <2>2, <2>3, NonceSame DEF TypeOK
  <1>4. CASE Put(c) \/ MarkRevoked(c)
    BY <1>2, <1>4 DEF Put, MarkRevoked
  <1>5. CASE RecordRevoke(c)
    <2>1. calls[c] \in RevokeCall
      BY <1>5, CallTypes DEF RecordRevoke
    <2>2. /\ [calls[c] EXCEPT !.at = "store"].op = "revoke"
          /\ [calls[c] EXCEPT !.at = "store"].at # "nonce"
      BY <2>1 DEF RevokeCall
    <2>3. Return(c) \/ calls' = [calls EXCEPT ![c] = [@ EXCEPT !.at = "store"]]
      BY <1>5 DEF RecordRevoke
    <2> QED BY <1>2, <1>3, <2>1, <2>2, <2>3
  <1>6. CASE CheckIssuer(c)
    <2> DEFINE k == [calls[c] EXCEPT !.at = "mark", !.seen = state[calls[c].doc.gid].grant]
    <2>1. calls[c] \in RevokeCall
      BY <1>6, CallTypes DEF CheckIssuer
    <2>2. k.op = "revoke" /\ k.at # "nonce"
      BY <2>1 DEF RevokeCall
    <2>3. Return(c) \/ calls' = [calls EXCEPT ![c] = k]
      BY <1>6, IssuerNext
    <2> HIDE DEF k
    <2> QED BY <1>2, <1>3, <2>1, <2>2, <2>3
  <1> QED BY <1>4, <1>5, <1>6

LEMMA TickNonce == ASSUME TypeOK, TypeOK', NonceInv, Tick PROVE NonceInv'
  <1>1. clock' = clock + 1 /\ clock' >= clock
    BY DEF Tick, TypeOK
  <1>2. CallsFresh'
    <2> SUFFICES ASSUME NEW c \in Calls, calls[c] # NoCall, calls[c].at = "nonce"
                 PROVE  /\ clock + 1 <= calls[c].now + MaxStall
                        /\ calls[c].doc.issued >= calls[c].now - MaxAge
                        /\ calls[c].doc.issued >= notBefore
      BY <1>1 DEF CallsFresh, Tick
    <2>1. clock < calls[c].now + MaxStall
      BY DEF Tick, Idle
    <2>2. calls[c].now \in Nat
      <3>1. calls[c] \in Call
        BY CallTypes
      <3> QED BY <3>1 DEF Call, ControlCall, AddCall, RevokeCall
    <2>3. clock + 1 <= calls[c].now + MaxStall
      BY <2>1, <2>2, KeeperAssumption DEF TypeOK
    <2> QED BY <2>3 DEF NonceInv, CallsFresh
  <1> QED BY <1>1, <1>2, NonceSame DEF Tick, history

LEMMA RestartNonce == ASSUME TypeOK, TypeOK', NonceInv, Restart PROVE NonceInv'
  <1>1. /\ \A c \in Calls : calls'[c] = NoCall
        /\ \A r \in Requests : accepted'[r] = 0
    BY DEF Restart
  <1>2. \A r \in Requests : ~Used(r)'
    BY <1>1 DEF Used, At
  <1> QED BY <1>1, <1>2 DEF NonceInv, CallsFresh, NonceKept, OneUse, At

LEMMA NonceNext ==
    ASSUME TypeOK, TypeOK', NonceInv, SeenStands, [Next]_vars
    PROVE  NonceInv'
  <1>1. ASSUME NEW c \in Calls,
               \/ \E r \in Requests : VerifyControl(c, r)
               \/ \E g \in Grants : AddGrant(c, g)
               \/ \E r \in Revokes : RevokeGrant(c, r)
        PROVE  NonceInv'
    BY <1>1, EnterNonce
  <1>2. ASSUME NEW c \in Calls,
               \/ RecordControl(c) \/ authorizeRead(c) \/ Put(c) \/ RecordRevoke(c)
               \/ CheckIssuer(c) \/ MarkRevoked(c)
        PROVE  NonceInv'
    BY <1>2, RecordControlNonce, authorizeReadNonce, OtherNonce
  <1>3. CASE ChangePolicy \/ UNCHANGED vars
    <2>1. UNCHANGED <<clock, notBefore, nonces, calls, accepted>>
      BY <1>3 DEF ChangePolicy, vars, history
    <2> QED BY <2>1 DEF NonceInv, CallsFresh, NonceKept, OneUse, Used, At
  <1> QED BY <1>1, <1>2, <1>3, TickNonce, RestartNonce DEF Next

----------------------------------------------------------------------------
(* The theorems *)

IInv == TypeOK /\ StoreInv /\ NonceInv

LEMMA Inductive == Spec => []IInv
  <1>1. Init => IInv
    <2>1. ASSUME Init PROVE TypeOK
      <3>1. clock \in Nat /\ notBefore \in Nat /\ policy \in Policies /\ failed \in BOOLEAN
        BY <2>1 DEF Init
      <3>2. /\ state \in [Ids -> Stored \cup {None}] /\ disk \in [Ids -> Stored \cup {None}]
            /\ \A i \in Ids : state[i] = None /\ disk[i] = None
        BY <2>1 DEF Init
      <3>3. calls \in [Calls -> Call \cup {NoCall}] /\ accepted \in [Requests -> Nat]
        BY <2>1 DEF Init
      <3>4. nonces = {} /\ doneBefore = {} /\ acked = {} /\ dead = {}
        BY <2>1 DEF Init
      <3> QED BY <3>1, <3>2, <3>3, <3>4 DEF TypeOK
    <2> QED BY <2>1, InitStore, InitNonce DEF IInv
  <1>2. IInv /\ [Next]_vars => IInv'
    <2> SUFFICES ASSUME IInv, [Next]_vars PROVE IInv'
      OBVIOUS
    <2>1. TypeOK'
      BY TypeNext DEF IInv, StoreInv
    <2> QED BY <2>1, StoreNext, NonceNext DEF IInv, StoreInv
  <1> QED BY <1>1, <1>2, PTL DEF Spec

\* The stores, the handle and the calls keep their types.
THEOREM TypeCorrect == Spec => []TypeOK
  <1>1. IInv => TypeOK
    BY DEF IInv
  <1> QED BY <1>1, Inductive, PTL

\* No run of the program accepts a signed request twice, whatever its
\* goroutines do, as long as no call stalls for MaxSkew before the nonce store.
THEOREM RequestsAcceptedOnce == Spec => []AcceptedOnce
  <1>1. IInv => AcceptedOnce
    BY DEF IInv, NonceInv, OneUse, AcceptedOnce, Used, TypeOK
  <1> QED BY <1>1, Inductive, PTL

\* What AddGrant and RevokeGrant acknowledged survives failed saves, crashes,
\* pruning and later grants until the grant expires.
THEOREM AcknowledgementsLast == Spec => []AcknowledgedIsDurable
  <1>1. IInv => AcknowledgedIsDurable
    BY DEF IInv, StoreInv
  <1> QED BY <1>1, Inductive, PTL

\* A revocation that was acknowledged refuses every read under the grant until
\* the grant would have expired anyway.
THEOREM RevocationsHold == Spec => RevocationHolds
  <1>1. ASSUME IInv, Next, NEW c \in Calls, At(c, "control", "store"), calls'[c] = NoCall,
               accepted'[calls[c].doc] > accepted[calls[c].doc]
        PROVE  LET g == state[calls[c].doc.gid].grant IN g \notin dead \/ clock >= g.expires
    <2> DEFINE gid == calls[c].doc.gid
    <2>1. ~Restart
      <3>1. calls[c].doc \in Requests
        BY <1>1, CallTypes DEF IInv, ControlCall
      <3> QED BY <1>1, <3>1 DEF Restart, IInv, TypeOK
    <2>2. ASSUME NEW d \in Calls, calls'[c] # calls[c],
                 \/ RecordControl(d) \/ authorizeRead(d) \/ Put(d) \/ RecordRevoke(d)
                 \/ CheckIssuer(d) \/ MarkRevoked(d)
                 \/ \E r \in Requests : VerifyControl(d, r)
                 \/ \E g \in Grants : AddGrant(d, g)
                 \/ \E r \in Revokes : RevokeGrant(d, r)
          PROVE  authorizeRead(c)
      <3>1. d = c
        BY <2>2, <1>1 DEF IInv, TypeOK, RecordControl, authorizeRead, Put, RecordRevoke, CheckIssuer,
           MarkRevoked, VerifyControl, AddGrant, RevokeGrant, Accept, Return, Enter
      <3> QED BY <3>1, <2>2, <1>1 DEF RecordControl, authorizeRead, Put, RecordRevoke, CheckIssuer,
           MarkRevoked, VerifyControl, AddGrant, RevokeGrant, At, Idle
    <2>3. calls'[c] # calls[c]
      BY <1>1 DEF At
    <2>4. ~ChangePolicy /\ ~Tick
      BY <2>3 DEF ChangePolicy, Tick
    <2>5. authorizeRead(c)
      BY <1>1, <2>1, <2>2, <2>3, <2>4 DEF Next
    <2>6. /\ ~failed /\ gid \in Ids /\ state[gid] # None /\ ReadAllowed(calls[c], state[gid])
      <3>1. accepted[calls[c].doc] \in Nat
        BY <1>1, CallTypes DEF IInv, TypeOK, ControlCall
      <3>2. accepted' # accepted
        BY <1>1, <3>1
      <3> QED BY <2>5, <3>2 DEF authorizeRead
    <2>7. /\ state = disk /\ ~state[gid].revoked /\ state[gid].grant \in Grants
          /\ state[gid].grant.id = gid
      BY <1>1, <2>6 DEF IInv, StoreInv, HandleCurrent, ReadAllowed, grantAccess, TypeOK, Stored
    <2>8. ASSUME state[gid].grant \in dead, clock < state[gid].grant.expires
          PROVE  FALSE
      <3>1. disk[gid] = [grant |-> state[gid].grant, revoked |-> TRUE]
        BY <1>1, <2>7, <2>8 DEF IInv, StoreInv, AcknowledgedIsDurable
      <3>2. state[gid].revoked = TRUE
        BY <2>7, <3>1
      <3> QED BY <2>7, <3>2
    <2>9. clock \in Nat /\ state[gid].grant.expires \in Nat
      BY <1>1, <2>7, KeeperAssumption DEF IInv, TypeOK
    <2> QED BY <2>8, <2>9
  <1>2. IInv /\ [Next]_vars =>
          [\A c \in Calls :
             /\ At(c, "control", "store") /\ calls'[c] = NoCall
             /\ accepted'[calls[c].doc] > accepted[calls[c].doc]
             => LET g == state[calls[c].doc.gid].grant IN g \notin dead \/ clock >= g.expires]_vars
    BY <1>1
  <1> QED BY <1>2, Inductive, PTL DEF Spec, RevocationHolds

----------------------------------------------------------------------------
(* What a step may do to the snapshot on disk *)

DiskPut(g) ==
    /\ PutAllowed(pruneState(disk, clock), g)
    /\ disk' = putGrant(pruneState(disk, clock), g)

DiskMark(c) ==
    /\ At(c, "revoke", "mark") /\ ~failed
    /\ calls[c].doc.gid \in Ids /\ disk[calls[c].doc.gid] # None
    /\ disk' = [disk EXCEPT ![calls[c].doc.gid] =
                  [grant |-> disk[calls[c].doc.gid].grant, revoked |-> TRUE]]

LEMMA DiskStep ==
    ASSUME IInv, [Next]_vars
    PROVE  \/ disk' = disk /\ (clock' = clock \/ clock' = clock + 1)
           \/ /\ clock' = clock
              /\ \/ \E g \in Grants : DiskPut(g)
                 \/ \E c \in Calls : DiskMark(c)
                 \/ disk' = pruneState(disk, clock)
  <1>1. CASE \E c \in Calls : Put(c)
    <2> PICK c \in Calls : Put(c)
      BY <1>1
    <2>1. /\ calls[c].doc \in Grants /\ clock' = clock
          /\ \/ disk' = disk
             \/ /\ ~failed /\ PutAllowed(pruneState(state, clock), calls[c].doc)
                /\ disk' = putGrant(pruneState(state, clock), calls[c].doc)
      BY PutNext DEF IInv, storeVars, Saved, SaveFails
    <2>2. ~failed => state = disk
      BY DEF IInv, StoreInv, HandleCurrent
    <2> QED BY <2>1, <2>2 DEF DiskPut
  <1>2. CASE \E c \in Calls : MarkRevoked(c)
    <2> PICK c \in Calls : MarkRevoked(c)
      BY <1>2
    <2> DEFINE id == calls[c].doc.gid
    <2>1. /\ id \in Ids /\ clock' = clock
          /\ \/ disk' = disk
             \/ /\ ~failed /\ state[id] # None
                /\ disk' = [state EXCEPT ![id] = [grant |-> state[id].grant, revoked |-> TRUE]]
      BY MarkNext DEF IInv, StoreInv, storeVars, Saved, SaveFails
    <2>2. ~failed => state = disk
      BY DEF IInv, StoreInv, HandleCurrent
    <2>3. At(c, "revoke", "mark")
      BY DEF MarkRevoked
    <2> QED BY <2>1, <2>2, <2>3 DEF DiskMark
  <1>3. CASE Restart
    BY <1>3 DEF Restart
  <1>4. CASE ChangePolicy \/ Tick \/ UNCHANGED vars
    BY <1>4 DEF ChangePolicy, Tick, vars, storeVars
  <1>5. ASSUME NEW c \in Calls,
               \/ RecordControl(c) \/ authorizeRead(c) \/ RecordRevoke(c) \/ CheckIssuer(c)
               \/ \E r \in Requests : VerifyControl(c, r)
               \/ \E g \in Grants : AddGrant(c, g)
               \/ \E r \in Revokes : RevokeGrant(c, r)
        PROVE  disk' = disk /\ clock' = clock
    BY <1>5 DEF RecordControl, authorizeRead, RecordRevoke, CheckIssuer, VerifyControl, AddGrant,
       RevokeGrant, storeVars
  <1> QED BY <1>1, <1>2, <1>3, <1>4, <1>5 DEF Next

\* Only the issuer of a grant revokes it, unless the grant the revocation
\* looked up expired in between.
THEOREM RevokersAreIssuers == Spec => RevokedByIssuer
  <1>1. ASSUME IInv, [Next]_vars, NEW i \in Ids, disk[i] # None, ~disk[i].revoked,
               disk'[i] # None, disk'[i].revoked
        PROVE  \E c \in Calls :
                 /\ At(c, "revoke", "mark") /\ calls[c].doc.gid = i
                 /\ \/ calls[c].doc.from = disk[i].grant.from
                    \/ clock >= calls[c].seen.expires
    <2>0. /\ disk \in [Ids -> Stored \cup {None}]
          /\ \A j \in Ids : disk[j] # None => disk[j].grant.id = j
      BY <1>1 DEF IInv, TypeOK
    <2>1. pruneState(disk, clock)[i] \in {disk[i], None}
      BY <2>0, PruneType
    <2>2. ASSUME NEW g \in Grants, DiskPut(g)
          PROVE  FALSE
      <3>1. /\ pruneState(disk, clock) \in [Ids -> Stored \cup {None}]
            /\ \A j \in Ids : pruneState(disk, clock)[j] # None => pruneState(disk, clock)[j].grant.id = j
        BY <2>0, PruneType
      <3>2. disk'[i] = [grant |-> g, revoked |-> FALSE] \/ disk'[i] = pruneState(disk, clock)[i]
        BY <2>2, <3>1, PutType DEF DiskPut
      <3> QED BY <1>1, <2>1, <3>2
    <2>3. PICK c \in Calls : DiskMark(c)
      BY <1>1, <2>1, <2>2, DiskStep
    <2>4. calls[c].doc.gid = i
      BY <1>1, <2>0, <2>3 DEF DiskMark
    <2>5. /\ calls[c].seen \in Grants /\ calls[c].seen.from = calls[c].doc.from
          /\ clock < calls[c].seen.expires => disk[i].grant = calls[c].seen
      BY <1>1, <2>3, <2>4 DEF IInv, StoreInv, SeenStands, DiskMark
    <2>6. clock \in Nat /\ calls[c].seen.expires \in Nat
      BY <1>1, <2>5, KeeperAssumption DEF IInv, TypeOK
    <2> QED BY <2>3, <2>4, <2>5, <2>6 DEF DiskMark
  <1>2. IInv /\ [Next]_vars =>
          [\A i \in Ids :
             disk[i] # None /\ ~disk[i].revoked /\ disk'[i] # None /\ disk'[i].revoked =>
               \E c \in Calls :
                 /\ At(c, "revoke", "mark") /\ calls[c].doc.gid = i
                 /\ \/ calls[c].doc.from = disk[i].grant.from
                    \/ clock >= calls[c].seen.expires]_vars
    BY <1>1
  <1> QED BY <1>2, Inductive, PTL DEF Spec, RevokedByIssuer

----------------------------------------------------------------------------
(* The store implements the ledger *)

StandingIn(s, g) ==
    IF s[g.id] = None \/ s[g.id].grant # g THEN "none"
    ELSE IF s[g.id].revoked THEN "revoked" ELSE "live"

\* pruning forgets the expired grants and no other
LEMMA PruneStands ==
    ASSUME NEW s \in [Ids -> Stored \cup {None}], NEW now, NEW g \in Grants
    PROVE  StandingIn(pruneState(s, now), g) =
               IF now >= g.expires THEN "none" ELSE StandingIn(s, g)
  <1>1. g.id \in Ids
    BY DEF Ids
  <1> QED BY <1>1 DEF pruneState, StandingIn

LEMMA LedgerPass ==
    ASSUME IInv, disk' = disk, clock' = clock \/ clock' = clock + 1
    PROVE  [Ledger!LedgerNext]_(Ledger!ledgerVars)
  <1>1. \A g \in Grants : Standing(g)' = Standing(g)
    BY DEF Standing
  <1>2. clock' = clock \/ clock' > clock
    BY DEF IInv, TypeOK
  <1> QED BY <1>1, <1>2 DEF Ledger!LedgerNext, Ledger!ledgerVars, Ledger!Pass

LEMMA LedgerForget ==
    ASSUME IInv, disk' = pruneState(disk, clock), clock' = clock
    PROVE  Ledger!LedgerNext
  <1>1. \A g \in Grants : Standing(g)' = IF clock >= g.expires THEN "none" ELSE Standing(g)
    BY PruneStands DEF IInv, TypeOK, Standing, StandingIn
  <1> DEFINE S == {g \in Grants : clock >= g.expires}
  <1>2. Ledger!Expired = S /\ S \in SUBSET Ledger!Expired
    BY DEF Ledger!Expired
  <1>3. [g \in Grants |-> Standing(g)'] = Ledger!Without(S)
    BY <1>1 DEF Ledger!Without
  <1>4. Ledger!Forget
    BY <1>2, <1>3 DEF Ledger!Forget
  <1> QED BY <1>4 DEF Ledger!LedgerNext

LEMMA LedgerPut ==
    ASSUME IInv, NEW g \in Grants, DiskPut(g), clock' = clock
    PROVE  Ledger!LedgerNext
  <1> DEFINE pruned == pruneState(disk, clock)
             S == {h \in Grants : clock >= h.expires}
  <1>0. /\ pruned \in [Ids -> Stored \cup {None}] /\ g.id \in Ids
        /\ \A j \in Ids : pruned[j] # None => pruned[j].grant.id = j
    <2>1. /\ disk \in [Ids -> Stored \cup {None}]
          /\ \A j \in Ids : disk[j] # None => disk[j].grant.id = j
      BY DEF IInv, TypeOK
    <2>2. g.id \in Ids
      BY DEF Ids
    <2> QED BY <2>1, <2>2, PruneType
  <1>1. \A h \in Grants : StandingIn(pruned, h) = IF clock >= h.expires THEN "none" ELSE Standing(h)
    BY PruneStands DEF IInv, TypeOK, Standing, StandingIn
  <1>2. disk' = putGrant(pruned, g) /\ PutAllowed(pruned, g)
    BY DEF DiskPut
  <1> HIDE DEF pruned
  <1>3. CASE pruned[g.id] = None
    <2>1. \A h \in Grants : h.id = g.id => StandingIn(pruned, h) = "none"
      BY <1>3 DEF StandingIn
    <2>2. \A h \in Grants : Ledger!Without(S)[h] = StandingIn(pruned, h)
      BY <1>1 DEF Ledger!Without
    <2>3. /\ disk'[g.id] = [grant |-> g, revoked |-> FALSE]
          /\ \A j \in Ids \ {g.id} : disk'[j] = pruned[j]
      BY <1>0, <1>2, PutType
    <2>4. Standing(g)' = "live"
      <3>1. disk'[g.id] # None
        BY <2>3, StoredIsSome
      <3>2. disk'[g.id].grant = g /\ disk'[g.id].revoked = FALSE
        BY <2>3
      <3> QED BY <3>1, <3>2 DEF Standing
    <2>5. \A h \in Grants \ {g} : Standing(h)' = StandingIn(pruned, h)
      <3> SUFFICES ASSUME NEW h \in Grants \ {g} PROVE Standing(h)' = StandingIn(pruned, h)
        OBVIOUS
      <3>1. CASE h.id = g.id
        BY <3>1, <2>1, <2>3 DEF Standing
      <3>2. CASE h.id # g.id
        <4>1. h.id \in Ids \ {g.id}
          BY <3>2 DEF Ids
        <4> QED BY <4>1, <2>3 DEF Standing, StandingIn
      <3> QED BY <3>1, <3>2
    <2>6. [h \in Grants |-> Standing(h)'] = [Ledger!Without(S) EXCEPT ![g] = "live"]
      BY <2>2, <2>4, <2>5 DEF Ledger!Without
    <2>7. S \in SUBSET Ledger!Expired
      BY DEF Ledger!Expired
    <2>8. Ledger!Install(g)
      BY <2>1, <2>2, <2>6, <2>7 DEF Ledger!Install
    <2> QED BY <2>8 DEF Ledger!LedgerNext
  <1>4. CASE pruned[g.id] = [grant |-> g, revoked |-> FALSE]
    <2>1. putGrant(pruned, g) = pruned
      BY <1>0, <1>4 DEF putGrant
    <2> QED BY <1>2, <2>1, LedgerForget DEF pruned
  <1> QED BY <1>2, <1>3, <1>4 DEF PutAllowed

LEMMA LedgerRevoke ==
    ASSUME IInv, NEW c \in Calls, DiskMark(c), clock' = clock
    PROVE  [Ledger!LedgerNext]_(Ledger!ledgerVars)
  <1> PICK id \in Ids : /\ id = calls[c].doc.gid /\ disk[id] # None /\ disk[id] \in Stored
                        /\ disk[id].grant.id = id
    BY DEF IInv, TypeOK, DiskMark
  <1> PICK g \in Grants : g = disk[id].grant
    BY DEF Stored
  <1>1. g.id = id
    OBVIOUS
  <1>2. /\ disk'[id] = [grant |-> g, revoked |-> TRUE]
        /\ \A j \in Ids \ {id} : disk'[j] = disk[j]
    BY <1>1 DEF DiskMark, IInv, TypeOK
  <1>3. \A h \in Grants \ {g} : Standing(h)' = Standing(h)
    <2> SUFFICES ASSUME NEW h \in Grants \ {g} PROVE Standing(h)' = Standing(h)
      OBVIOUS
    <2>1. CASE h.id = id
      BY <2>1, <1>2 DEF Standing
    <2>2. CASE h.id # id
      <3>1. h.id \in Ids \ {id}
        BY <2>2 DEF Ids
      <3> QED BY <3>1, <1>2 DEF Standing
    <2> QED BY <2>1, <2>2
  <1>4. Standing(g)' = "revoked"
    <2>1. disk'[id] # None
      BY <1>2, StoredIsSome
    <2>2. disk'[id].grant = g /\ disk'[id].revoked = TRUE
      BY <1>2
    <2> QED BY <1>1, <2>1, <2>2 DEF Standing
  <1>5. CASE disk[id].revoked
    <2>1. Standing(g) = "revoked"
      BY <1>1, <1>5 DEF Standing
    <2>2. \A h \in Grants : Standing(h)' = Standing(h)
      BY <1>3, <1>4, <2>1
    <2> QED BY <2>2 DEF Ledger!ledgerVars
  <1>6. CASE ~disk[id].revoked
    <2>1. Standing(g) = "live"
      BY <1>1, <1>6 DEF Standing
    <2>2. [h \in Grants |-> Standing(h)'] =
              [[h \in Grants |-> Standing(h)] EXCEPT ![g] = "revoked"]
      BY <1>1, <1>3, <1>4
    <2>3. Ledger!Revoke(g)
      BY <1>1, <2>1, <2>2 DEF Ledger!Revoke
    <2> QED BY <1>1, <2>3 DEF Ledger!LedgerNext
  <1> QED BY <1>5, <1>6

\* The snapshot on disk keeps the contract of GrantStore: a grant is installed
\* where its id is free, revoked for good, and forgotten once it has expired.
THEOREM StoreKeepsLedger == Spec => KeepsLedger
  <1>1. Init => Ledger!LedgerInit
    <2> SUFFICES ASSUME Init PROVE Ledger!LedgerInit
      OBVIOUS
    <2>1. \A g \in Grants : Standing(g) = "none"
      BY DEF Init, Standing, Ids
    <2> QED BY <2>1 DEF Ledger!LedgerInit
  <1>2. IInv /\ [Next]_vars => [Ledger!LedgerNext]_(Ledger!ledgerVars)
    BY DiskStep, LedgerPass, LedgerForget, LedgerPut, LedgerRevoke
  <1> QED BY <1>1, <1>2, Inductive, PTL DEF Spec, KeepsLedger, Ledger!LedgerSpec
-----------------------------------------------------------------------------
(* The registry                                                             *)

-----------------------------------------------------------------------------
(* Time *)

LEMMA DivExact ==
    ASSUME NEW n \in Nat, NEW f \in Nat \ {0} PROVE n * f \in Nat /\ (n * f) \div f = n
OBVIOUS

LEMMA DivBounds ==
    ASSUME NEW n \in Nat, NEW f \in Nat \ {0}
    PROVE  n \div f \in Nat /\ (n \div f) * f <= n /\ n < (n \div f) * f + f
OBVIOUS

LEMMA Times ==
    ASSUME NEW m \in Nat, NEW n \in Nat, NEW f \in Nat \ {0}
    PROVE  /\ m * f \in Nat /\ n * f \in Nat
           /\ m <= n <=> m * f <= n * f
           /\ m < n => m * f + f <= n * f
OBVIOUS

LEMMA SecondsTyped == ASSUME RegistryAssumption, NEW t \in Nat PROVE Seconds(t) \in Nat
BY DivBounds DEF Seconds, RegistryAssumption

\* An instant is before a second when its own second is.
LEMMA Before ==
    ASSUME RegistryAssumption, NEW t \in Nat, NEW n \in Nat
    PROVE  n * Fraction \in Nat /\ (t < n * Fraction <=> Seconds(t) < n)
<1>1. Fraction \in Nat \ {0}
  BY DEF RegistryAssumption
<1>2. PICK q \in Nat : q = Seconds(t) /\ q * Fraction <= t /\ t < q * Fraction + Fraction
  BY <1>1, DivBounds DEF Seconds
<1>3. q * Fraction \in Nat /\ n * Fraction \in Nat
  BY <1>1, <1>2, Times
<1>4. CASE q < n
  <2>1. q * Fraction + Fraction <= n * Fraction
    BY <1>1, <1>4, Times
  <2> QED BY <1>1, <1>2, <1>3, <1>4, <2>1
<1>5. CASE n <= q
  <2>1. n * Fraction <= q * Fraction
    BY <1>1, <1>5, Times
  <2> QED BY <1>1, <1>2, <1>3, <1>5, <2>1
<1> QED BY <1>2, <1>4, <1>5

\* The two ways to ask how old a registry is agree.
LEMMA SameAge ==
    ASSUME RegistryAssumption, NEW reg \in Registries, NEW t \in Nat
    PROVE  IsStaleAt(reg, t, MaxStaleness) <=> Stale(reg, t, MaxStaleness)
<1>1. reg.from \in Nat /\ reg.from * Fraction \in Nat
  BY Before DEF Registries
<1>2. t - reg.from * Fraction < 0 <=> Seconds(t) < reg.from
  BY <1>1, Before
<1> QED BY <1>2 DEF IsStaleAt, Stale

\* What remaining bounds.
LEMMA RemainingIs ==
    ASSUME RegistryAssumption, NEW reg \in Registries, NEW t \in Nat
    PROVE  /\ remaining(reg, t) \in Int
           /\ remaining(reg, t) >= 0 =>
                 /\ reg.from <= Seconds(t)
                 /\ Seconds(t) + remaining(reg, t) <= reg.until
                 /\ Seconds(t) + remaining(reg, t) <= reg.from + MaxStaleness
           /\ remaining(reg, t) < 0 =>
                 \/ Seconds(t) < reg.from
                 \/ Seconds(t) > reg.until
                 \/ Seconds(t) > reg.from + MaxStaleness
BY SecondsTyped DEF remaining, Registries, RegistryAssumption

LEMMA Foreseen ==
    ASSUME RegistryAssumption, NEW reg \in Registries, NEW t \in Nat
    PROVE  LET d == registryDaysLeft(reg, t)
           IN  /\ d < 0 => Stale(reg, t, MaxStaleness)
               /\ d >= 0 => \A k \in 0 .. d * Day : ~ Stale(reg, (Seconds(t) + k) * Fraction, MaxStaleness)
<1> DEFINE d == registryDaysLeft(reg, t)
           left == remaining(reg, t)
           now == Seconds(t)
<1>1. /\ Fraction \in Nat \ {0} /\ Day \in Nat \ {0} /\ MaxStaleness \in Nat
      /\ reg.from \in Nat /\ reg.until \in Nat /\ now \in Nat /\ left \in Int
  BY SecondsTyped, RemainingIs DEF RegistryAssumption, Registries
<1>2. d \in Int /\ d * Day <= left /\ left < d * Day + Day
  BY <1>1 DEF registryDaysLeft
<1> HIDE DEF d
<1>3. ASSUME d < 0 PROVE Stale(reg, t, MaxStaleness)
  <2>1. left < 0
    BY <1>1, <1>2, <1>3
  <2>2. CASE now < reg.from \/ now > reg.until
    BY <2>2 DEF Stale
  <2>3. CASE now > reg.from + MaxStaleness
    <3>1. (reg.from + MaxStaleness + 1) * Fraction <= now * Fraction
      BY <1>1, <2>3, Times
    <3>2. now * Fraction <= t
      BY <1>1, DivBounds DEF Seconds
    <3>3. (reg.from + MaxStaleness + 1) * Fraction = reg.from * Fraction + MaxStaleness * Fraction + Fraction
      BY <1>1
    <3>4. reg.from * Fraction \in Nat /\ MaxStaleness * Fraction \in Nat /\ now * Fraction \in Nat
      BY <1>1, Times
    <3>5. t - reg.from * Fraction > MaxStaleness * Fraction
      BY <1>1, <3>1, <3>2, <3>3, <3>4
    <3> QED BY <3>5 DEF Stale
  <2> QED BY <2>1, <2>2, <2>3, RemainingIs
<1>4. ASSUME d >= 0, NEW k \in 0 .. d * Day PROVE ~ Stale(reg, (now + k) * Fraction, MaxStaleness)
  <2>1. k \in Nat /\ k <= left /\ left >= 0
    <3>1. d * Day \in Int
      BY <1>1, <1>2
    <3>2. k \in Nat /\ k <= d * Day
      BY <1>4, <3>1
    <3> QED BY <1>1, <1>2, <3>1, <3>2
  <2>2. Seconds((now + k) * Fraction) = now + k /\ (now + k) * Fraction \in Nat
    BY <1>1, <2>1, DivExact DEF Seconds
  <2>3. now + k >= reg.from /\ now + k <= reg.until /\ now + k <= reg.from + MaxStaleness
    BY <1>1, <2>1, RemainingIs
  <2>4. (now + k) * Fraction <= (reg.from + MaxStaleness) * Fraction
    BY <1>1, <2>1, <2>3, Times
  <2>5. (reg.from + MaxStaleness) * Fraction = reg.from * Fraction + MaxStaleness * Fraction
    BY <1>1
  <2>6. reg.from * Fraction \in Nat /\ MaxStaleness * Fraction \in Nat
    BY <1>1, Times
  <2>7. ~ ((now + k) * Fraction - reg.from * Fraction > MaxStaleness * Fraction)
    BY <2>2, <2>4, <2>5, <2>6
  <2> QED BY <1>1, <2>1, <2>2, <2>3, <2>7 DEF Stale
<1> QED BY <1>3, <1>4 DEF d

-----------------------------------------------------------------------------
(* Types *)

LEMMA ForeignTyped == ASSUME RegistryAssumption PROVE Foreign \in Envelopes /\ Foreign.root = Other
BY DEF RegistryAssumption, Foreign, Envelope, Envelopes, Registry, Registries

LEMMA ServedTyped ==
    ASSUME RegistryAssumption, RegistryTypeOK
    PROVE  /\ Served \subseteq Envelopes
           /\ \A f \in Served : f.root = Ours => f.reg \in signed
BY ForeignTyped DEF Served, Envelope, Envelopes, RegistryTypeOK, RegistryAssumption

LEMMA TypeInit == ASSUME RegistryAssumption, FirstAssumption, RegistryInit PROVE RegistryTypeOK
<1>1. draft \in Registries /\ signed \subseteq Registries /\ instant \in Nat
  BY DEF RegistryInit, FirstAssumption
<1>2. copy \in Envelopes \cup {Junk, NoFile}
  BY ForeignTyped DEF RegistryInit
<1>3. anchors \in Seq(Pins)
  BY EmptySeq DEF RegistryInit
<1>4. fetched \in BOOLEAN /\ overlapped \in BOOLEAN
  BY DEF RegistryInit
<1>5. /\ updates = [u \in Updaters |-> AtRest]
      /\ enrolls = [e \in Enrollers |-> AtRest]
  BY DEF RegistryInit
<1> HIDE DEF RegistryInit
<1> QED BY <1>1, <1>2, <1>3, <1>4, <1>5 DEF RegistryTypeOK

LEMMA BindingTyped ==
    ASSUME RegistryAssumption, RegistryTypeOK, NEW r \in Enrollments, NEW v \in Validities
    PROVE  Binding(r, Seconds(instant), Seconds(instant) + v) \in Bindings
<1>1. PICK now \in Nat : now = Seconds(instant)
  BY SecondsTyped DEF RegistryTypeOK
<1>2. now + v \in Nat
  BY DEF RegistryAssumption
<1>3. r \in [slug : Slugs, keyEpoch : Nat, class : {"agent", "human"}, god : BOOLEAN]
  BY DEF RegistryAssumption
<1> QED BY <1>1, <1>2, <1>3 DEF Binding, Bindings

\* What the administrator leaves in the draft.
LEMMA DraftTyped ==
    ASSUME RegistryAssumption, RegistryTypeOK, Administer
    PROVE  /\ draft' \in Registries /\ signed' \subseteq Registries
           /\ UNCHANGED <<instant, copy, updates, anchors, enrolls, downs, fetched, overlapped>>
<1>1. ASSUME NEW r \in Enrollments, NEW v \in Validities, EnrollAdd(r, v) PROVE draft' \in Registries
  <2>1. Seconds(instant) \in Nat /\ v \in Nat /\ draft \in Registries
    BY SecondsTyped DEF RegistryTypeOK, RegistryAssumption
  <2> DEFINE b == Binding(r, Seconds(instant), Seconds(instant) + v)
  <2>2. b \in Bindings /\ draft' = appendAndBump(draft, b, v)
    BY <1>1, BindingTyped DEF EnrollAdd
  <2> HIDE DEF b
  <2> QED BY <2>1, <2>2 DEF appendAndBump, Registry, Registries
<1>2. ASSUME NEW b \in draft.bindings, NEW from \in Nat, NEW until \in Nat, Revoke(b, from, until)
      PROVE  draft' \in Registries
  <2>1. b \in Bindings /\ draft \in Registries
    BY DEF RegistryTypeOK, Registries
  <2>2. [b EXCEPT !.revoked = TRUE] \in Bindings
    BY <2>1 DEF Bindings
  <2> DEFINE bs == (draft.bindings \ {b}) \cup {[b EXCEPT !.revoked = TRUE]}
  <2>3. bs \in SUBSET Bindings
    BY <2>1, <2>2 DEF Registries
  <2>4. draft' = Registry(draft.epoch + 1, from, until, bs)
    BY <1>2 DEF Revoke
  <2> HIDE DEF bs
  <2> QED BY <2>1, <2>3, <2>4 DEF Registry, Registries
<1>3. draft.from \in Nat /\ draft.until \in Nat
  BY DEF RegistryTypeOK, Registries
<1>4. \A v \in Validities : Seconds(instant) \in Nat /\ Seconds(instant) + v \in Nat
  <2>1. Seconds(instant) \in Nat /\ Validities \subseteq Nat
    BY SecondsTyped DEF RegistryTypeOK, RegistryAssumption
  <2> QED BY <2>1
<1>5. draft' \in Registries
  <2>1. CASE \E b \in draft.bindings :
                \/ Revoke(b, draft.from, draft.until)
                \/ \E v \in Validities : Revoke(b, Seconds(instant), Seconds(instant) + v)
    BY <1>2, <1>3, <1>4, <2>1
  <2>2. CASE SignRegistry
    BY <2>2 DEF SignRegistry, RegistryTypeOK
  <2> QED BY <1>1, <2>1, <2>2 DEF Administer
<1>6. signed' \subseteq signed \cup {draft}
  BY DEF Administer, EnrollAdd, Revoke, SignRegistry
<1>7. UNCHANGED <<instant, copy, updates, anchors, enrolls, downs, fetched, overlapped>>
  BY DEF Administer, EnrollAdd, Revoke, SignRegistry, MemberSame
<1> QED BY <1>5, <1>6, <1>7 DEF RegistryTypeOK

LEMMA UpdateTyped ==
    ASSUME RegistryAssumption, RegistryTypeOK, NEW u \in Updaters, Update(u)
    PROVE  RegistryTypeOK' /\ UNCHANGED <<instant, draft, signed, anchors, enrolls>>
<1>1. UNCHANGED <<instant, draft, signed, anchors, enrolls>>
  BY DEF Update, Fetch, Compare, writeAtomic, UpdateEnds, AdminSame
<1>2. /\ Served \subseteq Envelopes /\ copy \in Envelopes \cup {Junk, NoFile}
      /\ updates[u].pc \in {"compare", "write"} => updates[u].body \in Envelopes
  BY ServedTyped DEF RegistryTypeOK, AtRest
<1>3. CASE \E f \in Served : Fetch(u, f)
  BY <1>1, <1>2, <1>3 DEF Fetch, RegistryTypeOK
<1>4. CASE Compare(u)
  BY <1>1, <1>2, <1>4 DEF Compare, RegistryTypeOK
<1>5. CASE writeAtomic(u)
  <2>1. (overlapped \/ copy # updates[u].read) \in BOOLEAN
    OBVIOUS
  <2> QED BY <1>1, <1>2, <1>5, <2>1 DEF writeAtomic, RegistryTypeOK
<1>6. CASE UpdateEnds(u)
  BY <1>1, <1>6 DEF UpdateEnds, RegistryTypeOK
<1> QED BY <1>1, <1>3, <1>4, <1>5, <1>6 DEF Update

\* A pin that is renewed stays where it is; a new one goes last.
LEMMA UpsertKeeps ==
    ASSUME NEW as \in Seq(Pins), NEW a \in Pins
    PROVE  /\ upsertInto(as, a) \in Seq(Pins) /\ upsertInto(as, a) # <<>>
           /\ as # <<>> => upsertInto(as, a)[1].network = as[1].network
<1>1. CASE \E k \in DOMAIN as : as[k].network = a.network
  <2>1. PICK n \in Nat : n = Len(as) /\ as \in [1 .. n -> Pins] /\ DOMAIN as = 1 .. n
    BY LenProperties
  <2>2. 1 \in 1 .. n
    <3>1. PICK k \in 1 .. n : TRUE
      BY <1>1, <2>1
    <3> QED BY <3>1
  <2> DEFINE new == [k \in 1 .. n |-> IF as[k].network = a.network THEN a ELSE as[k]]
  <2>3. upsertInto(as, a) = new
    <3>1. upsertInto(as, a) = [k \in DOMAIN as |-> IF as[k].network = a.network THEN a ELSE as[k]]
      BY <1>1 DEF upsertInto
    <3> QED BY <2>1, <3>1
  <2>4. new \in [1 .. n -> Pins]
    BY <2>1
  <2>5. new \in Seq(Pins)
    <3> HIDE DEF new
    <3>1. Seq(Pins) = UNION {[1 .. m -> Pins] : m \in Nat}
      BY SeqDef
    <3> QED BY <2>4, <3>1
  <2>6. new[1].network = as[1].network
    BY <2>2
  <2>7. new # <<>>
    <3>1. DOMAIN new # {}
      BY <2>2
    <3>2. DOMAIN <<>> = {}
      OBVIOUS
    <3> QED BY <3>1, <3>2
  <2> HIDE DEF new
  <2> QED BY <2>3, <2>5, <2>6, <2>7
<1>2. CASE ~ \E k \in DOMAIN as : as[k].network = a.network
  <2>1. upsertInto(as, a) = Append(as, a)
    BY <1>2 DEF upsertInto
  <2>2. as # <<>> => Append(as, a)[1] = as[1]
    <3>0. as # <<>> => Len(as) \in Nat \ {0}
      BY EmptySeq
    <3>1. ASSUME as # <<>> PROVE 1 \in 1 .. Len(as)
      <4>1. PICK n \in Nat \ {0} : n = Len(as)
        BY <3>0, <3>1
      <4>2. 1 \in 1 .. n
        OBVIOUS
      <4> QED BY <4>1, <4>2
    <3> QED BY <3>1, AppendProperties
  <2>3. Append(as, a) \in Seq(Pins) /\ Append(as, a) # <<>>
    BY ZenonT(60), EmptySeq, AppendProperties
  <2> QED BY <2>1, <2>2, <2>3
<1> QED BY <1>1, <1>2

LEMMA EnrollingTyped ==
    ASSUME RegistryAssumption, RegistryTypeOK, NEW e \in Enrollers, Enrolling(e)
    PROVE  /\ RegistryTypeOK' /\ UNCHANGED <<instant, draft, signed, copy, updates, downs, fetched>>
           /\ ~ overlapped' => ~ overlapped
           /\ ~ overlapped' /\ anchors # <<>> => anchors' # <<>> /\ anchors'[1].network = anchors[1].network
<1>1. UNCHANGED <<instant, draft, signed, copy, updates, downs, fetched>>
  BY DEF Enrolling, Enroll, writeStoreAtomic, EnrollEnds, AdminSame
<1>2. CASE \E n \in {Ours, Other}, r \in Relays : Enroll(e, n, r)
  <2>1. PICK n \in {Ours, Other}, r \in Relays : Enroll(e, n, r)
    BY <1>2
  <2>2. Anchor(n, r) \in Pins
    BY DEF Anchor, Pins
  <2> QED BY <1>1, <2>1, <2>2 DEF Enroll, RegistryTypeOK
<1>3. CASE writeStoreAtomic(e)
  <2>1. enrolls[e] \in [pc : {"write"}, pin : Pins, read : Seq(Pins)]
    BY <1>3 DEF writeStoreAtomic, RegistryTypeOK, AtRest
  <2>2. PICK pin \in Pins, read \in Seq(Pins) : pin = enrolls[e].pin /\ read = enrolls[e].read
    BY <2>1
  <2>3. anchors' = upsertInto(read, pin) /\ overlapped' = (overlapped \/ anchors # read)
        /\ enrolls' = [enrolls EXCEPT ![e] = AtRest]
    BY <1>3, <2>2 DEF writeStoreAtomic
  <2>4. anchors' \in Seq(Pins) /\ anchors' # <<>> /\ overlapped' \in BOOLEAN
        /\ (read # <<>> => anchors'[1].network = read[1].network)
    BY <2>3, UpsertKeeps
  <2>5. ~ overlapped' => ~ overlapped /\ anchors = read
    BY <2>3
  <2> QED BY <1>1, <2>3, <2>4, <2>5 DEF RegistryTypeOK
<1>4. CASE EnrollEnds(e)
  BY <1>1, <1>4 DEF EnrollEnds, RegistryTypeOK
<1> QED BY <1>2, <1>3, <1>4 DEF Enrolling

LEMMA TypeStep == ASSUME RegistryAssumption, RegistryTypeOK, [RegistryNext]_registryVars PROVE RegistryTypeOK'
<1>1. CASE Administer
  BY <1>1, DraftTyped DEF RegistryTypeOK
<1>2. CASE \E u \in Updaters : Update(u)
  BY <1>2, UpdateTyped
<1>3. CASE \E f \in Served \cup {NoFile} : Deploy(f)
  BY <1>3, ServedTyped DEF Deploy, AdminSame, RegistryTypeOK
<1>4. CASE \E e \in Enrollers : Enrolling(e)
  BY <1>4, EnrollingTyped
<1>5. CASE TimePasses
  BY <1>5 DEF TimePasses, MemberSame, RegistryTypeOK
<1>6. CASE UNCHANGED registryVars
  BY <1>6 DEF registryVars, RegistryTypeOK
<1> QED BY <1>1, <1>2, <1>3, <1>4, <1>5, <1>6 DEF RegistryNext

\* Every state of the administrator and the member is well typed.
THEOREM RegistryTypeCorrect == RegistrySpec => []RegistryTypeOK
<1>1. RegistryInit => RegistryTypeOK
  BY RegistryAssumption, FirstAssumption, TypeInit
<1>2. RegistryTypeOK /\ [RegistryNext]_registryVars => RegistryTypeOK'
  BY RegistryAssumption, TypeStep
<1> QED BY <1>1, <1>2, PTL DEF RegistrySpec

\* The countdown foresees the verdict for every registry that was ever signed.
THEOREM FreshnessAlwaysForeseen == RegistrySpec => []FreshnessForeseen
<1>1. RegistryTypeOK => FreshnessForeseen
  <2> SUFFICES ASSUME RegistryTypeOK, NEW reg \in signed
               PROVE  LET d == registryDaysLeft(reg, instant)
                      IN  /\ IsStaleAt(reg, instant, MaxStaleness) <=> Stale(reg, instant, MaxStaleness)
                          /\ d < 0 => Stale(reg, instant, MaxStaleness)
                          /\ d >= 0 => \A k \in 0 .. d * Day :
                                          ~ Stale(reg, (Seconds(instant) + k) * Fraction, MaxStaleness)
    BY DEF FreshnessForeseen
  <2>1. reg \in Registries /\ instant \in Nat
    BY DEF RegistryTypeOK
  <2> QED BY <2>1, RegistryAssumption, SameAge, Foreseen
<1> QED BY <1>1, RegistryTypeCorrect, PTL

-----------------------------------------------------------------------------
(* A revoked key stays down *)

\* q shows every key as revoked that r does.
Later(r, q) ==
    \A b \in r.bindings :
        b.revoked => \E c \in q.bindings : c.revoked /\ c.slug = b.slug /\ c.keyEpoch = b.keyEpoch

\* What was signed passed the check, was fresh at its start, and shows whatever
\* an older registry shows as revoked.
SignedGood ==
    /\ draft.from <= draft.until
    /\ \A r \in signed : /\ canonicalizeForSign(r) /\ r.from <= r.until
                         /\ r.epoch <= draft.epoch /\ Later(r, draft)
    /\ \A r, q \in signed : r.epoch < q.epoch => Later(r, q)

Pinned(f) == anchors # <<>> /\ f.root = anchors[1].network

\* What a command holds was served, is of the pinned network, and was newer
\* than the copy when it looked.
UpdatesGood ==
    \A u \in Updaters :
        updates[u].pc # "rest" =>
            /\ updates[u].body \in Served /\ IsEnvelope(updates[u].body)
            /\ overlapped \/ Pinned(updates[u].body)
            /\ updates[u].pc = "write" =>
                  updates[u].body.reg.epoch > localEpoch(updates[u].body.root, updates[u].read)

\* The copy shows what any copy before it showed, or is of a network whose pin
\* keeps this one's registries out.
CopyGood ==
    /\ copy \in Served \cup {Junk, NoFile}
    /\ ~ overlapped =>
          /\ fetched => IsEnvelope(copy) /\ Pinned(copy)
          /\ \/ downs \subseteq ShownDown(copy)
             \/ anchors # <<>> /\ anchors[1].network # Ours /\ ~ (IsEnvelope(copy) /\ copy.root = Ours)

TrustInv == SignedGood /\ UpdatesGood /\ CopyGood

LEMMA LaterMore == ASSUME NEW r, NEW q, r.bindings \subseteq q.bindings PROVE Later(r, q)
BY DEF Later

LEMMA LaterStill == ASSUME NEW p, NEW r, NEW q, Later(p, r), Later(r, q) PROVE Later(p, q)
BY DEF Later

LEMMA TrustInit == ASSUME RegistryAssumption, FirstAssumption, RegistryInit PROVE TrustInv
<1>1. Later(draft, draft)
  BY LaterMore
<1>2. draft.epoch \in Nat
  BY DEF RegistryInit, FirstAssumption, Registries
<1>3. SignedGood
  BY <1>1, <1>2 DEF SignedGood, RegistryInit, FirstAssumption
<1>4. UpdatesGood
  BY DEF UpdatesGood, RegistryInit, AtRest
<1>5. CopyGood
  BY DEF CopyGood, RegistryInit, Served
<1> QED BY <1>3, <1>4, <1>5 DEF TrustInv

\* The next registry is newer and takes no revocation back.
LEMMA TrustDraft == ASSUME RegistryAssumption, RegistryTypeOK, TrustInv, Administer PROVE TrustInv'
<1>1. UNCHANGED <<instant, copy, updates, anchors, enrolls, downs, fetched, overlapped>>
      /\ draft' \in Registries /\ draft \in Registries /\ signed \subseteq Registries
  BY DraftTyped DEF RegistryTypeOK
<1>2. SignedGood'
  <2>1. CASE SignRegistry
    <3>1. Later(draft, draft) /\ draft.epoch <= draft.epoch
      BY <1>1, LaterMore DEF Registries
    <3>2. \A r \in signed : r.epoch <= draft.epoch /\ r.epoch \in Nat /\ draft.epoch \in Nat
      BY <1>1 DEF TrustInv, SignedGood, Registries
    <3> QED BY <2>1, <3>1, <3>2 DEF SignRegistry, TrustInv, SignedGood
  <2>2. ASSUME UNCHANGED signed, draft'.epoch = draft.epoch + 1, draft'.from <= draft'.until, Later(draft, draft')
        PROVE  SignedGood'
    <3>1. \A r \in signed : Later(r, draft')
      BY <2>2, LaterStill DEF TrustInv, SignedGood
    <3>2. \A r \in signed : r.epoch <= draft'.epoch
      <4>1. \A r \in signed : r.epoch <= draft.epoch /\ r.epoch \in Nat /\ draft.epoch \in Nat
        BY <1>1 DEF TrustInv, SignedGood, Registries
      <4> QED BY <2>2, <4>1
    <3> QED BY <2>2, <3>1, <3>2 DEF TrustInv, SignedGood
  <2>3. ASSUME NEW r \in Enrollments, NEW v \in Validities, EnrollAdd(r, v) PROVE SignedGood'
    <3> DEFINE b == Binding(r, Seconds(instant), Seconds(instant) + v)
    <3>1. draft' = Registry(draft.epoch + 1, Seconds(instant), Seconds(instant) + v, draft.bindings \cup {b})
          /\ UNCHANGED signed
      BY <2>3 DEF EnrollAdd, appendAndBump
    <3> HIDE DEF b
    <3>2. draft'.bindings = draft.bindings \cup {b} /\ draft'.epoch = draft.epoch + 1
          /\ draft'.from = Seconds(instant) /\ draft'.until = Seconds(instant) + v
      BY <3>1 DEF Registry
    <3>3. Seconds(instant) \in Nat /\ v \in Nat
      BY SecondsTyped DEF RegistryTypeOK, RegistryAssumption
    <3>4. draft'.from <= draft'.until
      BY <3>2, <3>3
    <3>5. Later(draft, draft')
      BY <3>2, LaterMore
    <3> QED BY <2>2, <3>1, <3>2, <3>4, <3>5
  <2>4. ASSUME NEW b \in draft.bindings, NEW from \in Nat, NEW until \in Nat, from <= until, Revoke(b, from, until)
        PROVE  SignedGood'
    <3>1. b \in Bindings
      BY <1>1 DEF Registries
    <3> DEFINE down == [b EXCEPT !.revoked = TRUE]
    <3>2. down.revoked /\ down.slug = b.slug /\ down.keyEpoch = b.keyEpoch
      BY <3>1 DEF Bindings
    <3>3. draft' = Registry(draft.epoch + 1, from, until, (draft.bindings \ {b}) \cup {down}) /\ UNCHANGED signed
      BY <2>4 DEF Revoke
    <3> HIDE DEF down
    <3>4. draft'.bindings = (draft.bindings \ {b}) \cup {down} /\ draft'.epoch = draft.epoch + 1
          /\ draft'.from = from /\ draft'.until = until
      BY <3>3 DEF Registry
    <3>5. Later(draft, draft')
      BY <3>2, <3>4 DEF Later
    <3> QED BY <2>2, <2>4, <3>3, <3>4, <3>5
  <2>5. CASE \E b \in draft.bindings :
                \/ Revoke(b, draft.from, draft.until)
                \/ \E v \in Validities : Revoke(b, Seconds(instant), Seconds(instant) + v)
    <3>1. draft.from \in Nat /\ draft.until \in Nat /\ draft.from <= draft.until
      BY <1>1 DEF Registries, TrustInv, SignedGood
    <3>2. PICK now \in Nat : now = Seconds(instant)
      BY SecondsTyped DEF RegistryTypeOK
    <3>3. \A v \in Validities : now + v \in Nat /\ now <= now + v
      <4>1. Validities \subseteq Nat
        BY DEF RegistryAssumption
      <4> QED BY <4>1
    <3> QED BY <2>4, <2>5, <3>1, <3>2, <3>3
  <2> QED BY <2>1, <2>3, <2>5 DEF Administer
<1>3. Served \subseteq Served'
  <2>1. signed \subseteq signed'
    BY DEF Administer, EnrollAdd, Revoke, SignRegistry
  <2> QED BY <2>1 DEF Served
<1>4. UpdatesGood'
  BY <1>1, <1>3 DEF TrustInv, UpdatesGood, Pinned, localEpoch
<1>5. CopyGood'
  BY <1>1, <1>3 DEF TrustInv, CopyGood, Pinned
<1> QED BY <1>2, <1>4, <1>5 DEF TrustInv

\* A registry of ours counts with its own epoch, however old it is.
LEMMA LocalEpochIs ==
    ASSUME RegistryAssumption, RegistryTypeOK, SignedGood, NEW f, IsEnvelope(f), f.root = Ours, f.reg \in signed
    PROVE  localEpoch(Ours, f) = f.reg.epoch /\ f.reg \in Registries
<1>1. f.reg \in Registries /\ canonicalizeForSign(f.reg) /\ f.reg.from <= f.reg.until
  BY DEF RegistryTypeOK, SignedGood
<1>2. PICK from \in Nat : from = f.reg.from
  BY <1>1 DEF Registries
<1>3. Seconds(from * Fraction) = from
  BY DivExact DEF Seconds, RegistryAssumption
<1>4. from * Fraction \in Nat /\ 0 <= NoAgeLimit * Fraction /\ NoAgeLimit * Fraction \in Nat
  BY Times DEF RegistryAssumption
<1>5. f.reg.until \in Nat /\ f.reg.epoch \in Nat
  BY <1>1 DEF Registries
<1>6. ~ Stale(f.reg, from * Fraction, NoAgeLimit)
  BY <1>1, <1>2, <1>3, <1>4, <1>5 DEF Stale
<1>7. f.reg.epoch > 0
  BY <1>1, <1>5 DEF canonicalizeForSign, epochInRange
<1> QED BY <1>1, <1>2, <1>6, <1>7 DEF localEpoch, VerifyAndLoad

\* A copy of ours that is taken over by a newer one loses no revocation.
LEMMA ShownStays ==
    ASSUME RegistryAssumption, RegistryTypeOK, SignedGood, NEW f, NEW g, IsEnvelope(f), IsEnvelope(g),
           f.root = Ours, g.root = Ours, f.reg \in signed, g.reg \in signed,
           g.reg.epoch > localEpoch(Ours, f)
    PROVE  ShownDown(f) \subseteq ShownDown(g)
<1>1. localEpoch(Ours, f) = f.reg.epoch /\ f.reg.epoch \in Nat /\ g.reg.epoch \in Nat
  BY LocalEpochIs DEF Registries, RegistryTypeOK
<1>2. f.reg.epoch < g.reg.epoch
  BY <1>1
<1>3. Later(f.reg, g.reg)
  BY <1>2 DEF SignedGood
<1>4. SUFFICES ASSUME NEW b \in f.reg.bindings, b.revoked
               PROVE  <<b.slug, b.keyEpoch>> \in ShownDown(g)
  BY DEF ShownDown
<1>5. PICK c \in g.reg.bindings : c.revoked /\ c.slug = b.slug /\ c.keyEpoch = b.keyEpoch
  BY <1>3, <1>4 DEF Later
<1> QED BY <1>5 DEF ShownDown

\* Of ours, a hub serves only what was signed.
LEMMA ServedIs ==
    ASSUME RegistryAssumption, RegistryTypeOK, NEW f \in Served
    PROVE  f.root \in {Ours, Other} /\ (f.root = Ours => f.reg \in signed)
BY ServedTyped DEF Envelopes

LEMMA TrustUpdate ==
    ASSUME RegistryAssumption, RegistryTypeOK, TrustInv, NEW u \in Updaters, Update(u)
    PROVE  TrustInv'
<1>1. UNCHANGED <<instant, draft, signed, anchors, enrolls>>
  BY UpdateTyped
<1>2. SignedGood'
  BY <1>1 DEF TrustInv, SignedGood
<1>3. Served' = Served
  BY <1>1 DEF Served
<1>4. DOMAIN updates = Updaters
  BY DEF RegistryTypeOK
<1>5. CASE \E f \in Served : Fetch(u, f)
  <2>1. PICK f \in Served : Fetch(u, f)
    BY <1>5
  <2>2. IsEnvelope(f) /\ Pinned(f) /\ UNCHANGED <<copy, downs, fetched, overlapped>>
        /\ updates' = [updates EXCEPT ![u] = [pc |-> "compare", body |-> f]]
    BY <2>1 DEF Fetch, VerifyAndLoad, Pinned, resolveRootPin
  <2>3. UpdatesGood'
    BY <1>1, <1>3, <1>4, <2>2 DEF TrustInv, UpdatesGood, Pinned, localEpoch
  <2>4. CopyGood'
    BY <1>1, <1>3, <2>2 DEF TrustInv, CopyGood, Pinned
  <2> QED BY <1>2, <2>3, <2>4 DEF TrustInv
<1>6. CASE Compare(u)
  <2> DEFINE f == updates[u].body
  <2>1. UNCHANGED <<copy, downs, fetched, overlapped>> /\ updates[u].pc = "compare"
        /\ \/ updates' = [updates EXCEPT ![u] = AtRest]
           \/ /\ f.reg.epoch > localEpoch(f.root, copy)
              /\ updates' = [updates EXCEPT ![u] = [pc |-> "write", body |-> f, read |-> copy]]
    BY <1>6 DEF Compare
  <2>2. f \in Served /\ IsEnvelope(f) /\ (overlapped \/ Pinned(f))
    BY <2>1 DEF TrustInv, UpdatesGood
  <2> HIDE DEF f
  <2>3. UpdatesGood'
    BY <1>1, <1>3, <1>4, <2>1, <2>2 DEF TrustInv, UpdatesGood, Pinned, localEpoch, AtRest
  <2>4. CopyGood'
    BY <1>1, <1>3, <2>1 DEF TrustInv, CopyGood, Pinned
  <2> QED BY <1>2, <2>3, <2>4 DEF TrustInv
<1>7. CASE writeAtomic(u)
  <2> DEFINE f == updates[u].body
             read == updates[u].read
  <2>1. updates[u].pc = "write" /\ copy' = f /\ downs' = downs \cup ShownDown(f) /\ fetched' = TRUE
        /\ (~ overlapped' => ~ overlapped /\ copy = read)
        /\ updates' = [updates EXCEPT ![u] = AtRest]
    BY <1>7 DEF writeAtomic
  <2>2. f \in Served /\ IsEnvelope(f) /\ (overlapped \/ Pinned(f)) /\ f.reg.epoch > localEpoch(f.root, read)
    BY <2>1 DEF TrustInv, UpdatesGood
  <2> HIDE DEF f, read
  <2>3. UpdatesGood'
    <3>1. ~ overlapped' => ~ overlapped
      BY <2>1
    <3> QED BY <1>1, <1>3, <1>4, <2>1, <3>1 DEF TrustInv, UpdatesGood, Pinned, localEpoch, AtRest
  <2>4. ASSUME ~ overlapped' PROVE (IsEnvelope(copy) /\ Pinned(copy))'
    BY <1>1, <2>1, <2>2, <2>4 DEF Pinned
  <2>5. ASSUME ~ overlapped', f.root = Ours PROVE downs' \subseteq ShownDown(f)
    <3>1. downs \subseteq ShownDown(copy)
      BY <2>1, <2>2, <2>5 DEF TrustInv, CopyGood, Pinned
    <3>2. f.reg \in signed
      BY <2>2, <2>5, ServedIs
    <3>3. CASE IsEnvelope(copy) /\ copy.root = Ours
      <4>1. copy \in Served
        BY <2>1, <2>5, <3>3 DEF TrustInv, CopyGood, IsEnvelope
      <4>2. copy.reg \in signed
        BY <3>3, <4>1, ServedIs
      <4>3. f.reg.epoch > localEpoch(Ours, copy)
        BY <2>1, <2>2, <2>5
      <4>4. ShownDown(copy) \subseteq ShownDown(f)
        BY <2>2, <2>5, <3>2, <3>3, <4>2, <4>3, ShownStays DEF TrustInv
      <4> QED BY <2>1, <3>1, <4>4
    <3>4. CASE ~ (IsEnvelope(copy) /\ copy.root = Ours)
      BY <2>1, <3>1, <3>4 DEF ShownDown
    <3> QED BY <3>3, <3>4
  <2>6. ASSUME ~ overlapped', f.root # Ours
        PROVE  (anchors # <<>> /\ anchors[1].network # Ours /\ ~ (IsEnvelope(copy) /\ copy.root = Ours))'
    BY <1>1, <2>1, <2>2, <2>6 DEF Pinned
  <2>7. ShownDown(copy)' = ShownDown(f)
    BY <2>1 DEF ShownDown, IsEnvelope
  <2>8. CopyGood'
    BY <1>3, <2>1, <2>2, <2>4, <2>5, <2>6, <2>7 DEF CopyGood
  <2> QED BY <1>2, <2>3, <2>8 DEF TrustInv
<1>8. CASE UpdateEnds(u)
  <2>1. UNCHANGED <<copy, downs, fetched, overlapped>> /\ updates' = [updates EXCEPT ![u] = AtRest]
    BY <1>8 DEF UpdateEnds
  <2>2. UpdatesGood'
    BY <1>1, <1>3, <1>4, <2>1 DEF TrustInv, UpdatesGood, Pinned, localEpoch, AtRest
  <2>3. CopyGood'
    BY <1>1, <1>3, <2>1 DEF TrustInv, CopyGood, Pinned
  <2> QED BY <1>2, <2>2, <2>3 DEF TrustInv
<1> QED BY <1>5, <1>6, <1>7, <1>8 DEF Update

\* Whatever the user puts there, the history starts anew with it.
LEMMA TrustDeploy ==
    ASSUME RegistryAssumption, RegistryTypeOK, TrustInv, NEW f \in Served \cup {NoFile}, Deploy(f)
    PROVE  TrustInv'
<1>1. UNCHANGED <<instant, draft, signed, updates, anchors, enrolls, overlapped>>
      /\ copy' = f /\ downs' = ShownDown(f) /\ fetched' = FALSE
  BY DEF Deploy, AdminSame
<1>2. Served' = Served
  BY <1>1 DEF Served
<1>3. SignedGood'
  BY <1>1 DEF TrustInv, SignedGood
<1>4. UpdatesGood'
  BY <1>1, <1>2 DEF TrustInv, UpdatesGood, Pinned, localEpoch
<1>5. ShownDown(copy)' = ShownDown(f)
  BY <1>1 DEF ShownDown, IsEnvelope
<1>6. CopyGood'
  BY <1>1, <1>2, <1>5 DEF CopyGood
<1> QED BY <1>3, <1>4, <1>6 DEF TrustInv

\* An enrollment leaves the first pin first.
LEMMA TrustEnroll ==
    ASSUME RegistryAssumption, RegistryTypeOK, TrustInv, NEW e \in Enrollers, Enrolling(e)
    PROVE  TrustInv'
<1>1. UNCHANGED <<instant, draft, signed, copy, updates, downs, fetched>>
      /\ (~ overlapped' => ~ overlapped)
      /\ (~ overlapped' /\ anchors # <<>> => anchors' # <<>> /\ anchors'[1].network = anchors[1].network)
  BY EnrollingTyped
<1>2. Served' = Served /\ ShownDown(copy)' = ShownDown(copy)
  BY <1>1 DEF Served, ShownDown, IsEnvelope
<1>3. SignedGood'
  BY <1>1 DEF TrustInv, SignedGood
<1>4. ASSUME NEW f, ~ overlapped', Pinned(f) PROVE anchors' # <<>> /\ f.root = anchors'[1].network
  BY <1>1, <1>4 DEF Pinned
<1>5. UpdatesGood'
  <2> SUFFICES ASSUME NEW v \in Updaters, updates[v].pc # "rest"
               PROVE  /\ updates[v].body \in Served /\ IsEnvelope(updates[v].body)
                      /\ overlapped' \/ (anchors' # <<>> /\ updates[v].body.root = anchors'[1].network)
                      /\ updates[v].pc = "write" =>
                            updates[v].body.reg.epoch > localEpoch(updates[v].body.root, updates[v].read)
    BY <1>1, <1>2 DEF UpdatesGood, Pinned, localEpoch
  <2>1. /\ updates[v].body \in Served /\ IsEnvelope(updates[v].body)
        /\ overlapped \/ Pinned(updates[v].body)
        /\ updates[v].pc = "write" =>
              updates[v].body.reg.epoch > localEpoch(updates[v].body.root, updates[v].read)
    BY DEF TrustInv, UpdatesGood
  <2> QED BY <1>1, <1>4, <2>1
<1>6. CopyGood'
  <2>1. copy' \in Served' \cup {Junk, NoFile}
    BY <1>1, <1>2 DEF TrustInv, CopyGood
  <2>2. ASSUME ~ overlapped', fetched' PROVE (IsEnvelope(copy) /\ Pinned(copy))'
    <3>1. IsEnvelope(copy) /\ Pinned(copy)
      BY <1>1, <2>2 DEF TrustInv, CopyGood
    <3> QED BY <1>1, <1>4, <2>2, <3>1 DEF Pinned
  <2>3. ASSUME ~ overlapped'
        PROVE  \/ (downs \subseteq ShownDown(copy))'
               \/ (anchors # <<>> /\ anchors[1].network # Ours /\ ~ (IsEnvelope(copy) /\ copy.root = Ours))'
    <3>1. \/ downs \subseteq ShownDown(copy)
          \/ anchors # <<>> /\ anchors[1].network # Ours /\ ~ (IsEnvelope(copy) /\ copy.root = Ours)
      BY <1>1, <2>3 DEF TrustInv, CopyGood
    <3> QED BY <1>1, <1>2, <2>3, <3>1
  <2> QED BY <2>1, <2>2, <2>3 DEF CopyGood
<1> QED BY <1>3, <1>5, <1>6 DEF TrustInv

LEMMA TrustStep ==
    ASSUME RegistryAssumption, RegistryTypeOK, TrustInv, [RegistryNext]_registryVars PROVE TrustInv'
<1>1. ASSUME UNCHANGED <<draft, signed, copy, updates, anchors, enrolls, downs, fetched, overlapped>>
      PROVE  TrustInv'
  <2>1. Served' = Served /\ ShownDown(copy)' = ShownDown(copy)
    BY <1>1 DEF Served, ShownDown, IsEnvelope
  <2>2. SignedGood'
    BY <1>1 DEF TrustInv, SignedGood
  <2>3. UpdatesGood'
    BY <1>1, <2>1 DEF TrustInv, UpdatesGood, Pinned, localEpoch
  <2>4. CopyGood'
    BY <1>1, <2>1 DEF TrustInv, CopyGood, Pinned
  <2> QED BY <2>2, <2>3, <2>4 DEF TrustInv
<1>2. CASE Administer
  BY <1>2, TrustDraft
<1>3. CASE \E u \in Updaters : Update(u)
  BY <1>3, TrustUpdate
<1>4. CASE \E f \in Served \cup {NoFile} : Deploy(f)
  BY <1>4, TrustDeploy
<1>5. CASE \E e \in Enrollers : Enrolling(e)
  BY <1>5, TrustEnroll
<1>6. CASE TimePasses
  BY <1>1, <1>6 DEF TimePasses, MemberSame
<1>7. CASE UNCHANGED registryVars
  BY <1>1, <1>7 DEF registryVars
<1> QED BY <1>2, <1>3, <1>4, <1>5, <1>6, <1>7 DEF RegistryNext

LEMMA TrustAlways == RegistrySpec => [](RegistryTypeOK /\ TrustInv)
<1>1. RegistryInit => RegistryTypeOK /\ TrustInv
  BY RegistryAssumption, FirstAssumption, TypeInit, TrustInit
<1>2. RegistryTypeOK /\ TrustInv /\ [RegistryNext]_registryVars => (RegistryTypeOK /\ TrustInv)'
  BY RegistryAssumption, TypeStep, TrustStep
<1> QED BY <1>1, <1>2, PTL DEF RegistrySpec

\* What fetch-registry wrote stays under the pin it would ask for now.
THEOREM CopyAlwaysFollowsPin == RegistrySpec => []CopyFollowsPin
<1>1. TrustInv => CopyFollowsPin
  BY DEF TrustInv, CopyGood, Pinned, CopyFollowsPin, resolveRootPin
<1> QED BY <1>1, TrustAlways, PTL

\* A key that a copy has shown as revoked speaks for nobody again.
THEOREM RevokedAlwaysDown == RegistrySpec => []RevokedStaysDown
<1>1. TrustInv => RevokedStaysDown
  <2> SUFFICES ASSUME TrustInv, ~ overlapped, VerifyAndLoad(Ours, copy, 0, instant, MaxStaleness),
                      NEW t \in downs, resolveTuple(copy.reg, t[1], t[2], instant)
               PROVE  FALSE
    BY DEF RevokedStaysDown
  <2>1. IsEnvelope(copy) /\ copy.root = Ours /\ canonicalizeForSign(copy.reg)
    BY DEF VerifyAndLoad
  <2>2. t \in ShownDown(copy)
    BY <2>1 DEF TrustInv, CopyGood
  <2>3. PICK c \in copy.reg.bindings : c.revoked /\ t = <<c.slug, c.keyEpoch>>
    BY <2>1, <2>2 DEF ShownDown
  <2>4. PICK b \in copy.reg.bindings : b.slug = c.slug /\ b.keyEpoch = c.keyEpoch /\ ~ b.revoked
    BY <2>3 DEF resolveTuple, isLive
  <2>5. b.class = c.class /\ b # c
    BY <2>1, <2>3, <2>4 DEF canonicalizeForSign, validateRegistryBindings, checkSlugDisjoint
  <2> QED BY <2>1, <2>4, <2>5 DEF canonicalizeForSign, validateRegistryBindings, checkBindingUniqueness
<1> QED BY <1>1, TrustAlways, PTL
=============================================================================
