---------------------------- MODULE RegistryTrust ----------------------------
(***************************************************************************)
(* The signed registry of who may speak for whom, from the administrator   *)
(* to a member's machine (src/internal/identity/registry, registryfetch,   *)
(* anchor, src/internal/identitycli): enroll-add and hand edits make the   *)
(* next registry, sign-registry signs it, fetch-registry takes whatever a  *)
(* hub serves and may replace the member's copy, enroll pins the root.     *)
(*                                                                         *)
(* Time is in fractions of a second, because the freshness rules compare   *)
(* both whole seconds and durations.  A signature verifies under the root  *)
(* that made it.                                                           *)
(***************************************************************************)
EXTENDS Integers, FiniteSets, Sequences

CONSTANTS
    Slugs,           \* names of agents and humans
    Enrollments,     \* enrollment requests and the placement they get
    Relays,
    Ours, Other,     \* two networks, each the root key it derives from
    Updaters,        \* fetch-registry commands of one machine
    Enrollers,       \* enroll commands of one machine
    FirstRegistries, \* what the administrator signed first
    Validities,      \* lengths of issuance windows, in seconds
    Fraction,        \* instants in a second
    Day,             \* seconds in a day
    MaxStaleness,    \* the declared bound on a registry's age, in seconds
    NoAgeLimit,      \* an age no registry reaches
    MaxSafeEpoch,    \* the largest epoch
    Junk, NoFile,    \* a file that is no envelope; none
    MaxInstant       \* bound: instants

ASSUME RegistryAssumption ==
    /\ Ours # Other /\ NoFile # Junk
    /\ Fraction \in Nat \ {0} /\ Day \in Nat \ {0} /\ MaxStaleness \in Nat
    /\ Validities \subseteq Nat /\ MaxSafeEpoch \in Nat \ {0}
    /\ MaxInstant \in Nat /\ NoAgeLimit \in Nat /\ NoAgeLimit > MaxInstant
    /\ Enrollments \subseteq [slug : Slugs, keyEpoch : Nat, class : {"agent", "human"}, god : BOOLEAN]

VARIABLES
    instant,      \* the time
    draft,        \* the administrator's newest registry
    signed,       \* what Ours has signed so far
    copy,         \* the member's local registry file
    updates,      \* fetch-registry commands
    anchors,      \* the pinned roots, in the order of the file
    enrolls,      \* enroll commands
    downs,        \* history: what copies of this network showed as revoked
    fetched,      \* history: an update wrote the copy
    overlapped    \* history: a command wrote over what another had just written

registryVars == <<instant, draft, signed, copy, updates, anchors, enrolls, downs, fetched, overlapped>>

Bindings == [slug : Slugs, keyEpoch : Nat, class : {"agent", "human"}, god : BOOLEAN, revoked : BOOLEAN,
             from : Nat, until : Nat]

Registries == [epoch : Nat, from : Nat, until : Nat, bindings : SUBSET Bindings]

Binding(r, from, until) ==
    [slug |-> r.slug, keyEpoch |-> r.keyEpoch, class |-> r.class, god |-> r.god, revoked |-> FALSE,
     from |-> from, until |-> until]

Registry(epoch, from, until, bindings) ==
    [epoch |-> epoch, from |-> from, until |-> until, bindings |-> bindings]

Envelope(root, reg) == [root |-> root, reg |-> reg]

IsEnvelope(f) == f \notin {NoFile, Junk}

-----------------------------------------------------------------------------
(* What makes a registry acceptable *)

epochInRange(e) == 1 <= e /\ e <= MaxSafeEpoch

checkBindingUniqueness(bs) ==
    \A b, c \in bs :
        b # c /\ b.class = c.class /\ b.slug = c.slug =>
            b.keyEpoch # c.keyEpoch /\ (b.revoked \/ c.revoked)

checkSlugDisjoint(bs) == \A b, c \in bs : b.slug = c.slug => b.class = c.class

\* A revoked holder counts.
checkRolePlacement(bs) ==
    /\ \A b \in bs : b.god => b.class = "human"
    /\ Cardinality({b \in bs : b.god}) <= 1

validateRegistryBindings(bs) ==
    checkBindingUniqueness(bs) /\ checkSlugDisjoint(bs) /\ checkRolePlacement(bs)

canonicalizeForSign(reg) ==
    /\ epochInRange(reg.epoch)
    /\ \A b \in reg.bindings : epochInRange(b.keyEpoch)
    /\ validateRegistryBindings(reg.bindings)

ASSUME FirstAssumption ==
    /\ FirstRegistries \subseteq Registries
    /\ \A reg \in FirstRegistries : canonicalizeForSign(reg) /\ reg.from <= reg.until

Seconds(t) == t \div Fraction

Stale(reg, t, maxStaleness) ==
    \/ Seconds(t) < reg.from
    \/ Seconds(t) > reg.until
    \/ t - reg.from * Fraction > maxStaleness * Fraction

\* Whether f loads under root.
VerifyAndLoad(root, f, highest, t, maxStaleness) ==
    /\ IsEnvelope(f) /\ f.root = root
    /\ canonicalizeForSign(f.reg)
    /\ f.reg.epoch > highest
    /\ ~ Stale(f.reg, t, maxStaleness)

\* Fault: an expired copy does not count.
localEpoch_Now(root, f) == IF VerifyAndLoad(root, f, 0, instant, NoAgeLimit) THEN f.reg.epoch ELSE 0

\* The copy is checked at its own valid_from.
localEpoch(root, f) ==
    IF IsEnvelope(f) /\ VerifyAndLoad(root, f, 0, f.reg.from * Fraction, NoAgeLimit) THEN f.reg.epoch ELSE 0

isLive(b, t) == ~ b.revoked /\ b.from <= Seconds(t) /\ Seconds(t) <= b.until

\* A message of this tuple verifies.
resolveTuple(reg, slug, keyEpoch, t) ==
    \E b \in reg.bindings : b.slug = slug /\ b.keyEpoch = keyEpoch /\ isLive(b, t)

-----------------------------------------------------------------------------
(* How old a registry is, asked without its root *)

IsStaleAt(reg, t, maxStaleness) ==
    \/ Seconds(t) > reg.until
    \/ t - reg.from * Fraction < 0
    \/ t - reg.from * Fraction > maxStaleness * Fraction

remaining(reg, t) ==
    LET deadline == IF reg.until < reg.from + MaxStaleness THEN reg.until ELSE reg.from + MaxStaleness
    IN  IF reg.from > Seconds(t) THEN Seconds(t) - reg.from ELSE deadline - Seconds(t)

\* Fault: a registry past due by less than a day has 0 days left.
registryDaysLeft_Truncates(reg, t) ==
    IF remaining(reg, t) < 0 THEN - ((- remaining(reg, t)) \div Day) ELSE remaining(reg, t) \div Day

registryDaysLeft(reg, t) == remaining(reg, t) \div Day

-----------------------------------------------------------------------------

AtRest == [pc |-> "rest"]

\* What the other network's hub serves.
Foreign == Envelope(Other, Registry(MaxSafeEpoch, 0, MaxInstant, {}))

\* A hub may answer with whatever was ever signed; what is no envelope is refused.
Served == {Envelope(Ours, reg) : reg \in signed} \cup {Foreign}

RegistryInit ==
    /\ instant = 0
    /\ draft \in FirstRegistries
    /\ signed = {draft}
    /\ copy \in {Junk, Foreign}
    /\ updates = [u \in Updaters |-> AtRest]
    /\ anchors = <<>>
    /\ enrolls = [e \in Enrollers |-> AtRest]
    /\ downs = {} /\ fetched = FALSE /\ overlapped = FALSE

-----------------------------------------------------------------------------
(* The administrator, who works from the newest registry *)

MemberSame == UNCHANGED <<copy, updates, anchors, enrolls, downs, fetched, overlapped>>

checkUniqueness(bs, b) ==
    /\ \A c \in bs : c.slug = b.slug => c.class = b.class
    /\ \A c \in bs : c.slug = b.slug => c.keyEpoch # b.keyEpoch /\ c.revoked

appendAndBump(reg, b, validity) ==
    Registry(reg.epoch + 1, Seconds(instant), Seconds(instant) + validity, reg.bindings \cup {b})

\* A key is added with the class and role the administrator gives it.  The
\* result must sign and load.
EnrollAdd(r, validity) ==
    /\ r.god => r.class = "human"
    /\ LET b   == Binding(r, Seconds(instant), Seconds(instant) + validity)
           reg == appendAndBump(draft, b, validity)
       IN  /\ checkUniqueness(draft.bindings, b)
           /\ VerifyAndLoad(Ours, Envelope(Ours, reg), 0, instant, NoAgeLimit)
           /\ draft' = reg
    /\ UNCHANGED <<instant, signed>> /\ MemberSame

\* A key is revoked in an editor: the epoch grows, the window is kept or renewed.
Revoke(b, from, until) ==
    /\ ~ b.revoked /\ draft.epoch < MaxSafeEpoch
    /\ draft' = Registry(draft.epoch + 1, from, until,
                         (draft.bindings \ {b}) \cup {[b EXCEPT !.revoked = TRUE]})
    /\ UNCHANGED <<instant, signed>> /\ MemberSame

SignRegistry ==
    /\ canonicalizeForSign(draft)
    /\ draft \notin signed
    /\ signed' = signed \cup {draft}
    /\ UNCHANGED <<instant, draft>> /\ MemberSame

-----------------------------------------------------------------------------
(* fetch-registry *)

AdminSame == UNCHANGED <<instant, draft, signed>>

\* The first pinned root.
resolveRootPin == anchors[1].network

\* What does not verify is refused and leaves everything as it was.
Fetch(u, f) ==
    /\ updates[u].pc = "rest" /\ anchors # <<>>
    /\ VerifyAndLoad(resolveRootPin, f, 0, instant, NoAgeLimit)
    /\ updates' = [updates EXCEPT ![u] = [pc |-> "compare", body |-> f]]
    /\ UNCHANGED <<copy, anchors, enrolls, downs, fetched, overlapped>> /\ AdminSame

\* Only a newer registry is written.
Compare(u) ==
    /\ updates[u].pc = "compare"
    /\ LET f == updates[u].body
       IN  updates' = [updates EXCEPT
               ![u] = IF f.reg.epoch > localEpoch(f.root, copy)
                      THEN [pc |-> "write", body |-> f, read |-> copy] ELSE AtRest]
    /\ UNCHANGED <<copy, anchors, enrolls, downs, fetched, overlapped>> /\ AdminSame

ShownDown(f) ==
    IF IsEnvelope(f) /\ f.root = Ours
    THEN {<<b.slug, b.keyEpoch>> : b \in {c \in f.reg.bindings : c.revoked}} ELSE {}

writeAtomic(u) ==
    /\ updates[u].pc = "write"
    /\ LET f == updates[u].body
       IN  /\ copy' = f
           /\ downs' = downs \cup ShownDown(f)
           /\ overlapped' = (overlapped \/ copy # updates[u].read)
    /\ fetched' = TRUE
    /\ updates' = [updates EXCEPT ![u] = AtRest]
    /\ UNCHANGED <<anchors, enrolls>> /\ AdminSame

\* The rename fails, or the command is killed.
UpdateEnds(u) ==
    /\ updates[u].pc # "rest"
    /\ updates' = [updates EXCEPT ![u] = AtRest]
    /\ UNCHANGED <<copy, anchors, enrolls, downs, fetched, overlapped>> /\ AdminSame

\* The user removes the copy or puts another there: what it showed is forgotten.
Deploy(f) ==
    /\ copy' = f /\ f # copy
    /\ downs' = ShownDown(f)
    /\ fetched' = FALSE
    /\ UNCHANGED <<updates, anchors, enrolls, overlapped>> /\ AdminSame

-----------------------------------------------------------------------------
(* enroll: the user has confirmed the root of the invite *)

Anchor(network, relay) == [network |-> network, relay |-> relay]

\* Fault: the newest pin comes first.
upsertInto_Front(as, a) ==
    IF \E k \in DOMAIN as : as[k].network = a.network
    THEN [k \in DOMAIN as |-> IF as[k].network = a.network THEN a ELSE as[k]]
    ELSE <<a>> \o as

upsertInto(as, a) ==
    IF \E k \in DOMAIN as : as[k].network = a.network
    THEN [k \in DOMAIN as |-> IF as[k].network = a.network THEN a ELSE as[k]]
    ELSE Append(as, a)

Enroll(e, network, relay) ==
    /\ enrolls[e].pc = "rest"
    /\ enrolls' = [enrolls EXCEPT ![e] = [pc |-> "write", pin |-> Anchor(network, relay), read |-> anchors]]
    /\ UNCHANGED <<copy, updates, anchors, downs, fetched, overlapped>> /\ AdminSame

\* The pin is on disk before the request is signed and printed.
writeStoreAtomic(e) ==
    /\ enrolls[e].pc = "write"
    /\ anchors' = upsertInto(enrolls[e].read, enrolls[e].pin)
    /\ overlapped' = (overlapped \/ anchors # enrolls[e].read)
    /\ enrolls' = [enrolls EXCEPT ![e] = AtRest]
    /\ UNCHANGED <<copy, updates, downs, fetched>> /\ AdminSame

EnrollEnds(e) ==
    /\ enrolls[e].pc # "rest"
    /\ enrolls' = [enrolls EXCEPT ![e] = AtRest]
    /\ UNCHANGED <<copy, updates, anchors, downs, fetched, overlapped>> /\ AdminSame

TimePasses ==
    /\ instant < MaxInstant /\ instant' = instant + 1
    /\ UNCHANGED <<draft, signed>> /\ MemberSame

Administer ==
    \/ \E r \in Enrollments, v \in Validities : EnrollAdd(r, v)
    \/ \E b \in draft.bindings :
          \/ Revoke(b, draft.from, draft.until)
          \/ \E v \in Validities : Revoke(b, Seconds(instant), Seconds(instant) + v)
    \/ SignRegistry

Update(u) == (\E f \in Served : Fetch(u, f)) \/ Compare(u) \/ writeAtomic(u) \/ UpdateEnds(u)

Enrolling(e) ==
    \/ \E n \in {Ours, Other}, r \in Relays : Enroll(e, n, r)
    \/ writeStoreAtomic(e) \/ EnrollEnds(e)

RegistryNext ==
    \/ Administer
    \/ \E u \in Updaters : Update(u)
    \/ \E f \in Served \cup {NoFile} : Deploy(f)
    \/ \E e \in Enrollers : Enrolling(e)
    \/ TimePasses

RegistrySpec == RegistryInit /\ [][RegistryNext]_registryVars

-----------------------------------------------------------------------------
(* Properties *)

Envelopes == [root : {Ours, Other}, reg : Registries]

Pins == [network : {Ours, Other}, relay : Relays]

RegistryTypeOK ==
    /\ instant \in Nat
    /\ draft \in Registries
    /\ signed \subseteq Registries
    /\ copy \in Envelopes \cup {Junk, NoFile}
    /\ updates \in [Updaters -> {AtRest} \cup [pc : {"compare"}, body : Envelopes]
                        \cup [pc : {"write"}, body : Envelopes, read : Envelopes \cup {Junk, NoFile}]]
    /\ anchors \in Seq(Pins)
    /\ enrolls \in [Enrollers -> {AtRest} \cup [pc : {"write"}, pin : Pins, read : Seq(Pins)]]
    /\ fetched \in BOOLEAN /\ overlapped \in BOOLEAN

\* A key the member's copy has shown as revoked speaks for nobody again, however
\* old the registry a hub serves, however long the copy has expired, and whoever
\* is enrolled next.  Commands that overlap are left out: each compares before
\* the other writes (registryfetch.go:8, :76, enroll_add.go:515).
RevokedStaysDown ==
    ~ overlapped /\ VerifyAndLoad(Ours, copy, 0, instant, MaxStaleness) =>
        \A t \in downs : ~ resolveTuple(copy.reg, t[1], t[2], instant)

\* What fetch-registry wrote is signed by the root it would ask for now:
\* enrolling in a second network neither turns the first one's copy into a
\* stranger nor lets a hub of the second replace it (anchor.go:136,
\* identity_fetch_registry_helpers.go:55).
CopyFollowsPin ==
    fetched /\ ~ overlapped => IsEnvelope(copy) /\ anchors # <<>> /\ copy.root = resolveRootPin

\* The countdown says what the verifier will say: a registry with d days left is
\* not refused for its age or its window for d days, one past due is refused now,
\* and the check without a root gives the same verdict as the whole one
\* (identity_paths.go:148, freshness.go:25).  The last day ends with a whole second.
FreshnessForeseen ==
    \A reg \in signed :
        LET d == registryDaysLeft(reg, instant)
        IN  /\ IsStaleAt(reg, instant, MaxStaleness) <=> Stale(reg, instant, MaxStaleness)
            /\ d < 0 => Stale(reg, instant, MaxStaleness)
            /\ d >= 0 => \A k \in 0 .. d * Day : ~ Stale(reg, (Seconds(instant) + k) * Fraction, MaxStaleness)
=============================================================================
