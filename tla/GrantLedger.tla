---------------------------- MODULE GrantLedger ----------------------------
(***************************************************************************)
(* What a store of read grants promises (the GrantStore contract of        *)
(* internal/identity/keeperctl/stores.go and the "Delivery and revocation" *)
(* part of doc.go): a grant is installed, may be revoked, and may be       *)
(* forgotten only once it has expired.  There is no step from "revoked" to *)
(* "live", and no step that replaces one grant by another of the same id.  *)
(***************************************************************************)
EXTENDS Integers

CONSTANT Grants      \* signed grant documents: records [id, from, expires, ...]

VARIABLES
    clock,           \* seconds
    held             \* what the store says of each grant

ledgerVars == <<clock, held>>

Standing == {"none", "live", "revoked"}

Expired == {g \in Grants : clock >= g.expires}

\* the ledger after it has forgotten the grants of S
Without(S) == [g \in Grants |-> IF g \in S THEN "none" ELSE held[g]]

LedgerInit == held = [g \in Grants |-> "none"]

Pass == clock' > clock /\ UNCHANGED held

Forget == \E S \in SUBSET Expired : held' = Without(S) /\ UNCHANGED clock

\* a Put may forget expired grants in the same write
Install(g) ==
    \E S \in SUBSET Expired :
        /\ \A h \in Grants : h.id = g.id => Without(S)[h] = "none"
        /\ held' = [Without(S) EXCEPT ![g] = "live"]
        /\ UNCHANGED clock

Revoke(g) ==
    /\ held[g] = "live"
    /\ held' = [held EXCEPT ![g] = "revoked"]
    /\ UNCHANGED clock

LedgerNext == Pass \/ Forget \/ \E g \in Grants : Install(g) \/ Revoke(g)

LedgerSpec == LedgerInit /\ [][LedgerNext]_ledgerVars
============================================================================
