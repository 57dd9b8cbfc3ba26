------------------------------ MODULE MCIdentity -----------------------------
(***************************************************************************)
(* Small instances of Keeper: two owners, a reader, two grants that share  *)
(* an id and come from different owners, a policy before and after the     *)
(* first owner's key rotated and its keeper changed hands.                 *)
(*                                                                         *)
(* And of RegistryTrust: an agent and a human who holds god, a new key for *)
(* the agent and a second human who would hold god.                        *)
(*                                                                         *)
(* The two share no state in this repository (a keeper is given a registry *)
(* that was loaded for it), so a behaviour is one of either, and the other *)
(* module rests.                                                           *)
(***************************************************************************)
EXTENDS Keeper, RegistryTrust, TLC

VARIABLE part    \* which of the two moves

Control(from, keeper, action, issued, nonce, gid) ==
    [from |-> from, epoch |-> 1, keeper |-> keeper, action |-> action,
     issued |-> issued, nonce |-> nonce, gid |-> gid]

\* an owner's command, and a read by a grant
MCRequests == {Control("reader", "k1", "pause", 1, "n1", "none"),
               Control("reader", "k1", "read_status", 2, "n1", "g")}

MCGrants == {[id |-> "g", from |-> "owner", epoch |-> 1, grantee |-> "reader",
              keepers |-> {"k1"}, scopes |-> {"status"}, expires |-> 3],
             [id |-> "g", from |-> "other", epoch |-> 1, grantee |-> "reader",
              keepers |-> {"k2"}, scopes |-> {"status", "context"}, expires |-> 4]}

MCRevokes == {[gid |-> "g", from |-> "owner", epoch |-> 1, issued |-> 2, nonce |-> "n2"]}

MCSymmetry == Permutations(Calls)

MCPolicies ==
    {[live |-> {<<"owner", 1>>, <<"other", 1>>, <<"reader", 1>>},
      owners |-> [k \in {"k1", "k2"} |-> IF k = "k1" THEN "owner" ELSE "other"],
      from |-> 1, until |-> 4],
     [live |-> {<<"other", 1>>, <<"reader", 1>>},
      owners |-> [k \in {"k1", "k2"} |-> IF k = "k1" THEN "reader" ELSE "other"],
      from |-> 2, until |-> 3]}

Request(slug, keyEpoch, class, god) ==
    [slug |-> slug, keyEpoch |-> keyEpoch, class |-> class, god |-> god]

MCEnrollments == {Request("a", 2, "agent", FALSE), Request("b", 1, "human", TRUE)}

MCFirstRegistries ==
    {Registry(1, 0, 2, {Binding(Request("a", 1, "agent", FALSE), 0, 2),
                        Binding(Request("h", 1, "human", TRUE), 0, 2)})}

IdentityInit ==
    /\ Init /\ RegistryInit
    /\ \/ part = "keeper" /\ copy = Junk
       \/ part = "registry" /\ policy = CHOOSE p \in Policies : TRUE

IdentityNext ==
    /\ UNCHANGED part
    /\ \/ part = "keeper" /\ Next /\ UNCHANGED registryVars
       \/ part = "registry" /\ RegistryNext /\ UNCHANGED vars

IdentitySpec == IdentityInit /\ [][IdentityNext]_<<part, vars, registryVars>>
=============================================================================
