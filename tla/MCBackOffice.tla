---------------------------- MODULE MCBackOffice ----------------------------
(***************************************************************************)
(* The parts of the back office that keep state of their own: members and   *)
(* invitations, the permission policy, sign-in sessions, user rights, the   *)
(* terminal registry and seller commissions; and the way a failure takes    *)
(* from a handler to a till.  They share no table that two of them write,   *)
(* so one behaviour follows one part, chosen at the start, and the others   *)
(* stay as they are.                                                        *)
(***************************************************************************)
EXTENDS Membership, PermissionPolicy, Sessions, UserRights, TerminalRegistry,
        SellerPeriods, ErrorPath

VARIABLE part

\* An explicit scope, and one nobody named.
SmallOffers == {[role |-> "cashier", scopeType |-> "location", scopeRef |-> "l1"],
                [role |-> "tenant_owner", scopeType |-> NoScope, scopeRef |-> NoScope]}

\* Two instances of one release and one of the release before.
Rollout == [i \in Instances |-> IF i = "old" THEN 2 ELSE 3]

Roles == [u \in Users |-> IF u = "mona" THEN "owner" ELSE "branch_manager"]
ManagerGrants == [r \in {"branch_manager"} |-> {"users.manage"}]
OneBranch == [u \in Users |-> "b1"]

Term(r, t, b) == [rate |-> r, target |-> t, bonus |-> b]
StartPlan == Term(0, -1, 0)
SmallPlans == {StartPlan, Term(5, 1000, 100)}
OneSale == {[id |-> 1, seller |-> "sami", day |-> 1, amount |-> 1050]}

\* The first attempt and the last two delays, the last with the most jitter.
SomeHashes == (1 :> 2999) @@ (6 :> 7) @@ (7 :> 179999)

boVars == <<memVars, polVars, sesVars, rightsVars, regVars, selVars, errVars, part>>

Init ==
    /\ MemInit /\ PolInit /\ SesInit /\ RightsInit /\ RegInit /\ SelInit /\ ErrInit
    /\ part \in {"members", "policy", "sessions", "rights", "registry", "sellers",
                "failures"}
    /\ part # "policy" => snapshots = [v \in Versions |-> "absent"]
    /\ part # "failures" => sale.tries = 0

Next ==
    /\ UNCHANGED part
    /\ \/ /\ part = "members"  /\ MemNext
          /\ UNCHANGED <<polVars, sesVars, rightsVars, regVars, selVars, errVars>>
       \/ /\ part = "policy"   /\ PolNext
          /\ UNCHANGED <<memVars, sesVars, rightsVars, regVars, selVars, errVars>>
       \/ /\ part = "sessions" /\ SesNext
          /\ UNCHANGED <<memVars, polVars, rightsVars, regVars, selVars, errVars>>
       \/ /\ part = "rights"   /\ RightsNext
          /\ UNCHANGED <<memVars, polVars, sesVars, regVars, selVars, errVars>>
       \/ /\ part = "registry" /\ RegNext
          /\ UNCHANGED <<memVars, polVars, sesVars, rightsVars, selVars, errVars>>
       \/ /\ part = "sellers"  /\ SelNext
          /\ UNCHANGED <<memVars, polVars, sesVars, rightsVars, regVars, errVars>>
       \/ /\ part = "failures" /\ ErrNext
          /\ UNCHANGED <<memVars, polVars, sesVars, rightsVars, regVars, selVars>>

Spec == Init /\ [][Next]_boVars

\* Two requests, tabs, desks or people who close a period are interchangeable;
\* as a behaviour uses one kind of them, they are exchanged all at once.
Twins == {Slots, Tabs, Desks, Closers}
Exchanges(p, S) == \A x \in S : p[x] \in S \ {x}
Mirror ==
    {p \in Permutations(UNION Twins) :
        (\A S \in Twins : Exchanges(p, S)) \/ (\A x \in UNION Twins : p[x] = x)}

=============================================================================
