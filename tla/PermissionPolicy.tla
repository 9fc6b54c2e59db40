-------------------------- MODULE PermissionPolicy --------------------------
(***************************************************************************)
(* permission-policy.service.ts: the versioned snapshots of what every      *)
(* role may do.  ensureSeeded runs at start-up and before every permission  *)
(* check, in every instance of a rolling deployment, and its statements are *)
(* not in a transaction.  With it, the support access grants of             *)
(* support-access-grant.service.ts, which the same permissions guard.       *)
(***************************************************************************)
EXTENDS Naturals, FiniteSets, FiniteSetsExt

CONSTANTS
    Versions,       \* PERMISSION_POLICY_CURRENT_VERSION of the releases
    Instances,      \* server processes
    ReleaseOf,      \* the version each of them was built with
    Modes,          \* SupportAccessMode
    MaxGrantTime    \* bound: moments a grant can end at

ASSUME PolicyAssumption ==
    /\ \E latest \in Versions : latest \in Nat /\ Versions \subseteq 1 .. latest
    /\ ReleaseOf \in [Instances -> Versions]

VARIABLES
    snapshots, \* PermissionPolicySnapshot: "absent", "active" or "inactive"
    seeding,   \* what every instance is doing
    grant,     \* a SupportAccessGrant: [mode, until, revoked], or none
    moment     \* the clock of the grant

polVars == <<snapshots, seeding, grant, moment>>

Active == {v \in Versions : snapshots[v] = "active"}
\* findFirst where is_active, newest version first; 0 when there is none.
Newest == IF Active = {} THEN 0 ELSE Max(Active)
NoGrant == [mode |-> "none", until |-> 0, revoked |-> FALSE]

PolInit ==
    /\ \/ snapshots = [v \in Versions |-> "absent"]
       \/ \E w \in Versions :
            snapshots = [v \in Versions |-> IF v = w THEN "active" ELSE "absent"]
    /\ seeding = [i \in Instances |-> [pc |-> "idle", existing |-> 0]]
    /\ grant = NoGrant /\ moment = 0

\* A mutant: the old snapshot is switched off before the new one is created.
EnsureSeededRetiresFirst(i) ==
    /\ seeding[i].pc = "idle" /\ Newest < ReleaseOf[i]
    /\ seeding' = [seeding EXCEPT ![i] = [pc |-> "create", existing |-> Newest]]
    /\ snapshots' = [v \in Versions |-> IF v = Newest THEN "inactive" ELSE snapshots[v]]
    /\ UNCHANGED <<grant, moment>>
\* ensureSeeded: a snapshot at least as new as this release is used as it is.
EnsureSeeded(i) ==
    /\ seeding[i].pc = "idle" /\ Newest < ReleaseOf[i]
    /\ seeding' = [seeding EXCEPT ![i] = [pc |-> "create", existing |-> Newest]]
    /\ UNCHANGED <<snapshots, grant, moment>>

\* The unique version lets one create win; the loser reads what the winner wrote.
CreateSnapshot(i) ==
    /\ seeding[i].pc = "create"
    /\ IF snapshots[ReleaseOf[i]] = "absent"
       THEN /\ snapshots' = [snapshots EXCEPT ![ReleaseOf[i]] = "active"]
            /\ seeding' = [seeding EXCEPT ![i].pc = IF seeding[i].existing # 0
                                                   THEN "retire" ELSE "idle"]
       ELSE /\ seeding' = [seeding EXCEPT ![i].pc = "idle"]
            /\ UNCHANGED snapshots
    /\ UNCHANGED <<grant, moment>>

\* The snapshot that was read is switched off.
RetireSnapshot(i) ==
    /\ seeding[i].pc = "retire"
    /\ snapshots' = [snapshots EXCEPT ![seeding[i].existing] = "inactive"]
    /\ seeding' = [seeding EXCEPT ![i].pc = "idle"]
    /\ UNCHANGED <<grant, moment>>

InstanceDies(i) ==
    /\ seeding[i].pc # "idle"
    /\ seeding' = [seeding EXCEPT ![i].pc = "idle"]
    /\ UNCHANGED <<snapshots, grant, moment>>

\* A grant beyond metadata needs consent, break-glass excepted, and a future end.
CreateGrant(mode, until, consent) ==
    /\ grant = NoGrant
    /\ until > moment
    /\ mode \in {"metadata_only", "break_glass"} \/ consent
    /\ grant' = [mode |-> mode, until |-> until, revoked |-> FALSE]
    /\ UNCHANGED <<snapshots, seeding, moment>>

\* revoke(): also of a grant that was revoked before.
RevokeGrant ==
    /\ grant # NoGrant
    /\ grant' = [grant EXCEPT !.revoked = TRUE]
    /\ UNCHANGED <<snapshots, seeding, moment>>

\* checkActive
GrantIsActive == grant # NoGrant /\ ~grant.revoked /\ grant.until > moment

GrantClock ==
    /\ moment < MaxGrantTime /\ moment' = moment + 1
    /\ UNCHANGED <<snapshots, seeding, grant>>

\* SupportAccessGrantController
SupportRoutes ==
    \/ \E m \in Modes, u \in 1 .. MaxGrantTime, c \in BOOLEAN : CreateGrant(m, u, c)
    \/ RevokeGrant

PolNext ==
    \/ \E i \in Instances : \/ EnsureSeeded(i) \/ CreateSnapshot(i)
                            \/ RetireSnapshot(i) \/ InstanceDies(i)
    \/ SupportRoutes
    \/ GrantClock
-----------------------------------------------------------------------------
\* The policy permission checks read is never taken away or set back, neither
\* by releases that start side by side nor by one that dies half way: once a
\* version is in force only a newer one replaces it.  And a support access
\* that is over stays over.
PolicyForward ==
    [][/\ Newest' >= Newest
       /\ grant # NoGrant /\ ~GrantIsActive => ~GrantIsActive']_polVars
=============================================================================
