----------------------------- MODULE Membership -----------------------------
(***************************************************************************)
(* Who belongs to a tenant: memberships, invitations and the scopes they    *)
(* carry (membership.service.ts, invitation.service.ts,                     *)
(* access-scope.service.ts and their repositories and controllers).         *)
(*                                                                         *)
(* No service here opens a transaction: every repository call is a          *)
(* statement of its own, so a request is a slot that goes through its       *)
(* statements one step at a time while other requests do the same, and it   *)
(* may die between any two of them.                                         *)
(***************************************************************************)
EXTENDS Naturals, Sequences, FiniteSets

CONSTANTS
    Identities,     \* platform identities: some are members, some are not yet
    Founders,       \* identities that start as active tenant owners
    Emails,
    Offers,         \* what an invitation may carry: [role, scopeType, scopeRef]
    NewRoles,       \* roles changeRole is asked for
    Slots,          \* requests the server handles at one time
    NoScope,        \* an absent scope_type or scope_ref_id
    MaxRequests     \* bound: requests that take a slot

ASSUME MembershipAssumption ==
    /\ Founders \subseteq Identities /\ Founders # {}
    /\ MaxRequests \in Nat

VARIABLES
    members,     \* Membership rows: [role, status, via]
    invitations, \* Invitation rows by creation
    scopes,      \* AccessScopeAssignment rows: <<identity, invitation>>
    lapsed,      \* invitations whose expires_at has passed
    calls,       \* what every slot is doing
    requests,    \* requests so far
    overlapped,  \* history: two membership operations ran at the same time
    doubled      \* history: invitations two requests were accepting at once, or
                 \* whose accept died after it let somebody in

memVars == <<members, invitations, scopes, lapsed, calls, requests, overlapped, doubled>>

NoRow  == [status |-> "none", role |-> "none", via |-> 0]
Idle   == [op |-> "idle"]
-----------------------------------------------------------------------------
\* VALID_TRANSITIONS
ValidTransitions(status) ==
    CASE status = "invited"              -> {"pending_verification", "active", "deactivated"}
      [] status = "pending_verification" -> {"active", "deactivated"}
      [] status = "active"               -> {"suspended", "deactivated", "expired"}
      [] status = "suspended"            -> {"active", "deactivated"}
      [] status = "expired"              -> {"active"}
      [] OTHER                           -> {}

\* SYSTEM_ROLE_PERMISSIONS, for the permissions these controllers ask.
PermissionsOf(role) ==
    IF role \in {"tenant_owner", "location_manager"}
    THEN {"membership.invite", "membership.status.change", "membership.role.assign"}
    ELSE {}

\* TenantContextResolver: only an active member has a context.
Resolved(a) == members[a].status = "active"

\* assertIdentityPermission: the role the actor's row has grants it.
Authorized(a, permission) ==
    /\ Resolved(a)
    /\ permission \in PermissionsOf(members[a].role)

\* create() and assign() refuse a scope nobody named.
ScopeIsExplicit(o) ==
    /\ o.scopeType # NoScope
    /\ o.scopeType # "tenant_wide" => o.scopeRef # NoScope

ActiveOwners == {i \in Identities : members[i].role = "tenant_owner" /\ members[i].status = "active"}

MemInit ==
    /\ members = [i \in Identities |-> IF i \in Founders
                    THEN [status |-> "active", role |-> "tenant_owner", via |-> 0] ELSE NoRow]
    /\ invitations = <<>> /\ scopes = {} /\ lapsed = {}
    /\ calls = [s \in Slots |-> Idle]
    /\ requests = 0 /\ overlapped = FALSE /\ doubled = {}

\* A request goes on to its next statement, or is done.
Goto(s, call) == calls' = [calls EXCEPT ![s] = call]
Finish(s) == Goto(s, Idle)

\* A request takes a free slot.  IdempotencyKeyGuard looks at the form of its
\* key and remembers nothing: a request sent again is one more request.
Take(s, call) ==
    /\ calls[s] = Idle /\ requests < MaxRequests
    /\ requests' = requests + 1
    /\ Goto(s, call)
MembershipOps == {"status", "role"}

\* A membership operation starts: it has read its row.
Begin(s, call) ==
    /\ Take(s, call)
    /\ overlapped' = (overlapped \/ \E t \in Slots : calls[t].op \in MembershipOps)
    /\ UNCHANGED <<members, invitations, scopes, lapsed, doubled>>

\* checkLastOwnerSafeguard needs the count only when an active owner stops
\* being one.
NeedsCount(row, staysOwner) ==
    row.role = "tenant_owner" /\ row.status = "active" /\ ~staysOwner

\* suspend, reinstate and deactivate: the row is read and the transition judged.
Transition(s, a, i, target) ==
    /\ Authorized(a, "membership.status.change")
    /\ members[i] # NoRow
    /\ target \in ValidTransitions(members[i].status)
    /\ Begin(s, [op |-> "status", id |-> i, to |-> target,
                 pc |-> IF NeedsCount(members[i], target = "active" /\ members[i].role = "tenant_owner")
                        THEN "count" ELSE "write"])

ChangeRole(s, a, i, role) ==
    /\ Authorized(a, "membership.role.assign")
    /\ members[i] # NoRow
    /\ Begin(s, [op |-> "role", id |-> i, to |-> role,
                 pc |-> IF NeedsCount(members[i], role = "tenant_owner")
                        THEN "count" ELSE "write"])

\* A mutant: the last owner counts as enough.
CountAllowsLast(s) ==
    /\ calls[s].op \in MembershipOps /\ calls[s].pc = "count"
    /\ IF Cardinality(ActiveOwners) < 1 THEN Finish(s)
       ELSE Goto(s, [calls[s] EXCEPT !.pc = "write"])
    /\ UNCHANGED <<members, invitations, scopes, lapsed, requests, overlapped, doubled>>
\* countActiveByRole: with one owner left the operation is refused.
CountOwners(s) ==
    /\ calls[s].op \in MembershipOps /\ calls[s].pc = "count"
    /\ IF Cardinality(ActiveOwners) <= 1 THEN Finish(s)
       ELSE Goto(s, [calls[s] EXCEPT !.pc = "write"])
    /\ UNCHANGED <<members, invitations, scopes, lapsed, requests, overlapped, doubled>>

\* updateStatus and updateRole write whatever the row has become meanwhile.
WriteMember(s) ==
    /\ calls[s].op \in MembershipOps /\ calls[s].pc = "write"
    /\ members' = [members EXCEPT ![calls[s].id] =
            IF calls[s].op = "status" THEN [@ EXCEPT !.status = calls[s].to]
                                      ELSE [@ EXCEPT !.role = calls[s].to]]
    /\ Finish(s)
    /\ UNCHANGED <<invitations, scopes, lapsed, requests, overlapped, doubled>>
-----------------------------------------------------------------------------
(* Invitations                                                              *)

Pending(e) == {n \in DOMAIN invitations :
                 invitations[n].email = e /\ invitations[n].status = "pending"}

\* create: one pending invitation of the address, if there is any, is to be
\* revoked before the new one is saved.
Invite(s, a, e, o) ==
    /\ Authorized(a, "membership.invite")
    /\ ScopeIsExplicit(o)
    /\ IF Pending(e) = {}
       THEN Take(s, [op |-> "invite", pc |-> "save", email |-> e, offer |-> o])
       ELSE \E n \in Pending(e) :
              Take(s, [op |-> "invite", pc |-> "revoke", email |-> e, offer |-> o, old |-> n])
    /\ UNCHANGED <<members, invitations, scopes, lapsed, overlapped, doubled>>

SetStatus(n, status) == invitations' = [invitations EXCEPT ![n].status = status]

\* markRevoked of the stale invitation.
RevokeStale(s) ==
    /\ calls[s].op = "invite" /\ calls[s].pc = "revoke"
    /\ SetStatus(calls[s].old, "revoked")
    /\ Goto(s, [op |-> "invite", pc |-> "save", email |-> calls[s].email, offer |-> calls[s].offer])
    /\ UNCHANGED <<members, scopes, lapsed, requests, overlapped, doubled>>

SaveInvitation(s) ==
    /\ calls[s].op = "invite" /\ calls[s].pc = "save"
    /\ invitations' = Append(invitations,
            [email |-> calls[s].email, role |-> calls[s].offer.role, status |-> "pending"])
    /\ Finish(s)
    /\ UNCHANGED <<members, scopes, lapsed, requests, overlapped, doubled>>

Accepting(n) == {s \in Slots : calls[s].op = "accept" /\ calls[s].inv = n}

\* accept: the token is looked up and its status and expiry judged.
Accept(s, who, n) ==
    /\ invitations[n].status = "pending"
    /\ Take(s, [op |-> "accept", pc |-> IF n \in lapsed THEN "expire" ELSE "lookup",
                inv |-> n, who |-> who])
    /\ doubled' = IF Accepting(n) = {} THEN doubled ELSE doubled \cup {n}
    /\ UNCHANGED <<members, invitations, scopes, lapsed, overlapped>>

ExpireOnAccept(s) ==
    /\ calls[s].op = "accept" /\ calls[s].pc = "expire"
    /\ SetStatus(calls[s].inv, "expired")
    /\ Finish(s)
    /\ UNCHANGED <<members, scopes, lapsed, requests, overlapped, doubled>>

\* findByIdentity: only a deactivated membership lets the accept go on.
LookupMember(s) ==
    /\ calls[s].op = "accept" /\ calls[s].pc = "lookup"
    /\ IF members[calls[s].who].status \in {"none", "deactivated"}
       THEN Goto(s, [calls[s] EXCEPT !.pc = "save"]) ELSE Finish(s)
    /\ UNCHANGED <<members, invitations, scopes, lapsed, requests, overlapped, doubled>>

\* save: @@unique(identityId, tenantId) refuses a second row, a deactivated one
\* included.
SaveMember(s) ==
    /\ calls[s].op = "accept" /\ calls[s].pc = "save"
    /\ IF members[calls[s].who] # NoRow
       THEN Finish(s) /\ UNCHANGED members
       ELSE /\ members' = [members EXCEPT ![calls[s].who] =
                    [status |-> "active", role |-> invitations[calls[s].inv].role,
                     via |-> calls[s].inv]]
            /\ Goto(s, [calls[s] EXCEPT !.pc = "scope"])
    /\ UNCHANGED <<invitations, scopes, lapsed, requests, overlapped, doubled>>

\* accessScope.assign
AssignScope(s) ==
    /\ calls[s].op = "accept" /\ calls[s].pc = "scope"
    /\ scopes' = scopes \cup {<<calls[s].who, calls[s].inv>>}
    /\ Goto(s, [calls[s] EXCEPT !.pc = "mark"])
    /\ UNCHANGED <<members, invitations, lapsed, requests, overlapped, doubled>>

\* markAccepted, whatever the status has become.
MarkAccepted(s) ==
    /\ calls[s].op = "accept" /\ calls[s].pc = "mark"
    /\ SetStatus(calls[s].inv, "accepted")
    /\ Finish(s)
    /\ UNCHANGED <<members, scopes, lapsed, requests, overlapped, doubled>>

\* expire and revoke: a no-op unless the invitation was pending when read.
CloseInvitation(s, a, n, status) ==
    /\ Authorized(a, "membership.invite")
    /\ invitations[n].status = "pending"
    /\ Take(s, [op |-> "close", inv |-> n, to |-> status])
    /\ UNCHANGED <<members, invitations, scopes, lapsed, overlapped, doubled>>

WriteClosed(s) ==
    /\ calls[s].op = "close"
    /\ SetStatus(calls[s].inv, calls[s].to)
    /\ Finish(s)
    /\ UNCHANGED <<members, scopes, lapsed, requests, overlapped, doubled>>

\* Seven days pass.
Lapse(n) ==
    /\ n \notin lapsed
    /\ lapsed' = lapsed \cup {n}
    /\ UNCHANGED <<members, invitations, scopes, calls, requests, overlapped, doubled>>

\* The process or its database connection dies: the rest is never run.
Die(s) ==
    /\ calls[s] # Idle
    /\ Finish(s)
    /\ doubled' = IF calls[s].op = "accept" /\ calls[s].pc \in {"scope", "mark"}
                  THEN doubled \cup {calls[s].inv} ELSE doubled
    /\ UNCHANGED <<members, invitations, scopes, lapsed, requests, overlapped>>

\* MembershipController: suspend, reinstate, deactivate and role.
MembershipRoutes(s, a) ==
    \E i \in Identities :
        \/ \E t \in {"suspended", "active", "deactivated"} : Transition(s, a, i, t)
        \/ \E r \in NewRoles : ChangeRole(s, a, i, r)

\* InvitationController: whoever has the token may accept.
InvitationRoutes(s, a) ==
    \/ \E e \in Emails, o \in Offers : Invite(s, a, e, o)
    \/ \E n \in DOMAIN invitations :
         \/ Accept(s, a, n)
         \/ \E st \in {"expired", "revoked"} : CloseInvitation(s, a, n, st)

MemNext ==
    \/ \E s \in Slots, a \in Identities : MembershipRoutes(s, a) \/ InvitationRoutes(s, a)
    \/ \E s \in Slots : \/ CountOwners(s) \/ WriteMember(s)
                        \/ RevokeStale(s) \/ SaveInvitation(s)
                        \/ ExpireOnAccept(s) \/ LookupMember(s) \/ SaveMember(s)
                        \/ AssignScope(s) \/ MarkAccepted(s) \/ WriteClosed(s)
                        \/ Die(s)
    \/ \E n \in DOMAIN invitations : Lapse(n)
-----------------------------------------------------------------------------
\* "block any operation ... that would leave the Tenant with zero active
\* Owners" (membership.service.ts:94): true as long as no two status or role
\* changes are in flight together.  When they are, both may count the same two
\* owners and each take one away: the count and the write are two statements.
OwnerKept == ~overlapped => ActiveOwners # {}

\* Members an invitation let in.
LetIn(n) == {i \in Identities : members[i].via = n}

\* An accepted invitation let somebody in with the scope it carried, whatever
\* raced or died; and its token, "single-use", let in one identity unless two
\* accepts had both read it as pending, or one died before it marked it.
InvitationHonoured ==
    \A n \in DOMAIN invitations :
        /\ invitations[n].status = "accepted" => \E i \in LetIn(n) : <<i, n>> \in scopes
        /\ Cardinality(LetIn(n)) > 1 => n \in doubled

\* The tenant keeps an owner, and gains members only as they were invited.
MembershipSafe == OwnerKept /\ InvitationHonoured
=============================================================================
