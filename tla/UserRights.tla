----------------------------- MODULE UserRights -----------------------------
(***************************************************************************)
(* What a user may do: the users of users.service.ts with their granted and *)
(* revoked capabilities (auth/permissions.ts), and the short cache of       *)
(* jwt.strategy.ts through which every guard sees them.  A lookup reads the *)
(* row, then the claims of the active membership (identity-claims.ts), and  *)
(* answers later; requests of the same user share it, and its answer is     *)
(* cached for Ttl from when it arrives, not from when it read.              *)
(***************************************************************************)
EXTENDS Naturals, FiniteSets

CONSTANTS
    Users,         \* accounts
    Capabilities,  \* CAPABILITIES
    RoleOf,        \* User.role of every account
    RoleGrants,    \* roleCapabilities
    BranchOf,      \* User.branch_id
    Ttl,           \* AUTH_RECHECK_TTL_MS, at most five seconds
    SlowestLookup, \* bound: how long a lookup takes
    MaxClock       \* bound: time that passes

ASSUME RightsAssumption ==
    /\ RoleOf \in [Users -> {"owner", "branch_manager", "cashier", "warehouse_manager", "seller"}]
    /\ Ttl \in Nat /\ SlowestLookup \in Nat /\ MaxClock \in Nat

VARIABLES
    now,
    exists,   \* accounts created so far
    granted,  \* User.granted_capabilities
    revoked,  \* User.revoked_capabilities
    changed,  \* when the row last changed
    enabled,  \* User.is_active
    member,   \* the account's membership is active
    cache,    \* [caps, tenant, readAt, until] of every user
    lookup    \* [caps, tenant, readAt] of a lookup under way

rightsVars == <<now, exists, granted, revoked, changed, enabled, member, cache, lookup>>

NoLookup == [caps |-> {}, tenant |-> "unread", readAt |-> MaxClock + 1]
NoEntry  == [caps |-> {}, tenant |-> "none", readAt |-> 0, until |-> 0]

\* effectiveCapabilities: an owner has them all; otherwise those of the role,
\* with the granted and without the revoked ones.
EffectiveCapabilities(u) ==
    IF RoleOf[u] = "owner" THEN Capabilities
    ELSE (RoleGrants[RoleOf[u]] \cup (granted[u] \cap Capabilities)) \ revoked[u]

RightsInit ==
    /\ now = 0
    /\ exists = {u \in Users : RoleOf[u] = "owner"}
    /\ granted = [u \in Users |-> {}] /\ revoked = [u \in Users |-> {}]
    /\ changed = [u \in Users |-> 0]
    /\ enabled = [u \in Users |-> TRUE] /\ member = [u \in Users |-> RoleOf[u] = "owner"]
    /\ cache = [u \in Users |-> NoEntry] /\ lookup = [u \in Users |-> NoLookup]

\* A mutant: an entry is used however old it is.
AnyEntry(u) == cache[u] # NoEntry
\* validate: the cached user decides the request while the entry is fresh.
CacheHit(u) == cache[u].until > now

\* validate: without a fresh entry a lookup is started, unless one is under way.
StartLookup(u) ==
    /\ u \in exists
    /\ ~CacheHit(u) /\ lookup[u] = NoLookup
    /\ enabled[u]
    /\ lookup' = [lookup EXCEPT ![u] = [caps |-> EffectiveCapabilities(u), tenant |-> "unread",
                                         readAt |-> now]]
    /\ UNCHANGED <<now, exists, granted, revoked, changed, enabled, member, cache>>

\* resolveIdentityClaims: the tenant and role of the active membership, or no
\* claims at all.
ResolveIdentityClaims(u) ==
    /\ lookup[u] # NoLookup /\ lookup[u].tenant = "unread"
    /\ lookup' = [lookup EXCEPT ![u].tenant = IF member[u] THEN "resolved" ELSE "none"]
    /\ UNCHANGED <<now, exists, granted, revoked, changed, enabled, member, cache>>

\* The lookup answers everybody who waits for it and is cached.
FinishLookup(u) ==
    /\ lookup[u].tenant # "unread"
    /\ cache' = IF Ttl = 0 THEN cache
                ELSE [cache EXCEPT ![u] = [caps |-> lookup[u].caps, tenant |-> lookup[u].tenant,
                                           readAt |-> lookup[u].readAt, until |-> now + Ttl]]
    /\ lookup' = [lookup EXCEPT ![u] = NoLookup]
    /\ UNCHANGED <<now, exists, granted, revoked, changed, enabled, member>>

\* assertCanManageRole: nobody manages an owner; a branch manager manages the
\* staff of the own branch.
CanManage(a, u) ==
    /\ RoleOf[u] # "owner"
    /\ \/ RoleOf[a] = "owner"
       \/ /\ RoleOf[a] = "branch_manager" /\ BranchOf[a] = BranchOf[u]
          /\ RoleOf[u] \in {"cashier", "warehouse_manager", "seller"}

\* TenantContextGuard: without an active membership there is no tenant.
HasTenantContext(a) == CacheHit(a) /\ cache[a].tenant = "resolved"

\* MEMBERSHIP_ROLE_FOR: the role of the membership that an account is created with.
MembershipRoleFor(role) ==
    CASE role = "owner" -> "tenant_owner"
      [] role = "branch_manager" -> "location_manager"
      [] OTHER -> role

\* PermissionGuard: membership.invite and membership.role.assign are granted to
\* these two roles (system-roles.ts).
PermissionGranted(a) ==
    /\ cache[a].tenant = "resolved"
    /\ MembershipRoleFor(RoleOf[a]) \in {"tenant_owner", "location_manager"}

\* RolesGuard, with what the strategy put on the request; both guards after it.
MayManageUsers(a) ==
    CacheHit(a) /\ "users.manage" \in cache[a].caps /\ HasTenantContext(a) /\ PermissionGranted(a)

\* UsersRepository.save: the account and its membership in one transaction.
Save(u) ==
    /\ exists' = exists \cup {u}
    /\ member' = [member EXCEPT ![u] = TRUE]
    /\ changed' = [changed EXCEPT ![u] = now]

CreateUser(a, u) ==
    /\ MayManageUsers(a) /\ CanManage(a, u)
    /\ u \notin exists
    /\ Save(u)
    /\ UNCHANGED <<now, granted, revoked, enabled, cache, lookup>>

\* updatePermissions: nothing granted and revoked at once, nothing granted that
\* the actor's request did not carry; both lists are replaced.
UpdatePermissions(a, u, give, take) ==
    /\ MayManageUsers(a) /\ CanManage(a, u)
    /\ u \in exists
    /\ give \cap take = {}
    /\ give \subseteq cache[a].caps
    /\ granted' = [granted EXCEPT ![u] = give]
    /\ revoked' = [revoked EXCEPT ![u] = take]
    /\ changed' = [changed EXCEPT ![u] = now]
    /\ UNCHANGED <<now, exists, enabled, member, cache, lookup>>

\* An administrator switches the account off in the database.
Disable(u) ==
    /\ u \in exists /\ enabled[u] /\ RoleOf[u] # "owner"
    /\ enabled' = [enabled EXCEPT ![u] = FALSE]
    /\ changed' = [changed EXCEPT ![u] = now]
    /\ UNCHANGED <<now, exists, granted, revoked, member, cache, lookup>>

\* MembershipRepository.updateStatus: a membership is suspended or reactivated;
\* the only owner's is not (Membership has the safeguard).
UpdateStatus(u) ==
    /\ u \in exists /\ RoleOf[u] # "owner"
    /\ member' = [member EXCEPT ![u] = ~@]
    /\ changed' = [changed EXCEPT ![u] = now]
    /\ UNCHANGED <<now, exists, granted, revoked, enabled, cache, lookup>>

\* The users page: a new account, or both lists of an account edited.
UsersPage(a) ==
    \E u \in Users :
        \/ CreateUser(a, u)
        \/ \E give, take \in SUBSET Capabilities : UpdatePermissions(a, u, give, take)

\* Time passes, as long as no lookup is slower than SlowestLookup.
RightsTick ==
    /\ now < MaxClock
    /\ \A u \in Users : lookup[u] = NoLookup \/ lookup[u].readAt + SlowestLookup > now
    /\ now' = now + 1
    /\ UNCHANGED <<exists, granted, revoked, changed, enabled, member, cache, lookup>>

RightsNext ==
    \/ \E u \in Users : \/ StartLookup(u) \/ ResolveIdentityClaims(u) \/ FinishLookup(u)
                       \/ Disable(u) \/ UpdateStatus(u)
    \/ \E a \in Users : UsersPage(a)
    \/ RightsTick
-----------------------------------------------------------------------------
\* "role, branch, disable, and revocation changes still take effect within 1
\* second" (jwt.strategy.ts:64): no request is decided from a row that was
\* changed Ttl or more before, plus the time one lookup may take, because the
\* answer of a lookup that read the row earlier is cached from its arrival on.
\* The same goes for a membership that was suspended.
Outdated(u, readAt) == readAt < changed[u] /\ now >= changed[u] + Ttl + SlowestLookup
RightsTakeEffect ==
    \A u \in Users : /\ CacheHit(u) => ~Outdated(u, cache[u].readAt)
                     /\ lookup[u] # NoLookup => ~Outdated(u, lookup[u].readAt)
=============================================================================
