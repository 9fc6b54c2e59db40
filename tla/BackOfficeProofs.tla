---------------------------- MODULE BackOfficeProofs ----------------------------
(***************************************************************************)
(* Proofs about the parts of the back office that keep state of their own,  *)
(* for any members, invitations, tabs, users, terminals, sellers and        *)
(* requests under way.  Each part has its inductive invariant and its       *)
(* proof; the last section carries the results over to the composition      *)
(* MCBackOffice, whose behaviours follow one part each.                     *)
(***************************************************************************)
EXTENDS MCBackOffice, FiniteSetTheorems, SequenceTheorems, WellFoundedInduction, TLAPS

(***************************************************************************)
(* Members and invitations: Membership.                                    *)
(***************************************************************************)

\* Members and invitations on their own.
MemSpec == MemInit /\ [][MemNext]_memVars

\* The roles an invitation may offer.
OfferedRoles == {o.role : o \in Offers}
\* The fields of a Membership row; via is the invitation that let the identity
\* in.
MemberRows ==
    [status : {"none", "active", "suspended", "deactivated"},
     role : {"none", "tenant_owner"} \cup OfferedRoles \cup NewRoles, via : Nat]
\* The fields of an Invitation row.
InvitationRows ==
    [email : Emails, role : OfferedRoles, status : {"pending", "accepted", "revoked", "expired"}]

\* A change of status between its statements.
StatusCalls ==
    [op : {"status"}, id : Identities, to : {"suspended", "active", "deactivated"},
     pc : {"count", "write"}]
\* A change of role between its statements.
RoleCalls == [op : {"role"}, id : Identities, to : NewRoles, pc : {"count", "write"}]
\* An acceptance between its statements.
AcceptCalls ==
    [op : {"accept"}, pc : {"expire", "lookup", "save", "scope", "mark"}, inv : Nat,
     who : Identities]

\* What a request in flight carries.
CallOK(s) ==
    /\ calls[s].op \in {"idle", "status", "role", "invite", "accept", "close"}
    /\ calls[s].op = "status" => calls[s] \in StatusCalls
    /\ calls[s].op = "role" => calls[s] \in RoleCalls
    /\ calls[s].op = "invite" =>
          /\ calls[s].pc \in {"revoke", "save"} /\ calls[s].email \in Emails
          /\ calls[s].offer \in Offers
          /\ calls[s].pc = "revoke" => calls[s].old \in DOMAIN invitations
    /\ calls[s].op = "accept" => calls[s] \in AcceptCalls /\ calls[s].inv \in DOMAIN invitations
    /\ calls[s].op = "close" =>
          calls[s].inv \in DOMAIN invitations /\ calls[s].to \in {"expired", "revoked"}

\* Type correctness of members, invitations and requests.
MemTypeOK ==
    /\ members \in [Identities -> MemberRows]
    /\ invitations \in Seq(InvitationRows)
    /\ calls = [s \in Slots |-> calls[s]]
    /\ overlapped \in BOOLEAN
    /\ \A s \in Slots : CallOK(s)
    /\ \A i \in Identities : members[i].via <= Len(invitations)

\* After the write of the call somebody is an active owner still.
WriteSafe(c) ==
    \E j \in ActiveOwners : \/ j # c.id
                            \/ c.op = "status" /\ c.to = "active"
                            \/ c.op = "role" /\ c.to = "tenant_owner"

\* As long as membership operations ran one at a time there is an owner, one of
\* them is under way at most, and its write leaves one.
OwnersOK ==
    ~overlapped =>
        /\ ActiveOwners # {}
        /\ \A s, t \in Slots :
              calls[s].op \in MembershipOps /\ calls[t].op \in MembershipOps => s = t
        /\ \A s \in Slots : calls[s].op \in MembershipOps /\ calls[s].pc = "write" =>
              WriteSafe(calls[s])

\* The slot has let its identity in and is not done.
LettingIn(s) == calls[s].op = "accept" /\ calls[s].pc \in {"scope", "mark"}

\* One invitation: accepted only with its scope; and unless two accepted it at
\* once it let in one identity, and none while it can still be accepted.
InvOK(n) ==
    /\ invitations[n].status = "accepted" =>
          \E i \in Identities : members[i].via = n /\ <<i, n>> \in scopes
    /\ n \notin doubled =>
          /\ \A i, j \in Identities : members[i].via = n /\ members[j].via = n => i = j
          /\ \A s, t \in Slots :
                calls[s].op = "accept" /\ calls[t].op = "accept" =>
                    (calls[s].inv = n /\ calls[t].inv = n => s = t)
          /\ \A i \in Identities : members[i].via = n =>
                /\ \A s \in Slots : calls[s].op = "accept" /\ calls[s].inv = n => LettingIn(s)
                /\ \/ invitations[n].status # "pending"
                   \/ \E s \in Slots : LettingIn(s) /\ calls[s].inv = n

\* A slot that lets somebody in: the row is there, and before the mark the scope.
EntryDone ==
    \A s \in Slots : LettingIn(s) =>
        /\ members[calls[s].who].via = calls[s].inv
        /\ calls[s].pc = "mark" => <<calls[s].who, calls[s].inv>> \in scopes

\* What holds of every invitation and every entry under way.
InvitesOK == EntryDone /\ \A n \in DOMAIN invitations : InvOK(n)

\* The inductive invariant of the members. MembershipSafe is not inductive: a
\* write that takes an owner away relies on a count made a statement before, and
\* an acceptance lets somebody in two statements before it marks the invitation.
MemInv == MemTypeOK /\ OwnersOK /\ InvitesOK

\* A tenant with its founders satisfies it.
LEMMA MemInitOK == MemInit => MemInv
  <1> SUFFICES ASSUME MemInit PROVE MemInv
    OBVIOUS
  <1>1. /\ members \in [Identities -> MemberRows]
        /\ \A i \in Founders : members[i].role = "tenant_owner" /\ members[i].status = "active"
        /\ \A i \in Identities : members[i].via = 0
    BY MembershipAssumption DEF MemInit, MemberRows, NoRow
  <1>2. /\ invitations = <<>> /\ overlapped = FALSE
        /\ calls = [s \in Slots |-> calls[s]] /\ \A s \in Slots : calls[s].op = "idle"
    BY DEF MemInit, Idle
  <1>3. \A s \in Slots : CallOK(s)
    BY <1>2 DEF CallOK
  <1>4. invitations \in Seq(InvitationRows) /\ Len(invitations) = 0 /\ DOMAIN invitations = {}
    BY <1>2
  <1>5. MemTypeOK
    <2>1. \A i \in Identities : members[i].via <= Len(invitations)
      BY <1>1, <1>4
    <2>. QED
      BY <1>1, <1>2, <1>3, <1>4, <2>1 DEF MemTypeOK
  <1>6. OwnersOK
    BY <1>1, <1>2, MembershipAssumption DEF OwnersOK, ActiveOwners, MembershipOps
  <1>7. InvitesOK
    BY <1>2, <1>4 DEF InvitesOK, EntryDone, LettingIn
  <1>. QED
    BY <1>5, <1>6, <1>7 DEF MemInv

\* A slot goes on.
LEMMA Gone ==
  ASSUME MemInv, NEW s \in Slots, NEW call, Goto(s, call)
  PROVE  /\ calls' = [t \in Slots |-> calls'[t]] /\ calls'[s] = call
         /\ \A t \in Slots : t # s => calls'[t] = calls[t]
  BY DEF MemInv, MemTypeOK, Goto

\* Steps that take no owner away and begin no membership operation.
LEMMA OwnersKept ==
  ASSUME MemInv, ActiveOwners \subseteq ActiveOwners', overlapped' = overlapped,
         \A t \in Slots : calls'[t] = calls[t] \/ calls'[t].op \notin MembershipOps
  PROVE  OwnersOK'
  <1>1. \A c : WriteSafe(c) => WriteSafe(c)'
    BY DEF WriteSafe
  <1>2. ASSUME ~overlapped PROVE OwnersOK'
    <2>1. /\ ActiveOwners # {}
          /\ \A s, t \in Slots :
                calls[s].op \in MembershipOps /\ calls[t].op \in MembershipOps => s = t
          /\ \A s \in Slots : calls[s].op \in MembershipOps /\ calls[s].pc = "write" =>
                WriteSafe(calls[s])
      BY <1>2 DEF MemInv, OwnersOK
    <2>2. ASSUME NEW s \in Slots, calls'[s].op \in MembershipOps, calls'[s].pc = "write"
          PROVE  WriteSafe(calls[s])'
      <3>1. calls'[s] = calls[s]
        BY <2>2
      <3>2. PICK c : c = calls[s]
        OBVIOUS
      <3>3. WriteSafe(c)'
        BY <1>1, <2>1, <2>2, <3>1, <3>2
      <3>. QED
        BY <3>1, <3>2, <3>3 DEF WriteSafe
    <2>. QED
      BY <2>1, <2>2 DEF OwnersOK
  <1>. QED
    BY <1>2 DEF OwnersOK

\* Steps that let nobody in, accept nothing and open no accept; a slot that has
\* let somebody in is given up only for an invitation that is closed or counted
\* among the doubled ones.
LEMMA InvitesKept ==
  ASSUME MemInv, \A i \in Identities : members'[i].via = members[i].via,
         scopes \subseteq scopes', doubled \subseteq doubled',
         \A t \in Slots : calls'[t].op = "accept" => calls'[t] = calls[t],
         \A t \in Slots : LettingIn(t) /\ calls'[t] # calls[t] => calls[t].inv \in doubled',
         NEW n \in DOMAIN invitations,
         \/ invitations'[n].status = invitations[n].status
         \/ invitations'[n].status \in {"revoked", "expired"}
  PROVE  InvOK(n)'
  <1>1. InvOK(n)
    BY DEF MemInv, InvitesOK
  <1>2. invitations'[n].status = "accepted" =>
          \E i \in Identities : members'[i].via = n /\ <<i, n>> \in scopes'
    BY <1>1 DEF InvOK
  <1>3. ASSUME n \notin doubled'
        PROVE  /\ \A i, j \in Identities : members'[i].via = n /\ members'[j].via = n => i = j
               /\ \A s, t \in Slots :
                    calls'[s].op = "accept" /\ calls'[t].op = "accept" =>
                        (calls'[s].inv = n /\ calls'[t].inv = n => s = t)
    <2>1. ASSUME NEW s \in Slots, NEW t \in Slots,
                 calls'[s].op = "accept" /\ calls'[s].inv = n,
                 calls'[t].op = "accept" /\ calls'[t].inv = n
          PROVE  s = t
      <3>1. calls'[s] = calls[s] /\ calls'[t] = calls[t]
        BY <2>1
      <3>. QED
        BY <1>1, <1>3, <2>1, <3>1 DEF InvOK
    <2>2. \A i, j \in Identities : members'[i].via = n /\ members'[j].via = n => i = j
      BY <1>1, <1>3 DEF InvOK
    <2>. QED
      BY <2>1, <2>2
  <1>4. ASSUME n \notin doubled', NEW i \in Identities, members'[i].via = n
        PROVE  /\ \A s \in Slots : calls'[s].op = "accept" /\ calls'[s].inv = n => LettingIn(s)'
               /\ \/ invitations'[n].status # "pending"
                  \/ \E s \in Slots : LettingIn(s)' /\ calls'[s].inv = n
    <2>1. /\ \A s \in Slots : calls[s].op = "accept" /\ calls[s].inv = n => LettingIn(s)
          /\ \/ invitations[n].status # "pending"
             \/ \E s \in Slots : LettingIn(s) /\ calls[s].inv = n
      BY <1>1, <1>4 DEF InvOK
    <2>2. \A s \in Slots : LettingIn(s) /\ calls[s].inv = n => calls'[s] = calls[s] /\ LettingIn(s)'
      BY <1>4 DEF LettingIn
    <2>3. \A s \in Slots : calls'[s].op = "accept" /\ calls'[s].inv = n => LettingIn(s)'
      BY <2>1, <2>2
    <2>. QED
      BY <2>1, <2>2, <2>3
  <1>. QED
    BY <1>2, <1>3, <1>4 DEF InvOK

\* Steps that change no via and open no acceptance keep the entries under way.
LEMMA EntriesKept ==
  ASSUME MemInv, \A i \in Identities : members'[i].via = members[i].via,
         scopes \subseteq scopes',
         \A t \in Slots : calls'[t].op = "accept" => calls'[t] = calls[t]
  PROVE  EntryDone'
  <1> SUFFICES ASSUME NEW s \in Slots, LettingIn(s)'
               PROVE  /\ members'[calls'[s].who].via = calls'[s].inv
                      /\ calls'[s].pc = "mark" => <<calls'[s].who, calls'[s].inv>> \in scopes'
    BY DEF EntryDone
  <1>1. calls'[s] = calls[s] /\ LettingIn(s)
    BY DEF LettingIn
  <1>2. calls[s].who \in Identities
    BY <1>1 DEF LettingIn, MemInv, MemTypeOK, CallOK, AcceptCalls
  <1>. QED
    BY <1>1, <1>2 DEF MemInv, InvitesOK, EntryDone

\* A slot takes a request or goes on with one that is neither a membership
\* operation nor an accept; the invitations may be closed or added to.
LEMMA SlotStep ==
  ASSUME MemInv, NEW s \in Slots, NEW call, Goto(s, call),
         UNCHANGED <<members, scopes, overlapped>>, doubled \subseteq doubled',
         call.op \notin MembershipOps, call.op # "accept",
         LettingIn(s) => calls[s].inv \in doubled',
         invitations' \in Seq(InvitationRows), DOMAIN invitations \subseteq DOMAIN invitations',
         Len(invitations) <= Len(invitations'),
         \A n \in DOMAIN invitations : \/ invitations'[n].status = invitations[n].status
                                       \/ invitations'[n].status \in {"revoked", "expired"},
         \A n \in DOMAIN invitations' \ DOMAIN invitations :
            invitations'[n].status = "pending" /\ n > Len(invitations),
         calls'[s] = call => CallOK(s)'
  PROVE  MemInv'
  <1>1. /\ calls' = [t \in Slots |-> calls'[t]] /\ calls'[s] = call
        /\ \A t \in Slots : t # s => calls'[t] = calls[t]
    BY Gone
  <1>2. \A t \in Slots : /\ calls'[t] = calls[t] \/ calls'[t].op \notin MembershipOps
                         /\ calls'[t].op = "accept" => calls'[t] = calls[t]
                         /\ LettingIn(t) /\ calls'[t] # calls[t] => calls[t].inv \in doubled'
    BY <1>1
  <1>3. OwnersOK'
    <2>1. ActiveOwners' = ActiveOwners
      BY DEF ActiveOwners
    <2>. QED
      BY <1>2, <2>1, OwnersKept
  <1>4. \A t \in Slots : CallOK(t)'
    <2> SUFFICES ASSUME NEW t \in Slots, t # s PROVE CallOK(t)'
      BY <1>1
    <2>1. CallOK(t) /\ calls'[t] = calls[t]
      BY <1>1 DEF MemInv, MemTypeOK
    <2>. QED
      BY <2>1 DEF CallOK
  <1>5. /\ Len(invitations) \in Nat /\ Len(invitations') \in Nat
        /\ \A i \in Identities : members[i].via \in Nat /\ members[i].via <= Len(invitations)
    BY DEF MemInv, MemTypeOK, MemberRows
  <1>6. MemTypeOK'
    <2>1. \A i \in Identities : members'[i].via <= Len(invitations')
      BY <1>5
    <2>. QED
      BY <1>1, <1>4, <2>1 DEF MemInv, MemTypeOK
  <1>7. EntryDone'
    BY <1>2, EntriesKept
  <1>8. ASSUME NEW n \in DOMAIN invitations' PROVE InvOK(n)'
    <2>1. CASE n \in DOMAIN invitations
      BY <1>2, <2>1, InvitesKept
    <2>2. CASE n \notin DOMAIN invitations
      <3>1. n > Len(invitations) /\ n \in Nat /\ invitations'[n].status = "pending"
        BY <1>8, <2>2
      <3>2. \A i \in Identities : members'[i].via # n
        BY <1>5, <3>1
      <3>3. \A t \in Slots : calls'[t].op = "accept" => calls'[t].inv # n
        BY <1>2, <2>2 DEF MemInv, MemTypeOK, CallOK
      <3>. QED
        BY <3>1, <3>2, <3>3 DEF InvOK
    <2>. QED
      BY <2>1, <2>2
  <1>. QED
    BY <1>3, <1>6, <1>7, <1>8 DEF MemInv, InvitesOK

\* SlotStep for requests that leave the invitations alone.
LEMMA QuietStep ==
  ASSUME MemInv, NEW s \in Slots, NEW call, Goto(s, call),
         UNCHANGED <<members, invitations, scopes, overlapped>>, doubled \subseteq doubled',
         call.op \notin MembershipOps, call.op # "accept",
         LettingIn(s) => calls[s].inv \in doubled',
         calls'[s] = call => CallOK(s)'
  PROVE  MemInv'
  <1>1. /\ invitations' \in Seq(InvitationRows) /\ DOMAIN invitations \subseteq DOMAIN invitations'
        /\ Len(invitations) <= Len(invitations')
    BY DEF MemInv, MemTypeOK
  <1>. QED
    BY <1>1, SlotStep

\* A free slot runs no operation.
LEMMA IdleCall == Idle.op \notin MembershipOps /\ Idle.op # "accept" /\ Idle.op = "idle"
  BY DEF Idle, MembershipOps

\* SlotStep for a request that sets the status of an invitation and goes on.
LEMMA ClosingStep ==
  ASSUME MemInv, NEW s \in Slots, NEW call, Goto(s, call),
         UNCHANGED <<members, scopes, overlapped, doubled>>,
         call.op \notin MembershipOps, call.op # "accept", ~LettingIn(s),
         NEW n \in DOMAIN invitations, NEW st \in {"revoked", "expired"},
         SetStatus(n, st),
         calls'[s] = call /\ DOMAIN invitations' = DOMAIN invitations => CallOK(s)'
  PROVE  MemInv'
  <1>1. PICK row : row = [invitations[n] EXCEPT !.status = st]
    OBVIOUS
  <1>2. invitations[n] \in InvitationRows /\ invitations \in Seq(InvitationRows)
    BY DEF MemInv, MemTypeOK
  <1>3. row \in InvitationRows /\ row.status = st
    BY <1>1, <1>2 DEF InvitationRows
  <1>4. invitations' = [invitations EXCEPT ![n] = row]
    BY <1>1 DEF SetStatus
  <1>5. /\ invitations' \in Seq(InvitationRows) /\ DOMAIN invitations = DOMAIN invitations'
        /\ Len(invitations) <= Len(invitations')
    BY <1>2, <1>3, <1>4
  <1>6. \A m \in DOMAIN invitations : \/ invitations'[m].status = invitations[m].status
                                      \/ invitations'[m].status \in {"revoked", "expired"}
    BY <1>2, <1>3, <1>4
  <1>. QED
    BY <1>5, <1>6, SlotStep

\* Opening an invitation, or the retry of one.
LEMMA InviteStep ==
  ASSUME MemInv, NEW s \in Slots, NEW a \in Identities, NEW e \in Emails, NEW o \in Offers,
         Invite(s, a, e, o)
  PROVE  MemInv'
  <1>1. PICK call : /\ Goto(s, call)
                    /\ call.op = "invite" /\ call.email = e /\ call.offer = o
                    /\ call.pc \in {"revoke", "save"}
                    /\ call.pc = "revoke" => call.old \in DOMAIN invitations
    <2>1. CASE Pending(e) = {}
      BY <2>1 DEF Invite, Take
    <2>2. CASE Pending(e) # {}
      <3>1. PICK n \in Pending(e) :
              Take(s, [op |-> "invite", pc |-> "revoke", email |-> e, offer |-> o, old |-> n])
        BY <2>2 DEF Invite
      <3>2. n \in DOMAIN invitations
        BY DEF Pending
      <3>. QED
        BY <3>1, <3>2 DEF Take
    <2>. QED
      BY <2>1, <2>2
  <1>2. calls[s] = Idle /\ UNCHANGED <<members, invitations, scopes, overlapped, doubled>>
    BY DEF Invite, Take
  <1>3. ~LettingIn(s) /\ call.op \notin MembershipOps /\ call.op # "accept"
    BY <1>1, <1>2, IdleCall DEF LettingIn, MembershipOps
  <1>4. calls'[s] = call => CallOK(s)'
    BY <1>1, <1>2 DEF CallOK
  <1>. QED
    BY <1>1, <1>2, <1>3, <1>4, QuietStep

\* The earlier pending invitation is revoked first.
LEMMA RevokeStaleStep ==
  ASSUME MemInv, NEW s \in Slots, RevokeStale(s)
  PROVE  MemInv'
  <1>1. PICK call : call = [op |-> "invite", pc |-> "save", email |-> calls[s].email,
                            offer |-> calls[s].offer]
    OBVIOUS
  <1>2. PICK n : n = calls[s].old
    OBVIOUS
  <1>3. /\ Goto(s, call) /\ SetStatus(n, "revoked") /\ calls[s].op = "invite" /\ calls[s].pc = "revoke"
        /\ UNCHANGED <<members, scopes, overlapped, doubled>>
    BY <1>1, <1>2 DEF RevokeStale
  <1>4. n \in DOMAIN invitations /\ calls[s].email \in Emails /\ calls[s].offer \in Offers
    BY <1>2, <1>3 DEF MemInv, MemTypeOK, CallOK
  <1>5. ~LettingIn(s) /\ call.op \notin MembershipOps /\ call.op # "accept"
    BY <1>1, <1>3 DEF LettingIn, MembershipOps
  <1>6. calls'[s] = call => CallOK(s)'
    BY <1>1, <1>4 DEF CallOK
  <1>. QED
    BY <1>3, <1>4, <1>5, <1>6, ClosingStep

\* A new invitation is pending and let nobody in.
LEMMA SaveInvitationStep ==
  ASSUME MemInv, NEW s \in Slots, SaveInvitation(s)
  PROVE  MemInv'
  <1>1. /\ calls[s].op = "invite" /\ Goto(s, Idle)
        /\ UNCHANGED <<members, scopes, overlapped, doubled>>
    BY DEF SaveInvitation, Finish
  <1>2. PICK row : row = [email |-> calls[s].email, role |-> calls[s].offer.role, status |-> "pending"]
    OBVIOUS
  <1>3. row \in InvitationRows /\ row.status = "pending"
    <2>1. calls[s].email \in Emails /\ calls[s].offer \in Offers
      BY <1>1 DEF MemInv, MemTypeOK, CallOK
    <2>. QED
      BY <1>2, <2>1 DEF InvitationRows, OfferedRoles
  <1>4. invitations' = Append(invitations, row) /\ invitations \in Seq(InvitationRows)
    BY <1>2 DEF SaveInvitation, MemInv, MemTypeOK
  <1>5. /\ invitations' \in Seq(InvitationRows) /\ DOMAIN invitations \subseteq DOMAIN invitations'
        /\ Len(invitations) <= Len(invitations')
        /\ \A n \in DOMAIN invitations : invitations'[n] = invitations[n]
        /\ \A n \in DOMAIN invitations' \ DOMAIN invitations :
              invitations'[n] = row /\ n > Len(invitations)
    BY <1>3, <1>4
  <1>6. ~LettingIn(s) /\ (calls'[s] = Idle => CallOK(s)')
    BY <1>1, IdleCall DEF LettingIn, CallOK
  <1>. QED
    BY <1>1, <1>3, <1>5, <1>6, IdleCall, SlotStep

\* An invitation is found and is about to be revoked or to expire.
LEMMA CloseStep ==
  ASSUME MemInv, NEW s \in Slots, NEW a \in Identities, NEW n \in DOMAIN invitations,
         NEW st \in {"expired", "revoked"}, CloseInvitation(s, a, n, st)
  PROVE  MemInv'
  <1>1. PICK call : call = [op |-> "close", inv |-> n, to |-> st]
    OBVIOUS
  <1>2. /\ Goto(s, call) /\ calls[s] = Idle
        /\ UNCHANGED <<members, invitations, scopes, overlapped, doubled>>
    BY <1>1 DEF CloseInvitation, Take
  <1>3. ~LettingIn(s) /\ call.op \notin MembershipOps /\ call.op # "accept"
    BY <1>1, <1>2, IdleCall DEF LettingIn, MembershipOps
  <1>4. calls'[s] = call => CallOK(s)'
    BY <1>1, <1>2 DEF CallOK
  <1>. QED
    BY <1>2, <1>3, <1>4, QuietStep

\* A request closes, or dies and leaves what it had written.
LEMMA DoneStep ==
  ASSUME MemInv, NEW s \in Slots,
         \/ WriteClosed(s) \/ ExpireOnAccept(s) \/ Die(s)
         \/ LookupMember(s) /\ Finish(s)
         \/ SaveMember(s) /\ Finish(s) /\ UNCHANGED members
  PROVE  MemInv'
  <1>0. calls'[s] = Idle => CallOK(s)'
    BY IdleCall DEF CallOK
  <1>1. CASE WriteClosed(s) \/ ExpireOnAccept(s)
    <2>1. PICK n \in DOMAIN invitations, st \in {"revoked", "expired"} :
             SetStatus(n, st) /\ Goto(s, Idle)
      BY <1>1 DEF WriteClosed, ExpireOnAccept, Finish, MemInv, MemTypeOK, CallOK
    <2>2. ~LettingIn(s) /\ UNCHANGED <<members, scopes, overlapped, doubled>>
      BY <1>1 DEF WriteClosed, ExpireOnAccept, LettingIn
    <2>. QED
      BY <1>0, <2>1, <2>2, IdleCall, ClosingStep
  <1>2. CASE Die(s)
    BY <1>0, <1>2, IdleCall, QuietStep DEF Die, Finish, LettingIn
  <1>3. CASE \/ LookupMember(s) /\ Finish(s)
             \/ SaveMember(s) /\ Finish(s) /\ UNCHANGED members
    BY <1>0, <1>3, IdleCall, QuietStep DEF LookupMember, SaveMember, Finish, LettingIn
  <1>. QED
    BY <1>1, <1>2, <1>3

\* Time passes for an invitation; no row changes.
LEMMA LapseStep ==
  ASSUME MemInv, NEW n, Lapse(n)
  PROVE  MemInv'
  BY DEF Lapse, MemInv, MemTypeOK, CallOK, OwnersOK, ActiveOwners, WriteSafe, InvitesOK, InvOK, EntryDone,
         LettingIn

\* With more than one active owner there is another one than i.
LEMMA AnotherOwner ==
  ASSUME ~(Cardinality(ActiveOwners) <= 1), NEW i
  PROVE  \E j \in ActiveOwners : j # i
  <1> SUFFICES ASSUME \A j \in ActiveOwners : j = i PROVE FALSE
    OBVIOUS
  <1>1. ActiveOwners = {} \/ ActiveOwners = {i}
    OBVIOUS
  <1>2. Cardinality(ActiveOwners) = 0 \/ Cardinality(ActiveOwners) = 1
    BY <1>1, FS_EmptySet, FS_Singleton
  <1>. QED
    BY <1>2

\* A membership operation goes on without writing.
LEMMA OperationStep ==
  ASSUME MemInv, NEW s \in Slots, NEW call, Goto(s, call),
         UNCHANGED <<members, invitations, scopes, doubled>>, calls[s].op # "accept",
         call \in StatusCalls \cup RoleCalls, overlapped' \in BOOLEAN,
         overlapped => overlapped',
         ~overlapped' => \A t \in Slots : t # s => calls[t].op \notin MembershipOps,
         ~overlapped' => (call.pc = "write" => WriteSafe(call))
  PROVE  MemInv'
  <1>1. /\ calls' = [t \in Slots |-> calls'[t]] /\ calls'[s] = call
        /\ \A t \in Slots : t # s => calls'[t] = calls[t]
    BY Gone
  <1>2. call.op \in MembershipOps /\ call.op # "accept"
    BY DEF StatusCalls, RoleCalls, MembershipOps
  <1>3. \A t \in Slots : /\ calls'[t].op = "accept" => calls'[t] = calls[t]
                         /\ LettingIn(t) /\ calls'[t] # calls[t] => calls[t].inv \in doubled'
    BY <1>1, <1>2 DEF LettingIn
  <1>4. InvitesOK'
    <2>1. EntryDone'
      BY <1>3, EntriesKept
    <2>2. ASSUME NEW n \in DOMAIN invitations PROVE InvOK(n)'
      BY <1>3, InvitesKept
    <2>. QED
      BY <2>1, <2>2 DEF InvitesOK
  <1>5. CallOK(s)'
    BY <1>1, <1>2 DEF CallOK, StatusCalls, RoleCalls
  <1>6. ASSUME NEW t \in Slots, t # s PROVE CallOK(t)'
    <2>1. CallOK(t) /\ calls'[t] = calls[t]
      BY <1>1, <1>6 DEF MemInv, MemTypeOK
    <2>. QED
      BY <2>1 DEF CallOK
  <1>7. MemTypeOK'
    BY <1>1, <1>5, <1>6 DEF MemInv, MemTypeOK
  <1>8. OwnersOK'
    <2> SUFFICES ASSUME ~overlapped'
                 PROVE  /\ ActiveOwners' # {}
                        /\ \A x, t \in Slots :
                              calls'[x].op \in MembershipOps /\ calls'[t].op \in MembershipOps => x = t
                        /\ \A x \in Slots : calls'[x].op \in MembershipOps /\ calls'[x].pc = "write" =>
                              WriteSafe(calls[x])'
      BY DEF OwnersOK
    <2>1. ActiveOwners' = ActiveOwners /\ ActiveOwners # {}
      BY DEF ActiveOwners, MemInv, OwnersOK
    <2>2. \A t \in Slots : t # s => calls'[t].op \notin MembershipOps
      BY <1>1
    <2>3. ASSUME calls'[s].pc = "write" PROVE WriteSafe(calls[s])'
      <3>1. WriteSafe(call)
        BY <1>1, <2>3
      <3>2. WriteSafe(call)'
        BY <2>1, <3>1 DEF WriteSafe
      <3>. QED
        BY <1>1, <3>2 DEF WriteSafe
    <2>. QED
      BY <2>1, <2>2, <2>3
  <1>. QED
    BY <1>4, <1>7, <1>8 DEF MemInv

\* A membership operation begins; with another one under way the two overlap.
LEMMA BeginStep ==
  ASSUME MemInv, NEW s \in Slots, NEW call \in StatusCalls \cup RoleCalls, Begin(s, call),
         (~overlapped /\ ActiveOwners # {}) => (call.pc = "write" => WriteSafe(call))
  PROVE  MemInv'
  <1>1. /\ Goto(s, call) /\ calls[s] = Idle
        /\ overlapped' = (overlapped \/ \E t \in Slots : calls[t].op \in MembershipOps)
        /\ UNCHANGED <<members, invitations, scopes, doubled>>
    BY DEF Begin, Take
  <1>2. overlapped' \in BOOLEAN /\ (overlapped => overlapped')
    BY <1>1
  <1>3. ASSUME ~overlapped' PROVE ~overlapped /\ \A t \in Slots : calls[t].op \notin MembershipOps
    BY <1>1, <1>3
  <1>4. ~overlapped => ActiveOwners # {}
    BY DEF MemInv, OwnersOK
  <1>5. calls[s].op # "accept"
    BY <1>1, IdleCall
  <1>. QED
    BY <1>1, <1>2, <1>3, <1>4, <1>5, OperationStep

\* The membership routes keep the invariant.
LEMMA RoutesStep ==
  ASSUME MemInv, NEW s \in Slots, NEW a \in Identities, MembershipRoutes(s, a)
  PROVE  MemInv'
  <1>1. ASSUME NEW i \in Identities, NEW t \in {"suspended", "active", "deactivated"},
               Transition(s, a, i, t)
        PROVE  MemInv'
    <2>1. PICK p \in {"count", "write"} :
             p = IF NeedsCount(members[i], t = "active" /\ members[i].role = "tenant_owner")
                 THEN "count" ELSE "write"
      OBVIOUS
    <2>2. PICK call : call = [op |-> "status", id |-> i, to |-> t, pc |-> p]
      OBVIOUS
    <2>3. call \in StatusCalls /\ call.pc = p /\ call.id = i /\ call.to = t /\ call.op = "status"
      BY <2>2 DEF StatusCalls
    <2>4. Begin(s, call)
      BY <1>1, <2>1, <2>2 DEF Transition
    <2>5. (~overlapped /\ ActiveOwners # {}) => (call.pc = "write" => WriteSafe(call))
      BY <2>1, <2>3 DEF NeedsCount, WriteSafe, ActiveOwners
    <2>. QED
      BY <2>3, <2>4, <2>5, BeginStep
  <1>2. ASSUME NEW i \in Identities, NEW r \in NewRoles, ChangeRole(s, a, i, r)
        PROVE  MemInv'
    <2>1. PICK p \in {"count", "write"} :
             p = IF NeedsCount(members[i], r = "tenant_owner") THEN "count" ELSE "write"
      OBVIOUS
    <2>2. PICK call : call = [op |-> "role", id |-> i, to |-> r, pc |-> p]
      OBVIOUS
    <2>3. call \in RoleCalls /\ call.pc = p /\ call.id = i /\ call.to = r /\ call.op = "role"
      BY <2>2 DEF RoleCalls
    <2>4. Begin(s, call)
      BY <1>2, <2>1, <2>2 DEF ChangeRole
    <2>5. (~overlapped /\ ActiveOwners # {}) => (call.pc = "write" => WriteSafe(call))
      BY <2>1, <2>3 DEF NeedsCount, WriteSafe, ActiveOwners
    <2>. QED
      BY <2>3, <2>4, <2>5, BeginStep
  <1>. QED
    BY <1>1, <1>2 DEF MembershipRoutes

\* assertNotLastOwner lets the write happen only when another owner is there.
LEMMA CountStep ==
  ASSUME MemInv, NEW s \in Slots, CountOwners(s)
  PROVE  MemInv'
  <1>1. /\ calls[s].op \in MembershipOps
        /\ UNCHANGED <<members, invitations, scopes, overlapped, doubled>>
    BY DEF CountOwners
  <1>2. calls[s] \in StatusCalls \cup RoleCalls /\ calls[s].op # "accept"
    BY <1>1 DEF MemInv, MemTypeOK, CallOK, MembershipOps
  <1>3. CASE Cardinality(ActiveOwners) <= 1
    <2>1. Goto(s, Idle) /\ (calls'[s] = Idle => CallOK(s)') /\ ~LettingIn(s)
      BY <1>2, <1>3, IdleCall DEF CountOwners, Finish, CallOK, LettingIn
    <2>. QED
      BY <1>1, <2>1, IdleCall, QuietStep
  <1>4. CASE ~(Cardinality(ActiveOwners) <= 1)
    <2>1. PICK call : call = [calls[s] EXCEPT !.pc = "write"]
      OBVIOUS
    <2>2. Goto(s, call)
      BY <1>4, <2>1 DEF CountOwners
    <2>3. call \in StatusCalls \cup RoleCalls
      BY <1>2, <2>1 DEF StatusCalls, RoleCalls
    <2>4. WriteSafe(call)
      BY <1>4, AnotherOwner DEF WriteSafe
    <2>5. overlapped' \in BOOLEAN
      BY <1>1 DEF MemInv, MemTypeOK
    <2>6. ~overlapped' => \A t \in Slots : t # s => calls[t].op \notin MembershipOps
      BY <1>1 DEF MemInv, OwnersOK
    <2>. QED
      BY <1>1, <1>2, <2>2, <2>3, <2>4, <2>5, <2>6, OperationStep
  <1>. QED
    BY <1>3, <1>4

\* The write of a status or a role leaves an active owner.
LEMMA MemWriteStep ==
  ASSUME MemInv, NEW s \in Slots, WriteMember(s)
  PROVE  MemInv'
  <1>1. /\ calls[s].op \in MembershipOps /\ calls[s].pc = "write" /\ Goto(s, Idle)
        /\ UNCHANGED <<invitations, scopes, overlapped, doubled>>
    BY DEF WriteMember, Finish
  <1>2. calls[s] \in StatusCalls \cup RoleCalls /\ calls[s].op # "accept"
    BY <1>1 DEF MemInv, MemTypeOK, CallOK, MembershipOps
  <1>3. PICK i \in Identities : i = calls[s].id
    BY <1>2 DEF StatusCalls, RoleCalls
  <1>4. PICK row : row = IF calls[s].op = "status" THEN [members[i] EXCEPT !.status = calls[s].to]
                         ELSE [members[i] EXCEPT !.role = calls[s].to]
    OBVIOUS
  <1>5. members' = [members EXCEPT ![i] = row]
    BY <1>3, <1>4 DEF WriteMember
  <1>6. /\ members[i] \in MemberRows
        /\ calls[s].op = "status" => calls[s].to \in {"suspended", "active", "deactivated"}
        /\ calls[s].op # "status" => calls[s].op = "role" /\ calls[s].to \in NewRoles
    BY <1>2 DEF MemInv, MemTypeOK, StatusCalls, RoleCalls
  <1>7. /\ row \in MemberRows /\ row.via = members[i].via
        /\ calls[s].op = "status" => row.status = calls[s].to /\ row.role = members[i].role
        /\ calls[s].op # "status" => row.status = members[i].status /\ row.role = calls[s].to
    BY <1>4, <1>6 DEF MemberRows
  <1>8. /\ members' \in [Identities -> MemberRows] /\ members'[i] = row
        /\ \A j \in Identities : j # i => members'[j] = members[j]
    BY <1>5, <1>7 DEF MemInv, MemTypeOK
  <1>9. \A j \in Identities : members'[j].via = members[j].via
    BY <1>7, <1>8
  <1>10. /\ calls' = [t \in Slots |-> calls'[t]] /\ calls'[s] = Idle
         /\ \A t \in Slots : t # s => calls'[t] = calls[t]
    BY <1>1, Gone
  <1>11. \A t \in Slots : /\ calls'[t].op = "accept" => calls'[t] = calls[t]
                          /\ LettingIn(t) /\ calls'[t] # calls[t] => calls[t].inv \in doubled'
    BY <1>2, <1>10, IdleCall DEF LettingIn
  <1>12. InvitesOK'
    <2>1. EntryDone'
      BY <1>1, <1>9, <1>11, EntriesKept
    <2>2. ASSUME NEW n \in DOMAIN invitations PROVE InvOK(n)'
      BY <1>1, <1>9, <1>11, InvitesKept
    <2>. QED
      BY <1>1, <2>1, <2>2 DEF InvitesOK
  <1>13. MemTypeOK'
    <2>1. ASSUME NEW t \in Slots PROVE CallOK(t)'
      BY <1>1, <1>10, IdleCall DEF MemInv, MemTypeOK, CallOK
    <2>. QED
      BY <1>1, <1>8, <1>9, <1>10, <2>1 DEF MemInv, MemTypeOK
  <1>14. OwnersOK'
    <2> SUFFICES ASSUME ~overlapped
                 PROVE  ActiveOwners' # {} /\ \A t \in Slots : calls'[t].op \notin MembershipOps
      BY <1>1 DEF OwnersOK
    <2>1. \A t \in Slots : t # s => calls[t].op \notin MembershipOps
      BY <1>1 DEF MemInv, OwnersOK
    <2>2. WriteSafe(calls[s])
      BY <1>1 DEF MemInv, OwnersOK
    <2>3. PICK j \in ActiveOwners : \/ j # i
                                    \/ calls[s].op = "status" /\ calls[s].to = "active"
                                    \/ calls[s].op = "role" /\ calls[s].to = "tenant_owner"
      BY <1>3, <2>2 DEF WriteSafe
    <2>4. j \in ActiveOwners'
      BY <1>7, <1>8, <2>3 DEF ActiveOwners
    <2>. QED
      BY <1>10, <2>1, <2>4, IdleCall
  <1>. QED
    BY <1>12, <1>13, <1>14 DEF MemInv

\* An acceptance moves on without touching owners.
LEMMA AcceptFrame ==
  ASSUME MemInv, NEW s \in Slots, NEW call \in AcceptCalls, Goto(s, call),
         call.inv \in DOMAIN invitations, UNCHANGED <<invitations, overlapped>>,
         members' \in [Identities -> MemberRows], ActiveOwners \subseteq ActiveOwners',
         \A i \in Identities : members'[i].via <= Len(invitations)
  PROVE  MemTypeOK' /\ OwnersOK'
  <1>1. /\ calls' = [t \in Slots |-> calls'[t]] /\ calls'[s] = call
        /\ \A t \in Slots : t # s => calls'[t] = calls[t]
    BY Gone
  <1>2. call.op = "accept" /\ call.op \notin MembershipOps
    BY DEF AcceptCalls, MembershipOps
  <1>3. \A t \in Slots : calls'[t] = calls[t] \/ calls'[t].op \notin MembershipOps
    BY <1>1, <1>2
  <1>4. CallOK(s)'
    BY <1>1, <1>2 DEF CallOK
  <1>5. ASSUME NEW t \in Slots, t # s PROVE CallOK(t)'
    <2>1. CallOK(t) /\ calls'[t] = calls[t]
      BY <1>1, <1>5 DEF MemInv, MemTypeOK
    <2>. QED
      BY <2>1 DEF CallOK
  <1>. QED
    BY <1>1, <1>3, <1>4, <1>5, OwnersKept DEF MemInv, MemTypeOK

\* An acceptance begins, or the invitation is found expired.
LEMMA AcceptStep ==
  ASSUME MemInv, NEW s \in Slots, NEW who \in Identities, NEW n \in DOMAIN invitations,
         Accept(s, who, n)
  PROVE  MemInv'
  <1>1. PICK call : call = [op |-> "accept", pc |-> IF n \in lapsed THEN "expire" ELSE "lookup",
                            inv |-> n, who |-> who]
    OBVIOUS
  <1>2. /\ invitations[n].status = "pending" /\ calls[s] = Idle /\ Goto(s, call)
        /\ doubled' = IF Accepting(n) = {} THEN doubled ELSE doubled \cup {n}
        /\ UNCHANGED <<members, invitations, scopes, overlapped>>
    BY <1>1 DEF Accept, Take
  <1>3. n \in Nat
    BY DEF MemInv, MemTypeOK
  <1>4. /\ call \in AcceptCalls /\ call.inv = n /\ call.op = "accept"
        /\ call.pc \notin {"scope", "mark"}
    BY <1>1, <1>3 DEF AcceptCalls
  <1>5. /\ calls' = [t \in Slots |-> calls'[t]] /\ calls'[s] = call
        /\ \A t \in Slots : t # s => calls'[t] = calls[t]
    BY <1>2, Gone
  <1>6. MemTypeOK' /\ OwnersOK'
    <2>1. ActiveOwners' = ActiveOwners
      BY <1>2 DEF ActiveOwners
    <2>. QED
      BY <1>2, <1>4, <2>1, AcceptFrame DEF MemInv, MemTypeOK
  <1>7. EntryDone'
    <2>1. ~LettingIn(s)'
      BY <1>4, <1>5 DEF LettingIn
    <2>. QED
      BY <1>2, <1>5, <2>1 DEF MemInv, InvitesOK, EntryDone, LettingIn
  <1>8. ASSUME NEW m \in DOMAIN invitations PROVE InvOK(m)'
    <2>1. InvOK(m) /\ doubled \subseteq doubled'
      BY <1>2 DEF MemInv, InvitesOK
    <2>2. \A t \in Slots : t # s => calls'[t] = calls[t] /\ (LettingIn(t)' <=> LettingIn(t))
      BY <1>5 DEF LettingIn
    <2>3. ~LettingIn(s) /\ calls[s].op # "accept"
      BY <1>2, IdleCall DEF LettingIn
    <2>4. CASE m # n
      <3>1. \A t \in Slots : calls'[t].op = "accept" /\ calls'[t].inv = m =>
                t # s /\ calls[t].op = "accept" /\ calls[t].inv = m
        BY <1>4, <1>5, <2>4
      <3>. QED
        BY <1>2, <2>1, <2>2, <2>3, <3>1 DEF InvOK
    <2>5. CASE m = n
      <3>1. n \notin doubled' =>
              \A t \in Slots : ~(calls[t].op = "accept" /\ calls[t].inv = n)
        BY <1>2 DEF Accepting
      <3>2. n \notin doubled' => \A i \in Identities : members[i].via # n
        BY <1>2, <2>1, <2>5, <3>1 DEF InvOK, LettingIn
      <3>. QED
        BY <1>2, <1>5, <2>1, <2>5, <3>1, <3>2 DEF InvOK
    <2>. QED
      BY <2>4, <2>5
  <1>. QED
    BY <1>2, <1>6, <1>7, <1>8 DEF MemInv, InvitesOK

\* What an acceptance under way carries.
LEMMA AcceptIs ==
  ASSUME MemInv, NEW s \in Slots, calls[s].op = "accept"
  PROVE  calls[s] \in AcceptCalls /\ calls[s].inv \in DOMAIN invitations /\ calls[s].who \in Identities
  BY DEF MemInv, MemTypeOK, CallOK, AcceptCalls

\* The membership is looked up and nothing written.
LEMMA LookupGoesOn ==
  ASSUME MemInv, NEW s \in Slots, LookupMember(s), Goto(s, [calls[s] EXCEPT !.pc = "save"])
  PROVE  MemInv'
  <1>1. PICK call : call = [calls[s] EXCEPT !.pc = "save"]
    OBVIOUS
  <1>2. /\ calls[s].op = "accept" /\ calls[s].pc = "lookup" /\ Goto(s, call)
        /\ UNCHANGED <<members, invitations, scopes, overlapped, doubled>>
    BY <1>1 DEF LookupMember
  <1>3. calls[s] \in AcceptCalls /\ calls[s].inv \in DOMAIN invitations
    BY <1>2, AcceptIs
  <1>4. call \in AcceptCalls /\ call.inv = calls[s].inv /\ call.op = "accept" /\ call.pc = "save"
    BY <1>1, <1>3 DEF AcceptCalls
  <1>5. /\ calls' = [t \in Slots |-> calls'[t]] /\ calls'[s] = call
        /\ \A t \in Slots : t # s => calls'[t] = calls[t]
    BY <1>2, Gone
  <1>6. MemTypeOK' /\ OwnersOK'
    <2>1. ActiveOwners' = ActiveOwners
      BY <1>2 DEF ActiveOwners
    <2>. QED
      BY <1>2, <1>3, <1>4, <2>1, AcceptFrame DEF MemInv, MemTypeOK
  <1>7. \A t \in Slots : /\ LettingIn(t)' <=> LettingIn(t)
                         /\ calls'[t].op = calls[t].op /\ (t # s => calls'[t] = calls[t])
                         /\ calls[t].op = "accept" => calls'[t].inv = calls[t].inv
    BY <1>2, <1>4, <1>5 DEF LettingIn
  <1>8. EntryDone'
    <2>1. ~LettingIn(s)
      BY <1>2 DEF LettingIn
    <2>. QED
      BY <1>2, <1>7, <2>1 DEF MemInv, InvitesOK, EntryDone
  <1>9. ASSUME NEW m \in DOMAIN invitations PROVE InvOK(m)'
    <2>1. InvOK(m)
      BY DEF MemInv, InvitesOK
    <2>2. \A t \in Slots : LettingIn(t) => calls[t].op = "accept"
      BY DEF LettingIn
    <2>. QED
      BY <1>2, <1>7, <2>1, <2>2 DEF InvOK
  <1>. QED
    BY <1>2, <1>6, <1>8, <1>9 DEF MemInv, InvitesOK

\* The member is saved: the invitation lets an identity in.
LEMMA SaveMemberStep ==
  ASSUME MemInv, NEW s \in Slots, SaveMember(s), members[calls[s].who] = NoRow
  PROVE  MemInv'
  <1>1. calls[s].op = "accept" /\ calls[s].pc = "save"
    BY DEF SaveMember
  <1>2. calls[s] \in AcceptCalls
    BY <1>1, AcceptIs
  <1>3. PICK n \in DOMAIN invitations, who \in Identities : n = calls[s].inv /\ who = calls[s].who
    BY <1>1, AcceptIs
  <1>4. PICK row : row = [status |-> "active", role |-> invitations[n].role, via |-> n]
    OBVIOUS
  <1>5. PICK call : call = [calls[s] EXCEPT !.pc = "scope"]
    OBVIOUS
  <1>6. /\ members' = [members EXCEPT ![who] = row] /\ Goto(s, call)
        /\ UNCHANGED <<invitations, scopes, overlapped, doubled>>
    BY <1>3, <1>4, <1>5 DEF SaveMember
  <1>7. n \in Nat /\ n <= Len(invitations) /\ invitations[n] \in InvitationRows
    BY DEF MemInv, MemTypeOK
  <1>8. row \in MemberRows /\ row.via = n
    BY <1>4, <1>7 DEF MemberRows, InvitationRows
  <1>9. /\ call \in AcceptCalls /\ call.inv = n /\ call.who = who /\ call.op = "accept"
        /\ call.pc = "scope"
    BY <1>2, <1>3, <1>5 DEF AcceptCalls
  <1>10. /\ members' \in [Identities -> MemberRows] /\ members'[who] = row
         /\ \A j \in Identities : j # who => members'[j] = members[j]
    BY <1>6, <1>8 DEF MemInv, MemTypeOK
  <1>11. /\ calls' = [t \in Slots |-> calls'[t]] /\ calls'[s] = call
         /\ \A t \in Slots : t # s => calls'[t] = calls[t]
    BY <1>6, Gone
  <1>12. members[who].via = 0 /\ members[who].status = "none" /\ n # 0
    BY <1>3, <1>7 DEF NoRow, MemInv, MemTypeOK
  <1>13. MemTypeOK' /\ OwnersOK'
    <2>1. ActiveOwners \subseteq ActiveOwners'
      BY <1>10, <1>12 DEF ActiveOwners
    <2>2. \A i \in Identities : members'[i].via <= Len(invitations)
      BY <1>7, <1>8, <1>10 DEF MemInv, MemTypeOK
    <2>. QED
      BY <1>6, <1>9, <1>10, <2>1, <2>2, AcceptFrame
  <1>14. \A t \in Slots : t # s => calls'[t] = calls[t] /\ (LettingIn(t)' <=> LettingIn(t))
    BY <1>11 DEF LettingIn
  <1>15. ~LettingIn(s) /\ LettingIn(s)'
    BY <1>1, <1>9, <1>11 DEF LettingIn
  <1>16. EntryDone'
    <2>1. ASSUME NEW t \in Slots, t # s, LettingIn(t)
          PROVE  /\ calls[t].who # who /\ calls[t].who \in Identities
                 /\ members[calls[t].who].via = calls[t].inv
                 /\ calls[t].pc = "mark" => <<calls[t].who, calls[t].inv>> \in scopes
      <3>1. calls[t].who \in Identities /\ calls[t].inv \in DOMAIN invitations
        BY <2>1, AcceptIs DEF LettingIn
      <3>2. calls[t].inv # 0
        BY <3>1 DEF MemInv, MemTypeOK
      <3>. QED
        BY <1>12, <2>1, <3>1, <3>2 DEF MemInv, InvitesOK, EntryDone
    <2>. QED
      BY <1>6, <1>8, <1>9, <1>10, <1>11, <1>14, <1>15, <2>1 DEF EntryDone
  <1>17. ASSUME NEW m \in DOMAIN invitations PROVE InvOK(m)'
    <2>1. InvOK(m) /\ m # 0
      BY DEF MemInv, InvitesOK, MemTypeOK
    <2>2. CASE m # n
      <3>1. \A j \in Identities : members'[j].via = m <=> members[j].via = m
        BY <1>8, <1>10, <1>12, <2>1, <2>2
      <3>2. \A t \in Slots : (calls'[t].op = "accept" /\ calls'[t].inv = m) <=>
                             (calls[t].op = "accept" /\ calls[t].inv = m)
        BY <1>1, <1>3, <1>9, <1>11, <2>2
      <3>3. \A t \in Slots : (LettingIn(t)' /\ calls'[t].inv = m) <=> (LettingIn(t) /\ calls[t].inv = m)
        BY <1>9, <1>11, <1>14, <1>15, <2>2
      <3>4. \A t \in Slots : calls'[t].op = "accept" /\ calls'[t].inv = m => (LettingIn(t)' <=> LettingIn(t))
        BY <1>9, <1>11, <1>14, <2>2
      <3>. QED
        BY <1>6, <2>1, <3>1, <3>2, <3>3, <3>4 DEF InvOK
    <2>3. CASE m = n
      <3>1. ASSUME n \notin doubled
            PROVE  /\ \A j \in Identities : members[j].via # n
                   /\ \A t \in Slots : calls[t].op = "accept" /\ calls[t].inv = n => t = s
        BY <1>1, <1>3, <1>15, <2>1, <2>3, <3>1 DEF InvOK
      <3>2. invitations[n].status = "accepted" =>
               \E i \in Identities : members'[i].via = n /\ <<i, n>> \in scopes
        BY <1>8, <1>10, <2>1, <2>3 DEF InvOK
      <3>3. ASSUME n \notin doubled
            PROVE  /\ \A j \in Identities : members'[j].via = n => j = who
                   /\ \A t \in Slots : calls'[t].op = "accept" /\ calls'[t].inv = n => t = s
        BY <1>10, <1>11, <3>1, <3>3
      <3>. QED
        BY <1>6, <1>9, <1>11, <1>15, <2>3, <3>2, <3>3 DEF InvOK
    <2>. QED
      BY <2>2, <2>3
  <1>. QED
    BY <1>6, <1>13, <1>16, <1>17 DEF MemInv, InvitesOK

\* The scope of the invitation is assigned before it is marked.
LEMMA AssignScopeStep ==
  ASSUME MemInv, NEW s \in Slots, AssignScope(s)
  PROVE  MemInv'
  <1>1. PICK call : call = [calls[s] EXCEPT !.pc = "mark"]
    OBVIOUS
  <1>2. /\ calls[s].op = "accept" /\ calls[s].pc = "scope" /\ Goto(s, call)
        /\ scopes' = scopes \cup {<<calls[s].who, calls[s].inv>>}
        /\ UNCHANGED <<members, invitations, overlapped, doubled>>
    BY <1>1 DEF AssignScope
  <1>3. calls[s] \in AcceptCalls /\ calls[s].inv \in DOMAIN invitations
    BY <1>2, AcceptIs
  <1>4. /\ call \in AcceptCalls /\ call.inv = calls[s].inv /\ call.who = calls[s].who
        /\ call.op = "accept" /\ call.pc = "mark"
    BY <1>1, <1>3 DEF AcceptCalls
  <1>5. /\ calls' = [t \in Slots |-> calls'[t]] /\ calls'[s] = call
        /\ \A t \in Slots : t # s => calls'[t] = calls[t]
    BY <1>2, Gone
  <1>6. MemTypeOK' /\ OwnersOK'
    <2>1. ActiveOwners' = ActiveOwners
      BY <1>2 DEF ActiveOwners
    <2>. QED
      BY <1>2, <1>3, <1>4, <2>1, AcceptFrame DEF MemInv, MemTypeOK
  <1>7. \A t \in Slots : /\ LettingIn(t)' <=> LettingIn(t)
                         /\ calls'[t].op = calls[t].op /\ (t # s => calls'[t] = calls[t])
                         /\ calls[t].op = "accept" => calls'[t].inv = calls[t].inv
    BY <1>2, <1>4, <1>5 DEF LettingIn
  <1>8. EntryDone'
    <2>1. LettingIn(s)
      BY <1>2 DEF LettingIn
    <2>. QED
      BY <1>2, <1>4, <1>5, <1>7, <2>1 DEF MemInv, InvitesOK, EntryDone
  <1>9. ASSUME NEW m \in DOMAIN invitations PROVE InvOK(m)'
    <2>1. InvOK(m) /\ scopes \subseteq scopes'
      BY <1>2 DEF MemInv, InvitesOK
    <2>2. \A t \in Slots : LettingIn(t) => calls[t].op = "accept"
      BY DEF LettingIn
    <2>. QED
      BY <1>2, <1>7, <2>1, <2>2 DEF InvOK
  <1>. QED
    BY <1>2, <1>6, <1>8, <1>9 DEF MemInv, InvitesOK

\* The invitation is marked accepted.
LEMMA MarkStep ==
  ASSUME MemInv, NEW s \in Slots, MarkAccepted(s)
  PROVE  MemInv'
  <1>1. /\ calls[s].op = "accept" /\ calls[s].pc = "mark" /\ Goto(s, Idle)
        /\ UNCHANGED <<members, scopes, overlapped, doubled>>
    BY DEF MarkAccepted, Finish
  <1>2. PICK n \in DOMAIN invitations, who \in Identities : n = calls[s].inv /\ who = calls[s].who
    BY <1>1, AcceptIs
  <1>3. PICK row : row = [invitations[n] EXCEPT !.status = "accepted"]
    OBVIOUS
  <1>4. invitations[n] \in InvitationRows /\ invitations \in Seq(InvitationRows)
    BY DEF MemInv, MemTypeOK
  <1>5. row \in InvitationRows /\ row.status = "accepted"
    BY <1>3, <1>4 DEF InvitationRows
  <1>6. invitations' = [invitations EXCEPT ![n] = row]
    BY <1>2, <1>3 DEF MarkAccepted, SetStatus
  <1>7. /\ invitations' \in Seq(InvitationRows) /\ DOMAIN invitations' = DOMAIN invitations
        /\ Len(invitations') = Len(invitations)
        /\ invitations'[n].status = "accepted"
        /\ \A m \in DOMAIN invitations : m # n => invitations'[m] = invitations[m]
    BY <1>4, <1>5, <1>6
  <1>8. /\ calls' = [t \in Slots |-> calls'[t]] /\ calls'[s] = Idle
        /\ \A t \in Slots : t # s => calls'[t] = calls[t]
    BY <1>1, Gone
  <1>9. members[who].via = n /\ <<who, n>> \in scopes
    BY <1>1, <1>2 DEF MemInv, InvitesOK, EntryDone, LettingIn
  <1>10. OwnersOK'
    <2>1. ActiveOwners' = ActiveOwners
      BY <1>1 DEF ActiveOwners
    <2>. QED
      BY <1>1, <1>8, <2>1, IdleCall, OwnersKept
  <1>11. MemTypeOK'
    <2>1. ASSUME NEW t \in Slots PROVE CallOK(t)'
      BY <1>7, <1>8, IdleCall DEF MemInv, MemTypeOK, CallOK
    <2>. QED
      BY <1>1, <1>7, <1>8, <2>1 DEF MemInv, MemTypeOK
  <1>12. \A t \in Slots : /\ calls'[t].op = "accept" => t # s /\ calls'[t] = calls[t]
                          /\ t # s => (LettingIn(t)' <=> LettingIn(t))
    BY <1>8, IdleCall DEF LettingIn
  <1>13. EntryDone'
    BY <1>1, <1>12, EntriesKept
  <1>14. ASSUME NEW m \in DOMAIN invitations PROVE InvOK(m)'
    <2>1. InvOK(m)
      BY DEF MemInv, InvitesOK
    <2>2. CASE m # n
      <3>1. \A t \in Slots : LettingIn(t) /\ calls[t].inv = m => t # s /\ calls'[t] = calls[t] /\ LettingIn(t)'
        BY <1>2, <1>8, <1>12, <2>2
      <3>2. \A t \in Slots : calls'[t].op = "accept" /\ calls'[t].inv = m =>
               calls[t].op = "accept" /\ calls[t].inv = m /\ (LettingIn(t)' <=> LettingIn(t))
        BY <1>12
      <3>. QED
        BY <1>1, <1>7, <2>1, <2>2, <3>1, <3>2 DEF InvOK
    <2>3. CASE m = n
      <3>1. \A t \in Slots : calls'[t].op = "accept" /\ calls'[t].inv = n =>
               calls[t].op = "accept" /\ calls[t].inv = n /\ (LettingIn(t)' <=> LettingIn(t))
        BY <1>12
      <3>. QED
        BY <1>1, <1>7, <1>9, <2>1, <2>3, <3>1 DEF InvOK
    <2>. QED
      BY <2>2, <2>3
  <1>. QED
    BY <1>7, <1>10, <1>11, <1>13, <1>14 DEF MemInv, InvitesOK

\* Every step of the members keeps the invariant.
LEMMA MemStep ==
  ASSUME MemInv, MemNext
  PROVE  MemInv'
  <1>1. ASSUME NEW s \in Slots, LookupMember(s) PROVE MemInv'
    <2>1. Goto(s, [calls[s] EXCEPT !.pc = "save"]) \/ Finish(s)
      BY <1>1 DEF LookupMember
    <2>. QED
      BY <1>1, <2>1, LookupGoesOn, DoneStep
  <1>2. ASSUME NEW s \in Slots, SaveMember(s) PROVE MemInv'
    <2>1. members[calls[s].who] = NoRow \/ (Finish(s) /\ UNCHANGED members)
      BY <1>2 DEF SaveMember
    <2>. QED
      BY <1>2, <2>1, SaveMemberStep, DoneStep
  <1>3. ASSUME NEW s \in Slots, NEW a \in Identities, InvitationRoutes(s, a) PROVE MemInv'
    BY <1>3, InviteStep, AcceptStep, CloseStep DEF InvitationRoutes
  <1>. QED
    BY <1>1, <1>2, <1>3, RoutesStep, CountStep, MemWriteStep, RevokeStaleStep, SaveInvitationStep,
       AssignScopeStep, MarkStep, DoneStep, LapseStep DEF MemNext

\* The invariant gives MembershipSafe.
LEMMA MemIsSafe == MemInv => MembershipSafe
  <1> SUFFICES ASSUME MemInv PROVE MembershipSafe
    OBVIOUS
  <1>1. OwnerKept
    BY DEF MemInv, OwnersOK, OwnerKept
  <1>2. ASSUME NEW n \in DOMAIN invitations
        PROVE  /\ invitations[n].status = "accepted" => \E i \in LetIn(n) : <<i, n>> \in scopes
               /\ Cardinality(LetIn(n)) > 1 => n \in doubled
    <2>1. InvOK(n)
      BY DEF MemInv, InvitesOK
    <2>2. ASSUME n \notin doubled PROVE ~(Cardinality(LetIn(n)) > 1)
      <3>1. \A i, j \in LetIn(n) : i = j
        BY <2>1, <2>2 DEF InvOK, LetIn
      <3>2. LetIn(n) = {} \/ \E i : LetIn(n) = {i}
        BY <3>1
      <3>3. Cardinality(LetIn(n)) = 0 \/ Cardinality(LetIn(n)) = 1
        BY <3>2, FS_EmptySet, FS_Singleton
      <3>. QED
        BY <3>3
    <2>. QED
      BY <2>1, <2>2 DEF InvOK, LetIn
  <1>. QED
    BY <1>1, <1>2 DEF MembershipSafe, InvitationHonoured

\* Along every behaviour of the members the tenant keeps an active owner and an
\* invitation lets in one identity, with its scope, but for the overlaps that
\* overlapped and doubled record.
THEOREM MemSafe == MemSpec => []MembershipSafe
  <1>1. MemInv /\ UNCHANGED memVars => MemInv'
    BY DEF memVars, MemInv, MemTypeOK, CallOK, OwnersOK, ActiveOwners, WriteSafe, InvitesOK, InvOK,
           EntryDone, LettingIn
  <1>. QED
    BY <1>1, MemInitOK, MemStep, MemIsSafe, PTL DEF MemSpec

(***************************************************************************)
(* The permission policy: PermissionPolicy.                                *)
(***************************************************************************)

\* A set of naturals that is not empty has a least member: the minimum principle
\* of a well-founded relation, which needs no induction over a formula.
LEMMA LeastOfNaturals ==
  ASSUME NEW T, T \subseteq Nat, T # {}
  PROVE  \E x \in T : \A y \in T : x <= y
  <1> DEFINE Less == {ss \in Nat \X Nat : ss[1] < ss[2]}
  <1>1. IsWellFoundedOn(Less, Nat)
    BY NatLessThanWellFounded DEF OpToRel
  <1>2. \A x, y \in Nat : y < x => <<y, x>> \in Less
    OBVIOUS
  <1> HIDE DEF Less
  <1>3. PICK x \in T : \A y \in T : ~(<<y, x>> \in Less)
    BY <1>1, WFMin
  <1>4. ASSUME NEW y \in T PROVE x <= y
    <2>1. x \in Nat /\ y \in Nat /\ ~(y < x)
      BY <1>2, <1>3
    <2>. QED
      BY <2>1
  <1>. QED
    BY <1>4

\* A bounded set of positive numbers that is not empty has the greatest member
\* Max names.
LEMMA GreatestExists ==
  ASSUME NEW S, S # {}, NEW n \in Nat, S \subseteq 1 .. n
  PROVE  Max(S) \in S /\ \A x \in S : Max(S) >= x
  <1> DEFINE T == {n - x : x \in S}
  <1>1. T \subseteq Nat /\ T # {}
    <2>1. \A x \in S : x \in 1 .. n /\ n - x \in Nat
      OBVIOUS
    <2>2. PICK x \in S : TRUE
      OBVIOUS
    <2>3. n - x \in T
      OBVIOUS
    <2>4. T \subseteq Nat
      BY <2>1
    <2>. QED
      BY <2>3, <2>4
  <1>2. \A x \in S : n - x \in T
    OBVIOUS
  <1>3. \A y \in T : \E x \in S : y = n - x
    OBVIOUS
  <1> HIDE DEF T
  <1>4. PICK y \in T : \A z \in T : y <= z
    BY <1>1, LeastOfNaturals
  <1>5. PICK x \in S : y = n - x
    BY <1>3, <1>4
  <1>6. \A z \in S : x >= z
    BY <1>2, <1>4, <1>5
  <1>. QED
    BY <1>6 DEF Max

\* The permission policy on its own.
PolSpec == PolInit /\ [][PolNext]_polVars

\* No row, or a row whose is_active is set or not.
SnapshotStates == {"absent", "active", "inactive"}

\* Type correctness of snapshots, seedings and the support grant.
PolTypeOK ==
    /\ snapshots \in [Versions -> SnapshotStates]
    /\ seeding \in [Instances -> [pc : {"idle", "create", "retire"}, existing : Versions \cup {0}]]
    /\ grant \in [mode : Modes \cup {"none"}, until : Nat, revoked : BOOLEAN]
    /\ moment \in Nat

\* What an instance that is seeding has read is older than its release, and what
\* it is about to switch off is older than the newest active snapshot.
SeedingOK ==
    \A i \in Instances :
        /\ seeding[i].pc # "idle" => seeding[i].existing < ReleaseOf[i]
        /\ seeding[i].pc = "retire" => ReleaseOf[i] <= Newest

\* The inductive invariant of the policy.
PolInv == PolTypeOK /\ SeedingOK

\* The newest of a set of versions; 0 of none.
Top(S) == IF S = {} THEN 0 ELSE Max(S)

\* It is one of them, and none is above it.
LEMMA TopIs ==
  ASSUME NEW S, S \subseteq Versions
  PROVE  /\ Top(S) \in Nat
         /\ Top(S) # 0 => Top(S) \in S
         /\ \A v \in S : Top(S) >= v
  <1>1. PICK n \in Nat : Versions \subseteq 1 .. n
    BY PolicyAssumption
  <1>2. CASE S # {}
    <2>1. Top(S) = Max(S) /\ S \subseteq 1 .. n
      BY <1>1, <1>2 DEF Top
    <2>2. Max(S) \in S /\ \A x \in S : Max(S) >= x
      BY <1>2, <2>1, GreatestExists
    <2>3. Max(S) \in Nat
      <3>1. \A x \in 1 .. n : x \in Nat
        OBVIOUS
      <3>2. Max(S) \in 1 .. n
        BY <2>1, <2>2, Zenon
      <3>. QED
        BY <3>1, <3>2
    <2>. QED
      BY <2>1, <2>2, <2>3
  <1>3. CASE S = {}
    BY <1>3 DEF Top
  <1>. QED
    BY <1>2, <1>3

\* Versions are positive numbers, and every instance has one.
LEMMA VersionsAre ==
  /\ \A v \in Versions : v \in Nat /\ v > 0
  /\ \A i \in Instances : ReleaseOf[i] \in Versions
  <1>1. PICK n \in Nat : Versions \subseteq 1 .. n
    BY PolicyAssumption
  <1>2. \A v \in 1 .. n : v \in Nat /\ v > 0
    OBVIOUS
  <1>. QED
    BY <1>1, <1>2, PolicyAssumption

\* What the newest active snapshot is.
LEMMA NewestIs ==
  /\ Newest \in Nat
  /\ Newest # 0 => Newest \in Versions /\ snapshots[Newest] = "active"
  /\ \A v \in Versions : snapshots[v] = "active" => Newest >= v
  <1>1. Newest = Top(Active) /\ Active \subseteq Versions
    BY DEF Newest, Active, Top
  <1>2. /\ Newest \in Nat /\ (Newest # 0 => Newest \in Active)
        /\ \A v \in Active : Newest >= v
    BY <1>1, TopIs
  <1>. QED
    BY <1>2 DEF Active

\* The same after a step.
LEMMA NewestIsNext ==
  /\ Newest' \in Nat
  /\ Newest' # 0 => Newest' \in Versions /\ snapshots'[Newest'] = "active"
  /\ \A v \in Versions : snapshots'[v] = "active" => Newest' >= v
  <1>1. Newest' = Top(Active') /\ Active' \subseteq Versions
    BY DEF Newest, Active, Top
  <1>2. /\ Newest' \in Nat /\ (Newest' # 0 => Newest' \in Active')
        /\ \A v \in Active' : Newest' >= v
    BY <1>1, TopIs
  <1>. QED
    BY <1>2 DEF Active

\* When every active snapshot stays, or gives way to a newer one, the newest does
\* not go back.
LEMMA NewestGrows ==
  ASSUME \A v \in Versions : snapshots[v] = "active" =>
            \E w \in Versions : w >= v /\ snapshots'[w] = "active"
  PROVE  Newest' >= Newest
  <1>1. CASE Newest = 0
    BY <1>1, NewestIsNext
  <1>2. CASE Newest # 0
    <2>1. PICK w \in Versions : w >= Newest /\ snapshots'[w] = "active"
      BY <1>2, NewestIs
    <2>2. w \in Nat
      BY PolicyAssumption
    <2>. QED
      BY <2>1, <2>2, NewestIs, NewestIsNext
  <1>. QED
    BY <1>1, <1>2

\* Any snapshots to begin with satisfy the invariant.
LEMMA PolInitOK == PolInit => PolInv
  <1> SUFFICES ASSUME PolInit PROVE PolInv
    OBVIOUS
  <1>1. snapshots \in [Versions -> SnapshotStates]
    BY DEF PolInit, SnapshotStates
  <1>. QED
    BY <1>1 DEF PolInit, PolInv, PolTypeOK, SeedingOK, NoGrant

\* Seeding keeps the invariant and does not set the policy back.
LEMMA SeedStep ==
  ASSUME PolInv, NEW i \in Instances,
         EnsureSeeded(i) \/ CreateSnapshot(i) \/ RetireSnapshot(i) \/ InstanceDies(i)
  PROVE  PolInv' /\ Newest' >= Newest
  <1> DEFINE r == ReleaseOf[i]
             e == seeding[i].existing
  <1>0. /\ r \in Versions /\ r \in Nat /\ e \in Versions \cup {0} /\ e \in Nat
        /\ \A v \in Versions : v \in Nat /\ v > 0
    BY VersionsAre DEF PolInv, PolTypeOK
  <1>t. /\ seeding[i] \in [pc : {"idle", "create", "retire"}, existing : Versions \cup {0}]
        /\ Newest \in Nat /\ Newest' \in Nat /\ UNCHANGED <<grant, moment>>
    BY NewestIs, NewestIsNext
       DEF PolInv, PolTypeOK, EnsureSeeded, CreateSnapshot, RetireSnapshot, InstanceDies
  <1>1. /\ snapshots' \in [Versions -> SnapshotStates]
        /\ \A v \in Versions : snapshots[v] = "active" =>
              \E w \in Versions : w >= v /\ snapshots'[w] = "active"
    <2>1. CASE UNCHANGED snapshots
      BY <2>1, <1>0 DEF PolInv, PolTypeOK
    <2>2. CASE snapshots' = [snapshots EXCEPT ![r] = "active"]
      BY <2>2, <1>0 DEF PolInv, PolTypeOK, SnapshotStates
    <2>3. CASE RetireSnapshot(i)
      <3>1. snapshots' = [snapshots EXCEPT ![e] = "inactive"]
        BY <2>3 DEF RetireSnapshot
      <3>2. e < r /\ r <= Newest
        BY <2>3 DEF RetireSnapshot, PolInv, SeedingOK
      <3>3. Newest \in Versions /\ snapshots[Newest] = "active" /\ Newest # e
        BY <3>2, <1>0, <1>t, NewestIs
      <3>4. snapshots' \in [Versions -> SnapshotStates] /\ snapshots'[Newest] = "active"
        BY <3>1, <3>3 DEF PolInv, PolTypeOK, SnapshotStates
      <3>. QED
        BY <3>3, <3>4, NewestIs
    <2>. QED
      BY <2>1, <2>2, <2>3 DEF EnsureSeeded, CreateSnapshot, InstanceDies
  <1>2. Newest' >= Newest
    BY <1>1, NewestGrows
  <1>3. \A o \in Instances : o # i => seeding'[o] = seeding[o]
    BY DEF EnsureSeeded, CreateSnapshot, RetireSnapshot, InstanceDies, PolInv, PolTypeOK
  <1>4. /\ seeding' \in [Instances -> [pc : {"idle", "create", "retire"}, existing : Versions \cup {0}]]
        /\ seeding'[i].pc # "idle" => seeding'[i].existing < r
        /\ seeding'[i].pc = "retire" => r <= Newest'
    <2>1. CASE EnsureSeeded(i)
      <3>1. /\ seeding' = [seeding EXCEPT ![i] = [pc |-> "create", existing |-> Newest]]
            /\ Newest < r
        BY <2>1 DEF EnsureSeeded
      <3>2. Newest \in Versions \cup {0}
        BY NewestIs
      <3> HIDE DEF r
      <3>. QED
        BY <3>1, <3>2 DEF PolInv, PolTypeOK
    <2>2. CASE CreateSnapshot(i) /\ snapshots[r] = "absent"
      <3>1. /\ snapshots' = [snapshots EXCEPT ![r] = "active"]
            /\ seeding' = [seeding EXCEPT ![i].pc = IF e # 0 THEN "retire" ELSE "idle"]
            /\ e < r
        BY <2>2 DEF CreateSnapshot, PolInv, SeedingOK
      <3>2. snapshots'[r] = "active"
        BY <3>1, <1>0 DEF PolInv, PolTypeOK
      <3>3. r <= Newest'
        BY <3>2, <1>0, <1>t, NewestIsNext
      <3>4. /\ seeding' \in [Instances -> [pc : {"idle", "create", "retire"}, existing : Versions \cup {0}]]
            /\ seeding'[i].existing = e
        BY <3>1, <1>t DEF PolInv, PolTypeOK
      <3>. QED
        BY <3>1, <3>3, <3>4
    <2>3. CASE seeding' = [seeding EXCEPT ![i].pc = "idle"]
      BY <2>3, <1>t DEF PolInv, PolTypeOK
    <2>. QED
      BY <2>1, <2>2, <2>3 DEF CreateSnapshot, RetireSnapshot, InstanceDies
  <1>5. SeedingOK'
    <2> SUFFICES ASSUME NEW o \in Instances
                 PROVE  /\ seeding'[o].pc # "idle" => seeding'[o].existing < ReleaseOf[o]
                        /\ seeding'[o].pc = "retire" => ReleaseOf[o] <= Newest'
      BY DEF SeedingOK
    <2>1. ReleaseOf[o] \in Nat
      BY VersionsAre
    <2>. QED
      BY <1>2, <1>3, <1>4, <1>t, <2>1 DEF PolInv, SeedingOK
  <1>. QED
    BY <1>1, <1>2, <1>4, <1>5, <1>t DEF PolInv, PolTypeOK

\* A support grant has nothing to do with the snapshots, and once ended stays so.
LEMMA GrantStep ==
  ASSUME PolInv, SupportRoutes \/ GrantClock
  PROVE  /\ PolInv' /\ Newest' = Newest
         /\ grant # NoGrant /\ ~GrantIsActive => ~GrantIsActive'
  <1>1. UNCHANGED <<snapshots, seeding>>
    BY DEF SupportRoutes, GrantClock, CreateGrant, RevokeGrant
  <1>2. Newest' = Newest
    BY <1>1 DEF Newest, Active
  <1>3. /\ grant' \in [mode : Modes \cup {"none"}, until : Nat, revoked : BOOLEAN]
        /\ moment' \in Nat
        /\ grant # NoGrant /\ ~GrantIsActive => ~GrantIsActive'
    <2>1. CASE RevokeGrant
      BY <2>1 DEF RevokeGrant, PolInv, PolTypeOK, GrantIsActive, NoGrant
    <2>2. CASE GrantClock
      BY <2>2 DEF GrantClock, PolInv, PolTypeOK, GrantIsActive, NoGrant
    <2>3. CASE \E m \in Modes, u \in 1 .. MaxGrantTime, c \in BOOLEAN : CreateGrant(m, u, c)
      BY <2>3 DEF CreateGrant, PolInv, PolTypeOK
    <2>. QED
      BY <2>1, <2>2, <2>3 DEF SupportRoutes
  <1>. QED
    BY <1>1, <1>2, <1>3 DEF PolInv, PolTypeOK, SeedingOK

\* No step of the policy sets it back or revives a grant that has ended.
THEOREM PolSafe == PolSpec => PolicyForward
  <1> DEFINE Forward == /\ Newest' >= Newest
                        /\ grant # NoGrant /\ ~GrantIsActive => ~GrantIsActive'
  <1>1. PolInv /\ PolNext => PolInv' /\ Forward
    <2> SUFFICES ASSUME PolInv, PolNext PROVE PolInv' /\ Forward
      OBVIOUS
    <2>1. CASE \E i \in Instances : \/ EnsureSeeded(i) \/ CreateSnapshot(i)
                                    \/ RetireSnapshot(i) \/ InstanceDies(i)
      <3>1. PolInv' /\ Newest' >= Newest
        BY <2>1, SeedStep
      <3>2. UNCHANGED <<grant, moment>>
        BY <2>1 DEF EnsureSeeded, CreateSnapshot, RetireSnapshot, InstanceDies
      <3>. QED
        BY <3>1, <3>2 DEF GrantIsActive
    <2>2. CASE SupportRoutes \/ GrantClock
      <3>1. Newest \in Nat
        BY NewestIs
      <3>. QED
        BY <2>2, <3>1, GrantStep
    <2>. QED
      BY <2>1, <2>2 DEF PolNext
  <1>2. PolInv /\ UNCHANGED polVars => PolInv'
    BY DEF PolInv, PolTypeOK, SeedingOK, polVars, Newest, Active
  <1>3. PolSpec => []PolInv
    BY <1>1, <1>2, PolInitOK, PTL DEF PolSpec
  <1>. QED
    BY <1>1, <1>3, PTL DEF PolSpec, PolicyForward

(***************************************************************************)
(* Sign-in sessions: Sessions.                                             *)
(***************************************************************************)

\* Sign-in sessions on their own.
SesSpec == SesInit /\ [][SesNext]_sesVars

\* The fields of a RefreshToken row.
TokenRows == [login : Nat, parent : Nat, revoked : BOOLEAN, expired : BOOLEAN]
\* A tab's request: how far it is, the token it sent and the one it was given.
TabRows == [pc : {"idle", "ok", "refused", "claim", "unauthorized"}, held : Nat, new : Nat]

\* A login has the number of its first token, and there is none of a later number.
SesTypeOK ==
    /\ tokens \in Seq(TokenRows)
    /\ \A n \in DOMAIN tokens : tokens[n].login <= n
    /\ cookies \in {0} \cup DOMAIN tokens
    /\ tabs \in [Tabs -> TabRows]
    /\ \A l \in loggedOut : l \in Nat /\ l <= Len(tokens)

\* A tab under way holds a token; the one it was given is known to nobody else
\* and good, until the answer is there.
TabOK(t) ==
    /\ tabs[t].pc = "idle" => tabs[t] = IdleTab
    /\ Busy(t) => tabs[t].held \in DOMAIN tokens
    /\ tabs[t].new # 0 =>
          /\ tabs[t].pc = "ok" /\ tabs[t].new \in DOMAIN tokens
          /\ ~tokens[tabs[t].new].revoked
          /\ cookies # tabs[t].new
          /\ \A o \in Tabs : /\ tabs[o].held # tabs[t].new
                             /\ o # t => tabs[o].new # tabs[t].new

\* The inductive invariant of the sessions: without TabOK a rotated token could
\* be the one another tab is given.
SesInv == SesTypeOK /\ (\A t \in Tabs : TabOK(t)) /\ OneTokenPerLogin /\ CookieKept

\* Nobody signed in.
LEMMA SesInitOK == SesInit => SesInv
  BY DEF SesInit, SesInv, SesTypeOK, TabOK, OneTokenPerLogin, CookieKept, IdleTab, Busy, TabRows,
         TokenRows, Live

\* createSession appends a row.
LEMMA RowAppended ==
  ASSUME NEW rows \in Seq(TokenRows), NEW row \in TokenRows,
         NEW after, after = Append(rows, row), NEW n, n = Len(rows) + 1
  PROVE  /\ after \in Seq(TokenRows) /\ n \in Nat
         /\ Len(after) = n /\ DOMAIN after = DOMAIN rows \cup {n}
         /\ n \notin DOMAIN rows
         /\ \A m \in DOMAIN rows : after[m] = rows[m]
         /\ after[n] = row
  OBVIOUS

\* Types of the token rows, for the steps below.
LEMMA TokensAre ==
  ASSUME SesInv
  PROVE  /\ tokens \in Seq(TokenRows) /\ Len(tokens) \in Nat
         /\ \A m \in DOMAIN tokens : /\ m \in Nat /\ m # 0 /\ m <= Len(tokens)
                                     /\ tokens[m].login \in Nat
  <1>1. tokens \in Seq(TokenRows) /\ \A m \in DOMAIN tokens : tokens[m] \in TokenRows
    BY DEF SesInv, SesTypeOK
  <1>2. \A m \in DOMAIN tokens : m \in Nat /\ m # 0 /\ m <= Len(tokens)
    BY <1>1
  <1>3. \A m \in DOMAIN tokens : tokens[m].login \in Nat
    BY <1>1 DEF TokenRows
  <1>. QED
    BY <1>1, <1>2, <1>3

\* Revoking one token.
LEMMA TokenRevoked ==
  ASSUME SesInv, NEW n \in DOMAIN tokens
  PROVE  LET rows == [tokens EXCEPT ![n].revoked = TRUE]
         IN  /\ rows \in Seq(TokenRows) /\ Len(rows) = Len(tokens) /\ DOMAIN rows = DOMAIN tokens
             /\ rows[n].revoked = TRUE
             /\ \A m \in DOMAIN tokens : /\ rows[m].login = tokens[m].login
                                         /\ m # n => rows[m] = tokens[m]
  <1>1. PICK row : row = [tokens[n] EXCEPT !.revoked = TRUE]
    OBVIOUS
  <1>2. tokens[n] \in TokenRows /\ tokens \in Seq(TokenRows)
    BY DEF SesInv, SesTypeOK
  <1>3. row \in TokenRows /\ row.login = tokens[n].login /\ row.revoked = TRUE
    BY <1>1, <1>2 DEF TokenRows
  <1>4. [tokens EXCEPT ![n].revoked = TRUE] = [tokens EXCEPT ![n] = row]
    BY <1>1
  <1>5. PICK rows : rows = [tokens EXCEPT ![n] = row]
    OBVIOUS
  <1>6. rows \in Seq(TokenRows) /\ Len(rows) = Len(tokens) /\ DOMAIN rows = DOMAIN tokens
    BY <1>2, <1>3, <1>5
  <1>7. rows[n] = row /\ \A m \in DOMAIN tokens : m # n => rows[m] = tokens[m]
    BY <1>2, <1>5
  <1>8. \A m \in DOMAIN tokens : rows[m].login = tokens[m].login
    BY <1>3, <1>7
  <1>. QED
    BY <1>3, <1>4, <1>5, <1>6, <1>7, <1>8

\* A login starts a family with its own number.
LEMMA LoginStep ==
  ASSUME SesInv, Login
  PROVE  SesInv'
  <1> DEFINE n == Len(tokens) + 1
  <1>1. /\ tokens' = CreateSession(tokens, n, 0) /\ cookies' = n
        /\ raced \subseteq raced' /\ UNCHANGED <<tabs, loggedOut>>
    BY DEF Login, WriteCookies
  <1>2. tokens \in Seq(TokenRows) /\ n \in Nat /\ 0 \in Nat
    BY DEF SesInv, SesTypeOK
  <1>3. /\ tokens' \in Seq(TokenRows) /\ Len(tokens') = n /\ DOMAIN tokens' = DOMAIN tokens \cup {n}
        /\ n \notin DOMAIN tokens
        /\ \A m \in DOMAIN tokens : tokens'[m] = tokens[m]
        /\ tokens'[n].login = n /\ tokens'[n].revoked = FALSE
    <2>1. PICK row : row = [login |-> n, parent |-> 0, revoked |-> FALSE, expired |-> FALSE]
      OBVIOUS
    <2>2. row \in TokenRows /\ row.login = n /\ row.revoked = FALSE
      BY <1>2, <2>1 DEF TokenRows
    <2>3. tokens' = Append(tokens, row) /\ n = Len(tokens) + 1
      BY <1>1, <2>1 DEF CreateSession
    <2> HIDE DEF n
    <2>. QED
      BY <1>2, <2>2, <2>3, RowAppended
  <1>4. /\ n > Len(tokens) /\ Len(tokens) \in Nat /\ n # 0
        /\ \A m \in DOMAIN tokens : m \in Nat /\ m <= Len(tokens) /\ tokens[m].login \in Nat
    BY TokensAre
  <1> HIDE DEF n
  <1>5. \A m \in DOMAIN tokens : tokens[m].login # n
    BY <1>4 DEF SesInv, SesTypeOK
  <1>6. SesTypeOK'
    BY <1>1, <1>2, <1>3, <1>4 DEF SesInv, SesTypeOK
  <1>7. \A t \in Tabs : tabs[t].held # n /\ tabs[t].new # n
    BY <1>3, <1>4 DEF SesInv, TabOK, Busy, IdleTab
  <1>8. ASSUME NEW t \in Tabs PROVE TabOK(t)'
    BY <1>1, <1>3, <1>7 DEF SesInv, TabOK, Busy
  <1>9. OneTokenPerLogin'
    BY <1>3, <1>5 DEF SesInv, OneTokenPerLogin, Live, LoginOf
  <1>10. CookieKept'
    <2>1. n \notin loggedOut
      BY <1>4 DEF SesInv, SesTypeOK
    <2>. QED
      BY <1>1, <1>3, <1>4, <2>1 DEF SesInv, CookieKept, Live, LoginOf
  <1>. QED
    BY <1>6, <1>8, <1>9, <1>10 DEF SesInv

\* A tab sends what the cookie jar holds.
LEMMA SendStep ==
  ASSUME SesInv, NEW t \in Tabs, Send(t)
  PROVE  SesInv'
  <1>1. PICK p \in {"ok", "refused"} :
            /\ tabs' = [tabs EXCEPT ![t] = [pc |-> p, held |-> cookies, new |-> 0]]
            /\ UNCHANGED <<tokens, cookies, raced, loggedOut>> /\ cookies # 0 /\ ~Busy(t)
    BY DEF Send
  <1>2. cookies \in DOMAIN tokens /\ cookies \in Nat
    BY <1>1 DEF SesInv, SesTypeOK
  <1>3. /\ tabs' \in [Tabs -> TabRows] /\ tabs'[t].held = cookies /\ tabs'[t].new = 0
        /\ tabs'[t].pc = p /\ \A o \in Tabs : o # t => tabs'[o] = tabs[o]
    BY <1>1, <1>2 DEF SesInv, SesTypeOK, TabRows
  <1>4. tabs[t].new = 0
    BY <1>1 DEF SesInv, TabOK, Busy, IdleTab
  <1>5. SesTypeOK' /\ OneTokenPerLogin'
    BY <1>1, <1>3 DEF SesInv, SesTypeOK, OneTokenPerLogin, Live, LoginOf
  <1>6. CookieKept'
    BY <1>1, <1>3, <1>4 DEF SesInv, CookieKept, Live, LoginOf
  <1>7. TabOK(t)'
    BY <1>1, <1>2, <1>3 DEF TabOK, Busy
  <1>8. ASSUME NEW o \in Tabs, o # t PROVE TabOK(o)'
    <2>1. TabOK(o) /\ tabs'[o] = tabs[o]
      BY <1>3, <1>8 DEF SesInv
    <2>. QED
      BY <1>1, <1>3, <2>1 DEF TabOK, Busy
  <1>. QED
    BY <1>5, <1>6, <1>7, <1>8 DEF SesInv

\* A tab moves on with the token it sent, and nothing else changes.
LEMMA TabGoesOn ==
  ASSUME SesInv, NEW t \in Tabs, NEW p \in {"claim", "unauthorized"},
         tabs' = [tabs EXCEPT ![t].pc = p], Busy(t), tabs[t].pc # "ok",
         raced \subseteq raced', UNCHANGED <<tokens, cookies, loggedOut>>
  PROVE  SesInv'
  <1>1. /\ tabs' \in [Tabs -> TabRows] /\ tabs'[t].held = tabs[t].held /\ tabs'[t].new = tabs[t].new
        /\ tabs'[t].pc = p /\ \A o \in Tabs : o # t => tabs'[o] = tabs[o]
    BY DEF SesInv, SesTypeOK, TabRows
  <1>2. tabs[t].new = 0 /\ tabs[t].held \in DOMAIN tokens
    BY DEF SesInv, TabOK
  <1>3. SesTypeOK' /\ OneTokenPerLogin'
    BY <1>1 DEF SesInv, SesTypeOK, OneTokenPerLogin, Live, LoginOf
  <1>4. CookieKept'
    BY <1>1 DEF SesInv, CookieKept, Live, LoginOf
  <1>5. TabOK(t)'
    BY <1>1, <1>2 DEF TabOK, Busy
  <1>6. ASSUME NEW o \in Tabs, o # t PROVE TabOK(o)'
    <2>1. TabOK(o) /\ tabs'[o] = tabs[o]
      BY <1>1, <1>6 DEF SesInv
    <2>2. \A x \in Tabs : tabs'[x].held = tabs[x].held /\ tabs'[x].new = tabs[x].new
      BY <1>1
    <2>. QED
      BY <2>1, <2>2 DEF TabOK, Busy
  <1>. QED
    BY <1>3, <1>4, <1>5, <1>6 DEF SesInv

\* The refresh reads the row of the token sent.
LEMMA RefreshReadStep ==
  ASSUME SesInv, NEW t \in Tabs, RefreshRead(t)
  PROVE  SesInv'
  <1>1. PICK p \in {"claim", "unauthorized"} : tabs' = [tabs EXCEPT ![t].pc = p]
    BY DEF RefreshRead
  <1>2. /\ Busy(t) /\ tabs[t].pc # "ok" /\ raced \subseteq raced'
        /\ UNCHANGED <<tokens, cookies, loggedOut>>
    BY DEF RefreshRead, Busy
  <1>. QED
    BY <1>1, <1>2, TabGoesOn

\* The claim revokes the token and gives out its successor in one transaction, or
\* refuses and ends the family when somebody else was first.
LEMMA RefreshClaimStep ==
  ASSUME SesInv, NEW t \in Tabs, RefreshClaim(t)
  PROVE  SesInv'
  <1>1. /\ tabs[t].pc = "claim" /\ Busy(t) /\ UNCHANGED <<cookies, raced, loggedOut>>
    BY DEF RefreshClaim, Busy
  <1>2. PICK n \in DOMAIN tokens : n = tabs[t].held
    BY <1>1 DEF SesInv, TabOK
  <1>3. CASE ~Live(n)
    BY <1>1, <1>2, <1>3, TabGoesOn DEF RefreshClaim
  <1>4. CASE Live(n)
    <2> DEFINE rows == [tokens EXCEPT ![n].revoked = TRUE]
               new == Len(tokens) + 1
    <2>1. /\ tokens' = CreateSession(rows, LoginOf(n), n)
          /\ tabs' = [tabs EXCEPT ![t].pc = "ok", ![t].new = new]
      BY <1>2, <1>4 DEF RefreshClaim
    <2>2. tokens \in Seq(TokenRows) /\ new \in Nat /\ new # 0 /\ LoginOf(n) \in Nat /\ n \in Nat
      BY TokensAre DEF LoginOf
    <2>3. /\ rows \in Seq(TokenRows) /\ Len(rows) = Len(tokens) /\ DOMAIN rows = DOMAIN tokens
          /\ rows[n].revoked = TRUE
          /\ \A m \in DOMAIN tokens : /\ rows[m].login = tokens[m].login
                                      /\ m # n => rows[m] = tokens[m]
      BY TokenRevoked
    <2> HIDE DEF rows
    <2>4. /\ tokens' \in Seq(TokenRows) /\ Len(tokens') = new
          /\ DOMAIN tokens' = DOMAIN tokens \cup {new} /\ new \notin DOMAIN tokens
          /\ \A m \in DOMAIN tokens : tokens'[m] = rows[m]
          /\ tokens'[new].login = LoginOf(n) /\ tokens'[new].revoked = FALSE
      <3>1. PICK row : row = [login |-> LoginOf(n), parent |-> n, revoked |-> FALSE,
                              expired |-> FALSE]
        OBVIOUS
      <3>2. row \in TokenRows /\ row.login = LoginOf(n) /\ row.revoked = FALSE
        BY <2>2, <3>1 DEF TokenRows
      <3>3. tokens' = Append(rows, row) /\ new = Len(rows) + 1
        BY <2>1, <2>3, <3>1 DEF CreateSession
      <3> HIDE DEF new
      <3>. QED
        BY <2>2, <2>3, <3>2, <3>3, RowAppended
    <2>5. /\ tokens'[n].revoked
          /\ \A m \in DOMAIN tokens : /\ tokens'[m].login = tokens[m].login
                                      /\ m # n => tokens'[m].revoked = tokens[m].revoked
      BY <2>3, <2>4
    <2>6. /\ new > Len(tokens) /\ Len(tokens) \in Nat
          /\ \A m \in DOMAIN tokens : m \in Nat /\ m <= Len(tokens) /\ tokens[m].login \in Nat
      BY TokensAre
    <2>7. /\ tabs' \in [Tabs -> TabRows] /\ tabs'[t].held = n /\ tabs'[t].new = new
          /\ tabs'[t].pc = "ok" /\ \A o \in Tabs : o # t => tabs'[o] = tabs[o]
      <3>1. PICK row : row = [tabs[t] EXCEPT !.pc = "ok", !.new = new]
        OBVIOUS
      <3>2. tabs[t] \in TabRows
        BY DEF SesInv, SesTypeOK
      <3>3. row \in TabRows /\ row.held = n /\ row.new = new /\ row.pc = "ok"
        BY <1>2, <2>2, <3>1, <3>2 DEF TabRows
      <3>4. tabs' = [tabs EXCEPT ![t] = row]
        BY <2>1, <3>1
      <3>. QED
        BY <3>3, <3>4 DEF SesInv, SesTypeOK
    <2> HIDE DEF new
    <2>8. \A o \in Tabs : tabs[o].held # new /\ tabs[o].new # new
      BY <2>2, <2>4 DEF SesInv, TabOK, Busy, IdleTab
    <2>9. /\ cookies # new /\ tabs[t].new = 0
      BY <1>1, <2>2, <2>4 DEF SesInv, SesTypeOK, TabOK
    <2>10. SesTypeOK'
      <3>1. LoginOf(n) <= n /\ n <= Len(tokens)
        BY <2>6 DEF SesInv, SesTypeOK, LoginOf
      <3>2. tokens'[new].login <= new
        BY <2>2, <2>4, <2>6, <3>1
      <3>3. \A m \in DOMAIN tokens' : tokens'[m].login <= m
        BY <2>4, <2>5, <3>2 DEF SesInv, SesTypeOK
      <3>4. \A l \in loggedOut : l \in Nat /\ l <= new
        BY <2>2, <2>6 DEF SesInv, SesTypeOK
      <3>. QED
        BY <1>1, <2>4, <2>7, <3>3, <3>4 DEF SesInv, SesTypeOK
    <2>11. OneTokenPerLogin'
      <3>1. \A m \in DOMAIN tokens : LoginOf(m) = LoginOf(n) => m = n \/ tokens[m].revoked
        BY <1>4, <2>6 DEF SesInv, OneTokenPerLogin, Live
      <3>. QED
        BY <2>4, <2>5, <3>1 DEF SesInv, OneTokenPerLogin, Live, LoginOf
    <2>12. CookieKept'
      <3>1. cookies' # 0 /\ LoginOf(cookies)' \notin raced' =>
               Live(cookies)' \/ \E o \in Tabs : tabs'[o].held = cookies' /\ tabs'[o].new # 0
        <4> SUFFICES ASSUME cookies # 0, tokens'[cookies].login \notin raced
                     PROVE  ~tokens'[cookies].revoked \/ \E o \in Tabs : tabs'[o].held = cookies /\ tabs'[o].new # 0
          BY <1>1 DEF LoginOf, Live
        <4>1. cookies \in DOMAIN tokens
          BY DEF SesInv, SesTypeOK
        <4>2. Live(cookies) \/ \E o \in Tabs : tabs[o].held = cookies /\ tabs[o].new # 0
          BY <2>5, <4>1 DEF SesInv, CookieKept, LoginOf
        <4>3. CASE cookies = n
          BY <2>2, <2>7, <4>3
        <4>4. CASE cookies # n
          BY <2>5, <2>7, <2>9, <4>1, <4>2, <4>4 DEF Live
        <4>. QED
          BY <4>3, <4>4
      <3>2. \A m \in DOMAIN tokens' : LoginOf(m)' \in loggedOut' \ raced' => ~Live(m)'
        <4>1. LoginOf(n) \notin loggedOut \ raced
          BY <1>4 DEF SesInv, CookieKept
        <4>. QED
          BY <1>1, <2>4, <2>5, <4>1 DEF SesInv, CookieKept, LoginOf, Live
      <3>. QED
        BY <3>1, <3>2 DEF CookieKept
    <2>13. TabOK(t)'
      BY <1>1, <2>2, <2>4, <2>7, <2>8, <2>9 DEF TabOK, Busy
    <2>14. ASSUME NEW o \in Tabs, o # t PROVE TabOK(o)'
      <3>1. TabOK(o) /\ tabs'[o] = tabs[o] /\ tabs[o].new # n
        BY <1>2, <2>2, <2>7, <2>14 DEF SesInv, TabOK
      <3>2. \A x \in Tabs : tabs'[x].held = tabs[x].held
        BY <1>2, <2>7
      <3>. QED
        BY <1>1, <2>4, <2>5, <2>7, <2>8, <3>1, <3>2 DEF TabOK, Busy
    <2>. QED
      BY <2>10, <2>11, <2>12, <2>13, <2>14 DEF SesInv
  <1>. QED
    BY <1>3, <1>4

\* A tab is free again.
LEMMA TabCleared ==
  ASSUME SesInv, NEW t \in Tabs, tabs' = [tabs EXCEPT ![t] = IdleTab]
  PROVE  /\ tabs' \in [Tabs -> TabRows] /\ tabs'[t] = IdleTab /\ tabs'[t].new = 0 /\ tabs'[t].held = 0
         /\ \A o \in Tabs : o # t => tabs'[o] = tabs[o]
  BY DEF SesInv, SesTypeOK, TabRows, IdleTab

\* An answer is lost with the token in it.
LEMMA AnswerLostStep ==
  ASSUME SesInv, NEW t \in Tabs, AnswerLost(t)
  PROVE  SesInv'
  <1>1. /\ tabs' = [tabs EXCEPT ![t] = IdleTab]
        /\ raced' = IF tabs[t].new # 0 THEN raced \cup {LoginOf(tabs[t].held)} ELSE raced
        /\ UNCHANGED <<tokens, cookies, loggedOut>>
    BY DEF AnswerLost
  <1>2. /\ tabs' \in [Tabs -> TabRows] /\ tabs'[t] = IdleTab /\ tabs'[t].new = 0 /\ tabs'[t].held = 0
        /\ \A o \in Tabs : o # t => tabs'[o] = tabs[o]
    BY <1>1, TabCleared
  <1>3. SesTypeOK' /\ OneTokenPerLogin'
    BY <1>1, <1>2 DEF SesInv, SesTypeOK, OneTokenPerLogin, Live, LoginOf
  <1>4. CookieKept'
    BY <1>1, <1>2 DEF SesInv, CookieKept, Live, LoginOf
  <1>5. ASSUME NEW o \in Tabs PROVE TabOK(o)'
    BY <1>1, <1>2 DEF SesInv, TabOK, Busy, IdleTab
  <1>. QED
    BY <1>3, <1>4, <1>5 DEF SesInv

\* The answer sets the cookie, or clears it.
LEMMA AnswerStep ==
  ASSUME SesInv, NEW t \in Tabs, Answer(t)
  PROVE  SesInv'
  <1>1. /\ tabs' = [tabs EXCEPT ![t] = IdleTab]
        /\ UNCHANGED <<tokens, raced, loggedOut>>
        /\ \/ cookies' = 0
           \/ cookies' = cookies /\ tabs[t].new = 0
           \/ cookies' = tabs[t].new /\ tabs[t].new # 0
    BY DEF Answer, WriteCookies
  <1>2. /\ tabs' \in [Tabs -> TabRows] /\ tabs'[t] = IdleTab /\ tabs'[t].new = 0 /\ tabs'[t].held = 0
        /\ \A o \in Tabs : o # t => tabs'[o] = tabs[o]
    BY <1>1, TabCleared
  <1>3. TabOK(t)
    BY DEF SesInv
  <1>4. SesTypeOK' /\ OneTokenPerLogin'
    BY <1>1, <1>2, <1>3 DEF SesInv, SesTypeOK, OneTokenPerLogin, Live, LoginOf, TabOK
  <1>5. CookieKept'
    <2>1. \A n \in DOMAIN tokens' : LoginOf(n)' \in loggedOut' \ raced' => ~Live(n)'
      BY <1>1 DEF SesInv, CookieKept, Live, LoginOf
    <2>2. CASE cookies' = 0
      BY <2>1, <2>2 DEF CookieKept
    <2>3. CASE cookies' = cookies /\ tabs[t].new = 0
      BY <1>1, <1>2, <2>1, <2>3 DEF SesInv, CookieKept, Live, LoginOf
    <2>4. CASE cookies' = tabs[t].new /\ tabs[t].new # 0
      BY <1>1, <1>3, <2>1, <2>4 DEF TabOK, CookieKept, Live
    <2>. QED
      BY <1>1, <2>2, <2>3, <2>4
  <1>6. ASSUME NEW o \in Tabs PROVE TabOK(o)'
    <2>1. CASE o = t
      BY <1>2, <2>1 DEF TabOK, Busy, IdleTab
    <2>2. CASE o # t
      <3>1. TabOK(o) /\ tabs'[o] = tabs[o]
        BY <1>2, <2>2 DEF SesInv
      <3>2. tabs[o].new # 0 => cookies' # tabs[o].new
        BY <1>1, <1>3, <2>2, <3>1 DEF TabOK
      <3>. QED
        BY <1>1, <1>2, <3>1, <3>2 DEF TabOK, Busy
    <2>. QED
      BY <2>1, <2>2
  <1>. QED
    BY <1>4, <1>5, <1>6 DEF SesInv

\* Logging out revokes what the cookie named.
LEMMA LogoutStep ==
  ASSUME SesInv, NEW r \in BOOLEAN, Logout(r)
  PROVE  SesInv'
  <1>1. /\ cookies # 0 /\ cookies' = 0 /\ UNCHANGED tabs
        /\ tokens' = IF r THEN [tokens EXCEPT ![cookies].revoked = TRUE] ELSE tokens
        /\ loggedOut' = loggedOut \cup {LoginOf(cookies)}
        /\ raced \subseteq raced'
        /\ LoginOf(cookies) \notin raced' => r /\ \A t \in Tabs : ~Busy(t)
    BY DEF Logout, WriteCookies, RevokeToken
  <1>2. PICK c \in DOMAIN tokens : c = cookies
    BY <1>1 DEF SesInv, SesTypeOK
  <1>3. /\ tokens' \in Seq(TokenRows) /\ Len(tokens') = Len(tokens) /\ DOMAIN tokens' = DOMAIN tokens
        /\ \A m \in DOMAIN tokens : /\ tokens'[m].login = tokens[m].login
                                    /\ tokens[m].revoked => tokens'[m].revoked
                                    /\ m # c => tokens'[m].revoked = tokens[m].revoked
        /\ r => tokens'[c].revoked
    <2>1. CASE r
      <3>1. tokens' = [tokens EXCEPT ![c].revoked = TRUE]
        BY <1>1, <1>2, <2>1
      <3>. QED
        BY <3>1, TokenRevoked
    <2>2. CASE ~r
      BY <1>1, <2>2, TokensAre
    <2>. QED
      BY <2>1, <2>2
  <1>4. \A t \in Tabs : tabs[t].new # c \/ tabs[t].new = 0
    BY <1>2 DEF SesInv, TabOK
  <1>5. SesTypeOK'
    <2>1. LoginOf(c) \in Nat /\ LoginOf(c) <= c /\ c <= Len(tokens) /\ c \in Nat /\ Len(tokens) \in Nat
      BY TokensAre DEF SesInv, SesTypeOK, LoginOf
    <2>2. LoginOf(c) <= Len(tokens)
      BY <2>1
    <2>3. \A l \in loggedOut' : l \in Nat /\ l <= Len(tokens')
      BY <1>1, <1>2, <1>3, <2>1, <2>2 DEF SesInv, SesTypeOK
    <2>. QED
      BY <1>1, <1>3, <2>3 DEF SesInv, SesTypeOK
  <1>6. OneTokenPerLogin'
    BY <1>3 DEF SesInv, OneTokenPerLogin, Live, LoginOf
  <1>7. ASSUME NEW t \in Tabs PROVE TabOK(t)'
    <2>1. TabOK(t)
      BY DEF SesInv
    <2>2. tabs[t].new # 0 => tabs[t].new # c
      BY <1>4
    <2>3. 0 \notin DOMAIN tokens
      BY TokensAre
    <2>. QED
      BY <1>1, <1>3, <2>1, <2>2, <2>3 DEF TabOK, Busy
  <1>8. CookieKept'
    <2> SUFFICES ASSUME NEW m \in DOMAIN tokens, tokens'[m].login \in loggedOut', tokens'[m].login \notin raced'
                 PROVE  tokens'[m].revoked
      BY <1>1, <1>3 DEF CookieKept, Live, LoginOf
    <2>1. tokens'[m].login = LoginOf(m) /\ LoginOf(m) \notin raced
      BY <1>1, <1>3 DEF LoginOf
    <2>2. CASE LoginOf(m) \in loggedOut
      <3>1. ~Live(m)
        BY <2>1, <2>2 DEF SesInv, CookieKept
      <3>2. tokens[m].revoked
        BY <3>1, TokensAre DEF Live
      <3>. QED
        BY <1>3, <3>2
    <2>3. CASE LoginOf(m) = LoginOf(c)
      <3>1. r /\ \A t \in Tabs : ~Busy(t)
        BY <1>1, <1>2, <2>1, <2>3
      <3>2. \A t \in Tabs : tabs[t].new = 0
        BY <3>1 DEF SesInv, TabOK, Busy, IdleTab
      <3>3. Live(c)
        BY <1>1, <1>2, <2>1, <2>3, <3>2 DEF SesInv, CookieKept
      <3>4. m = c \/ ~Live(m)
        BY <2>3, <3>3 DEF SesInv, OneTokenPerLogin
      <3>. QED
        BY <1>3, <3>1, <3>4, TokensAre DEF Live
    <2>. QED
      BY <1>1, <1>2, <2>1, <2>2, <2>3
  <1>. QED
    BY <1>5, <1>6, <1>7, <1>8 DEF SesInv

\* A token expires.
LEMMA SesTimeStep ==
  ASSUME SesInv,
         SwitchOff \/ \E n \in DOMAIN tokens : AccessExpires(n) \/ RefreshExpires(n)
  PROVE  SesInv'
  <1>1. UNCHANGED <<cookies, tabs, raced, loggedOut>>
    BY DEF SwitchOff, AccessExpires, RefreshExpires
  <1>2. /\ tokens' \in Seq(TokenRows) /\ Len(tokens') = Len(tokens) /\ DOMAIN tokens' = DOMAIN tokens
        /\ \A m \in DOMAIN tokens : /\ tokens'[m].login = tokens[m].login
                                    /\ tokens'[m].revoked = tokens[m].revoked
    <2>1. CASE UNCHANGED tokens
      BY <2>1, TokensAre
    <2>2. ASSUME NEW n \in DOMAIN tokens, tokens' = [tokens EXCEPT ![n].expired = TRUE]
          PROVE  /\ tokens' \in Seq(TokenRows) /\ Len(tokens') = Len(tokens)
                 /\ DOMAIN tokens' = DOMAIN tokens
                 /\ \A m \in DOMAIN tokens : /\ tokens'[m].login = tokens[m].login
                                             /\ tokens'[m].revoked = tokens[m].revoked
      <3>1. PICK row : row = [tokens[n] EXCEPT !.expired = TRUE]
        OBVIOUS
      <3>2. tokens[n] \in TokenRows /\ tokens \in Seq(TokenRows)
        BY DEF SesInv, SesTypeOK
      <3>3. row \in TokenRows /\ row.login = tokens[n].login /\ row.revoked = tokens[n].revoked
        BY <3>1, <3>2 DEF TokenRows
      <3>4. tokens' = [tokens EXCEPT ![n] = row]
        BY <2>2, <3>1
      <3>5. tokens' \in Seq(TokenRows) /\ Len(tokens') = Len(tokens) /\ DOMAIN tokens' = DOMAIN tokens
        BY <3>2, <3>3, <3>4
      <3>6. tokens'[n] = row /\ \A m \in DOMAIN tokens : m # n => tokens'[m] = tokens[m]
        BY <3>2, <3>4
      <3>. QED
        BY <3>3, <3>5, <3>6
    <2>. QED
      BY <2>1, <2>2 DEF SwitchOff, AccessExpires, RefreshExpires
  <1>3. SesTypeOK' /\ OneTokenPerLogin'
    BY <1>1, <1>2 DEF SesInv, SesTypeOK, OneTokenPerLogin, Live, LoginOf
  <1>4. CookieKept'
    <2>1. cookies \in {0} \cup DOMAIN tokens
      BY DEF SesInv, SesTypeOK
    <2>. QED
      BY <1>1, <1>2, <2>1 DEF SesInv, CookieKept, Live, LoginOf
  <1>5. ASSUME NEW o \in Tabs PROVE TabOK(o)'
    BY <1>1, <1>2 DEF SesInv, TabOK, Busy
  <1>. QED
    BY <1>3, <1>4, <1>5 DEF SesInv

\* Every step of the sessions keeps the invariant.
LEMMA SesStep ==
  ASSUME SesInv, SesNext
  PROVE  SesInv'
  BY LoginStep, LogoutStep, SendStep, RefreshReadStep, RefreshClaimStep, AnswerStep, AnswerLostStep,
     SesTimeStep DEF SesNext

\* Along every behaviour of the sessions a login has one live token, the one the
\* browser holds or is about to.
THEOREM SesSafe == SesSpec => []SessionSafe
  <1>1. SesInv /\ UNCHANGED sesVars => SesInv'
    BY DEF sesVars, SesInv, SesTypeOK, TabOK, Busy, OneTokenPerLogin, CookieKept, Live, LoginOf
  <1>2. SesInv => SessionSafe
    BY DEF SesInv, SessionSafe
  <1>. QED
    BY <1>1, <1>2, SesInitOK, SesStep, PTL DEF SesSpec

(***************************************************************************)
(* User rights: UserRights.                                                *)
(***************************************************************************)

\* User rights and their cache on their own.
RightsSpec == RightsInit /\ [][RightsNext]_rightsVars

\* A lookup under way read its row at most SlowestLookup ago.
LookupOK(u) ==
    /\ lookup[u] = [caps |-> lookup[u].caps, tenant |-> lookup[u].tenant,
                    readAt |-> lookup[u].readAt]
    /\ lookup[u].readAt \in Nat
    /\ lookup[u] # NoLookup => lookup[u].readAt <= now /\ now <= lookup[u].readAt + SlowestLookup

\* An entry ends a lookup and a lifetime after its row was read.
EntryOK(u) ==
    /\ cache[u].readAt \in Nat /\ cache[u].until \in Nat
    /\ cache[u].until <= cache[u].readAt + SlowestLookup + Ttl

\* The inductive invariant of the rights: how old what a lookup read can be, and
\* so what it leaves in the cache.
RightsInv ==
    /\ now \in Nat /\ changed \in [Users -> Nat]
    /\ lookup = [u \in Users |-> lookup[u]] /\ cache = [u \in Users |-> cache[u]]
    /\ \A u \in Users : LookupOK(u) /\ EntryOK(u)

\* An empty cache satisfies it.
LEMMA RightsInitOK == RightsInit => RightsInv
  <1> SUFFICES ASSUME RightsInit PROVE RightsInv
    OBVIOUS
  <1>1. /\ now = 0 /\ changed = [u \in Users |-> 0]
        /\ cache = [u \in Users |-> NoEntry] /\ lookup = [u \in Users |-> NoLookup]
    BY DEF RightsInit
  <1>2. ASSUME NEW u \in Users PROVE LookupOK(u) /\ EntryOK(u)
    <2>1. /\ NoLookup = [caps |-> NoLookup.caps, tenant |-> NoLookup.tenant, readAt |-> NoLookup.readAt]
          /\ NoLookup.readAt \in Nat /\ NoEntry.readAt = 0 /\ NoEntry.until = 0
      BY RightsAssumption DEF NoLookup, NoEntry
    <2>2. lookup[u] = NoLookup /\ cache[u] = NoEntry
      BY <1>1
    <2>3. 0 <= 0 + SlowestLookup + Ttl
      BY RightsAssumption
    <2>. QED
      BY <2>1, <2>2, <2>3 DEF LookupOK, EntryOK
  <1>. QED
    BY <1>1, <1>2 DEF RightsInv

\* A step that leaves the clock, the lookups and the cache alone may change any row.
LEMMA RowChanges ==
  ASSUME RightsInv, changed' \in [Users -> Nat], UNCHANGED <<now, cache, lookup>>
  PROVE  RightsInv'
  BY DEF RightsInv, LookupOK, EntryOK

\* A lookup reads the row, then the tenant, then fills the cache.
LEMMA LookupStep ==
  ASSUME RightsInv, NEW u \in Users,
         StartLookup(u) \/ ResolveIdentityClaims(u) \/ FinishLookup(u)
  PROVE  RightsInv'
  <1>1. UNCHANGED <<now, changed>>
    BY DEF StartLookup, ResolveIdentityClaims, FinishLookup
  <1>2. PICK l : /\ lookup' = [lookup EXCEPT ![u] = l]
                 /\ l = [caps |-> l.caps, tenant |-> l.tenant, readAt |-> l.readAt]
                 /\ l.readAt \in Nat
                 /\ l # NoLookup => l.readAt <= now /\ now <= l.readAt + SlowestLookup
    <2>1. CASE StartLookup(u)
      <3> DEFINE l == [caps |-> EffectiveCapabilities(u), tenant |-> "unread", readAt |-> now]
      <3>1. lookup' = [lookup EXCEPT ![u] = l]
        BY <2>1 DEF StartLookup
      <3>2. l.readAt = now /\ l = [caps |-> l.caps, tenant |-> l.tenant, readAt |-> l.readAt]
        OBVIOUS
      <3>3. now \in Nat /\ now <= now /\ now <= now + SlowestLookup
        BY RightsAssumption DEF RightsInv
      <3> HIDE DEF l
      <3>. QED
        BY <3>1, <3>2, <3>3
    <2>2. CASE ResolveIdentityClaims(u)
      <3> DEFINE t == IF member[u] THEN "resolved" ELSE "none"
                 l == [lookup[u] EXCEPT !.tenant = t]
      <3>1. lookup' = [lookup EXCEPT ![u] = l] /\ lookup[u] # NoLookup
        BY <2>2 DEF ResolveIdentityClaims
      <3>2. LookupOK(u)
        BY DEF RightsInv
      <3>3. /\ l = [caps |-> lookup[u].caps, tenant |-> t, readAt |-> lookup[u].readAt]
        BY <3>2 DEF LookupOK
      <3>4. l.readAt = lookup[u].readAt /\ l = [caps |-> l.caps, tenant |-> l.tenant, readAt |-> l.readAt]
        BY <3>3
      <3> HIDE DEF l
      <3>. QED
        BY <3>1, <3>2, <3>4 DEF LookupOK
    <2>3. CASE FinishLookup(u)
      <3>1. lookup' = [lookup EXCEPT ![u] = NoLookup]
        BY <2>3 DEF FinishLookup
      <3>2. /\ NoLookup = [caps |-> NoLookup.caps, tenant |-> NoLookup.tenant, readAt |-> NoLookup.readAt]
            /\ NoLookup.readAt \in Nat
        BY RightsAssumption DEF NoLookup
      <3>. QED
        BY <3>1, <3>2
    <2>. QED
      BY <2>1, <2>2, <2>3
  <1>3. /\ lookup' = [x \in Users |-> lookup'[x]] /\ lookup'[u] = l
        /\ \A x \in Users : x # u => lookup'[x] = lookup[x]
    BY <1>2 DEF RightsInv
  <1>4. \A x \in Users : LookupOK(x)'
    BY <1>1, <1>2, <1>3 DEF RightsInv, LookupOK
  <1>5. cache' = [x \in Users |-> cache'[x]] /\ \A x \in Users : EntryOK(x)'
    <2>1. CASE UNCHANGED cache
      BY <2>1 DEF RightsInv, EntryOK
    <2>2. CASE FinishLookup(u) /\ ~UNCHANGED cache
      <3> DEFINE e == [caps |-> lookup[u].caps, tenant |-> lookup[u].tenant,
                       readAt |-> lookup[u].readAt, until |-> now + Ttl]
      <3>1. /\ cache' = [cache EXCEPT ![u] = e] /\ lookup[u] # NoLookup
        BY <2>2 DEF FinishLookup, NoLookup
      <3>2. e.readAt = lookup[u].readAt /\ e.until = now + Ttl
        OBVIOUS
      <3> HIDE DEF e
      <3>3. /\ cache' = [x \in Users |-> cache'[x]] /\ cache'[u] = e
            /\ \A x \in Users : x # u => cache'[x] = cache[x]
        BY <3>1 DEF RightsInv
      <3>4. /\ lookup[u].readAt \in Nat /\ now <= lookup[u].readAt + SlowestLookup
            /\ now \in Nat
        BY <3>1 DEF RightsInv, LookupOK
      <3>5. /\ e.readAt \in Nat /\ e.until \in Nat
            /\ e.until <= e.readAt + SlowestLookup + Ttl
        BY <3>2, <3>4, RightsAssumption
      <3>. QED
        BY <3>3, <3>5 DEF RightsInv, EntryOK
    <2>. QED
      BY <2>1, <2>2 DEF StartLookup, ResolveIdentityClaims
  <1>. QED
    BY <1>1, <1>3, <1>4, <1>5 DEF RightsInv

\* Time passes only as far as the slowest lookup allows.
LEMMA RightsTickStep ==
  ASSUME RightsInv, RightsTick
  PROVE  RightsInv'
  <1>1. /\ \A u \in Users : lookup[u] = NoLookup \/ lookup[u].readAt + SlowestLookup > now
        /\ now' = now + 1 /\ UNCHANGED <<changed, cache, lookup>>
    BY DEF RightsTick
  <1>2. ASSUME NEW u \in Users PROVE LookupOK(u)'
    BY <1>1, RightsAssumption DEF RightsInv, LookupOK
  <1>. QED
    BY <1>1, <1>2 DEF RightsInv, EntryOK

\* Every step of the rights keeps the invariant.
LEMMA RightsStep ==
  ASSUME RightsInv, RightsNext
  PROVE  RightsInv'
  <1>1. ASSUME NEW u \in Users, changed' = [changed EXCEPT ![u] = now], UNCHANGED <<now, cache, lookup>>
        PROVE  RightsInv'
    <2>1. changed' \in [Users -> Nat]
      BY <1>1 DEF RightsInv
    <2>. QED
      BY <1>1, <2>1, RowChanges
  <1>2. ASSUME NEW a \in Users, UsersPage(a) PROVE RightsInv'
    <2>1. ASSUME NEW u \in Users, CreateUser(a, u) PROVE RightsInv'
      BY <2>1, <1>1 DEF CreateUser, Save
    <2>2. ASSUME NEW u \in Users, NEW give, NEW take, UpdatePermissions(a, u, give, take)
          PROVE  RightsInv'
      BY <2>2, <1>1 DEF UpdatePermissions
    <2>. QED
      BY <1>2, <2>1, <2>2 DEF UsersPage
  <1>3. ASSUME NEW u \in Users, Disable(u) PROVE RightsInv'
    BY <1>3, <1>1 DEF Disable
  <1>4. ASSUME NEW u \in Users, UpdateStatus(u) PROVE RightsInv'
    BY <1>4, <1>1 DEF UpdateStatus
  <1>. QED
    BY <1>2, <1>3, <1>4, LookupStep, RightsTickStep DEF RightsNext

\* The invariant gives RightsTakeEffect.
LEMMA RightsFresh == RightsInv => RightsTakeEffect
  <1> SUFFICES ASSUME RightsInv, NEW u \in Users
               PROVE  /\ CacheHit(u) => ~Outdated(u, cache[u].readAt)
                      /\ lookup[u] # NoLookup => ~Outdated(u, lookup[u].readAt)
    BY DEF RightsTakeEffect
  <1>1. changed[u] \in Nat /\ now \in Nat /\ LookupOK(u) /\ EntryOK(u)
    BY DEF RightsInv
  <1>. QED
    BY <1>1, RightsAssumption DEF CacheHit, Outdated, LookupOK, EntryOK

\* Along every behaviour of the rights a change is in force a lookup and a cache
\* lifetime later.
THEOREM RightsSafe == RightsSpec => []RightsTakeEffect
  <1>1. RightsInv /\ UNCHANGED rightsVars => RightsInv'
    BY DEF rightsVars, RightsInv, LookupOK, EntryOK
  <1>. QED
    BY <1>1, RightsInitOK, RightsStep, RightsFresh, PTL DEF RightsSpec

(***************************************************************************)
(* The terminal registry: TerminalRegistry.                                *)
(***************************************************************************)

\* The terminal registry on its own.
RegSpec == RegInit /\ [][RegNext]_regVars

\* The fields of an enrollment code.
CodeRows == [branch : Branches, used : BOOLEAN, expired : BOOLEAN]
\* The fields of a Terminal row; token is the number of the credential whose hash
\* it keeps.
TerminalRows == [branch : Branches \cup {"none"}, revoked : BOOLEAN, token : Nat, pending : BOOLEAN]

\* Type correctness of the registry.
RegTypeOK ==
    /\ codes \in Seq(CodeRows)
    /\ terminals \in [Devices -> TerminalRows]
    /\ holds \in [Devices -> Nat]
    /\ issued \in Seq(Nat)
    /\ desks = [k \in Desks |-> desks[k]]
    /\ revokedAt \in [Devices -> Nat]
    /\ crossed \subseteq Devices

\* Every credential was issued for a code of its own, which is used up.
IssuedOK ==
    /\ \A m \in DOMAIN issued : issued[m] \in DOMAIN codes /\ codes[issued[m]].used
    /\ \A m, n \in DOMAIN issued : issued[m] = issued[n] => m = n

\* Credentials are counted by when they were issued.
TokensOK ==
    \A d \in Devices :
        /\ holds[d] <= Len(issued) /\ terminals[d].token <= Len(issued)
        /\ revokedAt[d] <= Len(issued)
        /\ terminals[d].token # 0 => terminals[d].token > revokedAt[d]
        /\ terminals[d].revoked /\ d \notin crossed => terminals[d].token = 0

\* What the requests at a desk are about; an enrollment that no revocation has
\* overtaken is of a terminal in service.
DeskOK(k) ==
    /\ desks[k].op \in {"free", "enroll", "heartbeat", "decommission"}
    /\ desks[k].op # "free" => desks[k].device \in Devices
    /\ desks[k].op = "heartbeat" => desks[k].pending \in BOOLEAN
    /\ desks[k].op = "enroll" =>
          /\ desks[k].code \in DOMAIN codes
          /\ desks[k].device \notin crossed => ~terminals[desks[k].device].revoked

\* The inductive invariant of the registry.
RegInv == RegTypeOK /\ IssuedOK /\ TokensOK /\ \A k \in Desks : DeskOK(k)

\* An empty registry satisfies it.
LEMMA RegInitOK == RegInit => RegInv
  BY DEF RegInit, RegInv, RegTypeOK, IssuedOK, TokensOK, DeskOK, NoTerminal, FreeDesk,
         CodeRows, TerminalRows

\* A new code is unused.
LEMMA CreateEnrollmentStep ==
  ASSUME RegInv, NEW b \in Branches, NEW o \in BOOLEAN, CreateEnrollment(b, o)
  PROVE  RegInv'
  <1> DEFINE row == [branch |-> b, used |-> FALSE, expired |-> FALSE]
  <1>1. /\ codes' = Append(codes, row)
        /\ UNCHANGED <<terminals, holds, issued, desks, revokedAt, crossed>>
    BY DEF CreateEnrollment
  <1>2. row \in CodeRows
    BY DEF CodeRows
  <1> HIDE DEF row
  <1>3. /\ codes' \in Seq(CodeRows) /\ DOMAIN codes \subseteq DOMAIN codes'
        /\ \A c \in DOMAIN codes : codes'[c] = codes[c]
    BY <1>1, <1>2 DEF RegInv, RegTypeOK
  <1>. QED
    BY <1>1, <1>3 DEF RegInv, RegTypeOK, IssuedOK, TokensOK, DeskOK

\* One code changes and the others stay.
LEMMA CodeReplaced ==
  ASSUME RegInv, NEW c \in DOMAIN codes, NEW row \in CodeRows,
         codes' = [codes EXCEPT ![c] = row]
  PROVE  /\ codes' \in Seq(CodeRows) /\ DOMAIN codes' = DOMAIN codes /\ codes'[c] = row
         /\ \A x \in DOMAIN codes : x # c => codes'[x] = codes[x]
  BY DEF RegInv, RegTypeOK

\* A code that expires stays used or unused.
LEMMA CodeExpiresStep ==
  ASSUME RegInv, NEW c \in DOMAIN codes, CodeExpires(c)
  PROVE  RegInv'
  <1>1. /\ codes' = [codes EXCEPT ![c].expired = TRUE]
        /\ UNCHANGED <<terminals, holds, issued, desks, revokedAt, crossed>>
    BY DEF CodeExpires
  <1>2. PICK row : row = [codes[c] EXCEPT !.expired = TRUE]
    OBVIOUS
  <1>3. codes[c] \in CodeRows
    BY DEF RegInv, RegTypeOK
  <1>4. row \in CodeRows /\ row.used = codes[c].used /\ codes' = [codes EXCEPT ![c] = row]
    BY <1>1, <1>2, <1>3 DEF CodeRows
  <1>5. /\ codes' \in Seq(CodeRows) /\ DOMAIN codes = DOMAIN codes'
        /\ \A x \in DOMAIN codes : codes'[x].used = codes[x].used
    BY <1>4, CodeReplaced
  <1>. QED
    BY <1>1, <1>5 DEF RegInv, RegTypeOK, IssuedOK, TokensOK, DeskOK

\* A desk takes a request that is in order and nothing else changes.
LEMMA DeskStep ==
  ASSUME RegInv, NEW k \in Desks, NEW call, desks' = [desks EXCEPT ![k] = call],
         UNCHANGED <<codes, terminals, holds, issued, revokedAt, crossed>>,
         desks'[k] = call => DeskOK(k)'
  PROVE  RegInv'
  <1>1. desks'[k] = call /\ \A o \in Desks : o # k => desks'[o] = desks[o]
    BY DEF RegInv, RegTypeOK
  <1>2. desks' = [o \in Desks |-> desks'[o]]
    BY DEF RegInv, RegTypeOK
  <1>3. \A o \in Desks : DeskOK(o)'
    BY <1>1 DEF RegInv, DeskOK
  <1>. QED
    BY <1>2, <1>3 DEF RegInv, RegTypeOK, IssuedOK, TokensOK

\* The routes a device calls first check and then leave a request at a desk.
LEMMA DeviceRoutesStep ==
  ASSUME RegInv, NEW k \in Desks, NEW d \in Devices, DeviceRoutes(k, d)
  PROVE  RegInv'
  <1>1. ASSUME NEW c \in DOMAIN codes, EnrollCheck(k, d, c) PROVE RegInv'
    <2>1. /\ desks' = [desks EXCEPT ![k] = [op |-> "enroll", device |-> d, code |-> c]]
          /\ ~terminals[d].revoked
          /\ UNCHANGED <<codes, terminals, holds, issued, revokedAt, crossed>>
      BY <1>1 DEF EnrollCheck
    <2>2. PICK call : call = [op |-> "enroll", device |-> d, code |-> c]
      OBVIOUS
    <2>3. desks'[k] = call => DeskOK(k)'
      BY <2>1, <2>2, <1>1 DEF DeskOK
    <2>. QED
      BY <2>1, <2>2, <2>3, DeskStep
  <1>2. ASSUME NEW p \in BOOLEAN, HeartbeatCheck(k, d, p) PROVE RegInv'
    <2>1. PICK call : call = [op |-> "heartbeat", device |-> d, pending |-> p]
      OBVIOUS
    <2>2. /\ desks' = [desks EXCEPT ![k] = call]
          /\ UNCHANGED <<codes, terminals, holds, issued, revokedAt, crossed>>
      BY <1>2, <2>1 DEF HeartbeatCheck
    <2>3. desks'[k] = call => DeskOK(k)'
      BY <2>1, <1>2 DEF DeskOK
    <2>. QED
      BY <2>2, <2>3, DeskStep
  <1>3. ASSUME DecommissionCheck(k, d) PROVE RegInv'
    BY ZenonT(30), <1>3, DeskStep DEF DecommissionCheck, DeskOK
  <1>. QED
    BY <1>1, <1>2, <1>3 DEF DeviceRoutes

\* A free desk is in order.
LEMMA DeskFreed ==
  ASSUME RegInv, NEW k \in Desks, desks' = [desks EXCEPT ![k] = FreeDesk]
  PROVE  /\ desks' = [o \in Desks |-> desks'[o]] /\ desks'[k].op = "free"
         /\ \A o \in Desks : o # k => desks'[o] = desks[o]
  BY DEF RegInv, RegTypeOK, FreeDesk

\* The claim uses a code up and issues one credential for it, or is refused.
LEMMA EnrollClaimStep ==
  ASSUME RegInv, NEW k \in Desks, NEW a \in BOOLEAN, EnrollClaim(k, a)
  PROVE  RegInv'
  <1>1. PICK d \in Devices : d = desks[k].device /\ desks[k].op = "enroll"
    BY DEF EnrollClaim, RegInv, DeskOK
  <1>2. PICK c \in DOMAIN codes : c = desks[k].code
    BY <1>1 DEF RegInv, DeskOK
  <1>3. /\ desks' = [desks EXCEPT ![k] = FreeDesk] /\ UNCHANGED <<revokedAt, crossed>>
    BY DEF EnrollClaim
  <1>4. /\ desks' = [o \in Desks |-> desks'[o]] /\ desks'[k].op = "free"
        /\ \A o \in Desks : o # k => desks'[o] = desks[o]
    BY <1>3, DeskFreed
  <1>5. CASE UNCHANGED <<codes, issued, terminals, holds>>
    BY <1>3, <1>4, <1>5 DEF RegInv, RegTypeOK, IssuedOK, TokensOK, DeskOK
  <1>6. CASE ~codes[c].used /\ ~codes[c].expired
    <2> DEFINE n == Len(issued) + 1
               row == IF terminals[d] = NoTerminal
                      THEN [NoTerminal EXCEPT !.branch = codes[c].branch, !.token = n]
                      ELSE [terminals[d] EXCEPT !.token = n]
    <2>1. /\ codes' = [codes EXCEPT ![c].used = TRUE]
          /\ issued' = Append(issued, c)
          /\ terminals' = [terminals EXCEPT ![d] = row]
          /\ holds' = IF a THEN [holds EXCEPT ![d] = n] ELSE holds
      BY <1>1, <1>2, <1>6 DEF EnrollClaim, Upsert
    <2>2. /\ codes[c] \in CodeRows /\ terminals[d] \in TerminalRows /\ n \in Nat
          /\ c \in Nat
      BY DEF RegInv, RegTypeOK
    <2>3. /\ codes' \in Seq(CodeRows) /\ DOMAIN codes' = DOMAIN codes /\ codes'[c].used
          /\ \A x \in DOMAIN codes : x # c => codes'[x] = codes[x]
      <3>1. PICK code : code = [codes[c] EXCEPT !.used = TRUE]
        OBVIOUS
      <3>2. code \in CodeRows /\ code.used /\ codes' = [codes EXCEPT ![c] = code]
        BY <2>1, <2>2, <3>1 DEF CodeRows
      <3>. QED
        BY <3>2, CodeReplaced
    <2>4. row \in TerminalRows /\ row.token = n /\ row.revoked = terminals[d].revoked
      BY <2>2 DEF TerminalRows, CodeRows, NoTerminal
    <2>5. /\ terminals' \in [Devices -> TerminalRows] /\ terminals'[d] = row
          /\ \A x \in Devices : x # d => terminals'[x] = terminals[x]
      <3> HIDE DEF row
      <3>. QED
        BY <2>1, <2>4 DEF RegInv, RegTypeOK
    <2>6. /\ holds' \in [Devices -> Nat]
          /\ \A x \in Devices : holds'[x] = holds[x] \/ holds'[x] = n
      BY <2>1, <2>2 DEF RegInv, RegTypeOK
    <2>7. /\ issued' \in Seq(Nat) /\ Len(issued') = n /\ DOMAIN issued' = DOMAIN issued \cup {n}
          /\ issued'[n] = c /\ \A m \in DOMAIN issued : issued'[m] = issued[m] /\ m # n
      BY <2>1, <2>2 DEF RegInv, RegTypeOK
    <2>8. n > Len(issued) /\ Len(issued) \in Nat
      BY DEF RegInv, RegTypeOK
    <2> HIDE DEF n, row
    <2>9. RegTypeOK'
      BY <1>3, <1>4, <2>3, <2>5, <2>6, <2>7 DEF RegInv, RegTypeOK
    <2>10. IssuedOK'
      <3>1. \A m \in DOMAIN issued : issued[m] \in DOMAIN codes /\ issued[m] # c
        BY <1>6 DEF RegInv, IssuedOK
      <3>. QED
        BY <2>3, <2>7, <3>1 DEF RegInv, IssuedOK
    <2>11. TokensOK'
      <3> SUFFICES ASSUME NEW x \in Devices
                   PROVE  /\ holds'[x] <= n /\ terminals'[x].token <= n
                          /\ revokedAt'[x] <= n
                          /\ terminals'[x].token # 0 => terminals'[x].token > revokedAt'[x]
                          /\ terminals'[x].revoked /\ x \notin crossed' => terminals'[x].token = 0
        BY <2>7 DEF TokensOK
      <3>1. /\ holds[x] \in Nat /\ terminals[x].token \in Nat /\ revokedAt[x] \in Nat
            /\ holds[x] <= Len(issued) /\ terminals[x].token <= Len(issued)
            /\ revokedAt[x] <= Len(issued)
        BY DEF RegInv, RegTypeOK, TokensOK, TerminalRows
      <3>2. d \notin crossed => ~terminals[d].revoked
        BY <1>1 DEF RegInv, DeskOK
      <3>3. CASE x = d
        BY <1>3, <2>2, <2>4, <2>5, <2>6, <2>8, <3>1, <3>2, <3>3
      <3>4. CASE x # d
        <4>1. terminals'[x] = terminals[x]
          BY <2>5, <3>4
        <4>. QED
          BY <1>3, <2>2, <2>6, <2>8, <3>1, <4>1 DEF RegInv, TokensOK
      <3>. QED
        BY <3>3, <3>4
    <2>12. \A o \in Desks : DeskOK(o)'
      BY <1>3, <1>4, <2>3, <2>4, <2>5 DEF RegInv, DeskOK
    <2>. QED
      BY <2>9, <2>10, <2>11, <2>12 DEF RegInv
  <1>. QED
    BY <1>1, <1>2, <1>5, <1>6 DEF EnrollClaim

\* A heartbeat's write touches no credential.
LEMMA HeartbeatWriteStep ==
  ASSUME RegInv, NEW k \in Desks, HeartbeatWrite(k)
  PROVE  RegInv'
  <1>1. PICK d \in Devices : d = desks[k].device
    BY DEF HeartbeatWrite, RegInv, DeskOK
  <1>2. PICK p \in BOOLEAN : p = desks[k].pending
    BY DEF HeartbeatWrite, RegInv, DeskOK
  <1>3. /\ terminals' = [terminals EXCEPT ![d].pending = p]
        /\ desks' = [desks EXCEPT ![k] = FreeDesk]
        /\ UNCHANGED <<codes, holds, issued, revokedAt, crossed>>
    BY <1>1, <1>2 DEF HeartbeatWrite
  <1>4. /\ desks' = [o \in Desks |-> desks'[o]] /\ desks'[k].op = "free"
        /\ \A o \in Desks : o # k => desks'[o] = desks[o]
    BY <1>3, DeskFreed
  <1>5. /\ terminals' \in [Devices -> TerminalRows]
        /\ \A x \in Devices : terminals'[x].token = terminals[x].token
                              /\ terminals'[x].revoked = terminals[x].revoked
    BY <1>3 DEF RegInv, RegTypeOK, TerminalRows
  <1>. QED
    BY <1>3, <1>4, <1>5 DEF RegInv, RegTypeOK, IssuedOK, TokensOK, DeskOK

\* A revocation clears the credential, and marks a terminal whose enrollment it
\* crosses.
LEMMA RevokedStep ==
  ASSUME RegInv, NEW d \in Devices, NEW row \in TerminalRows, row.token = 0,
         Revoked(d, row), UNCHANGED <<codes, holds, issued>>,
         desks' = [o \in Desks |-> desks'[o]],
         \A o \in Desks : desks'[o] = desks[o] \/ desks'[o].op = "free"
  PROVE  RegInv'
  <1>1. /\ terminals' = [terminals EXCEPT ![d] = row]
        /\ revokedAt' = [revokedAt EXCEPT ![d] = Len(issued)]
        /\ crossed' = IF \E k \in Desks : desks[k].op = "enroll" /\ desks[k].device = d
                      THEN crossed \cup {d} ELSE crossed
    BY DEF Revoked
  <1>2. Len(issued) \in Nat
    BY DEF RegInv, RegTypeOK
  <1>3. /\ terminals' \in [Devices -> TerminalRows] /\ terminals'[d] = row
        /\ \A x \in Devices : x # d => terminals'[x] = terminals[x]
    BY <1>1 DEF RegInv, RegTypeOK
  <1>4. /\ revokedAt' \in [Devices -> Nat] /\ revokedAt'[d] = Len(issued)
        /\ \A x \in Devices : x # d => revokedAt'[x] = revokedAt[x]
    BY <1>1, <1>2 DEF RegInv, RegTypeOK
  <1>5. /\ crossed \subseteq crossed' /\ crossed' \subseteq crossed \cup {d}
        /\ \A k \in Desks : desks[k].op = "enroll" /\ desks[k].device = d => d \in crossed'
    BY <1>1
  <1>6. RegTypeOK' /\ IssuedOK'
    BY <1>3, <1>4, <1>5 DEF RegInv, RegTypeOK, IssuedOK
  <1>7. TokensOK'
    BY <1>2, <1>3, <1>4, <1>5 DEF RegInv, TokensOK
  <1>8. \A o \in Desks : DeskOK(o)'
    <2> SUFFICES ASSUME NEW o \in Desks PROVE DeskOK(o)'
      OBVIOUS
    <2>1. CASE desks'[o].op = "free"
      BY <2>1 DEF DeskOK
    <2>2. CASE desks'[o] = desks[o]
      BY <2>2, <1>3, <1>5 DEF RegInv, DeskOK
    <2>. QED
      BY <2>1, <2>2
  <1>. QED
    BY <1>6, <1>7, <1>8 DEF RegInv

\* A decommissioning that was confirmed revokes the terminal.
LEMMA DecommissionWriteStep ==
  ASSUME RegInv, NEW k \in Desks, DecommissionWrite(k)
  PROVE  RegInv'
  <1>1. PICK d \in Devices : d = desks[k].device
    BY DEF DecommissionWrite, RegInv, DeskOK
  <1>2. PICK row : row = [terminals[d] EXCEPT !.revoked = TRUE, !.token = 0, !.pending = FALSE]
    OBVIOUS
  <1>3. row \in TerminalRows /\ row.token = 0
    BY <1>2 DEF RegInv, RegTypeOK, TerminalRows
  <1>4. /\ Revoked(d, row) /\ UNCHANGED <<codes, holds, issued>>
        /\ desks' = [desks EXCEPT ![k] = FreeDesk]
    BY <1>1, <1>2 DEF DecommissionWrite
  <1>. QED
    BY <1>3, <1>4, DeskFreed, RevokedStep

\* What the terminals page does.
LEMMA TerminalsPageStep ==
  ASSUME RegInv, TerminalsPage
  PROVE  RegInv'
  <1>1. ASSUME NEW d \in Devices, Revoke(d) PROVE RegInv'
    <2>2. PICK row : row = [terminals[d] EXCEPT !.revoked = TRUE, !.token = 0]
      OBVIOUS
    <2>3. row \in TerminalRows /\ row.token = 0
      BY <2>2 DEF RegInv, RegTypeOK, TerminalRows
    <2>4. Revoked(d, row) /\ UNCHANGED <<codes, holds, issued, desks>>
      BY <1>1, <2>2 DEF Revoke
    <2>5. desks' = [o \in Desks |-> desks'[o]]
      BY <2>4 DEF RegInv, RegTypeOK
    <2>. QED
      BY <2>3, <2>4, <2>5, RevokedStep
  <1>2. ASSUME NEW d \in Devices, Enable(d) PROVE RegInv'
    <2>1. /\ terminals' = [terminals EXCEPT ![d].revoked = FALSE]
          /\ UNCHANGED <<codes, holds, issued, desks, revokedAt, crossed>>
      BY <1>2 DEF Enable
    <2>2. /\ terminals' \in [Devices -> TerminalRows]
          /\ \A x \in Devices : terminals'[x].token = terminals[x].token
                                /\ (terminals'[x].revoked => terminals[x].revoked)
      BY <2>1 DEF RegInv, RegTypeOK, TerminalRows
    <2>. QED
      BY <2>1, <2>2 DEF RegInv, RegTypeOK, IssuedOK, TokensOK, DeskOK
  <1>. QED
    BY <1>1, <1>2, CreateEnrollmentStep DEF TerminalsPage

\* Every step of the registry keeps the invariant.
LEMMA RegStep ==
  ASSUME RegInv, RegNext
  PROVE  RegInv'
  BY TerminalsPageStep, CodeExpiresStep, DeviceRoutesStep, EnrollClaimStep, HeartbeatWriteStep,
     DecommissionWriteStep DEF RegNext

\* Along every behaviour of the registry a credential is good only if issued, for
\* a code of its own, after the terminal's last revocation.
THEOREM RegSafe == RegSpec => []TerminalCredential
  <1>1. RegInv /\ UNCHANGED regVars => RegInv'
    BY DEF regVars, RegInv, RegTypeOK, IssuedOK, TokensOK, DeskOK
  <1>2. RegInv => TerminalCredential
    BY DEF RegInv, IssuedOK, TokensOK, TerminalCredential, Authenticated
  <1>. QED
    BY <1>1, <1>2, RegInitOK, RegStep, PTL DEF RegSpec

(***************************************************************************)
(* Seller commissions: SellerPeriods.                                      *)
(***************************************************************************)

\* Seller settings and commission periods on their own.
SelSpec == SelInit /\ [][SelNext]_selVars

\* A request to close a period, and the other requests that look up settings.
ClosingRequests ==
    [pc : {"close"}, from : Nat, to : Nat, read : SUBSET Statements,
     sales : SUBSET Sales, returns : SUBSET (Sales \X Nat),
     terms : [Sellers -> Plans \cup {NoOverride}]]
OtherRequests == {FreeCloser} \cup [pc : {"page"}] \cup [pc : {"update"}, plan : Plans]

\* Nothing of the range came too late.
Complete(from, to) == \A x \in late : ~InRange(x.day, from, to)

\* What a closing has read of a range that is over is what the books say of it.
ReadOK(k) ==
    /\ k.to < today
    /\ "sales" \in k.read /\ Complete(k.from, k.to) => k.sales = SalesIn(k.from, k.to)
    /\ "returns" \in k.read => k.returns = ReturnsIn(k.from, k.to)
CloserOK(k) == k \in OtherRequests \/ (k \in ClosingRequests /\ ReadOK(k))

\* The net figures of a period that is over are what the books say of it.
Honest(p) ==
    /\ p.from \in Nat /\ p.to \in Nat /\ p.to < today
    /\ Complete(p.from, p.to) =>
          \A s \in Sellers : p.rows[s].net = Net(s, SalesIn(p.from, p.to), ReturnsIn(p.from, p.to))

BooksOK ==
    /\ today \in Nat /\ arrived \subseteq Sales /\ returns \subseteq Sales \X Nat
    /\ override \in [Sellers -> Plans \cup {NoOverride}]
    /\ closers = [c \in Closers |-> closers[c]]
    /\ \A c \in Closers : CloserOK(closers[c])
    /\ \A p \in periods : Honest(p)

\* Unless two lookups met the tenant without settings, one at most creates them.
LookupStates == [pc : {"idle", "find", "allocate", "create", "again", "done", "failed"},
                 id : Nat, plan : Plans]
LookOK ==
    /\ lastId \in Nat /\ firstUse \in BOOLEAN
    /\ settings \subseteq [id : Nat, terms : Plans]
    /\ look \in [Closers \X Lookups -> LookupStates]
    /\ ~firstUse =>
          /\ \A a, b \in settings : a.id = b.id
          /\ \A x, y \in Closers \X Lookups : Creating(x) /\ Creating(y) => x = y
          /\ \A x \in Closers \X Lookups : Creating(x) => settings = {}

\* The inductive invariant of the periods. CommissionReproducible is not
\* inductive: what a period saves was read statements before, so what a closing
\* has read must stay true until it is saved.
SelInv == BooksOK /\ LookOK

\* A tenant that closed nothing satisfies it.
LEMMA SelInitOK == SelInit => SelInv
  <1> SUFFICES ASSUME SelInit PROVE SelInv
    OBVIOUS
  <1>1. NotLooking \in LookupStates /\ NotLooking.pc = "idle"
    BY SellerAssumption DEF NotLooking, LookupStates
  <1>2. LookOK
    BY <1>1 DEF SelInit, LookOK, Creating
  <1>3. closers = [c \in Closers |-> closers[c]] /\ \A c \in Closers : CloserOK(closers[c])
    BY DEF SelInit, CloserOK, OtherRequests
  <1>4. BooksOK
    BY <1>3 DEF SelInit, BooksOK
  <1>. QED
    BY <1>2, <1>4 DEF SelInv

\* What was read and saved stays true when nothing is booked.
LEMMA Unbooked ==
  ASSUME UNCHANGED <<today, arrived, returns, late>>
  PROVE  /\ \A k : CloserOK(k) => CloserOK(k)'
         /\ \A p : Honest(p) => Honest(p)'
  BY DEF CloserOK, ReadOK, Honest, Complete, SalesIn, ReturnsIn

\* A sale or a return is booked today or is late, so the figures of a range that
\* is over stay.
LEMMA BooksStep ==
  ASSUME SelInv, \/ \E s \in Sales : SaleArrives(s) \/ ReturnSale(s)
                 \/ NextDay
  PROVE  SelInv'
  <1>1. /\ UNCHANGED <<settings, lastId, override, periods, closers, look, firstUse>>
        /\ today' \in Nat /\ today <= today' /\ late \subseteq late'
        /\ arrived' \subseteq Sales /\ returns' \subseteq Sales \X Nat
    BY DEF SaleArrives, ReturnSale, NextDay, SelInv, BooksOK
  <1>2. ASSUME NEW f, NEW t \in Nat, t < today PROVE ReturnsIn(f, t)' = ReturnsIn(f, t)
    <2>1. ASSUME NEW s \in Sales, ReturnSale(s) PROVE ReturnsIn(f, t)' = ReturnsIn(f, t)
      <3>1. returns' = returns \cup {<<s, today>>} /\ ~InRange(today, f, t)
        BY <1>2, <2>1 DEF ReturnSale, InRange, SelInv, BooksOK
      <3>. QED
        BY <3>1 DEF ReturnsIn
    <2>. QED
      BY <2>1 DEF SaleArrives, NextDay, ReturnsIn
  <1>3. ASSUME NEW f, NEW t, Complete(f, t)',
               \/ \E p \in periods : p.from = f /\ p.to = t
               \/ \E c \in Closers : /\ closers[c].pc = "close" /\ "sales" \in closers[c].read
                                     /\ closers[c].from = f /\ closers[c].to = t
        PROVE  SalesIn(f, t)' = SalesIn(f, t) /\ Complete(f, t)
    <2>1. Complete(f, t)
      BY <1>1, <1>3 DEF Complete
    <2>2. ASSUME NEW s \in Sales, SaleArrives(s) PROVE SalesIn(f, t)' = SalesIn(f, t)
      <3>1. arrived' = arrived \cup {s} /\ (InRange(s.day, f, t) => s \in late')
        BY <1>3, <2>2 DEF SaleArrives, HasRead
      <3>. QED
        BY <1>3, <3>1 DEF SalesIn, Complete
    <2>. QED
      BY <2>1, <2>2 DEF ReturnSale, NextDay, SalesIn
  <1>4. ASSUME NEW c \in Closers PROVE CloserOK(closers[c])'
    <2> SUFFICES ASSUME closers[c] \in ClosingRequests, ReadOK(closers[c])
                 PROVE  ReadOK(closers[c])'
      BY <1>1 DEF SelInv, BooksOK, CloserOK
    <2>1. PICK f, t : f = closers[c].from /\ t = closers[c].to
      OBVIOUS
    <2>2. closers[c].pc = "close" /\ t \in Nat /\ t < today
      BY <2>1 DEF ClosingRequests, ReadOK
    <2>3. t < today'
      BY <1>1, <2>2 DEF SelInv, BooksOK
    <2>4. ReturnsIn(f, t)' = ReturnsIn(f, t)
      BY <1>2, <2>2
    <2>5. "sales" \in closers[c].read /\ Complete(f, t)'
             => SalesIn(f, t)' = SalesIn(f, t) /\ Complete(f, t)
      BY <1>3, <2>1, <2>2
    <2>6. closers'[c] = closers[c]
      BY <1>1
    <2>. QED
      BY <2>1, <2>3, <2>4, <2>5, <2>6 DEF ReadOK, Complete, SalesIn, ReturnsIn
  <1>5. ASSUME NEW p \in periods PROVE Honest(p)'
    <2>1. Honest(p)
      BY DEF SelInv, BooksOK
    <2>2. p.to < today' /\ ReturnsIn(p.from, p.to)' = ReturnsIn(p.from, p.to)
      BY <1>1, <1>2, <2>1 DEF Honest, SelInv, BooksOK
    <2>3. Complete(p.from, p.to)' => SalesIn(p.from, p.to)' = SalesIn(p.from, p.to) /\ Complete(p.from, p.to)
      BY <1>3
    <2>. QED
      BY <2>1, <2>2, <2>3 DEF Honest
  <1>. QED
    BY <1>1, <1>4, <1>5 DEF SelInv, BooksOK, LookOK, Creating

\* A request moves on while nothing is booked, closed or looked up.
LEMMA CloserStep ==
  ASSUME SelInv, NEW c \in Closers, NEW k, closers' = [closers EXCEPT ![c] = k], CloserOK(k),
         UNCHANGED <<today, arrived, returns, override, late>>,
         \A p \in periods' : Honest(p)
  PROVE  BooksOK'
  <1>1. closers' = [x \in Closers |-> closers'[x]] /\ \A x \in Closers : CloserOK(closers'[x])
    BY DEF SelInv, BooksOK
  <1>2. \A x \in Closers : CloserOK(closers[x])'
    BY <1>1, Unbooked
  <1>3. \A p \in periods' : Honest(p)'
    BY Unbooked
  <1>. QED
    BY <1>1, <1>2, <1>3 DEF SelInv, BooksOK

\* Lookups and what they create change no books.
LEMMA BooksKept ==
  ASSUME SelInv, UNCHANGED <<today, arrived, returns, override, periods, closers, late>>
  PROVE  BooksOK'
  BY DEF SelInv, BooksOK, CloserOK, ReadOK, Honest, Complete, SalesIn, ReturnsIn

\* Lookups that create nothing new leave the settings in order.
LEMMA LookKept ==
  ASSUME SelInv, lastId' \in Nat, UNCHANGED firstUse,
         settings' \subseteq [id : Nat, terms : Plans],
         look' \in [Closers \X Lookups -> LookupStates],
         \A r \in settings' : \E q \in settings : q.id = r.id,
         \A x \in Closers \X Lookups : Creating(x)' => Creating(x)
  PROVE  LookOK'
  BY DEF SelInv, LookOK

\* A request begins with lookups that have found nothing yet.
LEMMA BeginRequestStep ==
  ASSUME SelInv, NEW c \in Closers, NEW k, NEW ls, CloserOK(k), BeginRequest(c, k, ls)
  PROVE  SelInv'
  <1>1. BooksOK'
    BY CloserStep DEF BeginRequest, SelInv, BooksOK
  <1>2. /\ NotLooking \in LookupStates /\ NotLooking.pc = "idle"
        /\ [pc |-> "find", id |-> 0, plan |-> Default] \in LookupStates
    BY SellerAssumption DEF NotLooking, LookupStates
  <1>3. look' = [x \in Closers \X Lookups |->
            IF x[1] # c THEN look[x]
            ELSE IF x[2] \in ls THEN [pc |-> "find", id |-> 0, plan |-> Default]
            ELSE NotLooking]
    BY DEF BeginRequest
  <1>4. look' \in [Closers \X Lookups -> LookupStates]
    BY <1>2, <1>3 DEF SelInv, LookOK
  <1>5. \A x \in Closers \X Lookups : Creating(x)' => Creating(x)
    BY <1>2, <1>3 DEF Creating
  <1>6. LookOK'
    BY <1>4, <1>5, LookKept DEF BeginRequest, SelInv, LookOK
  <1>. QED
    BY <1>1, <1>6 DEF SelInv

\* Only a range that is over is closed.
LEMMA ClosePeriodStep ==
  ASSUME SelInv, NEW c \in Closers, NEW f \in 1 .. LastDay, NEW t \in 1 .. LastDay,
         ClosePeriod(c, f, t)
  PROVE  SelInv'
  <1>1. Closing(f, t) \in ClosingRequests
    BY SellerAssumption DEF Closing, ClosingRequests
  <1>2. ReadOK(Closing(f, t))
    BY DEF ReadOK, Closing, ClosePeriod
  <1>. QED
    BY <1>1, <1>2, BeginRequestStep DEF ClosePeriod, CloserOK

\* The other requests read no books.
LEMMA OtherRequestsStep ==
  ASSUME SelInv, NEW c \in Closers,
         OpenReports(c) \/ \E p \in Plans : ChangeSettings(c, p)
  PROVE  SelInv'
  <1>1. ASSUME NEW p \in Plans
        PROVE  [pc |-> "update", plan |-> p] \in OtherRequests /\ [pc |-> "page"] \in OtherRequests
    BY DEF OtherRequests
  <1>2. [pc |-> "page"] \in OtherRequests
    BY DEF OtherRequests
  <1>. QED
    BY <1>1, <1>2, BeginRequestStep DEF OpenReports, ChangeSettings, CloserOK

\* A lookup moves on without beginning to create anything.
LEMMA LookMoves ==
  ASSUME SelInv, NEW c \in Closers, NEW l \in Lookups, NEW to \in LookupStates,
         LookStep(c, l, to), UNCHANGED <<settings, lastId, firstUse>>,
         to.pc \in {"allocate", "create"} => Creating(<<c, l>>)
  PROVE  SelInv'
  <1>1. BooksOK'
    BY BooksKept DEF LookStep
  <1>2. /\ look' = [look EXCEPT ![<<c, l>>] = to] /\ <<c, l>> \in Closers \X Lookups
        /\ look \in [Closers \X Lookups -> LookupStates]
    BY DEF LookStep, SelInv, LookOK
  <1>3. \A x \in Closers \X Lookups : Creating(x)' => Creating(x)
    BY <1>2 DEF Creating
  <1>4. look' \in [Closers \X Lookups -> LookupStates]
    BY <1>2
  <1>5. LookOK'
    BY <1>3, <1>4, LookKept DEF SelInv, LookOK
  <1>. QED
    BY <1>1, <1>5 DEF SelInv

\* The row that was found.
LEMMA FoundOK ==
  ASSUME SelInv, NEW r \in settings
  PROVE  Found(r) \in LookupStates /\ Found(r).pc = "done"
  BY DEF SelInv, LookOK, Found, LookupStates

\* The settings are found, or the lookup is about to create them.
LEMMA FindSettingsStep ==
  ASSUME SelInv, NEW c \in Closers, NEW l \in Lookups, FindSettings(c, l)
  PROVE  SelInv'
  <1>1. /\ UNCHANGED <<settings, lastId>> /\ firstUse \in BOOLEAN
        /\ firstUse' = (firstUse \/ (settings = {} /\ \E x \in Closers \X Lookups : Creating(x)))
    BY DEF FindSettings, SelInv, LookOK
  <1>2. ASSUME NEW r \in settings, LookStep(c, l, Found(r)) PROVE SelInv'
    BY <1>1, <1>2, FoundOK, LookMoves
  <1>3. CASE settings = {} /\ LookStep(c, l, [NotLooking EXCEPT !.pc = "allocate"])
    <2>1. PICK to \in LookupStates : to = [NotLooking EXCEPT !.pc = "allocate"]
      BY SellerAssumption DEF NotLooking, LookupStates
    <2>2. /\ look' = [look EXCEPT ![<<c, l>>] = to] /\ <<c, l>> \in Closers \X Lookups
          /\ look \in [Closers \X Lookups -> LookupStates]
      BY <1>3, <2>1 DEF LookStep, SelInv, LookOK
    <2>3. \A x \in Closers \X Lookups : x # <<c, l>> => look'[x] = look[x]
      BY <2>2
    <2>4. ~firstUse' => \A x \in Closers \X Lookups : Creating(x)' => x = <<c, l>>
      BY <1>1, <1>3, <2>3 DEF Creating
    <2>5. LookOK'
      BY <1>1, <1>3, <2>2, <2>4 DEF SelInv, LookOK
    <2>6. BooksOK'
      BY <1>3, BooksKept DEF LookStep
    <2>. QED
      BY <2>5, <2>6 DEF SelInv
  <1>. QED
    BY <1>2, <1>3 DEF FindSettings

\* The next id is one above the highest.
LEMMA HighestIdStep ==
  ASSUME SelInv, NEW c \in Closers, NEW l \in Lookups, HighestId(c, l)
  PROVE  SelInv'
  <1>1. PICK to : to = [NotLooking EXCEPT !.pc = "create", !.id = lastId + 1]
    OBVIOUS
  <1>2. to \in LookupStates
    <2>1. lastId + 1 \in Nat
      BY DEF SelInv, LookOK
    <2>2. NotLooking \in LookupStates
      BY SellerAssumption DEF NotLooking, LookupStates
    <2>. QED
      BY <1>1, <2>1, <2>2 DEF LookupStates
  <1>. QED
    BY <1>1, <1>2, LookMoves DEF HighestId, Creating

\* The settings are created, unless their id is taken.
LEMMA CreateSettingsStep ==
  ASSUME SelInv, NEW c \in Closers, NEW l \in Lookups, CreateSettings(c, l)
  PROVE  SelInv'
  <1>1. PICK id, row : id = look[<<c, l>>].id /\ row = [id |-> id, terms |-> Default]
    OBVIOUS
  <1>2. /\ look \in [Closers \X Lookups -> LookupStates] /\ <<c, l>> \in Closers \X Lookups
        /\ Creating(<<c, l>>)
    BY DEF SelInv, LookOK, CreateSettings, Creating
  <1>3. id \in Nat /\ row \in [id : Nat, terms : Plans]
    BY <1>1, <1>2, SellerAssumption DEF LookupStates
  <1>4. CASE /\ settings' = settings \cup {row} /\ lastId' = id
             /\ LookStep(c, l, Found(row)) /\ UNCHANGED firstUse
    <2>1. Found(row) \in LookupStates /\ Found(row).pc = "done"
      BY <1>1, <1>3 DEF Found, LookupStates
    <2>2. look' = [look EXCEPT ![<<c, l>>] = Found(row)]
      BY <1>4 DEF LookStep
    <2>3. \A x \in Closers \X Lookups : Creating(x)' => Creating(x) /\ x # <<c, l>>
      BY <1>2, <2>1, <2>2 DEF Creating
    <2>4. ~firstUse => settings = {} /\ \A x \in Closers \X Lookups : ~Creating(x)'
      BY <1>2, <2>3 DEF SelInv, LookOK
    <2>5. look' \in [Closers \X Lookups -> LookupStates]
      BY <1>2, <2>1, <2>2
    <2>6. LookOK'
      BY <1>3, <1>4, <2>4, <2>5 DEF SelInv, LookOK
    <2>7. BooksOK'
      BY <1>4, BooksKept DEF LookStep
    <2>. QED
      BY <2>6, <2>7 DEF SelInv
  <1>5. CASE /\ LookStep(c, l, [NotLooking EXCEPT !.pc = "again"])
             /\ UNCHANGED <<settings, lastId, firstUse>>
    <2>1. [NotLooking EXCEPT !.pc = "again"] \in LookupStates
      BY SellerAssumption DEF NotLooking, LookupStates
    <2>. QED
      BY <1>2, <1>5, <2>1, LookMoves
  <1>. QED
    BY <1>1, <1>4, <1>5 DEF CreateSettings

\* The row of whoever was first is found, or there is none.
LEMMA FindAgainStep ==
  ASSUME SelInv, NEW c \in Closers, NEW l \in Lookups, FindAgain(c, l)
  PROVE  SelInv'
  <1>1. ASSUME NEW r \in settings, LookStep(c, l, Found(r)) PROVE SelInv'
    BY <1>1, FoundOK, LookMoves DEF FindAgain
  <1>2. [NotLooking EXCEPT !.pc = "failed"] \in LookupStates
        /\ [NotLooking EXCEPT !.pc = "failed"].pc = "failed"
    BY SellerAssumption DEF NotLooking, LookupStates
  <1>. QED
    BY <1>1, <1>2, LookMoves DEF FindAgain

\* Another tenant's row is not of this tenant, and single sellers' terms are no
\* settings.
LEMMA BesidesStep ==
  ASSUME SelInv,
         \/ OtherTenant
         \/ \E s \in Sellers, p \in Plans : UpdateSellerSettings(s, p)
  PROVE  SelInv'
  <1>1. /\ UNCHANGED <<today, arrived, returns, periods, closers, late, settings, look, firstUse>>
        /\ lastId' \in Nat /\ override' \in [Sellers -> Plans \cup {NoOverride}]
    BY DEF OtherTenant, UpdateSellerSettings, SelInv, BooksOK, LookOK
  <1>2. BooksOK'
    BY <1>1 DEF SelInv, BooksOK, CloserOK, ReadOK, Honest, Complete, SalesIn, ReturnsIn
  <1>3. LookOK'
    BY <1>1, LookKept DEF SelInv, LookOK, Creating
  <1>. QED
    BY <1>2, <1>3 DEF SelInv

\* A statement of the report reads the books of the range.
LEMMA ReadsStep ==
  ASSUME SelInv, NEW c \in Closers, ReadSales(c) \/ ReadReturns(c) \/ ReadTerms(c)
  PROVE  SelInv'
  <1>1. PICK k : k = closers[c]
    OBVIOUS
  <1>2. k \in ClosingRequests /\ ReadOK(k)
    BY <1>1 DEF SelInv, BooksOK, CloserOK, OtherRequests, FreeCloser,
                ReadSales, ReadReturns, ReadTerms, ReadStep
  <1>3. SalesIn(k.from, k.to) \subseteq Sales /\ ReturnsIn(k.from, k.to) \subseteq Sales \X Nat
    BY DEF SelInv, BooksOK, SalesIn, ReturnsIn
  <1>4. PICK m : /\ closers' = [closers EXCEPT ![c] = m]
                 /\ \/ m = [[k EXCEPT !.sales = SalesIn(k.from, k.to)]
                               EXCEPT !.read = @ \cup {"sales"}]
                    \/ m = [[k EXCEPT !.returns = ReturnsIn(k.from, k.to)]
                               EXCEPT !.read = @ \cup {"returns"}]
                    \/ m = [[k EXCEPT !.terms = override] EXCEPT !.read = @ \cup {"terms"}]
    BY <1>1 DEF ReadSales, ReadReturns, ReadTerms, ReadStep
  <1>5. CloserOK(m)
    <2>1. CASE m = [[k EXCEPT !.sales = SalesIn(k.from, k.to)] EXCEPT !.read = @ \cup {"sales"}]
      BY <1>2, <1>3, <2>1 DEF CloserOK, ClosingRequests, ReadOK, Statements
    <2>2. CASE m = [[k EXCEPT !.returns = ReturnsIn(k.from, k.to)]
                       EXCEPT !.read = @ \cup {"returns"}]
      BY <1>2, <1>3, <2>2 DEF CloserOK, ClosingRequests, ReadOK, Statements
    <2>3. CASE m = [[k EXCEPT !.terms = override] EXCEPT !.read = @ \cup {"terms"}]
      BY <1>2, <2>3 DEF CloserOK, ClosingRequests, ReadOK, Statements, SelInv, BooksOK
    <2>. QED
      BY <1>4, <2>1, <2>2, <2>3
  <1>6. UNCHANGED <<today, arrived, returns, settings, lastId, override, periods, look, late, firstUse>>
    BY DEF ReadSales, ReadReturns, ReadTerms, ReadStep
  <1>7. BooksOK'
    BY <1>4, <1>5, <1>6, CloserStep DEF SelInv, BooksOK
  <1>8. LookOK'
    BY <1>6, LookKept DEF SelInv, LookOK, Creating
  <1>. QED
    BY <1>7, <1>8 DEF SelInv

\* A request ends, and its lookups with it.
LEMMA ReleaseStep ==
  ASSUME SelInv, NEW c \in Closers, Release(c), UNCHANGED <<lastId, firstUse>>,
         UNCHANGED <<today, arrived, returns, override, late>>,
         settings' \subseteq [id : Nat, terms : Plans],
         \A r \in settings' : \E q \in settings : q.id = r.id,
         \A p \in periods' : Honest(p)
  PROVE  SelInv'
  <1>1. CloserOK(FreeCloser)
    BY DEF CloserOK, OtherRequests
  <1>2. BooksOK'
    BY <1>1, CloserStep DEF Release
  <1>3. /\ NotLooking \in LookupStates /\ NotLooking.pc = "idle"
    BY SellerAssumption DEF NotLooking, LookupStates
  <1>4. look' = [x \in Closers \X Lookups |-> IF x[1] = c THEN NotLooking ELSE look[x]]
    BY DEF Release
  <1>5. /\ look' \in [Closers \X Lookups -> LookupStates]
        /\ \A x \in Closers \X Lookups : Creating(x)' => Creating(x)
    BY <1>3, <1>4 DEF SelInv, LookOK, Creating
  <1>6. LookOK'
    BY <1>5, LookKept DEF SelInv, LookOK
  <1>. QED
    BY <1>2, <1>6 DEF SelInv

\* The period is saved with the figures that were read.
LEMMA SavePeriodStep ==
  ASSUME SelInv, NEW c \in Closers, SavePeriod(c)
  PROVE  SelInv'
  <1>1. PICK k : k = closers[c]
    OBVIOUS
  <1>2. k \in ClosingRequests /\ ReadOK(k) /\ k.read = Statements
    BY <1>1 DEF SelInv, BooksOK, CloserOK, OtherRequests, FreeCloser, SavePeriod
  <1>3. PICK p : /\ p.from = k.from /\ p.to = k.to /\ periods' \subseteq periods \cup {p}
                 /\ \A s \in Sellers : p.rows[s].net = Net(s, k.sales, k.returns)
    <2>1. PICK p, rows, plan :
             /\ rows = [s \in Sellers |->
                          Row(s, k.sales, k.returns, TermsOf(k.terms[s], look[<<c, "report">>].plan))]
             /\ p = [from |-> k.from, to |-> k.to, rows |-> rows, terms |-> plan]
             /\ periods' \subseteq periods \cup {p}
      BY <1>1 DEF SavePeriod
    <2>2. \A s \in Sellers : rows[s].net = Net(s, k.sales, k.returns)
      BY <2>1 DEF Row
    <2>. QED
      BY <2>1, <2>2
  <1>4. /\ k.from \in Nat /\ k.to \in Nat /\ k.to < today
        /\ Complete(k.from, k.to) => k.sales = SalesIn(k.from, k.to)
        /\ k.returns = ReturnsIn(k.from, k.to)
    BY <1>2 DEF ClosingRequests, ReadOK, Statements
  <1>5. Honest(p)
    BY <1>3, <1>4 DEF Honest
  <1>6. \A q \in periods' : Honest(q)
    BY <1>3, <1>5 DEF SelInv, BooksOK
  <1>. QED
    BY <1>6, ReleaseStep DEF SavePeriod, SelInv, LookOK

\* The other requests change terms at most.
LEMMA EndStep ==
  ASSUME SelInv, NEW c \in Closers, UpdateSettings(c) \/ Respond(c)
  PROVE  SelInv'
  <1>1. \A p \in periods' : Honest(p)
    BY DEF UpdateSettings, Respond, SelInv, BooksOK
  <1>2. CASE UpdateSettings(c)
    <2>1. closers[c] \in [pc : {"update"}, plan : Plans]
      BY <1>2 DEF UpdateSettings, SelInv, BooksOK, CloserOK, ClosingRequests, OtherRequests, FreeCloser
    <2>2. settings' = {IF r.id = look[<<c, "report">>].id
                       THEN [id |-> r.id, terms |-> closers[c].plan] ELSE r : r \in settings}
      BY <1>2 DEF UpdateSettings
    <2>3. /\ settings' \subseteq [id : Nat, terms : Plans]
          /\ \A r \in settings' : \E q \in settings : q.id = r.id
      BY <2>1, <2>2 DEF SelInv, LookOK
    <2>. QED
      BY <1>1, <1>2, <2>3, ReleaseStep DEF UpdateSettings
  <1>3. CASE Respond(c)
    BY <1>1, <1>3, ReleaseStep DEF Respond, SelInv, LookOK
  <1>. QED
    BY <1>2, <1>3

\* Every step of the sellers keeps the invariant.
LEMMA SelStep ==
  ASSUME SelInv, SelNext
  PROVE  SelInv'
  <1>1. ASSUME NEW c \in Closers, SellerReportsPage(c) PROVE SelInv'
    BY <1>1, ClosePeriodStep, OtherRequestsStep, BesidesStep DEF SellerReportsPage
  <1>. QED
    BY <1>1, BooksStep, BesidesStep, FindSettingsStep, HighestIdStep, CreateSettingsStep,
       FindAgainStep, ReadsStep, SavePeriodStep, EndStep DEF SelNext

\* The invariant gives CommissionReproducible.
LEMMA SelReproducible == SelInv => CommissionReproducible
  BY DEF SelInv, BooksOK, LookOK, Honest, Complete, CommissionReproducible

\* Along every behaviour of the sellers a closed period says what the books say.
THEOREM SelSafe == SelSpec => []CommissionReproducible
  <1>1. SelInv /\ UNCHANGED selVars => SelInv'
    BY DEF selVars, SelInv, BooksOK, LookOK, CloserOK, ReadOK, Creating, Honest, Complete,
           SalesIn, ReturnsIn
  <1>. QED
    BY <1>1, SelInitOK, SelStep, SelReproducible, PTL DEF SelSpec

(***************************************************************************)
(* Failures and what the till makes of them: ErrorPath.                    *)
(***************************************************************************)

\* The failures and the till on their own.
ErrSpec == ErrInit /\ [][ErrNext]_errVars

\* The rows of a group of codes.
LEMMA RowsCoded ==
  ASSUME NEW S, NEW s
  PROVE  \A m \in Coded(S, s) \cup Unauthorised(S, s) : m.code \in S /\ m.status = s
  BY DEF Coded, Unauthorised, Meta

\* Statuses after which the sync engine does not try again.
Decisions == {400, 401, 403, 404, 405, 406, 409, 413, 415, 422, 426}

\* They are decisions whatever code comes with them, but for a network error.
LEMMA DecisionIsFinal ==
  ASSUME NEW s \in Decisions, NEW c, c # "NETWORK_ERROR"
  PROVE  ~classifySyncError(Parsed(Reply(s, c))).retry
  BY DEF Decisions, classifySyncError, Parsed, Reply, NoCode, TERMINAL_CODES

\* No code is registered under two statuses, and one that says that nothing was
\* done and a retry is of no use is registered under a decision.
LEMMA Registry ==
  \A m \in ERROR_REGISTRY :
     /\ m.outcome = "no_effect" /\ ~m.retryable => m.status \in Decisions
     /\ m.code # "NETWORK_ERROR"
     /\ \A n \in ERROR_REGISTRY : m.code = n.code => m.status = n.status
  <1> DEFINE Decided(D) == \A m \in D :
                              /\ m.outcome = "no_effect" /\ ~m.retryable => m.status \in Decisions
                              /\ m.code # "NETWORK_ERROR"
             Single(D) == \A m, n \in D : m.code = n.code => m.status = n.status
             Apart(D, E) == \A m \in D, n \in E : m.code # n.code
             Priced == CATALOG_ERROR_CODES \cup PRICING_ERROR_CODES \cup TAX_ERROR_CODES \cup PROMOTION_ERROR_CODES
             Common == COMMON_ERROR_CODES \cup AUTH_ERROR_CODES \cup INTERNAL_ERROR_CODES \cup IDENTITY_ERROR_CODES
  <1>1. Decided(COMMON_ERROR_CODES) /\ Decided(AUTH_ERROR_CODES) /\ Decided(INTERNAL_ERROR_CODES)
    BY DEF COMMON_ERROR_CODES, AUTH_ERROR_CODES, INTERNAL_ERROR_CODES, Coded, Unauthorised, Meta, Decisions
  <1>2. Decided(IDENTITY_ERROR_CODES) /\ Decided(CATALOG_ERROR_CODES)
    BY DEF IDENTITY_ERROR_CODES, CATALOG_ERROR_CODES, Coded, Unauthorised, Meta, Decisions
  <1>3. Decided(PRICING_ERROR_CODES) /\ Decided(TAX_ERROR_CODES) /\ Decided(PROMOTION_ERROR_CODES)
    BY DEF PRICING_ERROR_CODES, TAX_ERROR_CODES, PROMOTION_ERROR_CODES, Coded, Meta, Decisions
  <1>4. Single(Common)
    BY RowsCoded DEF COMMON_ERROR_CODES, AUTH_ERROR_CODES, INTERNAL_ERROR_CODES, IDENTITY_ERROR_CODES, Meta
  <1>5. Single(Priced)
    BY RowsCoded DEF CATALOG_ERROR_CODES, PRICING_ERROR_CODES, TAX_ERROR_CODES, PROMOTION_ERROR_CODES, Meta
  <1>6. Apart(Common, CATALOG_ERROR_CODES \cup TAX_ERROR_CODES)
    BY RowsCoded DEF COMMON_ERROR_CODES, AUTH_ERROR_CODES, INTERNAL_ERROR_CODES, IDENTITY_ERROR_CODES,
       CATALOG_ERROR_CODES, TAX_ERROR_CODES, Meta
  <1>7. Apart(Common, PRICING_ERROR_CODES \cup PROMOTION_ERROR_CODES)
    BY RowsCoded DEF COMMON_ERROR_CODES, AUTH_ERROR_CODES, INTERNAL_ERROR_CODES, IDENTITY_ERROR_CODES,
       PRICING_ERROR_CODES, PROMOTION_ERROR_CODES, Meta
  <1>8. ERROR_REGISTRY = Common \cup Priced
    BY DEF ERROR_REGISTRY
  <1>. QED
    BY <1>1, <1>2, <1>3, <1>4, <1>5, <1>6, <1>7, <1>8

\* FiltersAgree: what the filters make of a registered code is what is
\* registered.
LEMMA VerdictsAgree == FiltersAgree
  <1> SUFFICES ASSUME NEW m \in ERROR_REGISTRY, NEW w \in {NoCode, "revoked"}
               PROVE  /\ FriendlyError(Domain(m.code, w)) = AthrError(Domain(m.code, w))
                      /\ FriendlyError(Domain(m.code, w)) = Reply(m.status, m.code)
                      /\ m.outcome = "no_effect" /\ ~m.retryable =>
                            ~classifySyncError(Parsed(Reply(m.status, m.code))).retry
    BY DEF FiltersAgree
  <1>1. Registered(m.code) \in ERROR_REGISTRY /\ Registered(m.code).code = m.code
    BY DEF Registered
  <1>2. Registered(m.code).status = m.status
    BY <1>1, Registry
  <1>3. PICK x : x = Domain(m.code, w)
    OBVIOUS
  <1>4. x.kind = "domain" /\ x.code = m.code
    BY <1>3 DEF Domain, Exception
  <1>5. /\ FriendlyError(x) = Reply(Registered(x.code).status, x.code)
        /\ AthrError(x) = Reply(Registered(x.code).status, x.code)
    BY <1>4 DEF FriendlyError, AthrError
  <1>6. m.outcome = "no_effect" /\ ~m.retryable =>
            ~classifySyncError(Parsed(Reply(m.status, m.code))).retry
    BY DecisionIsFinal, Registry
  <1>. QED
    BY <1>2, <1>3, <1>4, <1>5, <1>6

\* What the till makes of an answer to a sale.
Denies(a) == a.status # 200 /\ ~classifySyncError(Parsed(a)).retry
Delays(a) == a.status # 200 /\ classifySyncError(Parsed(a)).retry

\* The answer does not speak of the terminal.
OffTerminal(a) == Parsed(a).code \notin TERMINAL_CODES

\* What refuses a sale is answered so that the till does not send it again.
LEMMA RefusalsDeny == \A x \in SaleRefusals : Denies(FriendlyError(x)) /\ OffTerminal(FriendlyError(x))
  <1> SUFFICES ASSUME NEW x \in SaleRefusals
               PROVE  Denies(FriendlyError(x)) /\ OffTerminal(FriendlyError(x))
    OBVIOUS
  <1>1. FriendlyError(x) \in {Reply(422, "SALE_ITEM_INVALID"), Reply(409, "SALE_CONFLICT"),
            Reply(426, "POS_PROTOCOL_HEADER_REQUIRED"), Reply(426, "POS_UPDATE_REQUIRED"),
            Reply(409, "POS_PROTOCOL_UNSUPPORTED"), Reply(404, "NOT_FOUND"),
            Reply(403, "PERMISSION_DENIED"), Reply(400, "VALIDATION_ERROR")}
    BY DEF SaleRefusals, FriendlyError, Structured, Http, Prisma, Exception, NoCode, Phrases, Fallback, GENERIC, Reply
  <1>2. PICK s, c : /\ FriendlyError(x) = Reply(s, c) /\ s \in Decisions /\ s # 200
                    /\ c \notin TERMINAL_CODES /\ c # NoCode /\ c # "NETWORK_ERROR"
    BY <1>1 DEF Decisions, TERMINAL_CODES, NoCode
  <1>3. ~classifySyncError(Parsed(FriendlyError(x))).retry
    BY <1>2, DecisionIsFinal
  <1>4. FriendlyError(x).status # 200 /\ Parsed(FriendlyError(x)).code = c
    BY <1>2 DEF Parsed, Reply
  <1>. QED
    BY <1>2, <1>3, <1>4 DEF Denies, OffTerminal

\* An outage or a fault is answered so that the till sends the sale again.
LEMMA OutagesDelay ==
  \A x \in SaleOutages \cup SaleFaults : Delays(FriendlyError(x)) /\ OffTerminal(FriendlyError(x))
  <1> SUFFICES ASSUME NEW x \in SaleOutages \cup SaleFaults
               PROVE  Delays(FriendlyError(x)) /\ OffTerminal(FriendlyError(x))
    OBVIOUS
  <1>1. FriendlyError(x) \in {Reply(503, "SALE_TRANSACTION_EXPIRED"), Reply(429, "RATE_LIMITED"),
            Reply(500, "INTERNAL_ERROR")}
    BY DEF SaleOutages, SaleFaults, PlainError, FriendlyError, Structured, Http, Prisma, Exception, NoCode,
           Phrases, Fallback, GENERIC, Reply
  <1>. QED
    BY <1>1 DEF Delays, OffTerminal, classifySyncError, Parsed, Reply, TERMINAL_CODES, NoCode

\* So is what a proxy or the network makes of it.
LEMMA InterruptionsDelay ==
  \A a \in {NetworkError, Reply(408, NoCode), Reply(502, NoCode)} : Delays(a) /\ OffTerminal(a)
  BY DEF NetworkError, Delays, OffTerminal, classifySyncError, Parsed, Reply, TERMINAL_CODES, NoCode

\* A terminal that is not enrolled is told so, and not that it is revoked.
LEMMA DeviceDenied ==
  \A t \in {"gone", "rotated"} :
      /\ Denies(FriendlyError(DeviceRefusals[t]))
      /\ Parsed(FriendlyError(DeviceRefusals[t])).code = FriendlyError(DeviceRefusals[t]).code
      /\ Parsed(FriendlyError(DeviceRefusals[t])).code # "TERMINAL_REVOKED"
  <1> SUFFICES ASSUME NEW t \in {"gone", "rotated"}
               PROVE  /\ Denies(FriendlyError(DeviceRefusals[t]))
                      /\ Parsed(FriendlyError(DeviceRefusals[t])).code
                            = FriendlyError(DeviceRefusals[t]).code
                      /\ Parsed(FriendlyError(DeviceRefusals[t])).code # "TERMINAL_REVOKED"
    OBVIOUS
  <1>1. FriendlyError(DeviceRefusals[t]) \in
            {Reply(401, "TERMINAL_NOT_ENROLLED"), Reply(401, "TERMINAL_CREDENTIAL_INVALID")}
    BY DEF DeviceRefusals, FriendlyError, Http, Exception, NoCode, Phrases, Reply
  <1>. QED
    BY <1>1 DEF Denies, classifySyncError, Parsed, Reply, TERMINAL_CODES, NoCode

\* No refusal of another call speaks of the terminal, whatever its words.
LEMMA CallsOffTerminal ==
  \A x \in CallRefusals : OffTerminal(FriendlyError(x)) /\ OffTerminal(AthrAnswer(x))
  <1> SUFFICES ASSUME NEW x \in CallRefusals
               PROVE  OffTerminal(FriendlyError(x)) /\ OffTerminal(AthrAnswer(x))
    OBVIOUS
  <1>1. FriendlyError(x).code \in {"INVITATION_TOKEN_INVALID", "PERMISSION_DENIED",
            "BRANCH_ACCESS_DENIED", "AUTH_INVALID"}
    BY DEF CallRefusals, FriendlyError, Domain, Http, Exception, NoCode, Phrases, Fallback, GENERIC, Reply
  <1>2. OffTerminal(FriendlyError(x))
    BY <1>1 DEF OffTerminal, Parsed, Reply, NoCode, TERMINAL_CODES
  <1>3. OffTerminal(AthrAnswer(x))
    BY DEF OffTerminal, AthrAnswer, Parsed, Reply, NoCode, TERMINAL_CODES
  <1>. QED
    BY <1>2, <1>3

\* An answer and why it was given.  Only a heartbeat or a sale is told of the
\* terminal, and then because the terminal is not enrolled; nobody is told that
\* it is revoked.
AnswerOK(op, answer, why) ==
    /\ Parsed(answer).code # "TERMINAL_REVOKED"
    /\ op = "heartbeat" /\ Parsed(answer).code \in TERMINAL_CODES =>
          why = "unenrolled" /\ Parsed(answer).code = answer.code
    /\ op = "sale" =>
          \/ why = "accepted" /\ answer.status = 200
          \/ why \in {"refusal", "unenrolled"} /\ Denies(answer)
          \/ why \in {"outage", "fault"} /\ Delays(answer)

\* A request under way, and its answer once it has one; a sale under way was tried.
MessageOK(m) ==
    /\ m = [op |-> m.op, step |-> m.step, again |-> m.again, answer |-> m.answer, why |-> m.why]
    /\ m.op = "sale" => sale.tries # 0
    /\ m.step = "answered" => AnswerOK(m.op, m.answer, m.why)

\* What the till made of its sale.
SaleOK ==
    /\ sale = [state |-> sale.state, tries |-> sale.tries, next |-> sale.next, why |-> sale.why]
    /\ sale.tries \in Nat
    /\ sale.tries \in Attempts \cup {0}
    /\ sale.state = "quarantined" => sale.why \in {"refusal", "unenrolled"}
    /\ sale.state = "pending" /\ sale.tries > 0 =>
          sale.why \in {"outage", "fault"} /\ 1000 <= sale.next /\ 5 * sale.next < 6 * LongestDelayMs

\* The evidence against the terminal is a refused heartbeat.
EvidenceOK ==
    evidence.code # NoCode =>
        evidence.at \in Nat /\ <<evidence.code, evidence.at>> \in refusals

\* The credential was given up on two refusals.
ClearedOK ==
    credential = "cleared" =>
        \E r, s \in clearedOn :
            r[1] = s[1] /\ s[2] \in r[2] + ConfirmDelay .. r[2] + ConfirmWindow

\* The inductive invariant. FailureVerdict is not inductive: what the till
\* decides from was answered steps before, and the second refused heartbeat
\* counts because the first is still on record.
ErrInv ==
    /\ tick \in Nat /\ terminal \in {"active", "gone", "rotated"}
    /\ credential \in {"kept", "cleared"}
    /\ SaleOK /\ EvidenceOK /\ ClearedOK
    /\ \A m \in wire : MessageOK(m)

\* A retry waits at least a second, and at most a quarter of an hour and a
\* fifth of it: the jitter stays below a fifth.
LEMMA DelayBounded ==
  ASSUME NEW attempt \in Attempts, NEW wait \in {0, 2000}
  PROVE  /\ nextAttemptAt(attempt, wait) \in Nat
         /\ 1000 <= nextAttemptAt(attempt, wait)
         /\ 5 * nextAttemptAt(attempt, wait) < 6 * LongestDelayMs
  <1> DEFINE Waits == {n \in Nat : 1000 <= n /\ n <= LongestDelayMs}
  <1>1. attempt \in Nat /\ Hash[attempt] \in Nat
    BY HashAssumption
  <1>2. retryDelayMs(attempt, wait) \in Waits
    <2>1. CASE wait = 2000
      <3>1. Max({1000, 2000}) = 2000 /\ Min({LongestDelayMs, 2000}) = 2000
        BY DEF Max, Min, LongestDelayMs
      <3>. QED
        BY <2>1, <3>1 DEF retryDelayMs, LongestDelayMs
    <2>2. CASE wait = 0
      <3>1. Max({1, attempt}) \in Nat /\ Max({1, attempt}) >= 1
        BY <1>1 DEF Max
      <3>2. PICK k : k = Max({1, attempt})
        OBVIOUS
      <3>3. Len(RETRY_DELAYS_MS) = 7
        BY DEF RETRY_DELAYS_MS
      <3>4. Min({7, k}) \in 1 .. 7
        BY <3>1, <3>2 DEF Min
      <3>5. \A i \in 1 .. 7 : RETRY_DELAYS_MS[i] \in Waits
        BY DEF RETRY_DELAYS_MS, LongestDelayMs
      <3>. QED
        BY <2>2, <3>2, <3>3, <3>4, <3>5 DEF retryDelayMs
    <2>. QED
      BY <2>1, <2>2
  <1>3. PICK d : d = retryDelayMs(attempt, wait)
    OBVIOUS
  <1>4. d \in Waits
    BY <1>2, <1>3
  <1>5. PICK q : q = d \div 5
    OBVIOUS
  <1>6. q \in Nat /\ 5 * q <= d /\ 1 <= q
    BY <1>4, <1>5
  <1>7. Max({1, q}) = q
    BY <1>6 DEF Max
  <1>8. stableRetryJitterMs(attempt, d) = Hash[attempt] % q
    BY <1>5, <1>7 DEF stableRetryJitterMs
  <1>9. Hash[attempt] % q \in Nat /\ Hash[attempt] % q < q
    BY <1>1, <1>6
  <1>10. nextAttemptAt(attempt, wait) = d + stableRetryJitterMs(attempt, d)
    BY <1>3 DEF nextAttemptAt
  <1>11. LongestDelayMs \in Nat
    BY DEF LongestDelayMs
  <1>12. PICK r : r = stableRetryJitterMs(attempt, d)
    OBVIOUS
  <1>13. r \in Nat /\ r < q /\ d \in Nat /\ 1000 <= d /\ d <= LongestDelayMs
    BY <1>4, <1>8, <1>9, <1>12
  <1>14. d + r \in Nat /\ 1000 <= d + r /\ 5 * (d + r) < 6 * LongestDelayMs
    BY <1>6, <1>11, <1>13
  <1>15. nextAttemptAt(attempt, wait) = d + r
    BY <1>10, <1>12
  <1>. QED
    BY <1>14, <1>15

\* A sale that is new or waits, at a till that holds its credential, satisfies it.
LEMMA ErrInitOK == ErrInit => ErrInv
  <1> SUFFICES ASSUME ErrInit PROVE ErrInv
    OBVIOUS
  <1>1. CASE sale = [state |-> "pending", tries |-> 0, next |-> 0, why |-> "new"]
    BY <1>1 DEF ErrInit, ErrInv, SaleOK, EvidenceOK, ClearedOK, NoCode
  <1>2. ASSUME NEW t \in Attempts,
               sale = [state |-> "pending", tries |-> t, next |-> nextAttemptAt(t, 0), why |-> "outage"]
        PROVE  ErrInv
    <2>1. 1000 <= nextAttemptAt(t, 0) /\ 5 * nextAttemptAt(t, 0) < 6 * LongestDelayMs /\ t \in Nat
      BY DelayBounded, HashAssumption
    <2>2. SaleOK
      BY <1>2, <2>1 DEF SaleOK
    <2>. QED
      BY <2>2 DEF ErrInit, ErrInv, EvidenceOK, ClearedOK, NoCode
  <1>. QED
    BY <1>1, <1>2 DEF ErrInit

\* A step that puts a message that is in order in the place of another.
LEMMA WireStep ==
  ASSUME ErrInv, NEW m \in wire, NEW n, Instead(m, n), MessageOK(n),
         UNCHANGED <<sale, credential, evidence, terminal, tick, refusals, clearedOn>>
  PROVE  ErrInv'
  <1>1. \A x \in wire' : MessageOK(x)
    BY DEF ErrInv, Instead
  <1>. QED
    BY <1>1 DEF ErrInv, SaleOK, EvidenceOK, ClearedOK, MessageOK

\* An answer in order makes a message in order.
LEMMA AnsweredOK ==
  ASSUME ErrInv, NEW m \in wire, NEW answer, NEW why, AnswerOK(m.op, answer, why)
  PROVE  MessageOK(Answered(m, answer, why))
  <1>1. PICK n : n = Answered(m, answer, why)
    OBVIOUS
  <1>2. /\ m = [op |-> m.op, step |-> m.step, again |-> m.again, answer |-> m.answer, why |-> m.why]
        /\ m.op = "sale" => sale.tries # 0
    BY DEF ErrInv, MessageOK
  <1>3. n = [op |-> m.op, step |-> "answered", again |-> m.again, answer |-> answer, why |-> why]
    BY <1>1, <1>2 DEF Answered
  <1>4. n.op = m.op /\ n.answer = answer /\ n.why = why /\ n.step = "answered" /\ n.again = m.again
    BY <1>3
  <1>. QED
    BY <1>1, <1>2, <1>3, <1>4 DEF MessageOK

\* A call is made.
LEMMA SendCallStep ==
  ASSUME ErrInv, NEW op \in {"sale", "heartbeat", "call"}, SendCall(op)
  PROVE  ErrInv'
  <1>1. /\ sale' = IF op = "sale" THEN [sale EXCEPT !.state = "sending", !.tries = @ + 1] ELSE sale
        /\ wire' = wire \cup {Request(op)}
        /\ op = "sale" => sale.state = "pending" /\ sale.tries + 1 \in Attempts
    BY DEF SendCall
  <1>2. op = "sale" =>
          sale' = [state |-> "sending", tries |-> sale.tries + 1, next |-> sale.next, why |-> sale.why]
    <2>1. sale = [state |-> sale.state, tries |-> sale.tries, next |-> sale.next, why |-> sale.why]
      BY DEF ErrInv, SaleOK
    <2>. QED
      BY <1>1, <2>1
  <1>3. op = "sale" => sale'.tries = sale.tries + 1 /\ sale'.state = "sending" /\ sale.tries \in Nat
    BY <1>2 DEF ErrInv, SaleOK
  <1>4. \A x \in wire' : MessageOK(x)'
    <2>1. sale.tries # 0 => sale'.tries # 0
      BY <1>1, <1>3
    <2>2. op = "sale" => sale'.tries # 0
      BY <1>3
    <2>3. MessageOK(Request(op))'
      BY <2>2 DEF Request, MessageOK
    <2>4. \A x \in wire : MessageOK(x) => MessageOK(x)'
      BY <2>1 DEF MessageOK, AnswerOK
    <2>. QED
      BY <1>1, <2>3, <2>4 DEF ErrInv
  <1>5. SaleOK'
    <2>1. CASE op = "sale"
      BY <1>1, <1>2, <1>3, <2>1 DEF SaleOK
    <2>2. CASE op # "sale"
      BY <2>2 DEF SendCall, SaleOK, ErrInv
    <2>. QED
      BY <2>1, <2>2
  <1>. QED
    BY <1>4, <1>5 DEF ErrInv, SendCall, EvidenceOK, ClearedOK

\* The handler's answers are in order.
LEMMA HandleStep ==
  ASSUME ErrInv, NEW m \in wire, Handle(m)
  PROVE  ErrInv'
  <1>1. UNCHANGED <<sale, credential, evidence, terminal, tick, refusals, clearedOn>>
    BY DEF Handle
  <1>2. PICK answer, why : Instead(m, Answered(m, answer, why)) /\ AnswerOK(m.op, answer, why)
    <2>1. CASE terminal # "active" /\ m.op # "call"
               /\ Instead(m, Answered(m, FriendlyError(DeviceRefusals[terminal]), "unenrolled"))
      <3>1. PICK answer : answer = FriendlyError(DeviceRefusals[terminal])
        OBVIOUS
      <3>2. Denies(answer) /\ Parsed(answer).code = answer.code /\ Parsed(answer).code # "TERMINAL_REVOKED"
        BY <2>1, <3>1, DeviceDenied DEF ErrInv
      <3>. QED
        BY <2>1, <3>1, <3>2 DEF AnswerOK
    <2>2. CASE Instead(m, Answered(m, Reply(200, NoCode), "accepted"))
      BY <2>2 DEF AnswerOK, Parsed, Reply, NoCode, TERMINAL_CODES
    <2>3. CASE m.op = "sale" /\ \E x \in SaleRefusals : Instead(m, Answered(m, FriendlyError(x), "refusal"))
      <3>1. PICK x \in SaleRefusals : Instead(m, Answered(m, FriendlyError(x), "refusal"))
        BY <2>3
      <3>2. AnswerOK(m.op, FriendlyError(x), "refusal")
        BY <2>3, RefusalsDeny DEF AnswerOK, OffTerminal, TERMINAL_CODES
      <3>. QED
        BY <3>1, <3>2
    <2>4. CASE m.op = "sale" /\ \E x \in SaleOutages \cup SaleFaults, why \in {"outage", "fault"} :
                  Instead(m, Answered(m, FriendlyError(x), why))
      <3>1. PICK x \in SaleOutages \cup SaleFaults, why \in {"outage", "fault"} :
                  Instead(m, Answered(m, FriendlyError(x), why))
        BY <2>4
      <3>2. AnswerOK(m.op, FriendlyError(x), why)
        BY <2>4, OutagesDelay DEF AnswerOK, OffTerminal, TERMINAL_CODES
      <3>. QED
        BY <3>1, <3>2
    <2>5. CASE m.op = "call" /\ \E x \in CallRefusals :
                  \E answer \in {FriendlyError(x), AthrAnswer(x)} :
                      Instead(m, Answered(m, answer, "refusal"))
      <3>0. PICK x \in CallRefusals :
                  \E answer \in {FriendlyError(x), AthrAnswer(x)} :
                      Instead(m, Answered(m, answer, "refusal"))
        BY <2>5
      <3>1. PICK answer \in {FriendlyError(x), AthrAnswer(x)} :
                Instead(m, Answered(m, answer, "refusal"))
        BY <3>0
      <3>2. AnswerOK(m.op, answer, "refusal")
        BY <2>5, <3>1, CallsOffTerminal DEF AnswerOK, OffTerminal, TERMINAL_CODES
      <3>. QED
        BY <3>1, <3>2
    <2>. QED
      BY <2>1, <2>2, <2>3, <2>4, <2>5 DEF Handle
  <1>3. MessageOK(Answered(m, answer, why))
    BY <1>2, AnsweredOK
  <1>. QED
    BY <1>1, <1>2, <1>3, WireStep

\* An interruption is an outage for any call.
LEMMA InterruptedOK ==
  ASSUME NEW op, NEW a \in {NetworkError, Reply(408, NoCode), Reply(502, NoCode)}
  PROVE  AnswerOK(op, a, "outage")
  BY InterruptionsDelay DEF AnswerOK, OffTerminal, TERMINAL_CODES

\* A proxy answers, or the answer is lost.
LEMMA InterruptStep ==
  ASSUME ErrInv, NEW m \in wire, Interrupt(m)
  PROVE  ErrInv'
  <1>1. UNCHANGED <<sale, credential, evidence, terminal, tick, refusals, clearedOn>>
    BY DEF Interrupt
  <1>2. PICK a \in {NetworkError, Reply(408, NoCode), Reply(502, NoCode)} :
            Instead(m, Answered(m, a, "outage"))
    BY DEF Interrupt
  <1>3. MessageOK(Answered(m, a, "outage"))
    BY InterruptedOK, AnsweredOK
  <1>. QED
    BY <1>1, <1>2, <1>3, WireStep

\* A 401 is met with a refresh.
LEMMA RefreshStep ==
  ASSUME ErrInv, NEW m \in wire, Refresh(m)
  PROVE  ErrInv'
  <1>1. UNCHANGED <<sale, credential, evidence, terminal, tick, refusals, clearedOn>>
    BY DEF Refresh
  <1>2. /\ m = [op |-> m.op, step |-> m.step, again |-> m.again, answer |-> m.answer, why |-> m.why]
        /\ m.step = "answered" /\ AnswerOK(m.op, m.answer, m.why)
        /\ m.op = "sale" => sale.tries # 0
    BY DEF ErrInv, MessageOK, Refresh
  <1>3. PICK n : Instead(m, n) /\ MessageOK(n)
    <2>1. CASE Instead(m, [m EXCEPT !.step = "sent", !.again = TRUE])
      <3>1. PICK n : n = [m EXCEPT !.step = "sent", !.again = TRUE]
        OBVIOUS
      <3>2. n = [op |-> m.op, step |-> "sent", again |-> TRUE, answer |-> m.answer, why |-> m.why]
        BY <1>2, <3>1
      <3>3. MessageOK(n)
        BY <1>2, <3>2 DEF MessageOK
      <3>. QED
        BY <2>1, <3>1, <3>3
    <2>2. CASE Instead(m, [m EXCEPT !.again = TRUE])
      <3>1. PICK n : n = [m EXCEPT !.again = TRUE]
        OBVIOUS
      <3>2. n = [op |-> m.op, step |-> m.step, again |-> TRUE, answer |-> m.answer, why |-> m.why]
        BY <1>2, <3>1
      <3>3. n.op = m.op /\ n.answer = m.answer /\ n.why = m.why /\ n.step = m.step /\ n.again = TRUE
        BY <3>2
      <3>4. MessageOK(n)
        BY <1>2, <3>2, <3>3 DEF MessageOK
      <3>. QED
        BY <2>2, <3>1, <3>4
    <2>3. CASE Instead(m, Answered(m, NetworkError, "outage"))
      <3>1. MessageOK(Answered(m, NetworkError, "outage"))
        BY InterruptedOK, AnsweredOK
      <3>. QED
        BY <2>3, <3>1
    <2>. QED
      BY <2>1, <2>2, <2>3 DEF Refresh
  <1>. QED
    BY <1>1, <1>3, WireStep

\* The sale is settled as its answer deserves.
LEMMA SettledOK ==
  ASSUME ErrInv, NEW m \in wire, m.step = "answered", m.op = "sale", sale' = Settled(m)
  PROVE  SaleOK'
  <1>1. AnswerOK("sale", m.answer, m.why)
    BY DEF ErrInv, MessageOK
  <1>2. /\ sale = [state |-> sale.state, tries |-> sale.tries, next |-> sale.next, why |-> sale.why]
        /\ sale.tries \in Nat /\ sale.tries \in Attempts
    BY DEF ErrInv, SaleOK, MessageOK
  <1>3. CASE m.answer.status = 200
    <2>1. sale' = [state |-> "sent", tries |-> sale.tries, next |-> 0, why |-> m.why]
      BY <1>2, <1>3 DEF Settled
    <2>. QED
      BY <1>2, <2>1 DEF SaleOK
  <1>4. CASE m.answer.status # 200 /\ classifySyncError(Parsed(m.answer)).retry
    <2>1. PICK d : d = nextAttemptAt(sale.tries, RetryAfter(Parsed(m.answer).code))
      OBVIOUS
    <2>2. sale' = [state |-> "pending", tries |-> sale.tries, next |-> d, why |-> m.why]
      BY <1>2, <1>4, <2>1 DEF Settled
    <2>3. RetryAfter(Parsed(m.answer).code) \in {0, 2000}
      BY DEF RetryAfter
    <2>4. 1000 <= d /\ 5 * d < 6 * LongestDelayMs
      BY SMTT(30), <1>2, <2>1, <2>3, DelayBounded
    <2>5. m.why \in {"outage", "fault"}
      BY <1>1, <1>4 DEF AnswerOK, Denies
    <2>. QED
      BY <1>2, <2>2, <2>4, <2>5 DEF SaleOK
  <1>5. CASE m.answer.status # 200 /\ ~classifySyncError(Parsed(m.answer)).retry
    <2>1. sale' = [state |-> "quarantined", tries |-> sale.tries, next |-> 0, why |-> m.why]
      BY <1>2, <1>5 DEF Settled
    <2>2. m.why \in {"refusal", "unenrolled"}
      BY <1>1, <1>5 DEF AnswerOK, Delays
    <2>. QED
      BY <1>2, <2>1, <2>2 DEF SaleOK
  <1>. QED
    BY <1>3, <1>4, <1>5

\* The till receives an answer: the credential is given up only on the second of
\* two refused heartbeats.
LEMMA ReceiveStep ==
  ASSUME ErrInv, NEW m \in wire, Receive(m)
  PROVE  ErrInv'
  <1>1. /\ m.step = "answered" /\ wire' = wire \ {m} /\ UNCHANGED <<terminal, tick>>
        /\ sale' = IF m.op = "sale" THEN Settled(m) ELSE sale
        /\ clearedOn' = IF credential = "kept" /\ credential' = "cleared"
                        THEN refusals' ELSE clearedOn
    BY DEF Receive
  <1>2. SaleOK'
    BY SMTT(30), <1>1, SettledOK DEF ErrInv, SaleOK
  <1>3. \A x \in wire' : MessageOK(x)'
    <2>1. sale'.tries = sale.tries
      BY <1>1 DEF Settled, ErrInv, SaleOK
    <2>2. \A x : MessageOK(x) => MessageOK(x)'
      BY <2>1 DEF MessageOK, AnswerOK
    <2>. QED
      BY <1>1, <2>2 DEF ErrInv
  <1>4. AnswerOK(m.op, m.answer, m.why)
    BY <1>1 DEF ErrInv, MessageOK
  <1>5. EvidenceOK' /\ ClearedOK' /\ credential' \in {"kept", "cleared"}
    <2>1. CASE m.answer.status = 200
      <3>1. /\ UNCHANGED credential
            /\ \/ UNCHANGED <<evidence, refusals>>
               \/ evidence' = [code |-> NoCode, at |-> 0]
        BY <2>1 DEF Receive, resetTerminalFailure
      <3>. QED
        BY <1>1, <3>1 DEF ErrInv, EvidenceOK, ClearedOK
    <2>2. CASE m.answer.status # 200
      <3>1. PICK online \in BOOLEAN : registerTerminalFailure(m, Parsed(m.answer).code, online)
        BY <2>2 DEF Receive
      <3>2. /\ refusals \subseteq refusals'
            /\ m.op = "heartbeat" /\ m.why = "unenrolled" => <<m.answer.code, tick>> \in refusals'
        BY <2>2 DEF Receive
      <3>3. PICK code : code = Parsed(m.answer).code
        OBVIOUS
      <3>4. /\ code # "TERMINAL_REVOKED"
            /\ Confirms(m, code) => code # NoCode /\ <<code, tick>> \in refusals'
        BY <1>4, <3>2, <3>3 DEF AnswerOK, Confirms, TERMINAL_CODES, NoCode
      <3>5. CASE /\ clearDevice
                 /\ Confirms(m, code) /\ ~FirstSeen(code) /\ tick >= evidence.at + ConfirmDelay
        <4>1. evidence.code = code /\ ~(tick > evidence.at + ConfirmWindow)
          BY <3>5 DEF FirstSeen
        <4>2. evidence.at \in Nat /\ <<code, evidence.at>> \in refusals'
          BY <3>2, <3>4, <3>5, <4>1 DEF ErrInv, EvidenceOK
        <4>3. tick \in evidence.at + ConfirmDelay .. evidence.at + ConfirmWindow
          BY <3>5, <4>1, <4>2, ConfirmAssumption DEF ErrInv
        <4>4. credential' = "cleared" /\ evidence'.code = NoCode
          BY <3>5 DEF clearDevice
        <4>5. \E r, s \in refusals' :
                r[1] = s[1] /\ s[2] \in r[2] + ConfirmDelay .. r[2] + ConfirmWindow
          BY <3>4, <3>5, <4>2, <4>3
        <4>6. CASE credential = "kept"
          BY <1>1, <4>4, <4>5, <4>6 DEF EvidenceOK, ClearedOK
        <4>7. CASE credential # "kept"
          BY <1>1, <4>4, <4>7 DEF EvidenceOK, ClearedOK, ErrInv
        <4>. QED
          BY <4>6, <4>7
      <3>6. CASE /\ UNCHANGED credential
                 /\ \/ evidence' = evidence
                    \/ Confirms(m, code) /\ evidence' = [code |-> code, at |-> tick]
        <4>1. ClearedOK'
          BY <1>1, <3>6 DEF ErrInv, ClearedOK
        <4>2. EvidenceOK'
          BY <3>2, <3>4, <3>6 DEF ErrInv, EvidenceOK
        <4>. QED
          BY <3>6, <4>1, <4>2 DEF ErrInv
      <3>. QED
        BY <3>1, <3>3, <3>4, <3>5, <3>6 DEF registerTerminalFailure
    <2>. QED
      BY <2>1, <2>2
  <1>. QED
    BY <1>1, <1>2, <1>3, <1>5 DEF ErrInv

\* Every step keeps the invariant.
LEMMA ErrStep ==
  ASSUME ErrInv, [ErrNext]_errVars
  PROVE  ErrInv'
  <1>1. CASE Pass
    BY <1>1 DEF Pass, ErrInv, SaleOK, EvidenceOK, ClearedOK, MessageOK
  <1>2. ASSUME NEW to \in {"active", "gone", "rotated"}, Administer(to) PROVE ErrInv'
    BY <1>2 DEF Administer, ErrInv, SaleOK, EvidenceOK, ClearedOK, MessageOK
  <1>3. CASE UNCHANGED errVars
    BY <1>3 DEF errVars, ErrInv, SaleOK, EvidenceOK, ClearedOK, MessageOK
  <1>. QED
    BY <1>1, <1>2, <1>3, SendCallStep, HandleStep, InterruptStep, RefreshStep, ReceiveStep DEF ErrNext

\* The invariant gives FailureVerdict.
LEMMA ErrVerdict == ErrInv => FailureVerdict
  BY VerdictsAgree DEF ErrInv, SaleOK, ClearedOK, FailureVerdict

\* Along every behaviour a failure is met with what it deserves.
THEOREM ErrSafe == ErrSpec => []FailureVerdict
  <1>1. ErrInv /\ [ErrNext]_errVars => ErrInv'
    BY ErrStep
  <1>. QED
    BY <1>1, ErrInitOK, ErrVerdict, PTL DEF ErrSpec

(***************************************************************************)
(* The composition: MCBackOffice.                                          *)
(***************************************************************************)

\* A step of the whole is a step of each part, or leaves it alone.
LEMMA PartSteps ==
  ASSUME [Next]_boVars
  PROVE  /\ [MemNext]_memVars /\ [PolNext]_polVars /\ [SesNext]_sesVars
         /\ [RightsNext]_rightsVars /\ [RegNext]_regVars /\ [SelNext]_selVars
         /\ [ErrNext]_errVars
  BY DEF Next, boVars

\* A behaviour of the whole is one of each part.
LEMMA PartSpecs ==
  Spec => MemSpec /\ PolSpec /\ SesSpec /\ RightsSpec /\ RegSpec /\ SelSpec /\ ErrSpec
  <1>1. Init => MemInit /\ PolInit /\ SesInit /\ RightsInit /\ RegInit /\ SelInit /\ ErrInit
    BY DEF Init
  <1>. QED
    BY <1>1, PartSteps, PTL DEF Spec, MemSpec, PolSpec, SesSpec, RightsSpec, RegSpec, SelSpec,
       ErrSpec

\* A tenant keeps an active owner as long as membership operations do not
\* overlap (assertNotLastOwner counts and a later statement writes), and an
\* invitation lets in one identity, with its scope, unless it is accepted twice
\* at once.
THEOREM TenantKeepsOwner == Spec => []MembershipSafe
  BY MemSafe, PartSpecs, PTL

\* However instances of different releases start and seed, the newest active
\* policy is never set back, and a support grant that has ended stays ended.
THEOREM PolicyNeverSetBack == Spec => PolicyForward
  BY PolSafe, PartSpecs, PTL

\* However tabs refresh, lose their answers and log out, a login has one live
\* refresh token.
THEOREM OneLiveToken == Spec => []SessionSafe
  BY SesSafe, PartSpecs, PTL

\* A change of a user's rights is in force a cache lifetime and a lookup later,
\* whatever lookup was under way when it was made.
THEOREM RightsReachRequests == Spec => []RightsTakeEffect
  BY RightsSafe, PartSpecs, PTL

\* A terminal's credential was issued for an enrollment code of its own, after
\* the terminal's last revocation.
THEOREM CredentialPerCode == Spec => []TerminalCredential
  BY RegSafe, PartSpecs, PTL

\* A closed commission period says of each seller what the sales and returns of
\* its days say, but for the sales that arrived late.
THEOREM PeriodsReproducible == Spec => []CommissionReproducible
  BY SelSafe, PartSpecs, PTL

\* A sale is quarantined only on a decision of the server and tried again only
\* after an outage or a fault, within a quarter of an hour; a till gives up its
\* credential only after two refused heartbeats a confirmation delay apart; and
\* both exception filters answer a registered code with what is registered.
THEOREM FailureMetAsDeserved == Spec => []FailureVerdict
  BY ErrSafe, PartSpecs, PTL
=============================================================================
