-------------------------- MODULE TerminalRegistry --------------------------
(***************************************************************************)
(* POS terminals at the server: enrollment codes, the credential a device   *)
(* gets for one, revocation and re-enabling, heartbeats and                 *)
(* self-decommissioning (terminals.service.ts, terminals.repository.ts).    *)
(* enroll checks the code and the device in statements of their own and     *)
(* claims the code and writes the terminal in a transaction after that;     *)
(* heartbeat and selfDecommission check first and write later.              *)
(***************************************************************************)
EXTENDS Naturals, Sequences, FiniteSets

CONSTANTS
    Devices,
    Branches,
    HomeBranch,   \* the branch of the manager and the cashier who call
    Desks,        \* requests the server handles at one time
    MaxCodes      \* bound: enrollment codes issued

ASSUME RegistryAssumption == HomeBranch \in Branches /\ MaxCodes \in Nat

VARIABLES
    codes,      \* PosTerminalEnrollment rows: [branch, used, expired]
    terminals,  \* PosTerminal rows by device
    holds,      \* the credential every device keeps; 0: none
    issued,     \* credentials issued so far: the code each was issued for
    desks,      \* what every request is doing
    revokedAt,  \* history: credentials issued when the terminal was last revoked
    crossed     \* history: terminals revoked while an enrollment of theirs ran

regVars == <<codes, terminals, holds, issued, desks, revokedAt, crossed>>

NoTerminal == [branch |-> "none", revoked |-> FALSE, token |-> 0, pending |-> FALSE]
FreeDesk == [op |-> "free"]

RegInit ==
    /\ codes = <<>> /\ issued = <<>>
    /\ terminals = [d \in Devices |-> NoTerminal]
    /\ holds = [d \in Devices |-> 0]
    /\ desks = [k \in Desks |-> FreeDesk]
    /\ revokedAt = [d \in Devices |-> 0] /\ crossed = {}

\* createEnrollment: an owner for any branch, a manager for the own one.
CreateEnrollment(b, actorIsOwner) ==
    /\ Len(codes) < MaxCodes
    /\ actorIsOwner \/ b = HomeBranch
    /\ codes' = Append(codes, [branch |-> b, used |-> FALSE, expired |-> FALSE])
    /\ UNCHANGED <<terminals, holds, issued, desks, revokedAt, crossed>>

CodeExpires(c) ==
    /\ ~codes[c].expired /\ ~codes[c].used
    /\ codes' = [codes EXCEPT ![c].expired = TRUE]
    /\ UNCHANGED <<terminals, holds, issued, desks, revokedAt, crossed>>

\* enroll: the code is unused and in time, the device not revoked and not
\* another branch's.
EnrollCheck(k, d, c) ==
    /\ desks[k] = FreeDesk
    /\ ~codes[c].used /\ ~codes[c].expired
    /\ ~terminals[d].revoked
    /\ terminals[d] # NoTerminal => terminals[d].branch = codes[c].branch
    /\ desks' = [desks EXCEPT ![k] = [op |-> "enroll", device |-> d, code |-> c]]
    /\ UNCHANGED <<codes, terminals, holds, issued, revokedAt, crossed>>

\* upsert: a new row takes the branch of the code, an old one only the token.
Upsert(d, c, token) ==
    [terminals EXCEPT ![d] =
        IF @ = NoTerminal THEN [NoTerminal EXCEPT !.branch = codes[c].branch, !.token = token]
        ELSE [@ EXCEPT !.token = token]]

\* A mutant: the code is marked used whatever it was.
ClaimAnyCode(k, arrives) ==
    /\ desks[k].op = "enroll"
    /\ LET d == desks[k].device
           c == desks[k].code IN
       /\ codes' = [codes EXCEPT ![c].used = TRUE]
       /\ issued' = Append(issued, c)
       /\ terminals' = Upsert(d, c, Len(issued) + 1)
       /\ holds' = [holds EXCEPT ![d] = Len(issued) + 1]
    /\ desks' = [desks EXCEPT ![k] = FreeDesk]
    /\ UNCHANGED <<revokedAt, crossed>>
\* The transaction: the code is claimed by the update that asks for it unused,
\* and the terminal written.  The answer may be lost on its way to the device.
EnrollClaim(k, arrives) ==
    /\ desks[k].op = "enroll"
    /\ LET d == desks[k].device
           c == desks[k].code IN
       IF ~codes[c].used /\ ~codes[c].expired
       THEN /\ codes' = [codes EXCEPT ![c].used = TRUE]
            /\ issued' = Append(issued, c)
            /\ terminals' = Upsert(d, c, Len(issued) + 1)
            /\ holds' = IF arrives THEN [holds EXCEPT ![d] = Len(issued) + 1] ELSE holds
       ELSE UNCHANGED <<codes, issued, terminals, holds>>
    /\ desks' = [desks EXCEPT ![k] = FreeDesk]
    /\ UNCHANGED <<revokedAt, crossed>>

\* authenticateDevice and authenticate: an enrolled, unrevoked terminal of the
\* caller's branch that presents its credential.
Authenticated(d) ==
    /\ terminals[d].token # 0 /\ holds[d] = terminals[d].token
    /\ ~terminals[d].revoked
    /\ terminals[d].branch = HomeBranch

\* heartbeat authenticates, then writes what the till says it has to upload.
HeartbeatCheck(k, d, pending) ==
    /\ desks[k] = FreeDesk /\ Authenticated(d)
    /\ desks' = [desks EXCEPT ![k] = [op |-> "heartbeat", device |-> d, pending |-> pending]]
    /\ UNCHANGED <<codes, terminals, holds, issued, revokedAt, crossed>>
HeartbeatWrite(k) ==
    /\ desks[k].op = "heartbeat"
    /\ terminals' = [terminals EXCEPT ![desks[k].device].pending = desks[k].pending]
    /\ desks' = [desks EXCEPT ![k] = FreeDesk]
    /\ UNCHANGED <<codes, holds, issued, revokedAt, crossed>>

\* A terminal loses its credential; enrollments of it may be half way.
Revoked(d, row) ==
    /\ terminals' = [terminals EXCEPT ![d] = row]
    /\ revokedAt' = [revokedAt EXCEPT ![d] = Len(issued)]
    /\ crossed' = IF \E k \in Desks : desks[k].op = "enroll" /\ desks[k].device = d
                  THEN crossed \cup {d} ELSE crossed

\* selfDecommission by the branch's manager: nothing to upload, by the till's
\* word and by the last heartbeat; a terminal already out is a replay.
DecommissionCheck(k, d) ==
    /\ desks[k] = FreeDesk
    /\ terminals[d].branch = HomeBranch /\ ~terminals[d].pending
    /\ ~terminals[d].revoked /\ terminals[d].token # 0
    /\ holds[d] = terminals[d].token
    /\ desks' = [desks EXCEPT ![k] = [op |-> "decommission", device |-> d]]
    /\ UNCHANGED <<codes, terminals, holds, issued, revokedAt, crossed>>
DecommissionWrite(k) ==
    /\ desks[k].op = "decommission"
    /\ LET d == desks[k].device IN
       Revoked(d, [terminals[d] EXCEPT !.revoked = TRUE, !.token = 0, !.pending = FALSE])
    /\ desks' = [desks EXCEPT ![k] = FreeDesk]
    /\ UNCHANGED <<codes, holds, issued>>

\* update with revoked: true.
Revoke(d) ==
    /\ terminals[d] # NoTerminal
    /\ Revoked(d, [terminals[d] EXCEPT !.revoked = TRUE, !.token = 0])
    /\ UNCHANGED <<codes, holds, issued, desks>>
\* update with revoked: false.
Enable(d) ==
    /\ terminals[d].revoked
    /\ terminals' = [terminals EXCEPT ![d].revoked = FALSE]
    /\ UNCHANGED <<codes, holds, issued, desks, revokedAt, crossed>>

\* What a till calls: enroll without a session, heartbeat and
\* self-decommission with one.
DeviceRoutes(k, d) ==
    \/ \E c \in DOMAIN codes : EnrollCheck(k, d, c)
    \/ \E p \in BOOLEAN : HeartbeatCheck(k, d, p)
    \/ DecommissionCheck(k, d)

\* The terminals page: a code, or a terminal switched off and on.
TerminalsPage ==
    \/ \E b \in Branches, o \in BOOLEAN : CreateEnrollment(b, o)
    \/ \E d \in Devices : Revoke(d) \/ Enable(d)

RegNext ==
    \/ TerminalsPage
    \/ \E c \in DOMAIN codes : CodeExpires(c)
    \/ \E k \in Desks, d \in Devices : DeviceRoutes(k, d)
    \/ \E k \in Desks : \/ \E a \in BOOLEAN : EnrollClaim(k, a)
                        \/ HeartbeatWrite(k) \/ DecommissionWrite(k)
-----------------------------------------------------------------------------
\* One code lets in one device, however many present it at once; and
\* "Re-enabling a terminal therefore requires a new manager-issued enrollment
\* code" (terminals.service.ts:279): a device that is let in after its terminal
\* was revoked carries a credential issued since, and a revoked terminal keeps
\* none, so that switching it on again lets nobody in, unless an enrollment that
\* had passed its checks was overtaken by the revocation.
TerminalCredential ==
    /\ \A m, n \in DOMAIN issued : issued[m] = issued[n] => m = n
    /\ \A d \in Devices : Authenticated(d) => holds[d] > revokedAt[d]
    /\ \A d \in Devices \ crossed : terminals[d].revoked => terminals[d].token = 0
=============================================================================
