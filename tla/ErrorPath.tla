------------------------------ MODULE ErrorPath ------------------------------
(***************************************************************************)
(* What becomes of a failure.  A handler throws; ApiExceptionFilter, or on a  *)
(* few routes AthrExceptionFilter, turns the exception into a status and a    *)
(* code; a proxy may answer instead and the network may lose the answer; the  *)
(* till's main process reads it, and the sync engine decides from what is     *)
(* left whether the sale is sent again or quarantined, and api.ts whether the *)
(* terminal's credential is still worth keeping.                              *)
(***************************************************************************)
EXTENDS Naturals, Sequences, FiniteSets, FiniteSetsExt, TLC

CONSTANTS
    ConfirmDelay, ConfirmWindow,  \* TERMINAL_CONFIRMATION_DELAY_MS, _WINDOW_MS in ticks
    Hash,                         \* stableRetryJitterMs' hash of the sale's id and the attempt
    Attempts,                     \* bound: the uploads of the sale that are followed
    MaxOnWire,                    \* bound: requests under way
    LastTick                      \* bound: the clock

ASSUME HashAssumption == Attempts \subseteq Nat \ {0} /\ Hash \in [Attempts -> Nat]
ASSUME ConfirmAssumption ==
    ConfirmDelay \in Nat \ {0} /\ ConfirmWindow \in Nat /\ ConfirmDelay <= ConfirmWindow

VARIABLES
    sale,       \* the outbox row: state, tries, milliseconds until the next try, why it failed
    credential, \* the terminal's credential at the till: kept or cleared
    evidence,   \* terminalEvidence: none, or the code and when it was first seen
    wire,       \* requests: op, step, answer, whether it was sent again after a refresh
    terminal,   \* the terminal's row on the server
    tick,
    refusals,   \* history: refused heartbeats since one was accepted
    clearedOn   \* history: the refusals on which the credential was cleared

errVars == <<sale, credential, evidence, wire, terminal, tick, refusals, clearedOn>>

NoCode == "none"

-----------------------------------------------------------------------------
(* The registry of codes: status, whether a retry may help, and what is known *)
(* of the effect.                                                             *)

Meta(c, s, r, o) == [code |-> c, status |-> s, retryable |-> r, outcome |-> o]
Coded(codes, s) == {Meta(c, s, FALSE, "no_effect") : c \in codes}
Unauthorised(codes, s) == {Meta(c, s, FALSE, "not_applicable") : c \in codes}

COMMON_ERROR_CODES ==
    {Meta("IDEMPOTENCY_KEY_REQUIRED", 428, TRUE, "no_effect")}
    \cup Coded({"IDEMPOTENCY_KEY_FORMAT_INVALID", "REQUEST_BODY_MALFORMED",
                "REQUEST_FIELD_VALUE_INVALID", "PAGINATION_LIMIT_INVALID"}, 400)
    \cup Coded({"REQUEST_BODY_TOO_LARGE"}, 413) \cup Coded({"CONTENT_TYPE_NOT_SUPPORTED"}, 415)
    \cup Coded({"RESPONSE_FORMAT_NOT_SUPPORTED"}, 406) \cup Coded({"HTTP_METHOD_NOT_ALLOWED"}, 405)

AUTH_ERROR_CODES ==
    Unauthorised({"AUTHENTICATION_REQUIRED", "ACCESS_TOKEN_INVALID", "ACCESS_TOKEN_EXPIRED",
                  "SESSION_REVOKED"}, 401)
    \cup Unauthorised({"PERMISSION_DENIED"}, 403) \cup Unauthorised({"RESOURCE_NOT_FOUND"}, 404)

INTERNAL_ERROR_CODES ==
    {Meta(c, 500, FALSE, "unknown") : c \in {"INTERNAL_ERROR", "UNEXPECTED_PROCESSING_ERROR"}}

IDENTITY_ERROR_CODES ==
    Coded({"MEMBERSHIP_NOT_FOUND", "INVITATION_NOT_FOUND", "SUPPORT_ACCESS_GRANT_NOT_FOUND"}, 404)
    \cup Coded({"MEMBERSHIP_ALREADY_EXISTS", "MEMBERSHIP_INVALID_STATE_TRANSITION",
                "LAST_OWNER_SAFEGUARD_VIOLATION", "INVITATION_EXPIRED",
                "INVITATION_ALREADY_ACCEPTED", "SUPPORT_ACCESS_GRANT_EXPIRED"}, 409)
    \cup Coded({"INVITATION_TOKEN_INVALID", "ACCESS_SCOPE_REQUIRED",
                "ACCESS_SCOPE_REFERENCE_REQUIRED"}, 400)
    \cup {Meta("SUPPORT_ACCESS_CONSENT_REQUIRED", 409, TRUE, "no_effect")}
    \cup Unauthorised({"TENANT_CONTEXT_UNRESOLVABLE", "TENANT_CONTEXT_MISMATCH"}, 403)

CATALOG_ERROR_CODES ==
    Coded({"CATALOG_BRAND_NAME_CONFLICT", "CATALOG_UOM_CODE_CONFLICT",
           "CATALOG_UOM_CONVERSION_IMMUTABLE", "CATALOG_ITEM_TYPE_CHANGE_RESTRICTED"}, 409)

PRICING_ERROR_CODES ==
    Coded({"PRICING_NO_PRICE_AVAILABLE", "PRICING_OVERRIDE_LIMIT_EXCEEDED"}, 422)
    \cup Coded({"PRICING_ZERO_OR_NEGATIVE_PRICE_NOT_ALLOWED", "PRICING_CURRENCY_MISMATCH",
                "PRICING_DISCOUNT_EXCEEDS_BASE_PRICE"}, 400)
    \cup Coded({"PRICING_PRICE_BOOK_INVALID_TRANSITION", "PRICING_DEFAULT_PRICE_BOOK_CONFLICT",
                "PRICING_PRICE_BOOK_DELETE_FORBIDDEN", "PRICING_ENTRY_IMMUTABLE",
                "PRICING_OVERRIDE_NOT_PENDING_APPROVAL"}, 409)
    \cup Coded({"PRICING_PRICE_BOOK_SELF_APPROVAL_FORBIDDEN",
                "PRICING_OVERRIDE_BELOW_FLOOR_REQUIRES_APPROVAL",
                "PRICING_OVERRIDE_SELF_APPROVAL_FORBIDDEN"}, 403)

TAX_ERROR_CODES ==
    Coded({"TAX_NO_ACTIVE_CODE", "TAX_EXEMPTION_NOT_APPLICABLE", "TAX_MODE_NOT_DECLARED"}, 422)
    \cup Coded({"TAX_CODE_INVALID_TRANSITION"}, 409)
    \cup Coded({"TAX_CODE_SELF_APPROVAL_FORBIDDEN", "TAX_MANUAL_OVERRIDE_FORBIDDEN"}, 403)
    \cup Coded({"TAX_EXEMPTION_EVIDENCE_REQUIRED"}, 400)

PROMOTION_ERROR_CODES ==
    Coded({"PROMOTION_INVALID_TRANSITION", "PROMOTION_RETURN_POLICY_REQUIRED",
           "COUPON_USAGE_LIMIT_EXCEEDED", "BUNDLE_RETURN_POLICY_REQUIRED", "BUNDLE_NOT_DRAFT",
           "BUNDLE_EMPTY"}, 409)
    \cup Coded({"PROMOTION_SELF_APPROVAL_FORBIDDEN"}, 403)
    \cup Coded({"COUPON_INVALID_OR_EXPIRED"}, 422)
    \cup {Meta("PROMOTION_EVALUATION_FAILED", 500, TRUE, "no_effect")}

ERROR_REGISTRY ==
    UNION {COMMON_ERROR_CODES, AUTH_ERROR_CODES, INTERNAL_ERROR_CODES, IDENTITY_ERROR_CODES,
           CATALOG_ERROR_CODES, PRICING_ERROR_CODES, TAX_ERROR_CODES, PROMOTION_ERROR_CODES}

\* getErrorMetadata, of a code that is registered.
Registered(code) == CHOOSE m \in ERROR_REGISTRY : m.code = code

-----------------------------------------------------------------------------
(* Exceptions and what the filters make of them.  says is the phrase of the  *)
(* message the filter looks for; an HttpException with a code of its own is   *)
(* what structuredHttpError keeps.                                           *)

Exception(kind, status, code, says) ==
    [kind |-> kind, status |-> status, code |-> code, says |-> says]
Domain(code, says) == Exception("domain", 0, code, says)
Prisma(code) == Exception("prisma", 0, code, NoCode)
Http(status, says) == Exception("http", status, NoCode, says)
Structured(status, code) == Exception("http", status, code, NoCode)
PlainError == Exception("error", 0, NoCode, NoCode)

Reply(status, code) == [status |-> status, code |-> code]

GENERIC ==
    [s \in {400, 401, 403, 404, 409, 429, 500} |->
        CASE s = 400 -> "VALIDATION_ERROR" [] s = 401 -> "AUTH_INVALID"
          [] s = 403 -> "PERMISSION_DENIED" [] s = 404 -> "NOT_FOUND"
          [] s = 409 -> "CONFLICT" [] s = 429 -> "RATE_LIMITED" [] s = 500 -> "INTERNAL_ERROR"]

\* The phrases toFriendlyError looks for, and the answer each stands for.
Phrases ==
    [insufficient_stock    |-> Reply(409, "INSUFFICIENT_STOCK"),
     return_window_expired |-> Reply(400, "RETURN_WINDOW_EXPIRED"),
     another_branch        |-> Reply(403, "BRANCH_ACCESS_DENIED"),
     revoked               |-> Reply(403, "TERMINAL_REVOKED"),
     must_be_enrolled      |-> Reply(401, "TERMINAL_NOT_ENROLLED"),
     invalid_pos_terminal_credential |-> Reply(401, "TERMINAL_CREDENTIAL_INVALID"),
     enrollment_code       |-> Reply(401, "ENROLLMENT_CODE_INVALID"),
     invalid_credentials   |-> Reply(401, "LOGIN_INVALID")]

Fallback(x) ==
    LET status == IF x.kind = "http" THEN x.status ELSE 500
    IN  IF status \in DOMAIN GENERIC THEN Reply(status, GENERIC[status])
        ELSE Reply(500, GENERIC[500])

\* A mutant: the business code and status of a structured error are not kept.
FriendlyErrorUnstructured(x) ==
    CASE x.kind = "domain" -> Reply(Registered(x.code).status, x.code)
      [] x.kind = "prisma" /\ x.code = "P2025" -> Reply(404, GENERIC[404])
      [] x.kind # "domain" /\ x.says \in DOMAIN Phrases -> Phrases[x.says]
      [] OTHER -> Fallback(x)

\* toFriendlyError.
FriendlyError(x) ==
    CASE x.kind = "domain" -> Reply(Registered(x.code).status, x.code)
      [] x.kind = "prisma" /\ x.code = "P2002" -> Reply(409, "DUPLICATE_VALUE")
      [] x.kind = "prisma" /\ x.code = "P2025" -> Reply(404, GENERIC[404])
      [] x.kind = "http" /\ x.code # NoCode -> Reply(x.status, x.code)
      [] x.kind # "domain" /\ x.says \in DOMAIN Phrases -> Phrases[x.says]
      [] OTHER -> Fallback(x)

HTTP_STATUS_FALLBACK_CODE ==
    [s \in {400, 401, 403, 404} |->
        CASE s = 400 -> "REQUEST_FIELD_VALUE_INVALID" [] s = 401 -> "AUTHENTICATION_REQUIRED"
          [] s = 403 -> "PERMISSION_DENIED" [] s = 404 -> "RESOURCE_NOT_FOUND"]

\* AthrExceptionFilter.resolve.
AthrError(x) ==
    CASE x.kind = "domain" -> Reply(Registered(x.code).status, x.code)
      [] x.kind = "http" /\ x.status \in DOMAIN HTTP_STATUS_FALLBACK_CODE ->
            Reply(x.status, HTTP_STATUS_FALLBACK_CODE[x.status])
      [] x.kind = "http" /\ x.status \notin DOMAIN HTTP_STATUS_FALLBACK_CODE ->
            Reply(x.status, "UNEXPECTED_PROCESSING_ERROR")
      [] OTHER -> Reply(500, "INTERNAL_ERROR")

\* catch: its envelope carries the code under error, where the till does not look.
AthrAnswer(x) == Reply(AthrError(x).status, NoCode)

-----------------------------------------------------------------------------
(* What the server throws at a till, and whether it passes by itself, is a     *)
(* decision, or is a fault nobody decided.                                    *)

\* authenticateDevice; a revocation clears the token's hash, so it reads as gone.
DeviceRefusals ==
    [gone    |-> Http(401, "must_be_enrolled"),
     rotated |-> Http(401, "invalid_pos_terminal_credential")]

SaleRefusals ==
    {Structured(422, "SALE_ITEM_INVALID"), Structured(409, "SALE_CONFLICT"),
     Structured(426, "POS_PROTOCOL_HEADER_REQUIRED"), Structured(426, "POS_UPDATE_REQUIRED"),
     Structured(409, "POS_PROTOCOL_UNSUPPORTED"),
     Http(404, NoCode), Http(403, NoCode), Http(400, NoCode), Prisma("P2025")}
SaleOutages ==
    {Structured(503, "SALE_TRANSACTION_EXPIRED"), Http(429, NoCode), Prisma("P2024"),
     Prisma("P2034")}
SaleFaults == {PlainError, Prisma("P2003")}

\* Refusals of the till's other calls, one of whose messages speaks of a revoked invitation.
CallRefusals ==
    {Domain("INVITATION_TOKEN_INVALID", "revoked"), Domain("PERMISSION_DENIED", NoCode),
     Http(409, "another_branch"), Http(401, NoCode)}

\* The SALE_TRANSACTION_EXPIRED answer asks for two seconds.
RetryAfter(code) == IF code = "SALE_TRANSACTION_EXPIRED" THEN 2000 ELSE 0

-----------------------------------------------------------------------------
(* The till.                                                                 *)

LongestDelayMs == 15 * 60000
RETRY_DELAYS_MS == <<15000, 30000, 60000, 120000, 300000, 600000, LongestDelayMs>>
retryDelayMs(attempt, retryAfterMs) ==
    IF retryAfterMs > 0 THEN Min({LongestDelayMs, Max({1000, retryAfterMs})})
    ELSE RETRY_DELAYS_MS[Min({Len(RETRY_DELAYS_MS), Max({1, attempt})})]

\* Up to a fifth of the delay is added, the same for one sale and attempt.
stableRetryJitterMs(attempt, delayMs) == Hash[attempt] % Max({1, delayMs \div 5})

\* retry: when the sale is sent again.
nextAttemptAt(attempt, retryAfterMs) ==
    LET delay == retryDelayMs(attempt, retryAfterMs)
    IN  delay + stableRetryJitterMs(attempt, delay)

TERMINAL_CODES == {"TERMINAL_REVOKED", "TERMINAL_NOT_ENROLLED", "TERMINAL_CREDENTIAL_INVALID"}
NetworkError == Reply(0, "NETWORK_ERROR")

\* parseApiFailure: an answer without a code is named after its status.
Parsed(answer) ==
    IF answer.code = NoCode THEN Reply(answer.status, "HTTP_STATUS") ELSE answer

\* classifySyncError, for an ApiError: the class, and whether it is tried again.
classifySyncError(err) ==
    IF err.code = "NETWORK_ERROR" \/ err.status = 408 THEN [retry |-> TRUE, class |-> "network"]
    ELSE IF err.status = 429 THEN [retry |-> TRUE, class |-> "rate_limit"]
    ELSE IF err.status >= 500 THEN [retry |-> TRUE, class |-> "server"]
    ELSE IF err.code \in TERMINAL_CODES THEN [retry |-> FALSE, class |-> "terminal"]
    ELSE IF err.status = 401 THEN [retry |-> FALSE, class |-> "authentication"]
    ELSE IF err.status \in {403, 409, 422, 426} THEN [retry |-> FALSE, class |-> "validation"]
    ELSE [retry |-> FALSE, class |-> "unknown"]

\* The sale is new, or waits since attempts that failed before.
ErrInit ==
    /\ \/ sale = [state |-> "pending", tries |-> 0, next |-> 0, why |-> "new"]
       \/ \E t \in Attempts : sale = [state |-> "pending", tries |-> t,
                                    next |-> nextAttemptAt(t, 0), why |-> "outage"]
    /\ credential = "kept" /\ evidence = [code |-> NoCode, at |-> 0] /\ wire = {}
    /\ terminal = "active" /\ tick = 0 /\ refusals = {} /\ clearedOn = {}

Request(op) == [op |-> op, step |-> "sent", again |-> FALSE, answer |-> Reply(200, NoCode),
                why |-> "new"]
Instead(m, n) == wire' = (wire \ {m}) \cup {n}
Answered(m, answer, why) == [m EXCEPT !.step = "answered", !.answer = answer, !.why = why]

\* A call is made; the sale is sent when its wait is over, whenever that is.
SendCall(op) ==
    /\ Cardinality(wire) < MaxOnWire /\ ~\E m \in wire : m.op = op
    /\ credential = "kept"
    /\ wire' = wire \cup {Request(op)}
    /\ op = "sale" => sale.state = "pending" /\ sale.tries + 1 \in Attempts
    /\ sale' = IF op = "sale"
               THEN [sale EXCEPT !.state = "sending", !.tries = @ + 1] ELSE sale
    /\ UNCHANGED <<credential, evidence, terminal, tick, refusals, clearedOn>>

\* The handler refuses the device, throws, or answers.
Handle(m) ==
    /\ m.step = "sent"
    /\ \/ /\ terminal # "active" /\ m.op # "call"
          /\ Instead(m, Answered(m, FriendlyError(DeviceRefusals[terminal]), "unenrolled"))
       \/ /\ terminal = "active" /\ m.op # "call"
          /\ Instead(m, Answered(m, Reply(200, NoCode), "accepted"))
       \/ /\ terminal = "active" /\ m.op = "sale"
          /\ \/ \E x \in SaleRefusals : Instead(m, Answered(m, FriendlyError(x), "refusal"))
             \/ \E x \in SaleOutages : Instead(m, Answered(m, FriendlyError(x), "outage"))
             \/ \E x \in SaleFaults : Instead(m, Answered(m, FriendlyError(x), "fault"))
       \/ /\ m.op = "call"
          /\ \E x \in CallRefusals :
                \/ Instead(m, Answered(m, FriendlyError(x), "refusal"))
                \/ Instead(m, Answered(m, AthrAnswer(x), "refusal"))
    /\ UNCHANGED <<sale, credential, evidence, terminal, tick, refusals, clearedOn>>

\* A proxy answers for a server that is down (502 stands for 503 and 504 too),
\* or the request times out.
Interrupt(m) ==
    /\ m.step \in {"sent", "answered"}
    /\ \/ Instead(m, Answered(m, NetworkError, "outage"))
       \/ /\ m.step = "sent"
          /\ \E s \in {408, 502} :
                Instead(m, Answered(m, Reply(s, NoCode), "outage"))
    /\ UNCHANGED <<sale, credential, evidence, terminal, tick, refusals, clearedOn>>

\* authenticatedFetch: a 401 is met with a refresh of the session, once.
Refresh(m) ==
    /\ m.step = "answered" /\ m.answer.status = 401 /\ ~m.again
    /\ \/ Instead(m, [m EXCEPT !.step = "sent", !.again = TRUE])
       \/ Instead(m, [m EXCEPT !.again = TRUE])
       \/ Instead(m, Answered(m, NetworkError, "outage"))
    /\ UNCHANGED <<sale, credential, evidence, terminal, tick, refusals, clearedOn>>

Settled(m) ==
    LET err == Parsed(m.answer)
        decision == classifySyncError(err)
    IN  IF m.answer.status = 200 THEN [sale EXCEPT !.state = "sent", !.next = 0, !.why = m.why]
        ELSE IF decision.retry
        THEN [sale EXCEPT !.state = "pending", !.why = m.why,
                          !.next = nextAttemptAt(sale.tries, RetryAfter(err.code))]
        ELSE [sale EXCEPT !.state = "quarantined", !.next = 0, !.why = m.why]

\* resetTerminalFailure, after an answer that was not a failure.
resetTerminalFailure(m) ==
    evidence' = IF m.op = "heartbeat" THEN [code |-> NoCode, at |-> 0] ELSE evidence

clearDevice == credential' = "cleared" /\ evidence' = [code |-> NoCode, at |-> 0]

\* terminalCredentialDisposition: only a heartbeat confirms what is not a revocation.
Confirms(m, code) == code \in TERMINAL_CODES \ {"TERMINAL_REVOKED"} /\ m.op = "heartbeat"
FirstSeen(code) == evidence.code # code \/ tick > evidence.at + ConfirmWindow

\* registerTerminalFailure: revoked at once, otherwise on a confirmed heartbeat,
\* and only while the browser believes it is online.
registerTerminalFailure(m, code, online) ==
    IF /\ online
       /\ \/ code = "TERMINAL_REVOKED"
          \/ Confirms(m, code) /\ ~FirstSeen(code) /\ tick >= evidence.at + ConfirmDelay
    THEN clearDevice
    ELSE /\ evidence' = IF online /\ Confirms(m, code) /\ FirstSeen(code)
                        THEN [code |-> code, at |-> tick] ELSE evidence
         /\ UNCHANGED credential

\* request, in api.ts, with the answer the main process made of it.
Receive(m) ==
    /\ m.step = "answered" /\ (m.answer.status = 401 => m.again)
    /\ wire' = wire \ {m}
    /\ sale' = IF m.op = "sale" THEN Settled(m) ELSE sale
    /\ \/ /\ m.answer.status = 200
          /\ resetTerminalFailure(m) /\ UNCHANGED credential
          /\ refusals' = IF m.op = "heartbeat" THEN {} ELSE refusals
       \/ /\ m.answer.status # 200
          /\ \E online \in BOOLEAN :
                registerTerminalFailure(m, Parsed(m.answer).code, online)
          /\ refusals' = IF m.op = "heartbeat" /\ m.why = "unenrolled"
                         THEN refusals \cup {<<m.answer.code, tick>>} ELSE refusals
    /\ clearedOn' = IF credential = "kept" /\ credential' = "cleared"
                    THEN refusals' ELSE clearedOn
    /\ UNCHANGED <<terminal, tick>>

\* Time passes and an administrator acts on the terminal,
\* which is of no more interest to a till without its credential.
Pass ==
    /\ credential = "kept"
    /\ tick < LastTick /\ tick' = tick + 1
    /\ UNCHANGED <<sale, credential, evidence, wire, terminal, refusals, clearedOn>>

Administer(to) ==
    /\ credential = "kept"
    /\ terminal # to /\ terminal' = to
    /\ UNCHANGED <<sale, credential, evidence, wire, tick, refusals, clearedOn>>

ErrNext ==
    \/ \E op \in {"sale", "heartbeat", "call"} : SendCall(op)
    \/ \E m \in wire : Handle(m) \/ Interrupt(m) \/ Refresh(m) \/ Receive(m)
    \/ Pass
    \/ \E to \in {"active", "gone", "rotated"} : Administer(to)

-----------------------------------------------------------------------------
(* The two filters state the same verdict on a failure the domain named, the  *)
(* registered one, whatever words its message uses; no code is registered     *)
(* twice with two verdicts.                                                   *)
FiltersAgree ==
    \A m \in ERROR_REGISTRY, w \in {NoCode, "revoked"} :
        /\ FriendlyError(Domain(m.code, w)) = AthrError(Domain(m.code, w))
        /\ FriendlyError(Domain(m.code, w)) = Reply(m.status, m.code)
        /\ m.outcome = "no_effect" /\ ~m.retryable =>
              ~classifySyncError(Parsed(Reply(m.status, m.code))).retry

(* A failure is met with what it deserves.  A sale is quarantined only on a   *)
(* decision of the server, never for an outage or a fault, and a decision is  *)
(* never tried again; a sale that waits is tried again within a quarter of an  *)
(* hour and a fifth of it, whatever the attempt and whatever the server asks   *)
(* for.  A till gives up its credential only when heartbeats were refused     *)
(* for one reason at two moments apart, with no accepted one in between.      *)
(* The filters hold no state: that they agree is looked at in an idle state.  *)
FailureVerdict ==
    /\ tick = LastTick /\ wire = {} /\ sale.tries = 0 => FiltersAgree
    /\ sale.state = "quarantined" => sale.why \in {"refusal", "unenrolled"}
    /\ sale.state = "pending" /\ sale.tries > 0 =>
          sale.why \in {"outage", "fault"} /\ 1000 <= sale.next /\ 5 * sale.next < 6 * LongestDelayMs
    /\ credential = "cleared" =>
          \E r, s \in clearedOn :
              /\ r[1] = s[1]
              /\ s[2] \in r[2] + ConfirmDelay .. r[2] + ConfirmWindow
=============================================================================
