------------------------------ MODULE Sessions ------------------------------
(***************************************************************************)
(* Sign-in sessions: the refresh tokens of auth.service.ts, and the admin   *)
(* web server (server-session.ts and the routes of app/api) that keeps the  *)
(* tokens in a browser's cookies and renews them in the middle of a         *)
(* request.  Several tabs send requests at the same time with the cookies   *)
(* they had when they were sent; answers arrive in any order.               *)
(***************************************************************************)
EXTENDS Naturals, Sequences, FiniteSets

CONSTANTS
    Tabs,       \* requests of one browser that can be under way together
    MaxTokens   \* bound: refresh tokens issued

ASSUME SessionsAssumption == MaxTokens \in Nat

VARIABLES
    tokens,    \* RefreshToken rows: [login, parent, revoked, expired]
    accessOk,  \* tokens whose access token has not expired
    isActive,  \* User.is_active
    cookies,   \* the refresh token whose pair the browser holds; 0: none
    tabs,      \* what every request is doing
    raced,     \* history: logins that two requests were renewing, a request
               \* renewed while another signed in or out, or an answer was lost
    loggedOut  \* logins the user has signed out of

sesVars == <<tokens, accessOk, isActive, cookies, tabs, raced, loggedOut>>

IdleTab == [pc |-> "idle", held |-> 0, new |-> 0]
Live(n) == n # 0 /\ ~tokens[n].revoked
LoginOf(n) == tokens[n].login
Busy(t) == tabs[t].pc # "idle"

SesInit ==
    /\ tokens = <<>> /\ accessOk = {} /\ isActive = TRUE
    /\ cookies = 0 /\ raced = {} /\ loggedOut = {}
    /\ tabs = [t \in Tabs |-> IdleTab]

\* createSession: the row of a new refresh token; its pair has number Len + 1.
CreateSession(rows, login, parent) ==
    Append(rows, [login |-> login, parent |-> parent, revoked |-> FALSE, expired |-> FALSE])

\* writeSession and clearSessionCookies: both cookies change together, so the
\* pair is one value.
WriteCookies(pair) == cookies' = pair

\* A login by an active user with the right password; the route writes the
\* cookies.
Login ==
    /\ isActive /\ Len(tokens) < MaxTokens
    /\ tokens' = CreateSession(tokens, Len(tokens) + 1, 0)
    /\ accessOk' = accessOk \cup {Len(tokens) + 1}
    /\ WriteCookies(Len(tokens) + 1)
    /\ raced' = IF \E t \in Tabs : Busy(t) THEN raced \cup {Len(tokens) + 1} ELSE raced
    /\ UNCHANGED <<isActive, tabs, loggedOut>>

\* backendRequest: the cookies are read and the request is sent; an access
\* token that is still good is answered at once.
Send(t) ==
    /\ ~Busy(t) /\ cookies # 0
    /\ tabs' = [tabs EXCEPT ![t] =
            [pc |-> IF cookies \in accessOk /\ isActive THEN "ok" ELSE "refused",
             held |-> cookies, new |-> 0]]
    /\ UNCHANGED <<tokens, accessOk, isActive, cookies, raced, loggedOut>>

\* refresh(): the row and its user are read and judged ...
RefreshRead(t) ==
    /\ tabs[t].pc = "refused"
    /\ LET n == tabs[t].held IN
       /\ tabs' = [tabs EXCEPT ![t].pc =
              IF Live(n) /\ ~tokens[n].expired /\ isActive THEN "claim" ELSE "unauthorized"]
       /\ raced' = IF \E o \in Tabs \ {t} : Busy(o) /\ LoginOf(tabs[o].held) = LoginOf(n)
                   THEN raced \cup {LoginOf(n)} ELSE raced
    /\ UNCHANGED <<tokens, accessOk, isActive, cookies, loggedOut>>

\* A mutant: the update that revokes the token does not ask that it is unused.
ClaimTwice(t) ==
    /\ tabs[t].pc = "claim" /\ Len(tokens) < MaxTokens
    /\ LET n == tabs[t].held IN
       /\ tokens' = CreateSession([tokens EXCEPT ![n].revoked = TRUE], LoginOf(n), n)
       /\ accessOk' = accessOk \cup {Len(tokens) + 1}
       /\ tabs' = [tabs EXCEPT ![t].pc = "ok", ![t].new = Len(tokens) + 1]
    /\ UNCHANGED <<isActive, cookies, raced, loggedOut>>
\* ... then revoked if nobody has meanwhile, and its successor is created in
\* the same transaction.
RefreshClaim(t) ==
    /\ tabs[t].pc = "claim" /\ Len(tokens) < MaxTokens
    /\ LET n == tabs[t].held IN
       IF Live(n)
       THEN /\ tokens' = CreateSession([tokens EXCEPT ![n].revoked = TRUE], LoginOf(n), n)
            /\ accessOk' = accessOk \cup {Len(tokens) + 1}
            /\ tabs' = [tabs EXCEPT ![t].pc = "ok", ![t].new = Len(tokens) + 1]
       ELSE /\ tabs' = [tabs EXCEPT ![t].pc = "unauthorized"]
            /\ UNCHANGED <<tokens, accessOk>>
    /\ UNCHANGED <<isActive, cookies, raced, loggedOut>>

\* passBackendResponse: a renewed pair is written, a 401 clears both cookies.
\* The retried request itself may still be answered 401.
Answer(t) ==
    /\ tabs[t].pc \in {"ok", "unauthorized"}
    /\ WriteCookies(IF tabs[t].pc = "unauthorized" \/ (tabs[t].new # 0 /\ ~isActive) THEN 0
                    ELSE IF tabs[t].new # 0 THEN tabs[t].new
                    ELSE cookies)
    /\ tabs' = [tabs EXCEPT ![t] = IdleTab]
    /\ UNCHANGED <<tokens, accessOk, isActive, raced, loggedOut>>

\* The connection fails: the route answers 503 and leaves the cookies.
AnswerLost(t) ==
    /\ Busy(t)
    /\ tabs' = [tabs EXCEPT ![t] = IdleTab]
    /\ raced' = IF tabs[t].new # 0 THEN raced \cup {LoginOf(tabs[t].held)} ELSE raced
    /\ UNCHANGED <<tokens, accessOk, isActive, cookies, loggedOut>>

\* AuthService.logout
RevokeToken(n) == [tokens EXCEPT ![n].revoked = TRUE]

\* The logout route: the token of the cookie is revoked, the cookies cleared.
\* When the server cannot be reached the cookies are cleared all the same.
Logout(reached) ==
    /\ cookies # 0
    /\ tokens' = IF reached THEN RevokeToken(cookies) ELSE tokens
    /\ loggedOut' = loggedOut \cup {LoginOf(cookies)}
    /\ raced' = IF ~reached \/ \E t \in Tabs : Busy(t) THEN raced \cup {LoginOf(cookies)} ELSE raced
    /\ WriteCookies(0)
    /\ UNCHANGED <<accessOk, isActive, tabs>>

\* Time: an access token or a refresh token ends, an account is switched off.
AccessExpires(n) ==
    /\ n \in accessOk /\ accessOk' = accessOk \ {n}
    /\ UNCHANGED <<tokens, isActive, cookies, tabs, raced, loggedOut>>
RefreshExpires(n) ==
    /\ Live(n) /\ ~tokens[n].expired /\ tokens' = [tokens EXCEPT ![n].expired = TRUE]
    /\ UNCHANGED <<accessOk, isActive, cookies, tabs, raced, loggedOut>>
SwitchOff ==
    /\ isActive /\ isActive' = FALSE
    /\ UNCHANGED <<tokens, accessOk, cookies, tabs, raced, loggedOut>>

SesNext ==
    \/ Login \/ SwitchOff
    \/ \E r \in BOOLEAN : Logout(r)
    \/ \E t \in Tabs : \/ Send(t) \/ RefreshRead(t) \/ RefreshClaim(t)
                       \/ Answer(t) \/ AnswerLost(t)
    \/ \E n \in DOMAIN tokens : AccessExpires(n) \/ RefreshExpires(n)
-----------------------------------------------------------------------------
\* However many requests renew at once, a login has one usable refresh token
\* at a time: no token is exchanged twice.
OneTokenPerLogin ==
    \A m, n \in DOMAIN tokens : Live(m) /\ Live(n) /\ LoginOf(m) = LoginOf(n) => m = n

\* What the browser holds can be renewed, and a login that was signed out of
\* cannot, unless a second request of the same login was under way or an
\* answer was lost: then the loser's 401 clears the cookies of the winner, and
\* a renewal that crosses a sign-out survives it.
CookieKept ==
    /\ cookies # 0 /\ LoginOf(cookies) \notin raced =>
         \/ Live(cookies)
         \/ \E t \in Tabs : tabs[t].held = cookies /\ tabs[t].new # 0
    /\ \A n \in DOMAIN tokens : LoginOf(n) \in loggedOut \ raced => ~Live(n)

\* backendRequest and refresh together: one token a login, and the one the browser
\* holds.
SessionSafe == OneTokenPerLogin /\ CookieKept
=============================================================================
