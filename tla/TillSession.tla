----------------------------- MODULE TillSession -----------------------------
(***************************************************************************)
(* Who the till works for.  The main process keeps the terminal, the cashier's *)
(* tokens, the accounting context and the offline password in an encrypted     *)
(* file; api.ts keeps a copy of the first three for the renderer, and App.tsx  *)
(* another for the screens.  Requests carry the token they found when they     *)
(* were sent and are answered after other things have happened.                *)
(***************************************************************************)
EXTENDS Naturals, FiniteSets

CONSTANTS
    Cashiers, Tills,  \* cashiers and terminals of one branch
    Shifts,           \* shifts the branch may open, used in any order
    Nobody,           \* no cashier, terminal, shift or context
    MaxCalls,         \* bound: requests in flight
    MaxBadWrites      \* bound: failed writes of the encrypted file

\* Nobody is no name, and no context either.
ASSUME SessionAssumption ==
    /\ Nobody \notin Cashiers \cup Tills \cup Shifts
    /\ Nobody \notin [user : Cashiers, till : Tills, shift : Shifts]

VARIABLES
    store,      \* secure-state.bin: device, auth, accounting, verifier
    mem,        \* api.ts: device, session, accounting
    ui,         \* App.tsx: device, session, shift, accounting, checking, closing
    kept,       \* localStorage athr_current_shift
    shiftOpen,  \* the open shift of the branch, on the server
    inFlight,   \* requests: what, whose token, which shift, how far
    refreshing, \* refreshPromise: whose token is being exchanged
    badWrites

sesVars == <<store, mem, ui, kept, shiftOpen, inFlight, refreshing, badWrites>>

Context(c, t, s) == [user |-> c, till |-> t, shift |-> s]
Blank == [device |-> Nobody, session |-> Nobody, accounting |-> Nobody]
BlankUi == [device |-> Nobody, session |-> Nobody, shift |-> Nobody, accounting |-> Nobody,
            checking |-> FALSE, closing |-> FALSE]

\* offlineAccountingContextMatches: the context is for this cashier, terminal, shift.
Matches(context, session, device, shift) ==
    /\ context # Nobody /\ session # Nobody /\ device # Nobody
    /\ context = Context(session, device, shift)

\* api.offlineContextFor: the copy in api.ts, when it is the right one.
OfflineContextFor(m, shift) ==
    IF Matches(m.accounting, m.session, m.device, shift) THEN m.accounting ELSE Nobody

SesInit ==
    /\ store = [device |-> Nobody, auth |-> Nobody, accounting |-> Nobody, verifier |-> Nobody]
    /\ mem = Blank /\ ui = BlankUi /\ kept = Nobody /\ shiftOpen = Nobody
    /\ inFlight = {} /\ refreshing = Nobody /\ badWrites = 0

Call(op, shift) == [op |-> op, who |-> store.auth, till |-> store.device, shift |-> shift,
                    step |-> "sent", retried |-> FALSE]
CanSend == Cardinality(inFlight) < MaxCalls

\* clearSessionState and clearDeviceState in the main process.
SessionCleared(st) ==
    [st EXCEPT !.auth = Nobody, !.accounting = Nobody, !.verifier = Nobody]
DeviceCleared(st) == [SessionCleared(st) EXCEPT !.device = Nobody]

SignedOut(u) == [u EXCEPT !.session = Nobody, !.shift = Nobody, !.accounting = Nobody]

-----------------------------------------------------------------------------
\* The application starts: bootstrap is given the terminal and nothing else, so a
\* cashier has to sign in; what was in flight is gone.
StartApp ==
    /\ mem' = [Blank EXCEPT !.device = store.device]
    /\ ui' = [BlankUi EXCEPT !.device = store.device]
    /\ inFlight' = {} /\ refreshing' = Nobody
    /\ UNCHANGED <<store, kept, shiftOpen, badWrites>>

\* api:enroll: another terminal's session does not survive.
Enrolled(st, t) ==
    IF st.device = t THEN [st EXCEPT !.device = t]
    ELSE [SessionCleared(st) EXCEPT !.device = t]

Enroll(t) ==
    /\ ui.device = Nobody
    /\ store' = Enrolled(store, t)
    /\ mem' = [mem EXCEPT !.device = t, !.accounting = Nobody]
    /\ ui' = [SignedOut(ui) EXCEPT !.device = t]
    /\ UNCHANGED <<kept, shiftOpen, inFlight, refreshing, badWrites>>

\* onLogin: the screen has the session and asks for the shift.
SignedIn(c) == [ui EXCEPT !.session = c, !.accounting = Nobody, !.checking = TRUE]

\* api:login, answered by the server; the three copies follow one another at once.
Login(c) ==
    /\ ui.device # Nobody /\ ui.session = Nobody /\ CanSend
    /\ store.device # Nobody
    /\ store' = [store EXCEPT !.auth = c, !.verifier = c, !.accounting = Nobody]
    /\ mem' = [mem EXCEPT !.session = c, !.accounting = Nobody]
    /\ ui' = SignedIn(c)
    /\ inFlight' = inFlight \cup {[Call("current", Nobody) EXCEPT !.who = c]}
    /\ UNCHANGED <<kept, shiftOpen, refreshing, badWrites>>

\* offlineCashierLogin: the password of the last login opens the stored session.
OfflineLogin(c) ==
    /\ ui.device # Nobody /\ ui.session = Nobody /\ CanSend
    /\ store.verifier = c /\ store.accounting # Nobody
    /\ Matches(store.accounting, store.auth, store.device, store.accounting.shift)
    /\ mem' = [mem EXCEPT !.session = store.auth, !.accounting = store.accounting]
    /\ ui' = SignedIn(store.auth)
    /\ inFlight' = inFlight \cup {Call("current", Nobody)}
    /\ UNCHANGED <<store, kept, shiftOpen, refreshing, badWrites>>

\* api:logout clears the file once the server answered or could not be reached.
Logout ==
    /\ ui.session # Nobody /\ ~ui.checking
    /\ store' = SessionCleared(store)
    /\ mem' = [mem EXCEPT !.session = Nobody, !.accounting = Nobody]
    /\ ui' = [SignedOut(ui) EXCEPT !.closing = FALSE]
    /\ UNCHANGED <<kept, shiftOpen, inFlight, refreshing, badWrites>>

\* clearSession of api.ts, after a request that was not authorised.
Expired ==
    /\ store' = SessionCleared(store)
    /\ mem' = [mem EXCEPT !.session = Nobody, !.accounting = Nobody]
    /\ ui' = SignedOut(ui)

\* clearDevice of api.ts, after the server disowned the terminal; the file may
\* fail to be written, which is swallowed.
TerminalInvalid ==
    /\ mem.device # Nobody
    /\ \/ store' = DeviceCleared(store) /\ UNCHANGED badWrites
       \/ badWrites < MaxBadWrites /\ badWrites' = badWrites + 1 /\ UNCHANGED store
    /\ mem' = Blank
    /\ ui' = [SignedOut(ui) EXCEPT !.device = Nobody]
    /\ UNCHANGED <<kept, shiftOpen, inFlight, refreshing>>

-----------------------------------------------------------------------------
\* clearShiftState: the screen, api.ts and the file forget the shift's context.
ShiftForgotten(u) ==
    /\ kept' = Nobody
    /\ ui' = [u EXCEPT !.shift = Nobody, !.accounting = Nobody, !.checking = FALSE]
    /\ mem' = [mem EXCEPT !.accounting = Nobody]
    /\ store' = [store EXCEPT !.accounting = Nobody]

\* installAccountingContext: the context api.ts has, or a new one is asked for;
\* without a session there is none.
Install(s, others) ==
    /\ kept' = s
    /\ IF OfflineContextFor(mem, s) # Nobody \/ mem.session = Nobody \/ mem.device = Nobody
       THEN /\ ui' = [ui EXCEPT !.shift = s, !.accounting = OfflineContextFor(mem, s),
                                !.checking = FALSE, !.closing = FALSE]
            /\ inFlight' = others
       ELSE /\ ui' = [ui EXCEPT !.shift = s, !.closing = FALSE]
            /\ inFlight' = others \cup {Call("issue", s)}

\* resolveShift has the server's answer: the branch's open shift, or none.
CurrentAnswered(r) ==
    /\ r.op = "current" /\ r.step = "sent"
    /\ \/ /\ shiftOpen # Nobody
          /\ Install(shiftOpen, inFlight \ {r})
          /\ UNCHANGED <<store, mem>>
       \/ /\ shiftOpen = Nobody
          /\ ShiftForgotten(ui)
          /\ inFlight' = inFlight \ {r}
    /\ UNCHANGED <<shiftOpen, refreshing, badWrites>>

\* The network fails resolveShift: the shift kept in localStorage is shown.
CurrentUnreachable(r) ==
    /\ r.op = "current" /\ r.step \in {"sent", "failed"}
    /\ inFlight' = inFlight \ {r}
    /\ \/ /\ kept # Nobody
          /\ ui' = [ui EXCEPT !.shift = kept, !.accounting = OfflineContextFor(mem, kept),
                              !.checking = FALSE]
          /\ UNCHANGED <<store, mem, kept>>
       \/ kept = Nobody /\ ShiftForgotten(ui)
    /\ UNCHANGED <<shiftOpen, refreshing, badWrites>>

\* OpenShiftScreen: the server returns the open shift or opens a new one.
OpenShift(s) ==
    /\ ui.session # Nobody /\ ui.device # Nobody /\ ui.shift = Nobody /\ ~ui.checking
    /\ shiftOpen \in {Nobody, s} /\ CanSend
    /\ shiftOpen' = s
    /\ Install(s, inFlight)
    /\ UNCHANGED <<store, mem, refreshing, badWrites>>

\* CloseShiftScreen, then the cashier is signed out.
CloseShift ==
    /\ ui.session # Nobody /\ ui.shift # Nobody /\ ~ui.checking
    /\ shiftOpen = ui.shift
    /\ shiftOpen' = Nobody
    /\ ShiftForgotten([ui EXCEPT !.closing = TRUE])
    /\ UNCHANGED <<inFlight, refreshing, badWrites>>

\* The branch's shift changes at another till or in the back office.
OtherShift(s) ==
    /\ shiftOpen # s
    /\ (shiftOpen = Nobody) # (s = Nobody)
    /\ shiftOpen' = s
    /\ UNCHANGED <<store, mem, ui, kept, inFlight, refreshing, badWrites>>

\* The five-minute timer: ensureOfflineAccountingContext for the shift on screen.
RefreshTimer ==
    /\ ui.session # Nobody /\ ui.shift # Nobody /\ ui.device # Nobody
    /\ IF OfflineContextFor(mem, ui.shift) # Nobody
       THEN /\ ui' = [ui EXCEPT !.accounting = mem.accounting]
            /\ UNCHANGED inFlight
       ELSE /\ CanSend /\ mem.session # Nobody /\ mem.device # Nobody
            /\ inFlight' = inFlight \cup {Call("issue", ui.shift)}
            /\ UNCHANGED ui
    /\ UNCHANGED <<store, mem, kept, shiftOpen, refreshing, badWrites>>

\* A mutant: the main process stores the context without comparing it.
StorableUnchecked(c) == store.auth # Nobody /\ store.device # Nobody

\* api:issue_accounting compares the answer with the file as it is by then.
Storable(c) == Matches(c, store.auth, store.device, c.shift)

\* api:issue_accounting is answered, and then api.ts compares it with its own copy;
\* what does not match leaves the context the screen can still use.
IssueAnswered(r) ==
    /\ r.op = "issue" /\ r.step = "sent"
    /\ r.who # Nobody /\ r.till # Nobody
    /\ inFlight' = inFlight \ {r}
    /\ LET c == Context(r.who, r.till, r.shift)
           stored == shiftOpen = r.shift /\ Storable(c)
           taken == stored /\ Matches(c, mem.session, mem.device, r.shift)
       IN /\ store' = IF stored THEN [store EXCEPT !.accounting = c] ELSE store
          /\ mem' = IF taken THEN [mem EXCEPT !.accounting = c] ELSE mem
          /\ ui' = [ui EXCEPT !.accounting = IF taken THEN c ELSE OfflineContextFor(mem, r.shift),
                              !.checking = FALSE]
    /\ UNCHANGED <<kept, shiftOpen, refreshing, badWrites>>

\* The answer did not come.
IssueUnreachable(r) ==
    /\ r.op = "issue" /\ r.step \in {"sent", "failed"}
    /\ inFlight' = inFlight \ {r}
    /\ ui' = [ui EXCEPT !.accounting = OfflineContextFor(mem, r.shift), !.checking = FALSE]
    /\ UNCHANGED <<store, mem, kept, shiftOpen, refreshing, badWrites>>

-----------------------------------------------------------------------------
\* authenticatedFetch got a 401 and waits for refreshSession, which starts unless
\* it is running.
Unauthorised(r) ==
    /\ r.step = "sent" /\ ~r.retried /\ store.auth # Nobody
    /\ inFlight' = (inFlight \ {r}) \cup {[r EXCEPT !.step = "waiting"]}
    /\ refreshing' = IF refreshing = Nobody THEN store.auth ELSE refreshing
    /\ UNCHANGED <<store, mem, ui, kept, shiftOpen, badWrites>>

\* The new tokens are those of the cashier who asked: they are saved over whatever
\* session the file holds by now, and who waited sends again with what is saved.
Refreshed ==
    /\ refreshing # Nobody
    /\ store' = [store EXCEPT !.auth = refreshing]
    /\ inFlight' = {IF r.step = "waiting"
                    THEN [r EXCEPT !.step = "sent", !.who = refreshing, !.till = store.device,
                                   !.retried = TRUE]
                    ELSE r : r \in inFlight}
    /\ refreshing' = Nobody
    /\ UNCHANGED <<mem, ui, kept, shiftOpen, badWrites>>

\* The refresh could not reach the server: who waited fails as if offline.
RefreshUnreachable ==
    /\ refreshing # Nobody
    /\ refreshing' = Nobody
    /\ inFlight' = {IF r.step = "waiting" THEN [r EXCEPT !.step = "failed"] ELSE r : r \in inFlight}
    /\ UNCHANGED <<store, mem, ui, kept, shiftOpen, badWrites>>

\* A 401 that stays: the request for the shift goes through request() of api.ts,
\* which clears the session, and resolveShift forgets the shift.  The request for
\* a context does not, and only fails.
Denied(rs) ==
    /\ inFlight' = (inFlight \ rs) \cup {[r EXCEPT !.step = "failed"] :
                                           r \in {x \in rs : x.op = "issue"}}
    /\ IF \E r \in rs : r.op = "current"
       THEN /\ store' = SessionCleared(store)
            /\ mem' = [mem EXCEPT !.session = Nobody, !.accounting = Nobody]
            /\ kept' = Nobody
            /\ ui' = [SignedOut(ui) EXCEPT !.checking = FALSE]
       ELSE UNCHANGED <<store, mem, kept, ui>>

RefreshRejected ==
    /\ refreshing # Nobody
    /\ refreshing' = Nobody
    /\ Denied({r \in inFlight : r.step = "waiting"})
    /\ UNCHANGED <<shiftOpen, badWrites>>

\* There is no token to refresh with, or the second attempt is refused too.
RequestDenied(r) ==
    /\ r.step = "sent" /\ (r.retried \/ store.auth = Nobody)
    /\ Denied({r})
    /\ UNCHANGED <<shiftOpen, refreshing, badWrites>>

\* A request of the sync loop that ends unauthorised.
SyncUnauthorised ==
    /\ ui.session # Nobody /\ ui.shift # Nobody
    /\ Expired
    /\ UNCHANGED <<kept, shiftOpen, inFlight, refreshing, badWrites>>

SesNext ==
    \/ StartApp \/ Logout \/ TerminalInvalid \/ CloseShift \/ RefreshTimer \/ Refreshed
    \/ RefreshUnreachable \/ RefreshRejected \/ SyncUnauthorised
    \/ \E t \in Tills : Enroll(t)
    \/ \E c \in Cashiers : Login(c) \/ OfflineLogin(c)
    \/ \E s \in Shifts \cup {Nobody} : OtherShift(s)
    \/ \E s \in Shifts : OpenShift(s)
    \/ \E r \in inFlight :
          \/ CurrentAnswered(r) \/ CurrentUnreachable(r)
          \/ IssueAnswered(r) \/ IssueUnreachable(r)
          \/ Unauthorised(r) \/ RequestDenied(r)

-----------------------------------------------------------------------------
\* A context never outlives the terminal and the session it was issued with: in
\* the file it names the enrolled terminal and there is a session, and on the
\* screen it names the cashier who is signed in at this terminal, whatever was in
\* flight when they changed (api:enroll, api:issue_accounting and
\* ensureOfflineAccountingContext compare after every await).
ContextOwned ==
    /\ store.accounting # Nobody =>
          store.auth # Nobody /\ store.device = store.accounting.till
    /\ ui.accounting # Nobody =>
          ui.session = ui.accounting.user /\ ui.device = ui.accounting.till
=============================================================================
