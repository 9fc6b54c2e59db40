------------------------------ MODULE TillSync ------------------------------
(***************************************************************************)
(* One enrolled till, the sync engine that runs in its renderer, the       *)
(* network, and the server transaction that turns an uploaded command into *)
(* an invoice.                                                             *)
(*                                                                         *)
(*   pos-electron/electron/main.ts      the SQLite file and the IPC        *)
(*                                      handlers that change it            *)
(*   pos-electron/src/sync.ts           performSync, syncLoop, startSync   *)
(*   pos-electron/src/sync-policy.ts    classifySyncError                  *)
(*   pos-electron/electron/factory-reset-runtime.ts                        *)
(*   backend/src/sales/sales.service.ts createSale                         *)
(*                                                                         *)
(* Every step of the engine is the code between two awaits, so that the    *)
(* cashier, the network, the server, a crash and a factory reset may all   *)
(* act between any two of them.                                            *)
(***************************************************************************)
EXTENDS Integers, FiniteSets

LOCAL INSTANCE FiniteSetsExt

CONSTANTS
    Sales,          \* the sync_ids of the carts the cashier may check out
    Variants,       \* product variants
    Cart,           \* Cart[s][v]: quantity of v in sale s
    OpeningStock,   \* branch stock when the till made its first full sync
    MaxCrashes,     \* bound on process crashes
    MaxFaults,      \* bound on failed writes of the SQLite file
    MaxRefusals,    \* bound on heartbeats or pulls answered with a 4xx
    MaxResets,      \* bound on attempts to factory reset the till
    MaxOtherMoves   \* bound on stock movements of other tills and desks

ASSUME CartAssumption == Cart \in [Sales -> [Variants -> Nat]]
ASSUME StockAssumption == OpeningStock \in [Variants -> Nat]
ASSUME BoundAssumption ==
    /\ MaxCrashes \in Nat /\ MaxFaults \in Nat
    /\ MaxRefusals \in Nat /\ MaxResets \in Nat /\ MaxOtherMoves \in Nat

VARIABLES
    \* the SQLite file (survives a crash)
    box,            \* outbox.sync_status of each sale
    seq,            \* sales_local.terminal_sequence of each sale
    tried,          \* the sales with outbox.attempt_count > 0
    tseq,           \* sync_meta.terminal_sale_sequence
    lstock,         \* the cached branch stock
    syncing,        \* sync_meta.sync_status = 'syncing'
    \* the secure state file (survives a crash)
    ctx,            \* accounting.server_last_sale_sequence, or NoContext
    \* the processes of the till
    up, signedIn,
    reset,          \* progress of a factory reset
    kick,           \* a forced sync was asked for (onSaleSaved, "Sync now")
    timer,          \* startSync's timeout is armed
    running,        \* a run() of startSync awaits the active sync
    pc,             \* where performSync is
    forced,         \* performSync was called with force
    todo,           \* dueOutbox, less the items already handled
    cur,            \* the sale being uploaded: {} or a singleton
    err,            \* the error caught last
    snap,           \* stock in the pull response
    fin,            \* how performSync ends
    \* the wire
    net,            \* POST /pos/sale requests under way
    reply,          \* the answer to the request the till waits for
    \* PostgreSQL
    txs,            \* open createSale transactions
    inv,            \* SalesInvoice.terminal_sequence by sync_id, 0 = no invoice
    warned,         \* invoices stored with warning_codes
    last,           \* PosTerminal.last_sale_sequence
    revoked,        \* PosTerminal.is_revoked
    stock,          \* InventoryStock.qty_on_hand of the branch
    moved,          \* net movement recorded by everyone else
    \* budgets
    crashes, faults, refusals, resets, moves

diskVars   == <<box, seq, tried, tseq, lstock, syncing>>
tillVars   == <<ctx, up, signedIn, reset>>
engineVars == <<kick, timer, running, pc, forced, todo, cur, err, snap, fin>>
wireVars   == <<net, reply>>
serverVars == <<txs, inv, warned, last, revoked, stock, moved>>
budgetVars == <<crashes, faults, refusals, resets, moves>>
vars == <<diskVars, tillVars, engineVars, wireVars, serverVars, budgetVars>>

NoContext == -1
NoStock == [v \in Variants |-> 0]
Unsent  == {"pending", "sending", "quarantined"}
Sent    == {"sent", "sent_with_warning"}
Rows    == {"none", "erased"} \cup Unsent \cup Sent
Replies == {"none", "accepted", "warned", "refused", "conflict", "unavailable"}
Errors  == {"none", "network", "unavailable", "refused", "conflict", "unknown"}
Steps   == {"idle", "outbox", "upload", "await", "ack", "fail", "pull",
            "apply", "finish"}
Request == [sale : Sales, live : BOOLEAN]
Tx      == [sale : Sales, live : BOOLEAN, exists : BOOLEAN,
            owned : BOOLEAN, base : Nat]

Sold == {s \in Sales : box[s] # "none"}
Pending == {s \in Sales : box[s] = "pending"}
Larger(a, b) == IF a >= b THEN a ELSE b

-----------------------------------------------------------------------------
(* The till's database: every write goes through persistedMutation, which   *)
(* either replaces the whole file (write to a temporary file, rename) or    *)
(* restores the state before it. The handlers of sales and of the sync      *)
(* throw first (assertFactoryResetIdle) while a factory reset runs.         *)

MutationAllowed == reset = "idle"
MutationFails ==
    \/ ~MutationAllowed /\ UNCHANGED faults
    \/ MutationAllowed /\ faults < MaxFaults /\ faults' = faults + 1

\* classifySyncError: only an unreachable, overloaded or failing server is
\* retried; anything else, an unrecognised local error included, is blocked.
Retryable(e) == e \in {"network", "unavailable"}

\* nextTerminalSequence(meta, accounting.server_last_sale_sequence)
NextSequence == Larger(tseq, ctx) + 1

\* UPDATE stock SET qty=qty-? WHERE ... AND qty>=? touches a row per line
LocalStockCovers(s) == \A v \in Variants : lstock[v] >= Cart[s][v]

\* pos:sale: one transaction takes the stock, writes the receipt and the
\* outbox row and advances the sequence; then the renderer asks for a sync.
Sale(s) ==
    /\ up /\ signedIn /\ MutationAllowed
    /\ ctx # NoContext
    /\ box[s] = "none"
    /\ LocalStockCovers(s)
    /\ lstock' = [v \in Variants |-> lstock[v] - Cart[s][v]]
    /\ box' = [box EXCEPT ![s] = "pending"]
    /\ seq' = [seq EXCEPT ![s] = NextSequence]
    /\ tseq' = NextSequence
    /\ kick' = TRUE
    /\ UNCHANGED <<tried, syncing, tillVars, timer, running, pc, forced, todo,
                   cur, err, snap, fin, wireVars, serverVars, budgetVars>>

\* api:issue_accounting: the server reported its last_sale_sequence, possibly
\* before the latest uploads; the local sequence is aligned with it.
IssueAccounting ==
    /\ up /\ signedIn /\ ~revoked
    /\ \E n \in 0..last :
         /\ ctx' = n
         /\ tseq' = Larger(tseq, n)
    /\ UNCHANGED <<box, seq, tried, lstock, syncing, up, signedIn, reset,
                   engineVars, wireVars, serverVars, budgetVars>>

\* api:login and startSync, whose first run starts at once. An online login
\* discards the accounting context, an offline one keeps it.
Login ==
    /\ up /\ ~signedIn
    /\ signedIn' = TRUE
    /\ timer' = TRUE
    /\ ctx' \in {ctx, NoContext}
    /\ UNCHANGED <<diskVars, up, reset, kick, running, pc, forced, todo, cur,
                   err, snap, fin, wireVars, serverVars, budgetVars>>

\* api:logout, or the session being cleared after a 401: startSync is stopped,
\* a sync that is under way runs on.
Logout ==
    /\ up /\ signedIn
    /\ signedIn' = FALSE
    /\ timer' = FALSE /\ running' = FALSE /\ kick' = FALSE
    /\ ctx' = NoContext
    /\ UNCHANGED <<diskVars, up, reset, pc, forced, todo, cur, err, snap, fin,
                   wireVars, serverVars, budgetVars>>

-----------------------------------------------------------------------------
(* startSync and syncLoop                                                   *)

\* performSync's first write, sync_set_status('syncing').
Start(force) ==
    /\ forced' = force
    /\ \/ /\ MutationAllowed
          /\ syncing' = TRUE /\ pc' = "outbox"
          /\ UNCHANGED <<err, fin, faults>>
       \/ /\ MutationFails
          /\ pc' = "finish" /\ fin' = "caught" /\ err' = "unknown"
          /\ UNCHANGED syncing
    /\ UNCHANGED <<todo, cur, snap>>

\* The timeout fires: run() starts a sync, or joins the active one.
TimerFires ==
    /\ up /\ signedIn /\ timer
    /\ timer' = FALSE /\ running' = TRUE
    /\ IF pc = "idle" THEN Start(FALSE)
       ELSE UNCHANGED <<syncing, pc, forced, err, fin, faults, todo, cur, snap>>
    /\ UNCHANGED <<box, seq, tried, tseq, lstock, tillVars, kick, wireVars,
                   serverVars, crashes, refusals, resets, moves>>

\* syncNow: a forced sync, unless one is active already.
SyncNow ==
    /\ up /\ signedIn /\ kick
    /\ kick' = FALSE
    /\ IF pc = "idle" THEN Start(TRUE)
       ELSE UNCHANGED <<syncing, pc, forced, err, fin, faults, todo, cur, snap>>
    /\ UNCHANGED <<box, seq, tried, tseq, lstock, tillVars, timer, running,
                   wireVars, serverVars, crashes, refusals, resets, moves>>

\* The cashier presses "Sync now".
PressSync ==
    /\ up /\ signedIn /\ ~kick
    /\ kick' = TRUE
    /\ UNCHANGED <<diskVars, tillVars, timer, running, pc, forced, todo, cur,
                   err, snap, fin, wireVars, serverVars, budgetVars>>

\* The operating system reports that connectivity returned.
Online ==
    /\ up /\ signedIn /\ ~timer
    /\ timer' = TRUE
    /\ UNCHANGED <<diskVars, tillVars, kick, running, pc, forced, todo, cur,
                   err, snap, fin, wireVars, serverVars, budgetVars>>

-----------------------------------------------------------------------------
(* performSync: uploads                                                     *)

\* sync_get_outbox, then the filter on outboxItemDueAt: a row never tried is
\* due, a row that failed before may still be backing off.
GetOutbox ==
    /\ up /\ pc = "outbox"
    /\ \E due \in SUBSET Pending :
         /\ Pending \ tried \subseteq due
         /\ forced => due = Pending
         /\ todo' = due
         /\ IF Pending # {} /\ due = {}
              THEN pc' = "finish" /\ fin' = "waiting"
              ELSE pc' = "upload" /\ UNCHANGED fin
    /\ forced' = FALSE
    /\ UNCHANGED <<diskVars, tillVars, kick, timer, running, cur, err, snap,
                   wireVars, serverVars, budgetVars>>

\* The next item of the loop: the outbox is ordered by terminal_sequence.
NextItem(s) == s \in todo /\ \A r \in todo : seq[s] <= seq[r]

\* sync_mark_sending, then the POST. A row that is not pending, or a failed
\* write, throws; the catch block classifies that error too.
MarkSending(s) ==
    /\ up /\ pc = "upload" /\ NextItem(s)
    /\ cur' = {s}
    /\ \/ /\ MutationAllowed /\ box[s] = "pending"
          /\ box' = [box EXCEPT ![s] = "sending"]
          /\ tried' = tried \cup {s}
          /\ net' = net \cup {[sale |-> s, live |-> TRUE]}
          /\ pc' = "await"
          /\ UNCHANGED <<err, faults>>
       \/ /\ MutationFails \/ (box[s] # "pending" /\ UNCHANGED faults)
          /\ err' = "unknown" /\ pc' = "fail"
          /\ UNCHANGED <<box, tried, net>>
    /\ UNCHANGED <<seq, tseq, lstock, syncing, tillVars, kick, timer, running,
                   forced, todo, snap, fin, reply, serverVars, crashes,
                   refusals, resets, moves>>

\* client.sale settles with the server's answer. A body that breaks off after
\* the status line is an unknown error, whatever the server decided.
Receive ==
    /\ up /\ pc = "await" /\ reply # "none"
    /\ \/ /\ reply \in {"accepted", "warned"}
          /\ pc' = "ack" /\ UNCHANGED <<err, reply>>
       \/ /\ pc' = "fail" /\ reply' = "none"
          /\ err' = IF reply \in {"accepted", "warned"}
                      THEN "unknown" ELSE reply
    /\ UNCHANGED <<diskVars, tillVars, kick, timer, running, forced, todo, cur,
                   snap, fin, net, serverVars, budgetVars>>

Abandoned(rs) == {[r EXCEPT !.live = FALSE] : r \in rs}

\* fetchWithTimeout gives up after 15 s or the connection fails: the request
\* may still be on its way or being served.
TimeOut ==
    /\ up /\ pc = "await"
    /\ pc' = "fail" /\ err' = "network" /\ reply' = "none"
    /\ net' = Abandoned(net) /\ txs' = Abandoned(txs)
    /\ UNCHANGED <<diskVars, tillVars, kick, timer, running, forced, todo, cur,
                   snap, fin, inv, warned, last, revoked, stock, moved,
                   budgetVars>>

\* sync_mark_sent, then updateSecureAcknowledgedSequence (best effort).
MarkSent ==
    /\ up /\ pc = "ack"
    /\ \E s \in cur :
       \/ /\ MutationAllowed
          /\ box' = [box EXCEPT ![s] =
                       IF reply = "warned" THEN "sent_with_warning" ELSE "sent"]
          /\ ctx' \in {ctx, IF ctx = NoContext THEN ctx
                             ELSE Larger(ctx, seq[s])}
          /\ todo' = todo \ {s} /\ cur' = {} /\ pc' = "upload"
          /\ UNCHANGED <<err, faults>>
       \/ /\ MutationFails
          /\ err' = "unknown" /\ pc' = "fail"
          /\ UNCHANGED <<box, ctx, todo, cur>>
    /\ reply' = "none"
    /\ UNCHANGED <<seq, tried, tseq, lstock, syncing, up, signedIn, reset,
                   kick, timer, running, forced, snap, fin, net, serverVars,
                   crashes, refusals, resets, moves>>

\* sync_mark_failed, whose own failure is swallowed. A retryable error ends
\* the sync, any other one isolates the operation and the loop continues.
MarkFailed ==
    /\ up /\ pc = "fail"
    /\ \E s \in cur :
       /\ \/ /\ MutationAllowed
             /\ box' = [box EXCEPT ![s] =
                          IF Retryable(err) THEN "pending" ELSE "quarantined"]
             /\ UNCHANGED faults
          \/ MutationFails /\ UNCHANGED box
       /\ cur' = {}
       /\ IF Retryable(err)
            THEN pc' = "finish" /\ fin' = "failed" /\ todo' = {}
            ELSE pc' = "upload" /\ UNCHANGED fin /\ todo' = todo \ {s}
    /\ err' = "none"
    /\ UNCHANGED <<seq, tried, tseq, lstock, syncing, tillVars, kick, timer,
                   running, forced, snap, wireVars, serverVars, crashes,
                   refusals, resets, moves>>

-----------------------------------------------------------------------------
(* performSync: pull and end                                                *)

\* The loop is over; the outbox is read again and no stock is pulled while
\* some row is still pending.
Recheck ==
    /\ up /\ pc = "upload" /\ todo = {}
    /\ IF Pending # {} THEN pc' = "finish" /\ fin' = "pending"
       ELSE pc' = "pull" /\ UNCHANGED fin
    /\ UNCHANGED <<diskVars, tillVars, kick, timer, running, forced, todo, cur,
                   err, snap, wireVars, serverVars, budgetVars>>

\* compatibility, heartbeat and GET /sync/pull: the server reads its stock.
Pull ==
    /\ up /\ pc = "pull"
    /\ ~revoked
    /\ snap' = stock /\ pc' = "apply"
    /\ UNCHANGED <<diskVars, tillVars, kick, timer, running, forced, todo, cur,
                   err, fin, wireVars, serverVars, budgetVars>>

\* One of the three requests fails and performSync throws.
PullFails ==
    /\ up /\ pc = "pull"
    /\ pc' = "finish" /\ fin' = "caught"
    /\ \/ err' = "network" /\ UNCHANGED refusals
       \/ err' = "refused" /\ revoked /\ UNCHANGED refusals
       \/ err' = "refused" /\ refusals < MaxRefusals /\ refusals' = refusals + 1
    /\ UNCHANGED <<diskVars, tillVars, kick, timer, running, forced, todo, cur,
                   snap, wireVars, serverVars, crashes, faults, resets, moves>>

\* isValidCatalogStock of every entry the response holds.
ValidStock(vs) == \A v \in vs : snap[v] >= 0

\* sync:apply_pull. The response holds the variants that changed since the
\* cursor; one invalid entry makes the handler throw before any change.
ApplyPull ==
    /\ up /\ pc = "apply"
    /\ pc' = "finish" /\ snap' = NoStock
    /\ \E vs \in SUBSET Variants :
       \/ /\ MutationAllowed /\ ValidStock(vs)
          /\ lstock' = [v \in Variants |->
                          IF v \in vs THEN snap[v] ELSE lstock[v]]
          /\ fin' = "success"
          /\ UNCHANGED <<err, faults>>
       \/ /\ MutationFails \/ (~ValidStock(vs) /\ UNCHANGED faults)
          /\ fin' = "caught" /\ err' = "unknown"
          /\ UNCHANGED lstock
    /\ UNCHANGED <<box, seq, tried, tseq, syncing, tillVars, kick, timer,
                   running, forced, todo, cur, wireVars, serverVars, crashes,
                   refusals, resets, moves>>

\* the bug of rescheduling only what succeeded
RescheduleSuccessOnly == IF running THEN fin = "success" ELSE timer

\* startSync's schedule(state), called when a run() awaited this sync: a
\* blocked state without a next attempt leaves the timer off.
NextTimer ==
    IF running THEN ~(fin = "caught" /\ ~Retryable(err)) ELSE timer

\* The last sync_set_status, and the heartbeat that follows. A heartbeat that
\* fails after a successful sync is caught by syncLoop, which writes again.
Finish ==
    /\ up /\ pc = "finish" /\ MutationAllowed
    /\ syncing' = FALSE
    /\ \/ /\ pc' = "idle" /\ err' = "none"
          /\ timer' = NextTimer /\ running' = FALSE
          /\ fin' = "success" /\ UNCHANGED refusals
       \/ /\ fin = "success" /\ fin' = "caught"
          /\ \/ err' = "network" /\ UNCHANGED refusals
             \/ /\ err' = "refused"
                /\ refusals < MaxRefusals /\ refusals' = refusals + 1
          /\ UNCHANGED <<pc, timer, running>>
    /\ UNCHANGED <<box, seq, tried, tseq, lstock, tillVars, kick, forced, todo,
                   cur, snap, wireVars, serverVars, crashes, faults, resets,
                   moves>>

\* That write fails: syncLoop's catch writes the blocked state once more, and
\* when that fails too the sync rejects and run() never reaches schedule().
FinishFails ==
    /\ up /\ pc = "finish" /\ MutationFails
    /\ IF fin = "caught"
         THEN pc' = "idle" /\ running' = FALSE /\ err' = "none"
              /\ fin' = "success"
         ELSE fin' = "caught" /\ err' = "unknown" /\ UNCHANGED <<pc, running>>
    /\ UNCHANGED <<diskVars, tillVars, kick, timer, forced, todo, cur, snap,
                   wireVars, serverVars, crashes, refusals, resets, moves>>

-----------------------------------------------------------------------------
(* Crash, restart and factory reset                                         *)

VolatileLost ==
    /\ pc' = "idle" /\ todo' = {} /\ cur' = {} /\ err' = "none"
    /\ timer' = FALSE /\ running' = FALSE /\ kick' = FALSE
    /\ reply' = "none" /\ net' = Abandoned(net) /\ txs' = Abandoned(txs)
    /\ signedIn' = FALSE /\ up' = FALSE
    /\ forced' = FALSE /\ snap' = NoStock /\ fin' = "success"

Crash ==
    /\ up /\ crashes < MaxCrashes
    /\ crashes' = crashes + 1
    /\ reset' = "idle"
    /\ VolatileLost
    /\ UNCHANGED <<diskVars, ctx, inv, warned, last, revoked, stock, moved,
                   faults, refusals, resets, moves>>

\* highestStoredSaleSequence, read from sales_local
StoredSequences == {0} \cup {seq[s] : s \in Sold}
HighestStored(n) == n \in StoredSequences /\ \A m \in StoredSequences : m <= n

\* bugs of the recovery: requeueing all but 'sent', requeueing nothing
RequeueAllButSent(s) ==
    IF box[s] \in {"sending", "sent_with_warning"} THEN "pending" ELSE box[s]
RequeueNothing(s) == box[s]

RecoveredRow(s) == IF box[s] = "sending" THEN "pending" ELSE box[s]

\* initDb: an operation left in 'sending' is retried, the sequence is the
\* largest of the three records of it.
Restart ==
    /\ ~up /\ reset # "wiped"
    /\ up' = TRUE
    /\ box' = [s \in Sales |-> RecoveredRow(s)]
    /\ \E n \in StoredSequences :
         HighestStored(n) /\ tseq' = Larger(Larger(tseq, n), ctx)
    /\ UNCHANGED <<seq, tried, lstock, syncing, ctx, signedIn, reset,
                   engineVars, wireVars, serverVars, budgetVars>>

\* the bug of counting only the rows the next sync would offer
UnresolvedPending == Pending

\* currentFacts: rows whose sync_status is not 'sent'.
Unresolved == {s \in Sales : box[s] \notin {"none", "sent"}}

\* api:factory_reset: the policy check and resetInProgress in one step.
FactoryReset ==
    /\ up /\ signedIn /\ reset = "idle"
    /\ Unresolved = {} /\ ~syncing
    /\ reset' = "decommission"
    /\ resets < MaxResets /\ resets' = resets + 1
    /\ UNCHANGED <<diskVars, ctx, up, signedIn, engineVars, wireVars,
                   serverVars, crashes, faults, refusals, moves>>

\* POST /terminals/self-decommission succeeds, now or on an earlier try.
Decommission ==
    /\ up /\ reset = "decommission"
    /\ reset' = "revoked" /\ revoked' = TRUE
    /\ UNCHANGED <<diskVars, ctx, up, signedIn, engineVars, wireVars, txs, inv,
                   warned, last, stock, moved, budgetVars>>

\* The call fails, or the files cannot be renamed and are put back.
FactoryResetFails ==
    /\ up /\ reset \in {"decommission", "revoked"}
    /\ reset' = "idle"
    /\ UNCHANGED <<diskVars, ctx, up, signedIn, engineVars, wireVars,
                   serverVars, budgetVars>>

\* Both files are renamed away and removed, and the application exits.
Wipe ==
    /\ up /\ reset = "revoked"
    /\ reset' = "wiped"
    /\ box' = [s \in Sales |-> IF box[s] = "none" THEN "none" ELSE "erased"]
    /\ ctx' = NoContext
    /\ VolatileLost
    /\ UNCHANGED <<seq, tried, tseq, lstock, syncing, inv, warned, last,
                   revoked, stock, moved, budgetVars>>

-----------------------------------------------------------------------------
(* The server                                                               *)

Answer(r, a) == reply' = IF r.live THEN a ELSE reply

\* the bug of reading the terminal row without locking it
TerminalNotLocked == TRUE

\* SELECT ... FOR UPDATE on the PosTerminal row waits for the transaction that
\* holds it.
TerminalUnlocked == txs = {}

\* createSale up to its decision: with the terminal row locked it looks for an
\* invoice with this sync_id, and for one with this terminal_sequence.
Begin(r) ==
    /\ r \in net /\ ~revoked
    /\ TerminalUnlocked
    /\ net' = net \ {r}
    /\ txs' = txs \cup {[sale |-> r.sale, live |-> r.live,
                         exists |-> inv[r.sale] # 0,
                         owned |-> \E s \in Sales : inv[s] = seq[r.sale],
                         base |-> last]}
    /\ UNCHANGED <<diskVars, tillVars, engineVars, reply, inv, warned, last,
                   revoked, stock, moved, budgetVars>>

\* The unique indexes on sync_id and on (terminal_id, terminal_sequence).
UniqueViolation(s) == inv[s] # 0 \/ \E r \in Sales : inv[r] = seq[s]

\* the bug of storing the line's quantity instead of subtracting it
StockOverwritten(s) == [v \in Variants |-> -Cart[s][v]]

\* inventoryStock.upsert with a decrement, for every line
StockAfter(s) == [v \in Variants |-> stock[v] - Cart[s][v]]

\* SEQUENCE_GAP, OUT_OF_ORDER_SEQUENCE or NEGATIVE_STOCK. The other warnings
\* (a late shift, an unknown cashier, seller or customer, a total that differs)
\* depend on data outside this module and may join any sale.
Warns(t) ==
    \/ seq[t.sale] # t.base + 1
    \/ \E v \in Variants : Cart[t.sale][v] > 0 /\ StockAfter(t.sale)[v] < 0

\* The rest of createSale and its commit: a replay returns the stored invoice;
\* otherwise stock, invoice, movements and last_sale_sequence in one commit.
Commit(t) ==
    /\ t \in txs
    /\ txs' = txs \ {t}
    /\ \/ /\ t.exists
          /\ Answer(t, IF t.sale \in warned THEN "warned" ELSE "accepted")
          /\ UNCHANGED <<inv, warned, last, stock>>
       \/ /\ ~t.exists /\ (t.owned \/ UniqueViolation(t.sale))
          /\ Answer(t, "conflict")
          /\ UNCHANGED <<inv, warned, last, stock>>
       \/ /\ ~t.exists /\ ~t.owned /\ ~UniqueViolation(t.sale)
          /\ inv' = [inv EXCEPT ![t.sale] = seq[t.sale]]
          /\ stock' = StockAfter(t.sale)
          /\ last' = Larger(last, seq[t.sale])
          /\ \E w \in {Warns(t), TRUE} :
               /\ warned' = IF w THEN warned \cup {t.sale} ELSE warned
               /\ Answer(t, IF w THEN "warned" ELSE "accepted")
    /\ UNCHANGED <<diskVars, tillVars, engineVars, net, revoked, moved,
                   budgetVars>>

\* The transaction expires, deadlocks or loses its connection: rolled back.
Rollback(t) ==
    /\ t \in txs
    /\ txs' = txs \ {t}
    /\ Answer(t, "unavailable")
    /\ UNCHANGED <<diskVars, tillVars, engineVars, net, inv, warned, last,
                   revoked, stock, moved, budgetVars>>

\* A guard or a validation answers 4xx: protocol, device credential, branch,
\* DTO, variant, total.
Refuse(r) ==
    /\ r \in net
    /\ net' = net \ {r}
    /\ Answer(r, "refused")
    /\ UNCHANGED <<diskVars, tillVars, engineVars, serverVars, budgetVars>>

\* 429, 502 or 503 before createSale is reached.
Overloaded(r) ==
    /\ r \in net
    /\ net' = net \ {r}
    /\ Answer(r, "unavailable")
    /\ UNCHANGED <<diskVars, tillVars, engineVars, serverVars, budgetVars>>

\* The request never arrives.
Lose(r) ==
    /\ r \in net
    /\ net' = net \ {r}
    /\ UNCHANGED <<diskVars, tillVars, engineVars, reply, serverVars,
                   budgetVars>>

\* Another till's sale, a receipt, a return, a transfer.
OtherMove(v, d) ==
    /\ moves < MaxOtherMoves
    /\ moves' = moves + 1
    /\ stock' = [stock EXCEPT ![v] = @ + d]
    /\ moved' = [moved EXCEPT ![v] = @ + d]
    /\ UNCHANGED <<diskVars, tillVars, engineVars, wireVars, txs, inv, warned,
                   last, revoked, crashes, faults, refusals, resets>>

-----------------------------------------------------------------------------
Init ==
    /\ box = [s \in Sales |-> "none"]
    /\ seq = [s \in Sales |-> 0]
    /\ tried = {} /\ tseq = 0
    /\ lstock = OpeningStock /\ syncing = FALSE
    /\ ctx = 0 /\ up = TRUE /\ signedIn = TRUE /\ reset = "idle"
    /\ kick = FALSE /\ timer = TRUE /\ running = FALSE
    /\ pc = "idle" /\ forced = FALSE /\ todo = {} /\ cur = {} /\ err = "none"
    /\ snap = NoStock /\ fin = "success"
    /\ net = {} /\ reply = "none" /\ txs = {}
    /\ inv = [s \in Sales |-> 0]
    /\ warned = {} /\ last = 0 /\ revoked = FALSE
    /\ stock = OpeningStock
    /\ moved = [v \in Variants |-> 0]
    /\ crashes = 0 /\ faults = 0 /\ refusals = 0 /\ resets = 0 /\ moves = 0

Cashier == (\E s \in Sales : Sale(s)) \/ IssueAccounting \/ Login \/ Logout
           \/ PressSync
Engine == \/ TimerFires \/ SyncNow \/ Online \/ GetOutbox
          \/ \E s \in Sales : MarkSending(s)
          \/ Receive \/ TimeOut \/ MarkSent \/ MarkFailed \/ Recheck
          \/ Pull \/ PullFails \/ ApplyPull \/ Finish \/ FinishFails
Machine == Crash \/ Restart \/ FactoryReset \/ Decommission
           \/ FactoryResetFails \/ Wipe
Server == \/ \E r \in net : Begin(r) \/ Refuse(r) \/ Overloaded(r) \/ Lose(r)
          \/ \E t \in txs : Commit(t) \/ Rollback(t)
          \/ \E v \in Variants, d \in {-1, 1} : OtherMove(v, d)

Next == Cashier \/ Engine \/ Machine \/ Server

Spec == Init /\ [][Next]_vars

\* A request is lost, refused for load, rolled back or not answered in time.
Outage ==
    \/ TimeOut
    \/ \E r \in net : Lose(r) \/ Overloaded(r)
    \/ \E t \in txs : Rollback(t)
    \/ PullFails

\* The event loops keep turning, the cashier signs in again after a crash, the
\* server serves what it received, a row's backoff ends (it is at most 15
\* minutes and a jitter), and the network comes back to stay.
Fairness ==
    /\ WF_vars(Login) /\ WF_vars(Restart)
    /\ SF_vars(TimerFires) /\ WF_vars(SyncNow)
    /\ WF_vars(GetOutbox) /\ SF_vars(GetOutbox /\ todo' = Pending)
    /\ WF_vars(\E s \in Sales : MarkSending(s))
    /\ WF_vars(Receive) /\ WF_vars(TimeOut)
    /\ WF_vars(MarkSent) /\ WF_vars(MarkFailed) /\ WF_vars(Recheck)
    /\ WF_vars(Pull) /\ WF_vars(ApplyPull) /\ WF_vars(Finish)
    /\ WF_vars(\E r \in net : Begin(r)) /\ WF_vars(\E t \in txs : Commit(t))
    /\ <>[][~Outage]_vars

FairSpec == Spec /\ Fairness
-----------------------------------------------------------------------------
(* Properties                                                               *)

FlagType ==
    /\ syncing \in BOOLEAN /\ up \in BOOLEAN /\ signedIn \in BOOLEAN
    /\ kick \in BOOLEAN /\ timer \in BOOLEAN /\ running \in BOOLEAN
    /\ forced \in BOOLEAN /\ revoked \in BOOLEAN
DiskType ==
    /\ box \in [Sales -> Rows] /\ seq \in [Sales -> Nat]
    /\ tried \subseteq Sales /\ tseq \in Nat
    /\ lstock \in [Variants -> Nat]
    /\ ctx \in Nat \cup {NoContext}
EngineType ==
    /\ reset \in {"idle", "decommission", "revoked", "wiped"}
    /\ pc \in Steps /\ todo \subseteq Sales /\ cur \subseteq Sales
    /\ err \in Errors /\ snap \in [Variants -> Int]
    /\ fin \in {"success", "waiting", "pending", "failed", "caught"}
WireType == net \subseteq Request /\ reply \in Replies /\ txs \subseteq Tx
ServerType ==
    /\ inv \in [Sales -> Nat] /\ warned \subseteq Sales /\ last \in Nat
    /\ stock \in [Variants -> Int] /\ moved \in [Variants -> Int]
BudgetType ==
    /\ crashes \in 0..MaxCrashes /\ faults \in 0..MaxFaults
    /\ refusals \in 0..MaxRefusals /\ resets \in 0..MaxResets
    /\ moves \in 0..MaxOtherMoves

\* Every variable has its type; the local stock is never oversold by pos:sale
\* nor made negative by a pull.
TypeOK ==
    FlagType /\ DiskType /\ EngineType /\ WireType /\ ServerType /\ BudgetType

\* A sale the cashier completed is never lost: until the server has an invoice
\* for it the till keeps an outbox row that is not 'sent', through timeouts,
\* crashes, failed writes and a factory reset.
NoSaleLost ==
    \A s \in Sold : inv[s] = 0 => box[s] \in Unsent

\* The server never answers one of the till's own commands with a conflict:
\* a retry that overlaps its first attempt is a replay, and no two sales of
\* the till carry the same terminal_sequence.
NoConflict == reply # "conflict"

\* A row is 'sending' only while the engine is working on it, or the process
\* is down and initDb will free it, unless a write of the file has failed:
\* sync_get_outbox would never offer such a row again.
NoOrphanedSending ==
    \A s \in Sales :
        box[s] = "sending" =>
            \/ ~up
            \/ s \in cur /\ pc \in {"await", "ack", "fail"}
            \/ faults > 0

\* A completed sale stays with the till until it is invoiced, in a row that
\* the engine will find again.
SaleKept == NoSaleLost /\ NoOrphanedSending

\* An answer of the server is final: a row marked sent never becomes pending,
\* sending or quarantined again, although sync_mark_failed tests no status.
SentIsFinal ==
    [][\A s \in Sales : box[s] \in Sent => box'[s] \in {box[s], "erased"}]_vars

\* A completed sale does not wait for ever: it is uploaded, or the server's
\* refusal puts it aside for a person to look at.
SaleEventuallyResolved ==
    \A s \in Sales : box[s] = "pending" ~> box[s] \notin {"pending", "sending"}

\* A pull never writes over stock that a sale still waiting for upload has
\* taken (sync.ts: no new stock is pulled before those sales are resolved).
PullKeepsReservations ==
    [][pc = "apply" /\ lstock' # lstock => Pending = {}]_vars

\* The till and the server together implement the abstract sale ledger.
Ledger == INSTANCE SaleLedger
            WITH sold <- Sold, booked <- {s \in Sales : inv[s] # 0}

ImplementsLedger == Ledger!Spec
-----------------------------------------------------------------------------
(* The inductive invariant behind the safety properties                     *)

\* What a row says of the server: it is final only for an invoiced sale.
RowsInv ==
    \A s \in Sales :
        /\ box[s] = "none" => inv[s] = 0
        /\ box[s] \in Sent \cup {"erased"} => inv[s] # 0
        /\ inv[s] \in {0, seq[s]}

\* The sequences of the completed sales are positive, distinct and recorded.
SequenceInv ==
    /\ \A s \in Sold : seq[s] >= 1 /\ seq[s] <= tseq
    /\ \A s, r \in Sold : seq[s] = seq[r] => s = r

\* The sale in hand is the only one whose row the engine may have changed.
EngineInv ==
    /\ ~up => pc = "idle" /\ todo = {}
    /\ \A s, r \in cur : s = r
    /\ cur \subseteq todo
    /\ cur # {} => pc \in {"await", "ack", "fail"}
    /\ \A s \in todo \ cur : box[s] = "pending"
    /\ \A s \in cur : box[s] \in {"pending", "sending"}
    /\ pc \in {"await", "ack"} => \A s \in cur : box[s] = "sending"

\* Only the answer to the request in hand reaches the till, and a favourable
\* one tells the truth.
WireInv ==
    /\ \A r \in net \cup txs :
         /\ r.sale \in Sold
         /\ r.live => pc = "await" /\ cur = {r.sale} /\ reply = "none"
    /\ \A r \in net, t \in txs : ~(r.live /\ t.live)
    /\ reply # "none" => pc \in {"await", "ack"}
    /\ reply \in {"accepted", "warned"} => \A s \in cur : inv[s] # 0
    /\ pc = "ack" => reply \in {"accepted", "warned"}

\* The terminal's row lock makes what createSale read still true at its commit.
TxInv ==
    /\ \A t, u \in txs : t = u
    /\ \A t \in txs : /\ t.exists <=> inv[t.sale] # 0
                      /\ t.owned => t.exists

\* A reset under way found every row sent, and nothing changes that.
ResetInv ==
    /\ reset \in {"decommission", "revoked"} => up /\ Unresolved = {}
    /\ reset = "wiped" => ~up

\* The till and the server agree on what has happened to every sale.
TillInv ==
    /\ TypeOK /\ RowsInv /\ SequenceInv /\ EngineInv /\ WireInv
    /\ TxInv /\ ResetInv /\ NoConflict
=============================================================================
