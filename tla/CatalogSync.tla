----------------------------- MODULE CatalogSync -----------------------------
(***************************************************************************)
(* How a till keeps its copy of the catalog: the SyncChange journal that    *)
(* PostgreSQL triggers write, GET /sync/pull (sync.service.ts) and the pull *)
(* loop of performSync (sync.ts) with sync:apply_pull (main.ts).            *)
(*                                                                         *)
(* A trigger draws the change's sequence when the row is written, but the   *)
(* change and the row become visible only when the transaction commits.     *)
(* The handler runs in no transaction: it reads the journal in one          *)
(* statement and each table in another, later one.  A value is named by     *)
(* the sequence of the change that wrote it; what a product is called and   *)
(* what it costs are left out, and a stock row that says less than zero     *)
(* carries the number negated.  Three facts about a variant are kept apart: *)
(*   "variant"    the ProductVariant row, Nothing when it is not active;    *)
(*   "pricing"    the price book entry (and product, and tax code) in force *)
(*                for it, Nothing when no price can be resolved;            *)
(*   "inventory"  the branch's InventoryStock row.                          *)
(***************************************************************************)
EXTENDS Integers, FiniteSets, FiniteSetsExt

CONSTANTS
    Variants,     \* the product variants
    Writers,      \* connections that change the catalog
    PageSize,     \* changes a pull takes at most (5 000)
    MaxPages,     \* MAX_SYNC_PULL_PAGES (100)
    MaxSequence,  \* bound: sequences drawn
    MaxFailures,  \* bound: pulls that fail, and crashes of the till
    MaxScheduled, \* bound: scheduled prices that come into force
    Nothing, Unread, NoCursor

Kinds == {"variant", "pricing", "inventory"}

ASSUME CatalogAssumption ==
    /\ PageSize \in Nat \ {0} /\ MaxPages \in Nat \ {0}
    /\ MaxSequence \in Nat /\ MaxFailures \in Nat /\ MaxScheduled \in Nat
    /\ Nothing \notin Int /\ Unread # Nothing /\ NoCursor \notin Nat

VARIABLES
    \* the server
    db,         \* [Kinds -> [Variants -> value]], as committed
    sequence,   \* the last sequence drawn
    tx,         \* the uncommitted changes of each writer
    journal,    \* SyncChange as committed
    \* the till's SQLite file
    cursor,     \* sync_meta.sync_cursor
    products,   \* the price list: Nothing, or what v's row was made from
    stock,      \* the branch stock
    validUntil, \* catalog_valid_until is set
    \* performSync, and the pull the server answers
    pc, at, pages, page, next, more, rows,
    blockedReason, \* why the engine stopped, with no next_sync_at
    \* history
    seen,       \* the journal as the pull's first statement saw it
    passedOver, \* changes the cursor went past before they were committed
    scheduled,  \* variants whose price changed without a change in the journal
    partial,    \* the last page applied said has_more
    failures, effects

server == <<db, sequence, tx, journal, scheduled, effects>>
disk   == <<cursor, products, stock, validUntil>>
engine == <<pc, at, pages, page, next, more, rows, blockedReason, seen>>
vars   == <<server, disk, engine, passedOver, partial, failures>>

Values == Int \cup {Nothing}
Quantities == Nat \cup {Nothing}  \* what isValidCatalogStock accepts, or no row
Change == [sequence : Nat, kind : Kinds, variant : Variants, value : Values]
Blank  == [k \in Kinds |-> Unread]

Init ==
    /\ db = [k \in Kinds |-> [v \in Variants |-> 0]]
    /\ sequence = 0 /\ journal = {}
    /\ tx = [w \in Writers |-> {}]
    /\ cursor = NoCursor /\ validUntil = FALSE
    /\ products = [v \in Variants |-> Nothing]
    /\ stock = [v \in Variants |-> Nothing]
    /\ pc = "idle" /\ at = NoCursor /\ pages = 0
    /\ page = {} /\ next = 0 /\ more = FALSE /\ rows = Blank /\ seen = {}
    /\ blockedReason = "none"
    /\ passedOver = {} /\ scheduled = {} /\ partial = FALSE
    /\ failures = 0 /\ effects = 0
-----------------------------------------------------------------------------
(* Transactions that change the catalog                                     *)

\* A row another transaction has written is locked until that one ends.
RowUnlocked(w, k, v) ==
    \A u \in Writers \ {w} : \A c \in tx[u] : ~(c.kind = k /\ c.variant = v)

\* What a row may say after a write: a row is removed or deactivated, but never
\* a stock row, which sales may drive below zero.
Written(k) == {sequence + 1, IF k = "inventory" THEN -(sequence + 1) ELSE Nothing}

\* An INSERT, UPDATE or DELETE and its trigger.
Write(w, k, v, value) ==
    /\ sequence < MaxSequence
    /\ RowUnlocked(w, k, v)
    /\ sequence' = sequence + 1
    /\ tx' = [tx EXCEPT ![w] = @ \cup
                {[sequence |-> sequence + 1, kind |-> k, variant |-> v, value |-> value]}]
    /\ UNCHANGED <<db, journal, scheduled, effects, disk, engine, passedOver,
                   partial, failures>>

\* The last change of w to this row, if it made one.
Latest(w, k, v) ==
    {c \in tx[w] : /\ c.kind = k /\ c.variant = v
                   /\ \A d \in tx[w] : d.kind = k /\ d.variant = v
                                         => d.sequence <= c.sequence}

Commit(w) ==
    /\ tx[w] # {}
    /\ db' = [k \in Kinds |-> [v \in Variants |->
                IF Latest(w, k, v) = {} THEN db[k][v]
                ELSE (CHOOSE c \in Latest(w, k, v) : TRUE).value]]
    /\ journal' = journal \cup tx[w]
    /\ tx' = [tx EXCEPT ![w] = {}]
    /\ UNCHANGED <<sequence, scheduled, effects, disk, engine, passedOver,
                   partial, failures>>

\* The sequences of a transaction that rolls back are never used again.
Rollback(w) ==
    /\ tx[w] # {}
    /\ tx' = [tx EXCEPT ![w] = {}]
    /\ UNCHANGED <<db, sequence, journal, scheduled, effects, disk, engine,
                   passedOver, partial, failures>>

\* loadActiveRules compares effective_from and effective_to with the clock: an
\* entry comes into force or expires without a write, so without a trigger.
PriceTakesEffect(v) ==
    /\ effects < MaxScheduled
    /\ db' = [db EXCEPT !["pricing"][v] = IF @ = Nothing THEN 0 ELSE Nothing]
    /\ scheduled' = scheduled \cup {v}
    /\ effects' = effects + 1
    /\ UNCHANGED <<sequence, tx, journal, disk, engine, passedOver, partial,
                   failures>>
-----------------------------------------------------------------------------
(* The pull: the engine's request and the handler's statements              *)

Start ==
    /\ pc = "idle"
    /\ at' = cursor /\ pages' = 0 /\ pc' = "pull"
    /\ UNCHANGED <<server, disk, page, next, more, rows, blockedReason, seen, passedOver,
                   partial, failures>>

Sequences(S) == {c.sequence : c \in S}

\* findMany({sequence > cursor}, orderBy sequence, take PageSize).
Ahead(from) == {c \in journal : c.sequence > from}
PageOf(from) ==
    {c \in Ahead(from) :
        Cardinality({d \in Ahead(from) : d.sequence < c.sequence}) < PageSize}

\* A mutant: the cursor of a snapshot returned for a page.
CursorAtEnd(p, from) == IF p = {} THEN from ELSE Max(Sequences(journal))

\* The sequence of the last change of the page; an empty one returns the cursor.
NextCursor(p, from) == IF p = {} THEN from ELSE Max(Sequences(p))

\* The aggregate _max over the journal, 0 when it is empty.
JournalEnd == IF journal = {} THEN 0 ELSE Max(Sequences(journal))

\* The first statement of the handler: the end of the journal for a snapshot,
\* the page for a delta.
ReadJournal ==
    /\ pc = "pull"
    /\ IF at = NoCursor
       THEN page' = {} /\ next' = JournalEnd /\ more' = FALSE
       ELSE /\ page' = PageOf(at)
            /\ next' = NextCursor(page', at)
            /\ more' = (Cardinality(page') = PageSize)
    /\ rows' = Blank /\ seen' = journal
    /\ pc' = "reading"
    /\ UNCHANGED <<server, disk, at, pages, blockedReason, passedOver, partial, failures>>

\* The statements of the Promise.all, in whatever order the pool runs them.
ReadRows(k) ==
    /\ pc = "reading" /\ rows[k] = Unread
    /\ at = NoCursor \/ page # {}
    /\ rows' = [rows EXCEPT ![k] = db[k]]
    /\ UNCHANGED <<server, disk, pc, at, pages, page, next, more, blockedReason, seen,
                   passedOver, partial, failures>>

ResetCatalog == at = NoCursor \/ \E c \in page : c.kind = "pricing"
Requested == {c.variant : c \in {d \in page : d.kind # "pricing"}}
Answered == (at # NoCursor /\ page = {}) \/ \A k \in Kinds : rows[k] # Unread

\* What the answer makes of v's product row.  A reset deletes every row first;
\* a delta deletes the requested variants that are no longer active, and says
\* nothing of one that is active but has no price.
ProductAfter(v) ==
    LET quoted == rows["pricing"][v] # Nothing
        active == rows["variant"][v] # Nothing
        row    == [variant |-> rows["variant"][v], pricing |-> rows["pricing"][v]]
    IN CASE ResetCatalog -> IF active /\ quoted THEN row ELSE Nothing
         [] ~ResetCatalog /\ v \in Requested ->
              IF ~active THEN Nothing ELSE IF quoted THEN row ELSE products[v]
         [] OTHER -> products[v]

\* A deleted variant's stock row is inserted again: the stock is not filtered
\* by what is active.
StockAfter(v) ==
    IF ResetCatalog \/ v \in Requested THEN rows["inventory"][v] ELSE stock[v]

CursorTransitionIsValid ==
    IF at = NoCursor THEN ~more ELSE IF more THEN next > at ELSE next >= at

\* isValidCatalogStock of every stock row of the answer.  The other checks of
\* sync:apply_pull cannot fail on rows the server stores: it prices no product
\* below zero, and a till that needs a whole catalog asks without a cursor.
StockIsValid ==
    \A v \in Variants : ResetCatalog \/ v \in Requested => rows["inventory"][v] \in Quantities

ValidAfter(hasMore) == ~hasMore

\* The answer arrives: cursorTransitionIsValid, sync:apply_pull in one SQLite
\* transaction, and the tests at the end of the loop.
ApplyPull ==
    /\ pc = "reading" /\ Answered
    /\ CursorTransitionIsValid /\ StockIsValid
    /\ products' = [v \in Variants |-> ProductAfter(v)]
    /\ stock' = [v \in Variants |-> StockAfter(v)]
    /\ cursor' = next
    /\ validUntil' = ValidAfter(more)
    /\ at' = next /\ pages' = pages + 1
    /\ IF more /\ pages' >= MaxPages
       THEN pc' = "blocked" /\ blockedReason' = "integrity"
       ELSE pc' = (IF more THEN "pull" ELSE "finish") /\ UNCHANGED blockedReason
    /\ passedOver' = passedOver \cup
          {c \in (journal \cup UNION {tx[w] : w \in Writers}) \ seen :
              c.sequence <= next}
    /\ partial' = more
    /\ page' = {} /\ next' = 0 /\ more' = FALSE /\ rows' = Blank /\ seen' = {}
    /\ UNCHANGED <<server, failures>>

\* The pull is given up and its answer dropped.
Drop == page' = {} /\ next' = 0 /\ more' = FALSE /\ rows' = Blank /\ seen' = {}
Stop(reason) ==
    /\ pc' = "blocked" /\ blockedReason' = reason
    /\ at' = NoCursor /\ pages' = 0 /\ Drop

\* The answer is refused before anything is written: SyncIntegrityError for the
\* cursor, an Error for the rows.  Neither is tried again.
RefusePull ==
    /\ pc = "reading" /\ Answered
    /\ ~(CursorTransitionIsValid /\ StockIsValid)
    /\ Stop(IF CursorTransitionIsValid THEN "unknown" ELSE "integrity")
    /\ UNCHANGED <<server, disk, passedOver, partial, failures>>

\* sync_set_status(completed), which writes catalog_valid_until once more.
Finish ==
    /\ pc = "finish"
    /\ validUntil' = TRUE
    /\ pc' = "idle" /\ at' = NoCursor
    /\ UNCHANGED <<server, cursor, products, stock, pages, page, next, more,
                   rows, blockedReason, seen, passedOver, partial, failures>>

\* A stopped engine has no timer.  The cashier presses Sync now, or the network
\* reports that it is back.
SyncNow ==
    /\ pc = "blocked"
    /\ pc' = "idle" /\ at' = NoCursor /\ pages' = 0 /\ blockedReason' = "none"
    /\ UNCHANGED <<server, disk, page, next, more, rows, seen, passedOver,
                   partial, failures>>

\* A mutant: a failed pull is not scheduled again.
NotRescheduled == "blocked"

\* Where syncLoop's catch leaves the engine after an error that may be retried.
AfterFailure == "idle"

\* The request fails, or times out: the page is dropped and the timer starts
\* again from the cursor on disk.
PullFails ==
    /\ pc \in {"pull", "reading"}
    /\ failures < MaxFailures
    /\ failures' = failures + 1
    /\ pc' = AfterFailure /\ at' = NoCursor /\ pages' = 0 /\ Drop
    /\ UNCHANGED <<server, disk, blockedReason, passedOver, partial>>

\* The server refuses the request, or a write of the SQLite file fails, which
\* undoes it: no error that classifySyncError retries.
PullBlocked ==
    /\ pc \in {"pull", "reading", "finish"}
    /\ failures < MaxFailures
    /\ failures' = failures + 1
    /\ Stop("unknown")
    /\ UNCHANGED <<server, disk, passedOver, partial>>

\* The till is killed and started again, in whatever state it is.
Crash ==
    /\ failures < MaxFailures
    /\ failures' = failures + 1
    /\ pc' = "idle" /\ at' = NoCursor /\ pages' = 0 /\ blockedReason' = "none" /\ Drop
    /\ UNCHANGED <<server, disk, passedOver, partial>>
-----------------------------------------------------------------------------
Engine ==
    \/ Start \/ ReadJournal \/ ApplyPull \/ RefusePull \/ Finish
    \/ \E k \in Kinds : ReadRows(k)

Database ==
    \/ \E w \in Writers : \/ Commit(w) \/ Rollback(w)
                          \/ \E k \in Kinds, v \in Variants :
                                \E value \in Written(k) : Write(w, k, v, value)
    \/ \E v \in Variants : PriceTakesEffect(v)

Next == Engine \/ Database \/ SyncNow \/ PullFails \/ PullBlocked \/ Crash

Spec == Init /\ [][Next]_vars

\* The engine's timer, where it is set, fires and its requests are served;
\* transactions end.  Nobody is bound to press Sync now.
Fairness ==
    /\ WF_vars(Engine)
    /\ \A w \in Writers : WF_vars(Commit(w) \/ Rollback(w))

FairSpec == Spec /\ Fairness
-----------------------------------------------------------------------------
(* Properties                                                               *)

\* Type invariant: the pull loop never holds an answer without a cursor the
\* till may store, a page is never larger than the handler's take, and the till
\* never stores a stock below zero.
TypeOK ==
    /\ db \in [Kinds -> [Variants -> Values]]
    /\ sequence \in Nat /\ journal \subseteq Change
    /\ tx \in [Writers -> SUBSET Change]
    /\ cursor \in Nat \cup {NoCursor} /\ validUntil \in BOOLEAN
    /\ products \in [Variants -> [variant : Int, pricing : Int] \cup {Nothing}]
    /\ stock \in [Variants -> Quantities]
    /\ pc \in {"idle", "pull", "reading", "finish", "blocked"}
    /\ at \in Nat \cup {NoCursor} /\ pages \in Nat
    /\ blockedReason \in {"none", "integrity", "unknown"}
    /\ page \subseteq seen /\ seen \subseteq journal
    /\ Cardinality(page) <= PageSize
    /\ next \in Nat /\ more \in BOOLEAN
    /\ rows \in [Kinds -> [Variants -> Values] \cup {Unread}]
    /\ passedOver \subseteq Change /\ scheduled \subseteq Variants
    /\ partial \in BOOLEAN /\ failures \in Nat /\ effects \in Nat

\* What a till that asked now would be told of v.
Listed(v) ==
    IF db["variant"][v] # Nothing /\ db["pricing"][v] # Nothing
    THEN [variant |-> db["variant"][v], pricing |-> db["pricing"][v]]
    ELSE Nothing

StaleProduct(v) == products[v] # Listed(v)
StaleStock(v) == stock[v] # db["inventory"][v]

\* A change that will bring the facts of these kinds about v up to date.
Concerns(c, kinds, v) == c.kind \in kinds /\ c.variant = v
StillToCome(kinds, v) == \E c \in Ahead(cursor) : Concerns(c, kinds, v)
WasPassedOver(kinds, v) ==
    \E c \in passedOver \cap journal : Concerns(c, kinds, v)

\* Nothing is lost between the page's statement, the tables' statements, the
\* pages and the crashes: wherever the till's copy of a variant differs from
\* the server's, the change that makes the difference is still ahead of the
\* cursor, unless its transaction committed after a page with higher sequences
\* had been read, or a scheduled price came into force.
DifferenceAccounted ==
    cursor # NoCursor =>
      \A v \in Variants :
        /\ StaleProduct(v) => \/ StillToCome({"variant", "pricing"}, v)
                              \/ WasPassedOver({"variant", "pricing"}, v)
                              \/ v \in scheduled
        /\ StaleStock(v) => \/ StillToCome({"inventory"}, v)
                            \/ WasPassedOver({"inventory"}, v)

\* catalog_valid_until is set only when the last page applied was the last of
\* its pull: clearing it survives a crash, a failed request and the status
\* writes of the engine in between.
ValidMeansComplete == validUntil => ~partial

\* What the till says of its catalog is true: it misses nothing that its cursor
\* has passed, and calls itself valid only when it has all of a pull.
CatalogHonest == DifferenceAccounted /\ ValidMeansComplete

\* What the till has is what the server has, up to the excuses of
\* DifferenceAccounted.
Converged ==
    /\ cursor # NoCursor
    /\ \A v \in Variants :
         /\ StaleProduct(v) => \/ WasPassedOver({"variant", "pricing"}, v)
                               \/ v \in scheduled
         /\ StaleStock(v) => WasPassedOver({"inventory"}, v)

BlockedForAReason == pc = "blocked" /\ blockedReason # "none"
BelowZero == \E v \in Variants : db["inventory"][v] \notin Quantities

\* Once the changes stop, the till's copy becomes and stays the server's.  The
\* engine may instead stop for a reason it shows and be left so, or be refused
\* for as long as the server's stock is below zero.  But where somebody starts
\* it again, more changes than MaxPages pages hold, refused requests and failed
\* writes only delay it.
CatalogConverges ==
    \/ <>[]BlockedForAReason
    \/ <>[]BelowZero
    \/ <>[]Converged
=============================================================================
