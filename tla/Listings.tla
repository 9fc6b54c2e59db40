------------------------------- MODULE Listings -------------------------------
(***************************************************************************)
(* Lists with a total.  A list runs a count and a page of rows side by side;  *)
(* the count is kept by key for a while, and while it runs it is shared: who  *)
(* asks in the meantime waits for the same promise.  A write empties the map  *)
(* when it is answered, while counts that began before it are still running.  *)
(* Sales and products each keep such a map; returns count every time.         *)
(***************************************************************************)
EXTENDS Naturals, Sequences, FiniteSets, SequencesExt

CONSTANTS
    Tenants,
    ListSlots,   \* bound: lists under way
    Writes,      \* bound: the rows that may be written
    MaxCounts,   \* bound: count queries
    CacheLimit,  \* entries the map may hold (500 for sales, 200 for products)
    CountTtl,    \* LIST_COUNT_CACHE_MS in ticks
    LastMoment   \* bound: the clock

ASSUME CacheAssumption == CacheLimit \in Nat \ {0} /\ CountTtl \in Nat

VARIABLES
    lines,       \* rows of the table: a tenant and the write that made it
    written,     \* writes: not yet, committed, answered, or answered without a clearing
    countCache,  \* the Map in insertion order: key, promise, expiry (or pending)
    counts,      \* the promises: key, step, rows counted, when it resolved
    lists,       \* the requests
    moment

lstVars == <<lines, written, countCache, counts, lists, moment>>

Idle == [step |-> "idle", tenant |-> "none", count |-> 0, asked |-> 0, must |-> {}]

LstInit ==
    /\ lines = {} /\ written = [w \in Writes |-> "not"] /\ countCache = <<>>
    /\ counts = <<>> /\ lists = [l \in ListSlots |-> Idle] /\ moment = 0

\* variantWhere, and the where of listSales: the tenant's own rows.
Matching(t) == {r \in lines : r.tenant = t}

\* The places of the map with an entry for the key that may be shared: its count
\* still runs, or is young enough.  A key has one place.
Cached(key) ==
    {i \in DOMAIN countCache :
        /\ countCache[i].key = key
        /\ countCache[i].pending \/ countCache[i].expires > moment}

\* Map.set: a key that is there keeps its place.
Put(cache, entry) ==
    IF \E i \in DOMAIN cache : cache[i].key = entry.key
    THEN [i \in DOMAIN cache |-> IF cache[i].key = entry.key THEN entry ELSE cache[i]]
    ELSE Append(cache, entry)

\* Above the limit the first key of the map goes.
Trimmed(cache) == IF Len(cache) > CacheLimit THEN Tail(cache) ELSE cache

CountKey(t) == t

Listing(t, count) ==
    [step |-> "reading", tenant |-> t, count |-> count, asked |-> moment,
     must |-> {r \in Matching(t) : written[r.write] = "answered"}]
NewCount(t) == [tenant |-> t, step |-> "running", counted |-> {}, at |-> 0]

\* cachedCount and cachedSalesCount: a live entry is shared, else a count starts.
Ask(l, t) ==
    LET hit == Cached(CountKey(t))
        id == Len(counts) + 1
    IN  /\ lists[l].step = "idle"
        /\ \/ /\ \E i \in hit : lists' = [lists EXCEPT ![l] = Listing(t, countCache[i].count)]
              /\ UNCHANGED <<countCache, counts>>
           \/ /\ hit = {} /\ Len(counts) < MaxCounts
              /\ counts' = Append(counts, NewCount(t))
              /\ countCache' = Trimmed(Put(countCache,
                    [key |-> CountKey(t), count |-> id, pending |-> TRUE, expires |-> 0]))
              /\ lists' = [lists EXCEPT ![l] = Listing(t, id)]
        /\ UNCHANGED <<lines, written, moment>>

\* listReturns counts for itself.
AskReturns(l, t) ==
    /\ lists[l].step = "idle" /\ Len(counts) < MaxCounts
    /\ counts' = Append(counts, NewCount(t))
    /\ lists' = [lists EXCEPT ![l] = Listing(t, Len(counts) + 1)]
    /\ UNCHANGED <<lines, written, countCache, moment>>

\* The database evaluates the count at a moment of its own.
EvaluateCount(c) ==
    /\ counts[c].step = "running"
    /\ counts' = [counts EXCEPT ![c].step = "evaluated",
                                ![c].counted = Matching(counts[c].tenant)]
    /\ UNCHANGED <<lines, written, countCache, lists, moment>>

Owns(x, c) == x.count = c /\ x.pending

\* A mutant: the total is kept whoever holds the key by now.
ResolveAnyway(c) ==
    /\ counts[c].step = "evaluated"
    /\ counts' = [counts EXCEPT ![c].step = "done", ![c].at = moment]
    /\ countCache' = Put(countCache, [key |-> CountKey(counts[c].tenant), count |-> c,
                                      pending |-> FALSE, expires |-> moment + CountTtl])
    /\ UNCHANGED <<lines, written, lists, moment>>

\* then: the total stays for a while, if the map still holds this very promise.
Resolve(c) ==
    /\ counts[c].step = "evaluated"
    /\ counts' = [counts EXCEPT ![c].step = "done", ![c].at = moment]
    /\ countCache' = [i \in DOMAIN countCache |->
                         IF Owns(countCache[i], c)
                         THEN [countCache[i] EXCEPT !.pending = FALSE,
                                                    !.expires = moment + CountTtl]
                         ELSE countCache[i]]
    /\ UNCHANGED <<lines, written, lists, moment>>

\* catch: a failed count is not kept, and everyone who waits for it fails.
Reject(c) ==
    /\ counts[c].step \in {"running", "evaluated"}
    /\ counts' = [counts EXCEPT ![c].step = "failed"]
    /\ countCache' = IF \E i \in DOMAIN countCache : Owns(countCache[i], c)
                     THEN RemoveAt(countCache,
                                   CHOOSE i \in DOMAIN countCache : Owns(countCache[i], c))
                     ELSE countCache
    /\ lists' = [l \in ListSlots |-> IF lists[l].step # "idle" /\ lists[l].count = c
                                     THEN Idle ELSE lists[l]]
    /\ UNCHANGED <<lines, written, moment>>

\* The page was read next to the count; its rows are hydrated and the list is answered.
Answered(l) ==
    /\ lists[l].step = "reading" /\ counts[lists[l].count].step = "done"
    /\ lists' = [lists EXCEPT ![l].step = "answered"]
    /\ UNCHANGED <<lines, written, countCache, counts, moment>>

Displayed(l) ==
    /\ lists[l].step = "answered"
    /\ lists' = [lists EXCEPT ![l] = Idle]
    /\ UNCHANGED <<lines, written, countCache, counts, moment>>

\* createSale and createProduct commit; then invalidateCounts, then the answer.
Commit(w, t) ==
    /\ written[w] = "not"
    /\ written' = [written EXCEPT ![w] = "committed"]
    /\ lines' = lines \cup {[tenant |-> t, write |-> w]}
    /\ UNCHANGED <<countCache, counts, lists, moment>>

InvalidateCounts(w) ==
    /\ written[w] = "committed"
    /\ written' = [written EXCEPT ![w] = "answered"] /\ countCache' = <<>>
    /\ UNCHANGED <<lines, counts, lists, moment>>

\* updateVariant and createReturn change what a filter matches and clear nothing.
Amend(w, t) ==
    /\ written[w] = "not"
    /\ written' = [written EXCEPT ![w] = "amended"]
    /\ lines' = lines \cup {[tenant |-> t, write |-> w]}
    /\ UNCHANGED <<countCache, counts, lists, moment>>

LaterOn ==
    /\ moment < LastMoment /\ moment' = moment + 1
    /\ UNCHANGED <<lines, written, countCache, counts, lists>>

LstNext ==
    \/ \E l \in ListSlots, t \in Tenants : Ask(l, t) \/ AskReturns(l, t)
    \/ \E l \in ListSlots : Answered(l) \/ Displayed(l)
    \/ \E c \in DOMAIN counts : EvaluateCount(c) \/ Resolve(c) \/ Reject(c)
    \/ \E w \in Writes : InvalidateCounts(w) \/ \E t \in Tenants : Commit(w, t) \/ Amend(w, t)
    \/ LaterOn

-----------------------------------------------------------------------------
(* A total is one's own and fresh: it counts every row whose write was        *)
(* answered before the list was asked for, none of another tenant, and it was *)
(* still being counted then, or had been for less than the time to live.      *)
TotalsFresh ==
    \A l \in ListSlots :
        lists[l].step = "answered" =>
            LET c == counts[lists[l].count]
            IN  /\ lists[l].must \subseteq c.counted
                /\ \A r \in c.counted : r.tenant = lists[l].tenant
                /\ lists[l].asked <= c.at \/ lists[l].asked < c.at + CountTtl
                /\ Len(countCache) <= CacheLimit
=============================================================================
