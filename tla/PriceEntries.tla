----------------------------- MODULE PriceEntries -----------------------------
(***************************************************************************)
(* The versioned prices of one price book (one scope and min_qty).  The      *)
(* book itself moves through its lifecycle, see PriceBooks; a request about   *)
(* an entry reads the book's status, decides, and writes in a later           *)
(* statement that does not look at the book again.                            *)
(***************************************************************************)
EXTENDS Naturals, FiniteSets, Sequences

CONSTANTS
    Pricers,        \* clerks who hold pricing.price-entry.manage
    Publishers,     \* the ones who also hold pricing.price-book.activate
    UnitPrices,     \* prices a request may name
    EntryCalls,     \* requests that can be open at the same time
    MaxVersion,     \* bound: versions of the entry
    MaxEntryCalls   \* bound: requests

ASSUME PriceEntriesAssumption ==
    Publishers \subseteq Pricers /\ MaxVersion \in Nat /\ MaxEntryCalls \in Nat

VARIABLES
    bookStatus,  \* status of the book
    entries,     \* PriceBookEntry rows
    entCalls,    \* open requests: what each has read
    entCount     \* requests started

entVars == <<bookStatus, entries, entCalls, entCount>>

EntIdle == [op |-> "idle"]
EntInit ==
    /\ bookStatus = "draft"
    /\ entries = {}
    /\ entCalls = [c \in EntryCalls |-> EntIdle]
    /\ entCount = 0

\* The book's own lifecycle, one status at a time.
Lifecycle == <<"draft", "submitted", "approved", "scheduled", "active", "ended">>
BookMoves ==
    /\ \E i \in 1..Len(Lifecycle) - 1 :
          bookStatus = Lifecycle[i] /\ bookStatus' = Lifecycle[i + 1]
    /\ UNCHANGED <<entries, entCalls, entCount>>

EntOpen(c, call) ==
    /\ entCalls[c] = EntIdle /\ entCount < MaxEntryCalls
    /\ entCount' = entCount + 1
    /\ entCalls' = [entCalls EXCEPT ![c] = call]
    /\ UNCHANGED <<bookStatus, entries>>
EntClose(c) ==
    entCalls' = [entCalls EXCEPT ![c] = EntIdle] /\ UNCHANGED <<bookStatus, entCount>>

\* A draft book may be filled by anyone; a live one by publishers only.
EntriesManageable(status, clerk) ==
    \/ status = "draft"
    \/ status = "active" /\ clerk \in Publishers
\* Zero has to be asked for, and nothing allows a negative price.
ValidPrice(price, allowZero) == price > 0 \/ (price = 0 /\ allowZero)

EntryRead(c, clerk, price, allowZero) ==
    /\ EntriesManageable(bookStatus, clerk)
    /\ ValidPrice(price, allowZero)
    /\ EntOpen(c, [op |-> "create", price |-> price, allowZero |-> allowZero])
\* The insert; PriceBookEntry_one_active_per_scope_qty refuses a second one.
EntryWrite(c) ==
    /\ entCalls[c].op = "create"
    /\ entries' = IF \E e \in entries : e.status = "active" THEN entries
                  ELSE entries \cup
                    {[version |-> 1, status |-> "active", price |-> entCalls[c].price,
                      allowZero |-> entCalls[c].allowZero, replacedBy |-> 0]}
    /\ EntClose(c)

\* The request says whether zero is allowed, or leaves it as it was in the
\* version that is superseded.
Flags == {"allowed", "refused", "omitted"}
AllowsZero(e, flag) == IF flag = "omitted" THEN e.allowZero ELSE flag = "allowed"
SupersedeRead(c, e, clerk, price, flag) ==
    /\ e \in entries /\ e.version < MaxVersion
    /\ EntriesManageable(bookStatus, clerk)
    /\ ValidPrice(price, AllowsZero(e, flag))
    /\ EntOpen(c, [op |-> "supersede", entry |-> e, price |-> price,
                   allowZero |-> AllowsZero(e, flag)])
\* A mutant: what the read saw is enough.
SeenActive(e) == e.status = "active"
\* The demotion's predicate, and what the read alone would say.
StillActive(e) == e.status = "active" /\ e \in entries
\* Demoted first, inserted second, in one transaction.
Successor(e, price, allowZero) ==
    [e EXCEPT !.version = @ + 1, !.price = price, !.allowZero = allowZero]
SupersedeWrite(c) ==
    /\ entCalls[c].op = "supersede"
    /\ LET e == entCalls[c].entry IN
       entries' = IF ~StillActive(e) THEN entries
                  ELSE (entries \ {e}) \cup
                         {[e EXCEPT !.status = "superseded", !.replacedBy = e.version + 1],
                          Successor(e, entCalls[c].price, entCalls[c].allowZero)}
    /\ EntClose(c)

EntNext ==
    \/ BookMoves
    \/ \E c \in EntryCalls :
          \/ \E k \in Pricers, p \in UnitPrices :
                \/ \E z \in BOOLEAN : EntryRead(c, k, p, z)
                \/ \E e \in entries, f \in Flags : SupersedeRead(c, e, k, p, f)
          \/ EntryWrite(c) \/ SupersedeWrite(c)

(* The versions of an entry are a history: each version once, the newest     *)
(* active and each other superseded by the next, so that a sale can be       *)
(* traced to the price it used, however requests to add and to supersede     *)
(* overlap; and a zero price is only ever one that somebody allowed.         *)
EntryHistory ==
    LET last == Cardinality(entries) IN
    /\ {e.version : e \in entries} = 1..last
    /\ \A e \in entries :
          /\ e.status = IF e.version = last THEN "active" ELSE "superseded"
          /\ e.replacedBy = IF e.version = last THEN 0 ELSE e.version + 1
          /\ ValidPrice(e.price, e.allowZero)

=============================================================================
