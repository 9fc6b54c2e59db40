-------------------------- MODULE CatalogSyncProofs --------------------------
(***************************************************************************)
(* Proofs about CatalogSync for any number of variants, writers, pages and  *)
(* failures: TypeOK, DifferenceAccounted, ValidMeansComplete and both.      *)
(***************************************************************************)
EXTENDS CatalogSync, FiniteSetTheorems, WellFoundedInduction, TLAPS

\* Every change is finite in number, bounded by the sequence and unique in it.
Numbered ==
    /\ IsFiniteSet(journal)
    /\ \A c \in journal : c.sequence <= sequence
    /\ \A c, d \in journal : c.sequence = d.sequence => c = d
    /\ \A w \in Writers :
         /\ IsFiniteSet(tx[w])
         /\ \A c \in tx[w] : c.sequence <= sequence
         /\ \A c, d \in tx[w] : c.sequence = d.sequence => c = d
         /\ \A c \in tx[w], d \in journal : c.sequence # d.sequence
         /\ \A u \in Writers \ {w} : \A c \in tx[w], d \in tx[u] :
               c.sequence # d.sequence

\* The cursors never run ahead of the sequence.
Bounded ==
    /\ cursor # NoCursor => cursor <= sequence
    /\ next <= sequence
    /\ pc \in {"pull", "reading"} => at = cursor

\* A change that is still open behind the cursor was noted when the cursor
\* went past it.
OpenAccounted ==
    cursor # NoCursor =>
      \A w \in Writers : \A c \in tx[w] :
         c.sequence <= cursor => c \in passedOver

\* A change to these facts about v that the till has not been told of.
Untold(kinds, v) ==
    \E c \in journal : /\ Concerns(c, kinds, v)
                       /\ c.sequence > cursor \/ c \in passedOver

\* DifferenceAccounted with the reason for each part of a row kept apart: a
\* delta leaves the row of an active variant without a price alone, so its
\* variant part may be older than the cursor while its price is out of date.
PriceExcused(v) == Untold({"pricing"}, v) \/ v \in scheduled
DiskAccounted ==
    cursor # NoCursor =>
      \A v \in Variants :
        /\ products[v] # Nothing =>
             /\ products[v].pricing # db["pricing"][v] => PriceExcused(v)
             /\ products[v].variant # db["variant"][v] =>
                   Untold({"variant"}, v) \/ PriceExcused(v)
        /\ products[v] = Nothing /\ Listed(v) # Nothing =>
             Untold({"variant"}, v) \/ PriceExcused(v)
        /\ StaleStock(v) => Untold({"inventory"}, v)

\* What the pull has read differs from the tables only by changes that were
\* committed after its first statement, and its page holds every change that
\* statement saw between the two cursors.
InFlight ==
    pc = "reading" =>
      /\ \A k \in Kinds, v \in Variants :
            rows[k] # Unread /\ rows[k][v] # db[k][v] =>
              \/ \E c \in journal \ seen : Concerns(c, {k}, v)
              \/ k = "pricing" /\ v \in scheduled
      /\ at = NoCursor => page = {} /\ \A c \in seen : c.sequence <= next
      /\ at # NoCursor =>
            /\ next >= at
            /\ page = {} => next = at
            /\ \A c \in seen : c.sequence > at /\ c.sequence <= next => c \in page

\* The engine reaches its last status write only after the last page.
FinishComplete == pc = "finish" => ~partial

CatalogInv ==
    /\ TypeOK /\ Numbered /\ Bounded /\ OpenAccounted /\ DiskAccounted
    /\ InFlight /\ ValidMeansComplete /\ FinishComplete
-----------------------------------------------------------------------------
(* Facts about the operators of the pull                                    *)

\* A set of natural numbers has a least element.
LEMMA NatMin ==
    ASSUME NEW T \in SUBSET Nat, T # {}
    PROVE  \E m \in T : \A k \in T : m <= k
<1> DEFINE R == OpToRel(<, Nat)
<1>1. IsWellFoundedOn(R, Nat)
  BY NatLessThanWellFounded
<1>2. \A k, m \in Nat : k < m => <<k, m>> \in R
  BY DEF OpToRel
<1> HIDE DEF R
<1>3. PICK m \in T : \A k \in T : ~(<<k, m>> \in R)
  BY <1>1, WFMin, Zenon
<1>4. \A k \in T : ~(k < m)
  BY <1>2, <1>3
<1> QED BY <1>4

\* Max of a bounded set of natural numbers is its largest element.
LEMMA MaxIsLargest ==
    ASSUME NEW S \in SUBSET Nat, S # {}, NEW b \in Nat, \A x \in S : x <= b
    PROVE  Max(S) \in S /\ \A y \in S : y <= Max(S)
<1> DEFINE T == {b - x : x \in S}
<1>1. T \in SUBSET Nat
  OBVIOUS
<1>2. T # {}
  <2>1. PICK x \in S : TRUE
    OBVIOUS
  <2>2. b - x \in T
    OBVIOUS
  <2> QED BY <2>2
<1>3. PICK m \in T : \A k \in T : m <= k
  <2> HIDE DEF T
  <2> QED BY <1>1, <1>2, NatMin
<1>4. PICK x \in S : m = b - x
  BY <1>3
<1>5. \A y \in S : x >= y
  BY <1>3, <1>4
<1> QED BY <1>5 DEF Max

\* The last sequence of a set of journal entries is the sequence of one of
\* them, and none is larger.
LEMMA LastSequence ==
    ASSUME TypeOK, Numbered, NEW S \in SUBSET journal, S # {}
    PROVE  /\ Max(Sequences(S)) \in Nat /\ Max(Sequences(S)) <= sequence
           /\ \E c \in S : c.sequence = Max(Sequences(S))
           /\ \A c \in S : c.sequence <= Max(Sequences(S))
<1> DEFINE Q == Sequences(S)
<1>1. Q \in SUBSET Nat /\ sequence \in Nat /\ \A x \in Q : x <= sequence
  BY DEF TypeOK, Numbered, Change, Sequences
<1>2. Q # {}
  <2>1. PICK c \in S : TRUE
    OBVIOUS
  <2>2. c.sequence \in Q
    BY DEF Sequences
  <2> QED BY <2>2
<1>3. Max(Q) \in Q /\ \A y \in Q : y <= Max(Q)
  <2> HIDE DEF Q
  <2> QED BY <1>1, <1>2, MaxIsLargest
<1> QED BY <1>1, <1>3 DEF Sequences

\* A page is a prefix of what is ahead of the cursor: it holds every change
\* ahead of the cursor up to any change it holds.
LEMMA PageIsPrefix ==
    ASSUME TypeOK, Numbered, NEW from \in Nat,
           NEW c \in PageOf(from), NEW d \in Ahead(from),
           d.sequence <= c.sequence
    PROVE  d \in PageOf(from)
<1> DEFINE Below(x) == {y \in Ahead(from) : y.sequence < x.sequence}
<1>1. Ahead(from) \subseteq journal /\ IsFiniteSet(Ahead(from))
  <2>1. Ahead(from) \in SUBSET journal
    BY DEF Ahead
  <2> QED BY <2>1, FS_Subset DEF Numbered
<1>2. Below(d) \in SUBSET Below(c) /\ Below(c) \in SUBSET Ahead(from)
  BY <1>1 DEF PageOf, TypeOK, Change
<1>3. IsFiniteSet(Below(c)) /\ IsFiniteSet(Below(d))
  BY <1>1, <1>2, FS_Subset
<1>4. /\ Cardinality(Below(d)) <= Cardinality(Below(c))
      /\ Cardinality(Below(c)) \in Nat /\ Cardinality(Below(d)) \in Nat
  BY <1>2, <1>3, FS_Subset, FS_CardinalityType
<1>5. Cardinality(Below(c)) < PageSize
  BY DEF PageOf
<1>6. Cardinality(Below(d)) < PageSize
  BY <1>4, <1>5, CatalogAssumption
<1> QED BY <1>6 DEF PageOf

\* A page is no larger than the handler's take.
LEMMA PageIsBounded ==
    ASSUME TypeOK, Numbered, NEW from \in Nat
    PROVE  /\ IsFiniteSet(PageOf(from)) /\ PageOf(from) \in SUBSET journal
           /\ Cardinality(PageOf(from)) <= PageSize
<1> DEFINE P == PageOf(from)
<1>1. P \in SUBSET journal /\ IsFiniteSet(P)
  <2>1. P \in SUBSET journal
    BY DEF PageOf, Ahead
  <2> QED BY <2>1, FS_Subset DEF Numbered
<1>2. CASE P = {}
  BY <1>1, <1>2, FS_EmptySet, CatalogAssumption
<1>3. CASE P # {}
  <2>1. PICK c \in P : \A d \in P : d.sequence <= c.sequence
    <3> HIDE DEF P
    <3> QED BY <1>1, <1>3, LastSequence
  <2> DEFINE B == {d \in Ahead(from) : d.sequence < c.sequence}
  <2>2. Cardinality(B) < PageSize
    BY <2>1 DEF PageOf
  <2>3. B \in SUBSET journal /\ IsFiniteSet(B)
    <3>1. B \in SUBSET journal
      BY DEF Ahead
    <3> QED BY <3>1, FS_Subset DEF Numbered
  <2>4. P \ {c} \in SUBSET B
    <3> SUFFICES ASSUME NEW d \in P, d # c
                 PROVE  d \in B
      OBVIOUS
    <3>1. d \in Ahead(from) /\ d \in journal /\ c \in journal
      BY DEF PageOf, Ahead
    <3>2. d.sequence # c.sequence /\ d.sequence \in Nat /\ c.sequence \in Nat
      BY <3>1 DEF Numbered, TypeOK, Change
    <3> QED BY <2>1, <3>1, <3>2
  <2>5. Cardinality(P \ {c}) <= Cardinality(B) /\ Cardinality(B) \in Nat
    BY <2>3, <2>4, FS_Subset, FS_CardinalityType
  <2>6. Cardinality(P \ {c}) = Cardinality(P) - 1 /\ Cardinality(P) \in Nat
    BY <1>1, <2>1, FS_RemoveElement, FS_CardinalityType
  <2> QED BY <1>1, <2>2, <2>5, <2>6, CatalogAssumption
<1> QED BY <1>2, <1>3
-----------------------------------------------------------------------------
(* The invariant is inductive                                               *)

LEMMA InitOK == Init => CatalogInv
<1> SUFFICES ASSUME Init PROVE CatalogInv
  OBVIOUS
<1>1. IsFiniteSet({}) /\ Cardinality({}) = 0
  BY FS_EmptySet
<1>2. TypeOK
  <2>1. Cardinality(page) <= PageSize
    BY <1>1, CatalogAssumption DEF Init
  <2>2. /\ db \in [Kinds -> [Variants -> Values]]
        /\ products \in [Variants -> [variant : Int, pricing : Int] \cup {Nothing}]
        /\ stock \in [Variants -> Quantities]
        /\ rows \in [Kinds -> [Variants -> Values] \cup {Unread}]
    BY DEF Init, Values, Quantities, Blank
  <2> QED BY <2>1, <2>2 DEF Init, TypeOK
<1>3. Numbered /\ Bounded
  BY <1>1, CatalogAssumption DEF Init, Numbered, Bounded
<1>4. OpenAccounted /\ DiskAccounted /\ InFlight /\ ValidMeansComplete /\ FinishComplete
  BY DEF Init, OpenAccounted, DiskAccounted, InFlight, ValidMeansComplete,
     FinishComplete
<1> QED BY <1>2, <1>3, <1>4 DEF CatalogInv

LEMMA WriteOK ==
    ASSUME CatalogInv, NEW w \in Writers, NEW k \in Kinds, NEW v \in Variants,
           NEW value \in Written(k), Write(w, k, v, value)
    PROVE  CatalogInv'
<1> DEFINE c == [sequence |-> sequence + 1, kind |-> k, variant |-> v,
                 value |-> value]
<1>1. c \in Change /\ c.sequence = sequence + 1 /\ sequence \in Nat
  BY DEF CatalogInv, TypeOK, Change, Values, Written
<1> HIDE DEF c
<1>2. /\ tx' = [tx EXCEPT ![w] = @ \cup {c}] /\ sequence' = sequence + 1
      /\ UNCHANGED <<db, journal, scheduled, effects, disk, engine, passedOver,
                     partial, failures>>
  BY DEF Write, c
<1>3. /\ tx'[w] = tx[w] \cup {c} /\ \A u \in Writers \ {w} : tx'[u] = tx[u]
  BY <1>2 DEF CatalogInv, TypeOK
<1>4. TypeOK'
  BY <1>1, <1>2, <1>3 DEF CatalogInv, TypeOK, disk, engine
<1>5. Numbered'
  <2>1. IsFiniteSet(tx[w] \cup {c})
    BY FS_AddElement DEF CatalogInv, Numbered
  <2>2. \A u \in Writers : \A d \in tx[u] : d.sequence \in Nat
    BY DEF CatalogInv, TypeOK, Change
  <2>3. \A d \in journal : d.sequence \in Nat
    BY DEF CatalogInv, TypeOK, Change
  <2> QED BY <1>1, <1>2, <1>3, <2>1, <2>2, <2>3 DEF CatalogInv, Numbered
<1>6. Bounded'
  BY <1>1, <1>2 DEF CatalogInv, Bounded, TypeOK, disk, engine
<1>7. OpenAccounted'
  BY <1>1, <1>2, <1>3 DEF CatalogInv, OpenAccounted, Bounded, TypeOK, disk
<1>8. DiskAccounted' /\ InFlight' /\ ValidMeansComplete' /\ FinishComplete'
  BY <1>2 DEF CatalogInv, DiskAccounted, InFlight, ValidMeansComplete,
     FinishComplete, disk,
     engine, Untold, PriceExcused, Listed, StaleStock
<1> QED BY <1>4, <1>5, <1>6, <1>7, <1>8 DEF CatalogInv

\* A commit changes a fact only where its transaction made a change to it.
LEMMA CommitChanges ==
    ASSUME CatalogInv, NEW w \in Writers, Commit(w),
           NEW k \in Kinds, NEW v \in Variants
    PROVE  /\ db'[k][v] \in Values
           /\ db'[k][v] # db[k][v] => \E c \in tx[w] : Concerns(c, {k}, v)
<1>1. CASE Latest(w, k, v) = {}
  BY <1>1 DEF CatalogInv, TypeOK, Commit
<1>2. CASE Latest(w, k, v) # {}
  <2>1. (CHOOSE c \in Latest(w, k, v) : TRUE) \in Latest(w, k, v)
    BY <1>2
  <2>2. \A c \in Latest(w, k, v) : c \in tx[w] /\ Concerns(c, {k}, v)
    BY DEF Latest, Concerns
  <2>3. \A c \in tx[w] : c.value \in Values
    BY DEF CatalogInv, TypeOK, Change
  <2> QED BY <1>2, <2>1, <2>2, <2>3 DEF Commit
<1> QED BY <1>1, <1>2

LEMMA CommitOK ==
    ASSUME CatalogInv, NEW w \in Writers, Commit(w)
    PROVE  CatalogInv'
<1>1. /\ journal' = journal \cup tx[w]
      /\ tx'[w] = {} /\ \A u \in Writers \ {w} : tx'[u] = tx[u]
      /\ UNCHANGED <<sequence, scheduled, effects, disk, engine, passedOver,
                     partial, failures>>
  BY DEF CatalogInv, TypeOK, Commit
<1>2. TypeOK'
  <2>1. db' \in [Kinds -> [Variants -> Values]]
    <3>1. \A k \in Kinds, v \in Variants : db'[k][v] \in Values
      BY CommitChanges
    <3>2. db' = [k \in Kinds |-> [v \in Variants |-> db'[k][v]]]
      BY DEF Commit
    <3> QED BY <3>1, <3>2
  <2>2. tx' \in [Writers -> SUBSET Change]
    BY DEF CatalogInv, TypeOK, Commit
  <2> QED BY <1>1, <2>1, <2>2 DEF CatalogInv, TypeOK, disk, engine
<1>3. Numbered'
  <2>1. IsFiniteSet(journal') /\ IsFiniteSet({})
    BY <1>1, FS_Union, FS_EmptySet DEF CatalogInv, Numbered
  <2>2. /\ \A c \in journal' : c.sequence <= sequence
        /\ \A c, d \in journal' : c.sequence = d.sequence => c = d
    BY <1>1 DEF CatalogInv, Numbered
  <2>3. ASSUME NEW u \in Writers \ {w}
        PROVE  \A c \in tx[u], d \in journal' : c.sequence # d.sequence
    BY <1>1 DEF CatalogInv, Numbered
  <2>4. ASSUME NEW u \in Writers
        PROVE  /\ IsFiniteSet(tx'[u])
               /\ \A c \in tx'[u] : c.sequence <= sequence
               /\ \A c, d \in tx'[u] : c.sequence = d.sequence => c = d
               /\ \A c \in tx'[u], d \in journal' : c.sequence # d.sequence
               /\ \A x \in Writers \ {u} : \A c \in tx'[u], d \in tx'[x] :
                     c.sequence # d.sequence
    <3>1. CASE u = w
      BY <1>1, <2>1, <3>1
    <3>2. CASE u # w
      BY <1>1, <2>3, <3>2 DEF CatalogInv, Numbered
    <3> QED BY <3>1, <3>2
  <2> QED BY <1>1, <2>1, <2>2, <2>4 DEF Numbered
<1>4. Bounded' /\ OpenAccounted'
  BY <1>1 DEF CatalogInv, Bounded, OpenAccounted, disk, engine
<1>5. cursor # NoCursor =>
        \A k \in Kinds, v \in Variants : db'[k][v] # db[k][v] => Untold({k}, v)'
  <2> SUFFICES ASSUME cursor # NoCursor, NEW k \in Kinds, NEW v \in Variants,
                      db'[k][v] # db[k][v]
               PROVE  Untold({k}, v)'
    OBVIOUS
  <2>1. PICK c \in tx[w] : Concerns(c, {k}, v)
    BY CommitChanges
  <2>2. c.sequence > cursor \/ c \in passedOver
    BY DEF CatalogInv, OpenAccounted, TypeOK, Change
  <2> QED BY <1>1, <2>1, <2>2 DEF Untold, Concerns, disk
<1>6. \A K, v : Untold(K, v) => Untold(K, v)'
  BY <1>1 DEF Untold, Concerns, disk
<1>7. DiskAccounted'
  <2> SUFFICES ASSUME cursor # NoCursor, NEW v \in Variants
               PROVE  /\ products[v] # Nothing =>
                           /\ products[v].pricing # db'["pricing"][v] =>
                                PriceExcused(v)'
                           /\ products[v].variant # db'["variant"][v] =>
                                Untold({"variant"}, v)' \/ PriceExcused(v)'
                      /\ products[v] = Nothing /\ Listed(v)' # Nothing =>
                           Untold({"variant"}, v)' \/ PriceExcused(v)'
                      /\ StaleStock(v)' => Untold({"inventory"}, v)'
    BY <1>1 DEF DiskAccounted, disk
  <2>1. /\ db'["pricing"][v] # db["pricing"][v] => PriceExcused(v)'
        /\ db'["variant"][v] # db["variant"][v] => Untold({"variant"}, v)'
        /\ db'["inventory"][v] # db["inventory"][v] => Untold({"inventory"}, v)'
    BY <1>5 DEF Kinds, PriceExcused
  <2>2. PriceExcused(v) => PriceExcused(v)'
    BY <1>1, <1>6 DEF PriceExcused
  <2> QED BY <1>1, <1>6, <2>1, <2>2
          DEF CatalogInv, DiskAccounted, Listed, StaleStock, disk
<1>8. InFlight'
  <2>1. ASSUME NEW k \in Kinds, NEW v \in Variants, db'[k][v] # db[k][v]
        PROVE  \E c \in journal' \ seen : Concerns(c, {k}, v)
    <3>1. PICK c \in tx[w] : Concerns(c, {k}, v)
      BY <2>1, CommitChanges
    <3>2. c \notin seen
      BY DEF CatalogInv, TypeOK, Numbered
    <3> QED BY <1>1, <3>1, <3>2
  <2> QED BY <1>1, <2>1 DEF CatalogInv, InFlight, engine, Concerns
<1>9. ValidMeansComplete' /\ FinishComplete'
  BY <1>1 DEF CatalogInv, ValidMeansComplete, FinishComplete, disk, engine
<1> QED BY <1>2, <1>3, <1>4, <1>7, <1>8, <1>9 DEF CatalogInv

LEMMA RollbackOK ==
    ASSUME CatalogInv, NEW w \in Writers, Rollback(w)
    PROVE  CatalogInv'
<1>1. /\ tx'[w] = {} /\ \A u \in Writers \ {w} : tx'[u] = tx[u]
      /\ tx' \in [Writers -> SUBSET Change]
      /\ UNCHANGED <<db, sequence, journal, scheduled, effects, disk, engine,
                     passedOver, partial, failures>>
  BY DEF CatalogInv, TypeOK, Rollback
<1>2. TypeOK' /\ Bounded' /\ OpenAccounted' /\ ValidMeansComplete' /\ FinishComplete'
  BY <1>1 DEF CatalogInv, TypeOK, Bounded, OpenAccounted, ValidMeansComplete,
     FinishComplete,
     disk, engine
<1>3. Numbered'
  <2>1. ASSUME NEW u \in Writers
        PROVE  /\ IsFiniteSet(tx'[u])
               /\ \A c \in tx'[u] : c.sequence <= sequence
               /\ \A c, d \in tx'[u] : c.sequence = d.sequence => c = d
               /\ \A c \in tx'[u], d \in journal : c.sequence # d.sequence
               /\ \A x \in Writers \ {u} : \A c \in tx'[u], d \in tx'[x] :
                     c.sequence # d.sequence
    <3>1. CASE u = w
      BY <1>1, <3>1, FS_EmptySet
    <3>2. CASE u # w
      BY <1>1, <3>2 DEF CatalogInv, Numbered
    <3> QED BY <3>1, <3>2
  <2> QED BY <1>1, <2>1 DEF CatalogInv, Numbered
<1>4. DiskAccounted' /\ InFlight'
  BY <1>1 DEF CatalogInv, DiskAccounted, InFlight, disk, engine, Untold,
     PriceExcused, Listed, StaleStock
<1> QED BY <1>2, <1>3, <1>4 DEF CatalogInv

LEMMA PriceTakesEffectOK ==
    ASSUME CatalogInv, NEW v \in Variants, PriceTakesEffect(v)
    PROVE  CatalogInv'
<1>1. /\ db' \in [Kinds -> [Variants -> Values]]
      /\ \A k \in Kinds, u \in Variants :
            db'[k][u] # db[k][u] => k = "pricing" /\ u = v
      /\ scheduled' = scheduled \cup {v}
      /\ effects' = effects + 1
      /\ UNCHANGED <<sequence, tx, journal, disk, engine, passedOver, partial,
                     failures>>
  BY DEF CatalogInv, TypeOK, PriceTakesEffect, Values, Kinds
<1>2. /\ TypeOK' /\ Numbered' /\ Bounded' /\ OpenAccounted'
      /\ ValidMeansComplete' /\ FinishComplete'
  BY <1>1 DEF CatalogInv, TypeOK, Numbered, Bounded, OpenAccounted,
     ValidMeansComplete, FinishComplete, disk, engine
<1>3. \A u \in Variants : /\ PriceExcused(u) => PriceExcused(u)'
                          /\ \A K : Untold(K, u) => Untold(K, u)'
  BY <1>1 DEF PriceExcused, Untold, Concerns, disk
<1>4. \A u \in Variants :
         /\ db'["pricing"][u] # db["pricing"][u] => PriceExcused(u)'
         /\ db'["variant"][u] = db["variant"][u]
         /\ db'["inventory"][u] = db["inventory"][u]
  BY <1>1 DEF PriceExcused, Kinds
<1>5. DiskAccounted'
  BY <1>1, <1>3, <1>4 DEF CatalogInv, DiskAccounted, Listed, StaleStock, disk
<1>6. InFlight'
  BY <1>1 DEF CatalogInv, InFlight, engine
<1> QED BY <1>2, <1>5, <1>6 DEF CatalogInv

\* Steps of the engine that leave the tables, the journal and the disk alone.
LEMMA QuietStep ==
    ASSUME CatalogInv, UNCHANGED <<server, cursor, products, stock, passedOver>>
    PROVE  Numbered' /\ OpenAccounted' /\ DiskAccounted'
<1>1. Numbered' /\ OpenAccounted'
  BY DEF CatalogInv, Numbered, OpenAccounted, server
<1>2. DiskAccounted'
  BY DEF CatalogInv, DiskAccounted, server, Untold, PriceExcused, Listed,
     StaleStock
<1> QED BY <1>1, <1>2

LEMMA StartOK == CatalogInv /\ Start => CatalogInv'
<1> SUFFICES ASSUME CatalogInv, Start PROVE CatalogInv'
  OBVIOUS
<1>1. Numbered' /\ OpenAccounted' /\ DiskAccounted'
  BY QuietStep DEF Start, disk
<1>2. TypeOK'
  BY DEF CatalogInv, Start, TypeOK, server, disk
<1>3. Bounded' /\ InFlight' /\ ValidMeansComplete' /\ FinishComplete'
  BY DEF CatalogInv, Start, Bounded, InFlight, ValidMeansComplete,
     FinishComplete, server, disk
<1> QED BY <1>1, <1>2, <1>3 DEF CatalogInv

LEMMA ReadJournalOK == CatalogInv /\ ReadJournal => CatalogInv'
<1> SUFFICES ASSUME CatalogInv, ReadJournal PROVE CatalogInv'
  OBVIOUS
<1>1. Numbered' /\ OpenAccounted' /\ DiskAccounted'
  BY QuietStep DEF ReadJournal, disk
<1>2. TypeOK /\ Numbered /\ at = cursor /\ at \in Nat \cup {NoCursor}
  BY DEF CatalogInv, Bounded, ReadJournal, TypeOK
<1>3. /\ seen' = journal /\ rows' = Blank /\ pc' = "reading"
      /\ UNCHANGED <<server, disk, at, pages, blockedReason, passedOver, partial, failures>>
  BY DEF ReadJournal
<1>4. /\ page' \in SUBSET journal /\ Cardinality(page') <= PageSize
      /\ next' \in Nat /\ more' \in BOOLEAN /\ next' <= sequence
      /\ at = NoCursor => page' = {} /\ \A c \in journal : c.sequence <= next'
      /\ at # NoCursor =>
            /\ next' >= at
            /\ page' = {} => next' = at
            /\ \A c \in journal :
                  c.sequence > at /\ c.sequence <= next' => c \in page'
  <2>1. CASE at = NoCursor
    <3>1. page' = {} /\ next' = JournalEnd /\ more' = FALSE
      BY <2>1 DEF ReadJournal
    <3>2. page' \in SUBSET journal /\ Cardinality(page') <= PageSize
      BY <3>1, FS_EmptySet, CatalogAssumption
    <3>3. CASE journal = {}
      <4>1. next' \in Nat /\ next' <= sequence
        BY <3>1, <3>3 DEF JournalEnd, CatalogInv, TypeOK
      <4>2. \A c \in journal : c.sequence <= next'
        BY <3>3
      <4> QED BY <2>1, <3>1, <3>2, <4>1, <4>2
    <3>4. CASE journal # {}
      <4>1. journal \in SUBSET journal
        OBVIOUS
      <4>2. /\ JournalEnd \in Nat /\ JournalEnd <= sequence
            /\ \A c \in journal : c.sequence <= JournalEnd
        BY <1>2, <3>4, <4>1, LastSequence DEF JournalEnd
      <4> QED BY <2>1, <3>1, <3>2, <4>2
    <3> QED BY <3>3, <3>4
  <2>2. CASE at # NoCursor
    <3>1. /\ page' = PageOf(at) /\ next' = NextCursor(page', at)
          /\ more' = (Cardinality(page') = PageSize) /\ at \in Nat
      BY <1>2, <2>2 DEF ReadJournal
    <3>2. page' \in SUBSET journal /\ Cardinality(page') <= PageSize
      BY <1>2, <3>1, PageIsBounded
    <3>3. \A c \in page' : c \in Ahead(at)
      BY <3>1 DEF PageOf
    <3>4. CASE page' = {}
      <4>1. next' = at
        BY <3>1, <3>4 DEF NextCursor
      <4>2. \A c \in journal : c.sequence \in Nat
        BY DEF CatalogInv, TypeOK, Change
      <4>3. at <= sequence
        BY <1>2, <2>2 DEF CatalogInv, Bounded
      <4> QED BY <2>2, <3>1, <3>2, <4>1, <4>2, <4>3
    <3>5. CASE page' # {}
      <4>1. next' = Max(Sequences(page'))
        BY <3>1, <3>5 DEF NextCursor
      <4>2. /\ next' \in Nat /\ next' <= sequence
            /\ \E c \in page' : c.sequence = next'
        BY <1>2, <3>2, <3>5, <4>1, LastSequence
      <4>3. PICK m \in page' : m.sequence = next'
        BY <4>2
      <4>4. next' >= at
        BY <3>1, <3>3, <4>2, <4>3 DEF Ahead
      <4>5. ASSUME NEW c \in journal, c.sequence > at, c.sequence <= next'
            PROVE  c \in page'
        BY <1>2, <3>1, <4>3, <4>5, PageIsPrefix DEF Ahead
      <4> QED BY <2>2, <3>1, <3>2, <3>5, <4>2, <4>4, <4>5
    <3> QED BY <3>4, <3>5
  <2> QED BY <2>1, <2>2
<1>5. TypeOK'
  <2>1. rows' \in [Kinds -> [Variants -> Values] \cup {Unread}]
    BY <1>3 DEF Blank
  <2> QED BY <1>2, <1>3, <1>4, <2>1 DEF TypeOK, server, disk
<1>6. Bounded' /\ ValidMeansComplete' /\ FinishComplete'
  BY <1>2, <1>3, <1>4 DEF CatalogInv, Bounded, ValidMeansComplete,
     FinishComplete, server, disk
<1>7. InFlight'
  <2>1. \A k \in Kinds : rows'[k] = Unread
    BY <1>3 DEF Blank
  <2> QED BY <1>3, <1>4, <2>1 DEF InFlight
<1> QED BY <1>1, <1>5, <1>6, <1>7 DEF CatalogInv

LEMMA ReadRowsOK ==
    ASSUME CatalogInv, NEW k \in Kinds, ReadRows(k)
    PROVE  CatalogInv'
<1>1. Numbered' /\ OpenAccounted' /\ DiskAccounted'
  BY QuietStep DEF ReadRows, disk
<1>2. TypeOK'
  BY DEF CatalogInv, ReadRows, TypeOK, server, disk
<1>3. Bounded' /\ ValidMeansComplete' /\ FinishComplete'
  BY DEF CatalogInv, ReadRows, Bounded, ValidMeansComplete, FinishComplete,
     server, disk
<1>4. InFlight'
  <2>1. /\ rows'[k] = db[k] /\ \A j \in Kinds \ {k} : rows'[j] = rows[j]
        /\ UNCHANGED <<server, pc, at, page, next, seen>>
    BY DEF CatalogInv, TypeOK, ReadRows
  <2> QED BY <2>1 DEF CatalogInv, InFlight, server
<1> QED BY <1>1, <1>2, <1>3, <1>4 DEF CatalogInv

LEMMA FinishOK == CatalogInv /\ Finish => CatalogInv'
<1> SUFFICES ASSUME CatalogInv, Finish PROVE CatalogInv'
  OBVIOUS
<1>1. Numbered' /\ OpenAccounted' /\ DiskAccounted'
  BY QuietStep DEF Finish
<1>2. TypeOK'
  BY DEF CatalogInv, Finish, TypeOK, server
<1>3. Bounded' /\ InFlight' /\ ValidMeansComplete' /\ FinishComplete'
  BY DEF CatalogInv, Finish, Bounded, InFlight, ValidMeansComplete,
     FinishComplete, server
<1> QED BY <1>1, <1>2, <1>3 DEF CatalogInv

LEMMA SyncNowOK == CatalogInv /\ SyncNow => CatalogInv'
<1> SUFFICES ASSUME CatalogInv, SyncNow PROVE CatalogInv'
  OBVIOUS
<1>1. Numbered' /\ OpenAccounted' /\ DiskAccounted'
  BY QuietStep DEF SyncNow, disk
<1>2. TypeOK'
  BY DEF CatalogInv, SyncNow, TypeOK, server, disk
<1>3. Bounded' /\ InFlight' /\ ValidMeansComplete' /\ FinishComplete'
  BY DEF CatalogInv, SyncNow, Bounded, InFlight, ValidMeansComplete,
     FinishComplete, server, disk
<1> QED BY <1>1, <1>2, <1>3 DEF CatalogInv

\* Failures drop the pull and keep the file.
LEMMA DropOK == CatalogInv /\ (PullFails \/ PullBlocked \/ RefusePull \/ Crash) => CatalogInv'
<1> SUFFICES ASSUME CatalogInv, PullFails \/ PullBlocked \/ RefusePull \/ Crash PROVE CatalogInv'
  OBVIOUS
<1>1. /\ pc' \in {"idle", "blocked"} /\ at' = NoCursor /\ pages' = 0 /\ page' = {}
      /\ next' = 0 /\ more' = FALSE /\ rows' = Blank /\ seen' = {}
      /\ failures' \in {failures, failures + 1}
      /\ blockedReason' \in {blockedReason, "none", "integrity", "unknown"}
      /\ UNCHANGED <<server, disk, passedOver, partial>>
  BY DEF PullFails, PullBlocked, RefusePull, Stop, Drop, Crash, AfterFailure
<1>2. Numbered' /\ OpenAccounted' /\ DiskAccounted'
  BY <1>1, QuietStep DEF disk
<1>3. TypeOK'
  <2>1. rows' \in [Kinds -> [Variants -> Values] \cup {Unread}]
    BY <1>1 DEF Blank
  <2>2. Cardinality(page') <= PageSize
    BY <1>1, FS_EmptySet, CatalogAssumption
  <2>3. page' \subseteq seen' /\ seen' \subseteq journal'
    BY <1>1 DEF server
  <2>4. /\ pc' \in {"idle", "pull", "reading", "finish", "blocked"}
        /\ at' \in Nat \cup {NoCursor} /\ pages' \in Nat /\ next' \in Nat
        /\ more' \in BOOLEAN
    BY <1>1
  <2>5. failures' \in Nat /\ blockedReason' \in {"none", "integrity", "unknown"}
    BY <1>1 DEF CatalogInv, TypeOK
  <2> QED BY <1>1, <2>1, <2>2, <2>3, <2>4, <2>5 DEF CatalogInv, TypeOK, server, disk
<1>4. Bounded' /\ InFlight' /\ ValidMeansComplete' /\ FinishComplete'
  BY <1>1 DEF CatalogInv, Bounded, InFlight, ValidMeansComplete,
     FinishComplete, TypeOK, server, disk
<1> QED BY <1>2, <1>3, <1>4 DEF CatalogInv

\* When a page is applied, a change the till had not been told of stays untold
\* unless the page holds it, and so does a change the pull's first statement
\* did not see.
LEMMA StaysUntold ==
    ASSUME CatalogInv, ApplyPull, NEW c \in journal,
           \/ c \notin seen
           \/ /\ at # NoCursor /\ c \notin page
              /\ c.sequence > cursor \/ c \in passedOver
    PROVE  c.sequence > next \/ c \in passedOver'
<1>1. /\ pc = "reading" /\ at = cursor /\ next \in Nat /\ c.sequence \in Nat
      /\ at \in Nat \cup {NoCursor}
  BY DEF CatalogInv, Bounded, TypeOK, ApplyPull, Change
<1>2. passedOver \subseteq passedOver'
  BY DEF ApplyPull
<1>3. c \notin seen /\ c.sequence <= next => c \in passedOver'
  BY DEF ApplyPull
<1>4. CASE c \notin seen
  BY <1>1, <1>3, <1>4
<1>5. CASE c \in seen
  <2>1. at # NoCursor /\ c \notin page /\ (c.sequence > at \/ c \in passedOver)
    BY <1>1, <1>5
  <2>2. c.sequence > at => c.sequence > next
    BY <1>1, <1>5, <2>1 DEF CatalogInv, InFlight
  <2> QED BY <1>2, <2>1, <2>2
<1> QED BY <1>4, <1>5

LEMMA ApplyPullOK == CatalogInv /\ ApplyPull => CatalogInv'
<1> SUFFICES ASSUME CatalogInv, ApplyPull PROVE CatalogInv'
  OBVIOUS
<1>1. /\ pc = "reading" /\ at = cursor /\ at \in Nat \cup {NoCursor}
      /\ next \in Nat /\ sequence \in Nat /\ next <= sequence
  BY DEF CatalogInv, Bounded, TypeOK, ApplyPull
<1>2. /\ cursor' = next /\ at' = next /\ page' = {} /\ next' = 0
      /\ rows' = Blank /\ seen' = {} /\ more' = FALSE /\ partial' = more
      /\ validUntil' = ~more /\ pages' = pages + 1
      /\ UNCHANGED <<server, failures>>
      /\ products' = [v \in Variants |-> ProductAfter(v)]
      /\ stock' = [v \in Variants |-> StockAfter(v)]
      /\ pc' \in {"finish", "blocked", "pull"} /\ (pc' = "finish" => ~more)
      /\ blockedReason' \in {blockedReason, "integrity"}
  BY DEF ApplyPull, ValidAfter
<1>3. ~(at # NoCursor /\ page = {}) =>
         \A k \in Kinds : rows[k] \in [Variants -> Values]
  BY DEF CatalogInv, TypeOK, ApplyPull, Answered
<1>4. at # NoCursor /\ page = {} =>
         \A v \in Variants : ProductAfter(v) = products[v] /\ StockAfter(v) = stock[v]
  BY DEF ProductAfter, StockAfter, ResetCatalog, Requested
<1>5. TypeOK'
  <2>1. ASSUME NEW v \in Variants
        PROVE  /\ ProductAfter(v) \in [variant : Int, pricing : Int] \cup {Nothing}
               /\ StockAfter(v) \in Quantities
    <3>1. products[v] \in [variant : Int, pricing : Int] \cup {Nothing}
          /\ stock[v] \in Quantities
      BY DEF CatalogInv, TypeOK
    <3>2. CASE at # NoCursor /\ page = {}
      BY <1>4, <3>1, <3>2
    <3>3. CASE ~(at # NoCursor /\ page = {})
      <4>1. /\ rows["variant"][v] \in Values /\ rows["pricing"][v] \in Values
            /\ ResetCatalog \/ v \in Requested => rows["inventory"][v] \in Quantities
        BY <1>3, <3>3 DEF Kinds, ApplyPull, StockIsValid
      <4> QED BY <3>1, <4>1 DEF ProductAfter, StockAfter, Values
    <3> QED BY <3>2, <3>3
  <2>2. Cardinality(page') <= PageSize
    BY <1>2, FS_EmptySet, CatalogAssumption
  <2>3. rows' \in [Kinds -> [Variants -> Values] \cup {Unread}]
    BY <1>2 DEF Blank
  <2>4. passedOver' \subseteq Change
    BY DEF CatalogInv, TypeOK, ApplyPull
  <2>5. /\ products' \in [Variants -> [variant : Int, pricing : Int] \cup {Nothing}]
        /\ stock' \in [Variants -> Quantities]
    BY <1>2, <2>1
  <2>6. /\ cursor' \in Nat \cup {NoCursor} /\ at' \in Nat \cup {NoCursor}
        /\ pages' \in Nat /\ next' \in Nat
    BY <1>1, <1>2 DEF CatalogInv, TypeOK
  <2>7. validUntil' \in BOOLEAN /\ partial' \in BOOLEAN /\ more' \in BOOLEAN
    BY <1>2 DEF CatalogInv, TypeOK
  <2>8. page' \subseteq seen' /\ seen' \subseteq journal'
    BY <1>2 DEF server
  <2>9. /\ db' \in [Kinds -> [Variants -> Values]]
        /\ sequence' \in Nat /\ journal' \subseteq Change
        /\ tx' \in [Writers -> SUBSET Change] /\ scheduled' \subseteq Variants
        /\ failures' \in Nat /\ effects' \in Nat
    BY <1>2 DEF CatalogInv, TypeOK, server
  <2>10. /\ pc' \in {"idle", "pull", "reading", "finish", "blocked"}
         /\ blockedReason' \in {"none", "integrity", "unknown"}
    BY <1>2 DEF CatalogInv, TypeOK
  <2> QED BY <2>2, <2>3, <2>4, <2>5, <2>6, <2>7, <2>8, <2>9, <2>10 DEF TypeOK
<1>6. Numbered' /\ Bounded'
  <2>1. Numbered'
    BY <1>2 DEF CatalogInv, Numbered, server
  <2>2. Bounded'
    BY <1>1, <1>2 DEF Bounded, server
  <2> QED BY <2>1, <2>2
<1>7. InFlight' /\ ValidMeansComplete' /\ FinishComplete'
  <2>1. pc' # "reading"
    BY <1>2
  <2>2. FinishComplete'
    BY <1>2 DEF FinishComplete
  <2>3. ValidMeansComplete'
    BY <1>2, Zenon DEF ValidMeansComplete
  <2> QED BY <2>1, <2>2, <2>3 DEF InFlight
<1>8. OpenAccounted'
  <2> SUFFICES ASSUME NEW w \in Writers, NEW c \in tx[w], c.sequence <= next
               PROVE  c \in passedOver'
    BY <1>2 DEF OpenAccounted, server
  <2>1. c \notin seen
    BY DEF CatalogInv, TypeOK, Numbered
  <2> QED BY <2>1 DEF ApplyPull
<1>9. DiskAccounted'
  <2> SUFFICES ASSUME NEW v \in Variants
               PROVE  /\ ProductAfter(v) # Nothing =>
                           /\ ProductAfter(v).pricing # db["pricing"][v] =>
                                PriceExcused(v)'
                           /\ ProductAfter(v).variant # db["variant"][v] =>
                                Untold({"variant"}, v)' \/ PriceExcused(v)'
                      /\ ProductAfter(v) = Nothing /\ Listed(v) # Nothing =>
                           Untold({"variant"}, v)' \/ PriceExcused(v)'
                      /\ StockAfter(v) # db["inventory"][v] =>
                           Untold({"inventory"}, v)'
    BY <1>2 DEF DiskAccounted, Listed, StaleStock, server
  \* A table read after the journal differs only by changes not seen there.
  <2>1. ASSUME NEW k \in Kinds, rows[k] # Unread, rows[k][v] # db[k][v]
        PROVE  Untold({k}, v)' \/ (k = "pricing" /\ v \in scheduled)
    <3>1. CASE k = "pricing" /\ v \in scheduled
      BY <3>1
    <3>2. CASE ~(k = "pricing" /\ v \in scheduled)
      <4>1. PICK c \in journal \ seen : Concerns(c, {k}, v)
        BY <1>1, <2>1, <3>2 DEF CatalogInv, InFlight
      <4>2. c.sequence > next \/ c \in passedOver'
        BY StaysUntold
      <4> QED BY <1>2, <4>1, <4>2 DEF Untold, Concerns, server
    <3> QED BY <3>1, <3>2
  \* What was untold stays so unless the page asks for it.
  <2>2. ASSUME NEW k \in Kinds, at # NoCursor, Untold({k}, v),
               ~\E c \in page : Concerns(c, {k}, v)
        PROVE  Untold({k}, v)'
    <3>1. PICK c \in journal : /\ Concerns(c, {k}, v)
                               /\ c.sequence > cursor \/ c \in passedOver
      BY <2>2 DEF Untold
    <3>2. c.sequence > next \/ c \in passedOver'
      BY <2>2, <3>1, StaysUntold
    <3> QED BY <1>2, <3>1, <3>2 DEF Untold, Concerns, server
  <2>3. \A k \in Kinds : ~ResetCatalog /\ (k = "pricing" \/ v \notin Requested)
                            => ~\E c \in page : Concerns(c, {k}, v)
    BY DEF ResetCatalog, Requested, Concerns
  <2>4. ~ResetCatalog => at # NoCursor
    BY DEF ResetCatalog
  <2>5. ~ResetCatalog /\ PriceExcused(v) => PriceExcused(v)'
    BY <1>2, <2>2, <2>3, <2>4 DEF PriceExcused, Kinds, server
  <2>6. ResetCatalog \/ v \in Requested => \A k \in Kinds : rows[k] # Unread
    BY DEF ApplyPull, Answered, ResetCatalog, Requested
  <2>7. ResetCatalog \/ v \in Requested =>
          /\ rows["pricing"][v] # db["pricing"][v] => PriceExcused(v)'
          /\ rows["variant"][v] # db["variant"][v] => Untold({"variant"}, v)'
          /\ rows["inventory"][v] # db["inventory"][v] => Untold({"inventory"}, v)'
    BY <1>2, <2>1, <2>6 DEF Kinds, PriceExcused, server
  <2>8. at # NoCursor =>
          /\ products[v] # Nothing =>
               /\ products[v].pricing # db["pricing"][v] => PriceExcused(v)
               /\ products[v].variant # db["variant"][v] =>
                     Untold({"variant"}, v) \/ PriceExcused(v)
          /\ products[v] = Nothing /\ Listed(v) # Nothing =>
               Untold({"variant"}, v) \/ PriceExcused(v)
          /\ stock[v] # db["inventory"][v] => Untold({"inventory"}, v)
    BY <1>1 DEF CatalogInv, DiskAccounted, StaleStock
  <2>9. CASE ~ResetCatalog /\ v \notin Requested
    <3>1. ProductAfter(v) = products[v] /\ StockAfter(v) = stock[v]
      BY <2>9 DEF ProductAfter, StockAfter
    <3>2. /\ Untold({"variant"}, v) => Untold({"variant"}, v)'
          /\ Untold({"inventory"}, v) => Untold({"inventory"}, v)'
      BY <2>2, <2>3, <2>4, <2>9 DEF Kinds
    <3> QED BY <2>4, <2>5, <2>8, <2>9, <3>1, <3>2
  <2> DEFINE quoted == rows["pricing"][v] # Nothing
             active == rows["variant"][v] # Nothing
             row == [variant |-> rows["variant"][v], pricing |-> rows["pricing"][v]]
  <2>10. CASE (ResetCatalog \/ v \in Requested) /\ active /\ quoted
    <3>1. ProductAfter(v) = row /\ StockAfter(v) = rows["inventory"][v]
      BY <2>10 DEF ProductAfter, StockAfter
    <3>2. Listed(v) = Nothing \/ Listed(v) = [variant |-> db["variant"][v],
                                              pricing |-> db["pricing"][v]]
      BY DEF Listed
    <3> QED BY <2>7, <2>10, <3>1, <3>2
  <2>11. CASE \/ ResetCatalog /\ ~(active /\ quoted)
              \/ ~ResetCatalog /\ v \in Requested /\ ~active
    <3>1. ProductAfter(v) = Nothing /\ StockAfter(v) = rows["inventory"][v]
      BY <2>11 DEF ProductAfter, StockAfter
    <3>2. Listed(v) # Nothing =>
             db["variant"][v] # Nothing /\ db["pricing"][v] # Nothing
      BY DEF Listed
    <3> QED BY <2>7, <2>11, <3>1, <3>2
  <2>12. CASE ~ResetCatalog /\ v \in Requested /\ active /\ ~quoted
    <3>1. ProductAfter(v) = products[v] /\ StockAfter(v) = rows["inventory"][v]
      BY <2>12 DEF ProductAfter, StockAfter
    <3>2. products[v] # Nothing => products[v].pricing # Nothing
      BY CatalogAssumption DEF CatalogInv, TypeOK
    <3>3. products[v] # Nothing => PriceExcused(v)'
      BY <2>4, <2>5, <2>7, <2>8, <2>12, <3>2
    <3>4. Listed(v) # Nothing => PriceExcused(v)'
      BY <2>7, <2>12 DEF Listed
    <3> QED BY <2>7, <2>12, <3>1, <3>3, <3>4
  <2> QED BY <2>9, <2>10, <2>11, <2>12
<1> QED BY <1>5, <1>6, <1>7, <1>8, <1>9 DEF CatalogInv

LEMMA StepOK == CatalogInv /\ [Next]_vars => CatalogInv'
<1> SUFFICES ASSUME CatalogInv, [Next]_vars PROVE CatalogInv'
  OBVIOUS
<1>1. CASE Engine
  BY <1>1, StartOK, ReadJournalOK, ReadRowsOK, ApplyPullOK, DropOK, FinishOK DEF Engine
<1>2. CASE Database
  BY <1>2, WriteOK, CommitOK, RollbackOK, PriceTakesEffectOK DEF Database
<1>3. CASE SyncNow \/ PullFails \/ PullBlocked \/ Crash
  BY <1>3, SyncNowOK, DropOK
<1>4. CASE UNCHANGED vars
  <2>1. Numbered' /\ OpenAccounted' /\ DiskAccounted'
    BY <1>4, QuietStep DEF vars, disk
  <2>2. TypeOK' /\ Bounded'
    BY <1>4 DEF CatalogInv, TypeOK, Bounded, vars, server, disk, engine
  <2>3. InFlight' /\ ValidMeansComplete' /\ FinishComplete'
    BY <1>4 DEF CatalogInv, InFlight, ValidMeansComplete, FinishComplete, vars,
       server, disk, engine
  <2> QED BY <2>1, <2>2, <2>3 DEF CatalogInv
<1> QED BY <1>1, <1>2, <1>3, <1>4 DEF Next

\* CatalogInv holds in every reachable state, for any variants, writers, page
\* size and failures of the pull loop.
THEOREM CatalogInvariance == Spec => []CatalogInv
<1>1. Init => CatalogInv
  BY InitOK
<1>2. CatalogInv /\ [Next]_vars => CatalogInv'
  BY StepOK
<1> QED BY <1>1, <1>2, PTL DEF Spec

\* Every value has its type, and a page never exceeds the take of the query.
THEOREM CatalogTypeCorrect == Spec => []TypeOK
<1>1. CatalogInv => TypeOK
  BY DEF CatalogInv
<1> QED BY <1>1, CatalogInvariance, PTL

\* sync:apply_pull and GET /sync/pull lose no change whose transaction had
\* committed when the page was read.
THEOREM DifferencesAccounted == Spec => []DifferenceAccounted
<1>1. CatalogInv => DifferenceAccounted
  <2> SUFFICES ASSUME CatalogInv, cursor # NoCursor, NEW v \in Variants
               PROVE  /\ StaleProduct(v) =>
                           \/ StillToCome({"variant", "pricing"}, v)
                           \/ WasPassedOver({"variant", "pricing"}, v)
                           \/ v \in scheduled
                      /\ StaleStock(v) => \/ StillToCome({"inventory"}, v)
                                          \/ WasPassedOver({"inventory"}, v)
    BY DEF DifferenceAccounted
  <2>1. /\ Untold({"inventory"}, v) => \/ StillToCome({"inventory"}, v)
                                       \/ WasPassedOver({"inventory"}, v)
        /\ Untold({"variant"}, v) \/ Untold({"pricing"}, v) =>
              \/ StillToCome({"variant", "pricing"}, v)
              \/ WasPassedOver({"variant", "pricing"}, v)
    BY DEF Untold, StillToCome, WasPassedOver, Ahead, Concerns
  <2>2. StaleProduct(v) => Untold({"variant"}, v) \/ PriceExcused(v)
    <3> SUFFICES ASSUME StaleProduct(v)
                 PROVE  Untold({"variant"}, v) \/ PriceExcused(v)
      OBVIOUS
    <3>1. CASE products[v] = Nothing
      BY <3>1 DEF CatalogInv, DiskAccounted, StaleProduct
    <3>2. CASE products[v] # Nothing
      <4>1. /\ products[v] = [variant |-> products[v].variant,
                              pricing |-> products[v].pricing]
            /\ products[v].variant # Nothing /\ products[v].pricing # Nothing
        BY <3>2, CatalogAssumption DEF CatalogInv, TypeOK
      <4>2. \/ products[v].variant # db["variant"][v]
            \/ products[v].pricing # db["pricing"][v]
        BY <4>1 DEF StaleProduct, Listed
      <4> QED BY <3>2, <4>2 DEF CatalogInv, DiskAccounted
    <3> QED BY <3>1, <3>2
  <2>3. StaleStock(v) => Untold({"inventory"}, v)
    BY DEF CatalogInv, DiskAccounted
  <2> QED BY <2>1, <2>2, <2>3 DEF PriceExcused
<1> QED BY <1>1, CatalogInvariance, PTL

\* catalog_valid_until is set only after the last page of a pull.
THEOREM ValidIsComplete == Spec => []ValidMeansComplete
<1>1. CatalogInv => ValidMeansComplete
  BY DEF CatalogInv
<1> QED BY <1>1, CatalogInvariance, PTL

\* Both together: the cursor skips nothing and validity is not claimed early.
THEOREM CatalogIsHonest == Spec => []CatalogHonest
<1>1. DifferenceAccounted /\ ValidMeansComplete => CatalogHonest
  BY DEF CatalogHonest
<1> QED BY <1>1, DifferencesAccounted, ValidIsComplete, PTL
=============================================================================
