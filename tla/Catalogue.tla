------------------------------ MODULE Catalogue ------------------------------
(***************************************************************************)
(* The reference data behind the products: unit conversions, tables with a    *)
(* key of their own (brands, units, customers, assortment rows), the type of  *)
(* a variant, and offer suggestions.  Each request reads first and writes     *)
(* later, in another statement, and the unique indexes of the schema are what *)
(* two requests at once meet.  One behaviour follows one desk.                *)
(***************************************************************************)
EXTENDS Naturals, Sequences, FiniteSets

CONSTANTS
    CatalogueSlots,  \* bound: requests under way
    RowKeys,         \* names, codes, phones, or branch and variant
    EntityIds,       \* bound: rows of a table
    MaxConversions,  \* bound: versions of the one conversion followed
    MaxOffers        \* bound: suggestions for the one stock row followed

ASSUME RowKeysAssumption == "gone" \notin RowKeys

VARIABLES
    desk,         \* the part followed
    conversions,  \* rows of UomConversion for one pair of units, in order of creation
    entities,     \* the table: id to key and flag, or Gone
    itemType,     \* the variant's type
    sold,         \* the variant has transaction history
    offers,       \* suggestions for one stock row, in order of creation
    audits,       \* audit rows: the offer and the verdict
    task,         \* requests: op, step, what they read, what they ask
    overtaken     \* history: item type changes whose check came before a sale

catVars == <<desk, conversions, entities, itemType, sold, offers, audits, task, overtaken>>

Gone == [key |-> "gone", on |-> FALSE]
NoTask == [op |-> "none", seen |-> 0, asks |-> "none"]

CatInit ==
    /\ desk \in {"conversions", "brand", "unit", "customer", "assortment", "variant", "offers"}
    /\ conversions = <<>> /\ entities = [i \in EntityIds |-> Gone]
    /\ itemType = "stock" /\ sold = FALSE /\ offers = <<>> /\ audits = {}
    /\ task = [s \in CatalogueSlots |-> NoTask] /\ overtaken = {}

Take(s, op, seen, asks) ==
    /\ task[s] = NoTask
    /\ task' = [task EXCEPT ![s] = [op |-> op, seen |-> seen, asks |-> asks]]
Drop(s) == task' = [task EXCEPT ![s] = NoTask]

-----------------------------------------------------------------------------
(* Unit conversions.                                                         *)

\* createConversion: version 1, which the index allows once.
CreateConversion ==
    /\ desk = "conversions" /\ conversions = <<>>
    /\ conversions' = <<[version |-> 1, status |-> "active", by |-> 0]>>
    /\ UNCHANGED <<desk, entities, itemType, sold, offers, audits, task, overtaken>>

\* supersedeConversion reads the row, outside the transaction.
FindConversion(s, i) ==
    /\ desk = "conversions" /\ conversions[i].status = "active"
    /\ Take(s, "supersede", i, "none")
    /\ UNCHANGED <<desk, conversions, entities, itemType, sold, offers, audits, overtaken>>

Superseding(s, version) ==
    /\ task[s].op = "supersede" /\ Len(conversions) < MaxConversions
    /\ conversions' =
          IF \E i \in DOMAIN conversions : conversions[i].version = version
          THEN conversions
          ELSE Append([conversions EXCEPT ![task[s].seen].status = "superseded",
                                          ![task[s].seen].by = Len(conversions) + 1],
                      [version |-> version, status |-> "active", by |-> 0])
    /\ Drop(s)
    /\ UNCHANGED <<desk, entities, itemType, sold, offers, audits, overtaken>>

\* A mutant: the new version follows the latest row, not the one that was read.
SupersedeLatest(s) == Superseding(s, Len(conversions) + 1)

\* The next version of the row that was read; the index refuses one that is there.
SupersedeConversion(s) == Superseding(s, conversions[task[s].seen].version + 1)

-----------------------------------------------------------------------------
(* Tables with a unique key.                                                 *)

Rows == {i \in EntityIds : entities[i] # Gone}
Holder(k) == {i \in Rows : entities[i].key = k}
Table == desk \in {"brand", "unit", "customer", "assortment"}
Updated(i, row) ==
    /\ entities' = [entities EXCEPT ![i] = row]
    /\ UNCHANGED <<desk, conversions, itemType, sold, offers, audits, overtaken>>

\* findByName, findByCode, findOne: is the key taken?  Customers do not ask.
FindKey(s, k) ==
    /\ Table
    /\ \/ desk \in {"brand", "unit"} /\ Holder(k) = {} /\ Take(s, "create", 0, k)
       \/ desk = "customer" /\ Take(s, "create", 0, k)
       \/ desk = "assortment" /\ Holder(k) = {} /\ Take(s, "create", 0, k)
       \/ desk = "assortment" /\ \E i \in Holder(k) : Take(s, "flag", i, k)
    /\ UNCHANGED <<desk, conversions, entities, itemType, sold, offers, audits, overtaken>>

\* save: the insert, which the index refuses when the key is there by now.
Save(s) ==
    /\ task[s].op = "create" /\ Drop(s)
    /\ IF Holder(task[s].asks) # {} THEN UNCHANGED entities
       ELSE \E i \in EntityIds \ Rows :
                entities' = [entities EXCEPT ![i] = [key |-> task[s].asks, on |-> TRUE]]
    /\ UNCHANGED <<desk, conversions, itemType, sold, offers, audits, overtaken>>

\* save on an assortment row that was found: the flags, on the row's id.
SaveFlags(s) ==
    /\ task[s].op = "flag" /\ Drop(s)
    /\ \E b \in BOOLEAN : Updated(task[s].seen, [entities[task[s].seen] EXCEPT !.on = b])

\* update and archive read the row, and a brand looks for the name it asks for.
FindRow(s, i, k) ==
    /\ Table /\ desk # "assortment" /\ i \in Rows
    /\ desk = "brand" => Holder(k) \subseteq {i}
    /\ desk = "unit" => k = entities[i].key
    /\ Take(s, "update", i, k)
    /\ UNCHANGED <<desk, conversions, entities, itemType, sold, offers, audits, overtaken>>

\* update where id: a row that is gone is not found, a key that is taken refused.
Update(s) ==
    LET i == task[s].seen
    IN  /\ task[s].op = "update" /\ Drop(s)
        /\ \E b \in BOOLEAN :
              Updated(i, IF i \in Rows /\ Holder(task[s].asks) \subseteq {i}
                         THEN [key |-> task[s].asks, on |-> b] ELSE entities[i])

\* Only customers are ever deleted.
RemoveRow(i) ==
    /\ desk = "customer" /\ i \in Rows /\ Updated(i, Gone) /\ UNCHANGED task

-----------------------------------------------------------------------------
(* The type of a variant.                                                    *)

\* updateVariant: another type is refused once there is history.
CheckHistory(s, type) ==
    /\ desk = "variant" /\ type # itemType /\ ~sold
    /\ Take(s, "retype", 0, type)
    /\ UNCHANGED <<desk, conversions, entities, itemType, sold, offers, audits, overtaken>>

UpdateVariant(s) ==
    /\ task[s].op = "retype" /\ Drop(s)
    /\ itemType' = task[s].asks
    /\ UNCHANGED <<desk, conversions, entities, sold, offers, audits, overtaken>>

Transact ==
    /\ desk = "variant" /\ ~sold /\ sold' = TRUE
    /\ overtaken' = {task[s].asks : s \in {u \in CatalogueSlots : task[u].op = "retype"}}
                    \cup {itemType}
    /\ UNCHANGED <<desk, conversions, entities, itemType, offers, audits, task>>

-----------------------------------------------------------------------------
(* Offer suggestions.                                                        *)

Pending == {i \in DOMAIN offers : offers[i] = "pending"}

\* suggestions reads what is pending, then quotes the price.
FindPending(s) ==
    /\ desk = "offers" /\ Pending = {} /\ Take(s, "suggest", 0, "none")
    /\ UNCHANGED <<desk, conversions, entities, itemType, sold, offers, audits, overtaken>>

\* The lock is taken and the question asked again before the row is made.
Suggest(s) ==
    /\ task[s].op = "suggest" /\ Len(offers) < MaxOffers /\ Drop(s)
    /\ offers' = IF Pending # {} THEN offers ELSE Append(offers, "pending")
    /\ UNCHANGED <<desk, conversions, entities, itemType, sold, audits, overtaken>>

\* review finds the suggestion; whether it is pending is asked by the update.
FindOffer(s, i, verdict) ==
    /\ desk = "offers" /\ Take(s, "review", i, verdict)
    /\ UNCHANGED <<desk, conversions, entities, itemType, sold, offers, audits, overtaken>>

Review(s) ==
    /\ task[s].op = "review" /\ Drop(s)
    /\ \/ /\ offers[task[s].seen] = "pending"
          /\ offers' = [offers EXCEPT ![task[s].seen] = task[s].asks]
          /\ audits' = audits \cup {<<task[s].seen, task[s].asks>>}
       \/ /\ offers[task[s].seen] # "pending" /\ UNCHANGED <<offers, audits>>
    /\ UNCHANGED <<desk, conversions, entities, itemType, sold, overtaken>>

CatNext ==
    \/ CreateConversion \/ Transact
    \/ \E s \in CatalogueSlots :
          \/ SupersedeConversion(s) \/ Save(s) \/ SaveFlags(s) \/ Update(s)
          \/ UpdateVariant(s) \/ FindPending(s) \/ Suggest(s) \/ Review(s)
          \/ \E i \in DOMAIN conversions : FindConversion(s, i)
          \/ \E k \in RowKeys : FindKey(s, k) \/ \E i \in EntityIds : FindRow(s, i, k)
          \/ \E t \in {"stock", "service"} : CheckHistory(s, t)
          \/ \E i \in DOMAIN offers, v \in {"approved", "rejected"} : FindOffer(s, i, v)
    \/ \E i \in EntityIds : RemoveRow(i)

-----------------------------------------------------------------------------
\* The versions are 1 to n and each but the last points to the one that replaced it.
ConversionChain ==
    \A i \in DOMAIN conversions :
        /\ conversions[i].version = i
        /\ conversions[i].status = (IF i = Len(conversions) THEN "active" ELSE "superseded")
        /\ conversions[i].by = (IF i = Len(conversions) THEN 0 ELSE i + 1)

\* One row per key, and one suggestion pending; a verdict has its audit, and only it.
RowsUnique ==
    /\ \A i, j \in Rows : entities[i].key = entities[j].key => i = j
    /\ Cardinality(Pending) <= 1
    /\ \A i \in DOMAIN offers :
          {a[2] : a \in {b \in audits : b[1] = i}} = {offers[i]} \ {"pending"}

(* However requests interleave, a conversion has one factor in force and an   *)
(* unbroken history, a key one row, a suggestion one audited verdict, and a    *)
(* variant with history keeps its type, but for a change that was checked      *)
(* before the first sale and written after it.                                *)
CatalogueSound ==
    /\ ConversionChain /\ RowsUnique
    /\ sold => itemType \in overtaken
=============================================================================
