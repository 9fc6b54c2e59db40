--------------------------- MODULE TillSyncProofs ---------------------------
(***************************************************************************)
(* TillInv is an inductive invariant of TillSync, for any number of sales, *)
(* variants, crashes, failed writes and resets.  From it follow the safety *)
(* properties of the till and that it implements SaleLedger.               *)
(***************************************************************************)
EXTENDS TillSync, TLAPS

USE DEF diskVars, tillVars, engineVars, wireVars, serverVars, budgetVars

(* Each part of the invariant depends on few variables: a step that leaves  *)
(* them alone preserves it.                                                 *)
LEMMA TypeFrame ==
    ASSUME TypeOK
    PROVE  /\ UNCHANGED <<syncing, up, signedIn, kick, timer, running, forced,
                          revoked>> => FlagType'
           /\ UNCHANGED <<box, seq, tried, tseq, lstock, ctx>> => DiskType'
           /\ UNCHANGED <<reset, pc, todo, cur, err, snap, fin>> => EngineType'
           /\ UNCHANGED <<net, reply, txs>> => WireType'
           /\ UNCHANGED <<inv, warned, last, stock, moved>> => ServerType'
           /\ UNCHANGED budgetVars => BudgetType'
<1>1. UNCHANGED <<syncing, up, signedIn, kick, timer, running, forced,
                  revoked>> => FlagType'
  BY DEF TypeOK, FlagType
<1>2. UNCHANGED <<box, seq, tried, tseq, lstock, ctx>> => DiskType'
  BY DEF TypeOK, DiskType
<1>3. UNCHANGED <<reset, pc, todo, cur, err, snap, fin>> => EngineType'
  BY DEF TypeOK, EngineType
<1>4. UNCHANGED <<net, reply, txs>> => WireType'
  BY DEF TypeOK, WireType
<1>5. UNCHANGED <<inv, warned, last, stock, moved>> => ServerType'
  BY DEF TypeOK, ServerType
<1>6. UNCHANGED budgetVars => BudgetType'
  BY DEF TypeOK, BudgetType
<1> QED  BY <1>1, <1>2, <1>3, <1>4, <1>5, <1>6

LEMMA Frame ==
    ASSUME TillInv
    PROVE  /\ UNCHANGED <<box, seq, inv>> => RowsInv'
           /\ UNCHANGED <<box, seq, tseq>> => SequenceInv'
           /\ UNCHANGED <<box, pc, todo, cur, up>> => EngineInv'
           /\ UNCHANGED <<box, net, txs, pc, cur, reply, inv>> => WireInv'
           /\ UNCHANGED <<txs, inv>> => TxInv'
           /\ UNCHANGED <<box, reset, up>> => ResetInv'
           /\ UNCHANGED reply => NoConflict'
<1>1. UNCHANGED <<box, seq, inv>> => RowsInv'
  BY DEF TillInv, RowsInv
<1>2. UNCHANGED <<box, seq, tseq>> => SequenceInv'
  BY DEF TillInv, SequenceInv, Sold
<1>3. UNCHANGED <<box, pc, todo, cur, up>> => EngineInv'
  BY DEF TillInv, EngineInv
<1>4. UNCHANGED <<box, net, txs, pc, cur, reply, inv>> => WireInv'
  BY DEF TillInv, WireInv, Sold
<1>5. UNCHANGED <<txs, inv>> => TxInv'
  BY DEF TillInv, TxInv
<1>6. UNCHANGED <<box, reset, up>> => ResetInv'
  BY DEF TillInv, ResetInv, Unresolved
<1>7. UNCHANGED reply => NoConflict'
  BY DEF TillInv, NoConflict
<1> QED  BY <1>1, <1>2, <1>3, <1>4, <1>5, <1>6, <1>7

-----------------------------------------------------------------------------
(* Initial states                                                           *)

LEMMA InitInv == Init => TillInv
<1> SUFFICES ASSUME Init PROVE TillInv
  OBVIOUS
<1>1. TypeOK
  <2>1. FlagType
    BY DEF Init, FlagType
  <2>2. DiskType /\ ServerType
    BY StockAssumption DEF Init, DiskType, ServerType, Rows
  <2>3. EngineType
    BY DEF Init, EngineType, Steps, Errors, NoStock
  <2>4. WireType
    BY DEF Init, WireType, Replies
  <2>5. BudgetType
    BY BoundAssumption DEF Init, BudgetType
  <2> QED  BY <2>1, <2>2, <2>3, <2>4, <2>5 DEF TypeOK
<1>2. RowsInv /\ SequenceInv
  BY DEF Init, RowsInv, SequenceInv, Sold, Sent
<1>3. EngineInv /\ WireInv /\ TxInv /\ ResetInv /\ NoConflict
  BY DEF Init, EngineInv, WireInv, TxInv, ResetInv, NoConflict
<1> QED  BY <1>1, <1>2, <1>3 DEF TillInv

-----------------------------------------------------------------------------
(* The cashier                                                              *)

LEMMA SaleInv ==
    ASSUME TillInv, NEW s \in Sales, Sale(s)
    PROVE  TillInv'
<1> USE DEF Sale
<1>0. TypeOK /\ DiskType
  BY DEF TillInv, TypeOK
<1>1. NextSequence \in Nat /\ NextSequence > tseq
  BY <1>0 DEF NextSequence, Larger, DiskType, NoContext
<1>2. TypeOK'
  <2>1. lstock' \in [Variants -> Nat]
    BY <1>0, CartAssumption DEF DiskType, LocalStockCovers
  <2>2. DiskType'
    BY <1>0, <1>1, <2>1 DEF DiskType, Rows, Unsent
  <2>3. FlagType'
    BY <1>0 DEF TypeOK, FlagType
  <2> QED  BY <1>0, <2>2, <2>3, TypeFrame DEF TypeOK
<1>3. RowsInv'
  BY <1>0, <1>1 DEF TillInv, RowsInv, DiskType, Sent
<1>4. SequenceInv'
  <2>1. Sold' = Sold \cup {s} /\ s \notin Sold
    BY <1>0 DEF Sold, DiskType
  <2>2. \A r \in Sold : /\ seq'[r] = seq[r] /\ seq[r] \in Nat
                        /\ seq[r] <= tseq /\ seq[r] >= 1
    BY <1>0, <2>1 DEF TillInv, SequenceInv, DiskType, Sold
  <2>3. seq'[s] = NextSequence /\ tseq' = NextSequence /\ tseq \in Nat
    BY <1>0 DEF DiskType
  <2>4. \A r \in Sold' : seq'[r] >= 1 /\ seq'[r] <= tseq'
    BY <1>1, <2>1, <2>2, <2>3
  <2>5. \A r, q \in Sold' : seq'[r] = seq'[q] => r = q
    BY <1>1, <2>1, <2>2, <2>3 DEF TillInv, SequenceInv
  <2> QED  BY <2>4, <2>5 DEF SequenceInv
<1>5. EngineInv'
  BY <1>0 DEF TillInv, EngineInv, DiskType
<1>6. WireInv'
  BY <1>0 DEF TillInv, WireInv, DiskType, Sold
<1>7. ResetInv'
  BY DEF TillInv, ResetInv, MutationAllowed
<1> QED  BY <1>2, <1>3, <1>4, <1>5, <1>6, <1>7, Frame DEF TillInv

LEMMA IssueAccountingInv ==
    ASSUME TillInv, IssueAccounting
    PROVE  TillInv'
<1> USE DEF IssueAccounting
<1>0. TypeOK /\ DiskType /\ ServerType
  BY DEF TillInv, TypeOK
<1>1. /\ tseq \in Nat /\ tseq' \in Nat /\ tseq' >= tseq
      /\ ctx' \in Nat
  BY <1>0 DEF DiskType, ServerType, Larger
<1>2. TypeOK'
  <2>1. DiskType'
    BY <1>0, <1>1 DEF DiskType
  <2>2. FlagType'
    BY <1>0 DEF TypeOK, FlagType
  <2> QED  BY <1>0, <2>1, <2>2, TypeFrame DEF TypeOK
<1>3. SequenceInv'
  <2>1. \A r \in Sold : seq[r] \in Nat
    BY <1>0 DEF DiskType, Sold
  <2> QED  BY <1>1, <2>1 DEF TillInv, SequenceInv, Sold
<1> QED  BY <1>2, <1>3, Frame DEF TillInv

\* Signing in and out, a sync asked for, connectivity coming back.
LEMMA SessionInv ==
    ASSUME TillInv, Login \/ Logout \/ PressSync \/ Online
    PROVE  TillInv'
<1> USE DEF Login, Logout, PressSync, Online
<1>0. TypeOK /\ DiskType /\ FlagType
  BY DEF TillInv, TypeOK
<1>1. FlagType'
  BY <1>0 DEF FlagType
<1>2. DiskType'
  BY <1>0 DEF DiskType
<1>3. TypeOK'
  BY <1>0, <1>1, <1>2, TypeFrame DEF TypeOK
<1> QED  BY <1>3, Frame DEF TillInv

-----------------------------------------------------------------------------
(* The sync engine                                                          *)

\* A failed write changes nothing but the count of failed writes.
LEMMA MutationFailsType ==
    ASSUME BudgetType, MutationFails,
           UNCHANGED <<crashes, refusals, resets, moves>>
    PROVE  BudgetType'
BY BoundAssumption DEF BudgetType, MutationFails

LEMMA StartInv ==
    ASSUME TillInv, TimerFires \/ SyncNow
    PROVE  TillInv'
<1> USE DEF TimerFires, SyncNow
<1>0. TypeOK /\ FlagType /\ EngineType /\ BudgetType
  BY DEF TillInv, TypeOK
<1>1. FlagType'
  BY <1>0 DEF FlagType, Start
<1>2. EngineType'
  BY <1>0 DEF EngineType, Start, Steps, Errors
<1>3. BudgetType'
  <2>1. CASE UNCHANGED faults
    BY <1>0, <2>1 DEF BudgetType
  <2>2. CASE MutationFails
    BY <1>0, <2>2, MutationFailsType
  <2> QED  BY <2>1, <2>2 DEF Start
<1>4. TypeOK'
  BY <1>0, <1>1, <1>2, <1>3, TypeFrame DEF TypeOK
<1>5. \/ UNCHANGED pc
      \/ pc = "idle" /\ pc' \in {"outbox", "finish"}
  BY DEF Start
<1>6. EngineInv'
  BY <1>5 DEF TillInv, EngineInv, Start
<1>7. WireInv'
  BY <1>5 DEF TillInv, WireInv, Start, Sold
<1> QED  BY <1>4, <1>6, <1>7, Frame DEF TillInv

LEMMA GetOutboxInv ==
    ASSUME TillInv, GetOutbox
    PROVE  TillInv'
<1> USE DEF GetOutbox
<1>0. TypeOK /\ FlagType /\ EngineType
  BY DEF TillInv, TypeOK
<1>1. todo' \subseteq Pending /\ pc' \in {"upload", "finish"} /\ cur = {}
  BY DEF TillInv, EngineInv
<1>2. FlagType'
  BY <1>0 DEF FlagType
<1>3. EngineType'
  BY <1>0, <1>1 DEF EngineType, Steps, Pending
<1>4. TypeOK'
  BY <1>0, <1>2, <1>3, TypeFrame DEF TypeOK
<1>5. EngineInv'
  BY <1>1 DEF EngineInv, Pending
<1>6. WireInv'
  BY <1>1 DEF TillInv, WireInv, Sold
<1> QED  BY <1>4, <1>5, <1>6, Frame DEF TillInv

LEMMA MarkSendingInv ==
    ASSUME TillInv, NEW s \in Sales, MarkSending(s)
    PROVE  TillInv'
<1> USE DEF MarkSending
<1>0. /\ TypeOK /\ DiskType /\ EngineType /\ WireType /\ BudgetType
      /\ cur = {} /\ reply = "none" /\ s \in todo
      /\ \A r \in net \cup txs : ~r.live
  BY DEF TillInv, TypeOK, EngineInv, WireInv, NextItem
<1>1. box[s] = "pending"
  BY <1>0 DEF TillInv, EngineInv
<1>2. CASE pc' = "await"
  <2>0. /\ MutationAllowed
        /\ box' = [box EXCEPT ![s] = "sending"]
        /\ tried' = tried \cup {s}
        /\ net' = net \cup {[sale |-> s, live |-> TRUE]}
        /\ UNCHANGED <<err, faults>>
    BY <1>2
  <2>1. DiskType'
    BY <1>0, <2>0 DEF DiskType, Rows, Unsent
  <2>2. EngineType'
    BY <1>0, <1>2, <2>0 DEF EngineType, Steps
  <2>3. WireType'
    <3>1. [sale |-> s, live |-> TRUE] \in Request
      BY DEF Request
    <3> QED  BY <1>0, <2>0, <3>1 DEF WireType
  <2>4. TypeOK'
    BY <1>0, <2>0, <2>1, <2>2, <2>3, TypeFrame DEF TypeOK
  <2>5. RowsInv'
    BY <1>0, <1>1, <2>0 DEF TillInv, RowsInv, DiskType, Sent
  <2>6. Sold' = Sold /\ s \in Sold
    BY <1>0, <1>1, <2>0 DEF Sold, DiskType
  <2>7. SequenceInv'
    BY <2>0, <2>6 DEF TillInv, SequenceInv
  <2>8. EngineInv'
    BY <1>0, <1>1, <1>2, <2>0 DEF TillInv, EngineInv, DiskType
  <2>9. WireInv'
    BY <1>0, <1>2, <2>0, <2>6 DEF TillInv, WireInv
  <2>10. ResetInv'
    BY <2>0 DEF TillInv, ResetInv, MutationAllowed
  <2> QED  BY <2>4, <2>5, <2>7, <2>8, <2>9, <2>10, Frame DEF TillInv
<1>3. CASE pc' # "await"
  <2>0. /\ MutationFails /\ err' = "unknown" /\ pc' = "fail"
        /\ UNCHANGED <<box, tried, net>>
    BY <1>1, <1>3
  <2>1. EngineType' /\ BudgetType'
    BY <1>0, <2>0, MutationFailsType DEF EngineType, Steps, Errors
  <2>2. TypeOK'
    BY <1>0, <2>0, <2>1, TypeFrame DEF TypeOK
  <2>3. EngineInv'
    BY <1>0, <1>1, <2>0 DEF TillInv, EngineInv
  <2>4. WireInv'
    BY <1>0, <2>0 DEF TillInv, WireInv, Sold
  <2> QED  BY <2>0, <2>2, <2>3, <2>4, Frame DEF TillInv
<1> QED  BY <1>2, <1>3

LEMMA ReceiveInv ==
    ASSUME TillInv, Receive
    PROVE  TillInv'
<1> USE DEF Receive
<1>0. TypeOK /\ EngineType /\ WireType
  BY DEF TillInv, TypeOK
<1>1. reply # "conflict" /\ reply # "none"
  BY DEF TillInv, NoConflict
<1>2. EngineType'
  BY <1>0, <1>1 DEF EngineType, WireType, Steps, Errors, Replies
<1>3. WireType'
  BY <1>0 DEF WireType, Replies
<1>4. TypeOK'
  BY <1>0, <1>2, <1>3, TypeFrame DEF TypeOK
<1>5. EngineInv'
  BY DEF TillInv, EngineInv
<1>6. WireInv'
  BY <1>1 DEF TillInv, WireInv, Sold
<1>7. NoConflict'
  BY <1>1 DEF NoConflict
<1> QED  BY <1>4, <1>5, <1>6, <1>7, Frame DEF TillInv

(* What abandoning the requests and transactions of a till leaves of them:  *)
(* the same ones, for which nobody waits.                                   *)
LEMMA AbandonedInv ==
    ASSUME TypeOK, TxInv, net' = Abandoned(net), txs' = Abandoned(txs),
           UNCHANGED inv
    PROVE  /\ net' \subseteq Request /\ txs' \subseteq Tx
           /\ \A r \in net' : ~r.live /\ \E q \in net : r.sale = q.sale
           /\ \A t \in txs' : ~t.live /\ \E q \in txs : t.sale = q.sale
           /\ TxInv'
<1>0. net \subseteq Request /\ txs \subseteq Tx
  BY DEF TypeOK, WireType
<1>1. ASSUME NEW r \in net'
      PROVE  r \in Request /\ ~r.live /\ \E q \in net : r.sale = q.sale
  <2>1. PICK q \in net : r = [q EXCEPT !.live = FALSE]
    BY DEF Abandoned
  <2>2. q \in Request
    BY <1>0
  <2>3. r \in Request /\ ~r.live /\ r.sale = q.sale
    BY <2>1, <2>2 DEF Request
  <2> QED  BY <2>3
<1>2. ASSUME NEW t \in txs'
      PROVE  \E q \in txs : /\ t = [q EXCEPT !.live = FALSE]
                            /\ t \in Tx /\ ~t.live /\ t.sale = q.sale
                            /\ (t.exists <=> q.exists) /\ (t.owned <=> q.owned)
  <2>1. PICK q \in txs : t = [q EXCEPT !.live = FALSE]
    BY DEF Abandoned
  <2>2. q \in Tx
    BY <1>0
  <2>3. /\ t \in Tx /\ ~t.live /\ t.sale = q.sale
        /\ (t.exists <=> q.exists) /\ (t.owned <=> q.owned)
    BY <2>1, <2>2 DEF Tx
  <2> QED  BY <2>1, <2>3
<1>3. TxInv'
  <2>1. ASSUME NEW t \in txs', NEW u \in txs'
        PROVE  t = u
    <3>1. PICK q \in txs : t = [q EXCEPT !.live = FALSE]
      BY <1>2
    <3>2. PICK p \in txs : u = [p EXCEPT !.live = FALSE]
      BY <1>2
    <3>3. q = p
      BY DEF TxInv
    <3> QED  BY <3>1, <3>2, <3>3
  <2>2. ASSUME NEW t \in txs'
        PROVE  (t.exists <=> inv[t.sale] # 0) /\ (t.owned => t.exists)
    <3>1. PICK q \in txs : /\ t.sale = q.sale
                           /\ (t.exists <=> q.exists) /\ (t.owned <=> q.owned)
      BY <1>2
    <3>2. (q.exists <=> inv[q.sale] # 0) /\ (q.owned => q.exists)
      BY DEF TxInv
    <3> QED  BY <3>1, <3>2
  <2> QED  BY <2>1, <2>2 DEF TxInv
<1> QED  BY <1>1, <1>2, <1>3

LEMMA TimeOutInv ==
    ASSUME TillInv, TimeOut
    PROVE  TillInv'
<1> USE DEF TimeOut
<1>0. TypeOK /\ EngineType /\ WireType /\ TxInv
  BY DEF TillInv, TypeOK
<1>1. /\ net' \subseteq Request /\ txs' \subseteq Tx
      /\ \A r \in net' : ~r.live /\ \E q \in net : r.sale = q.sale
      /\ \A t \in txs' : ~t.live /\ \E q \in txs : t.sale = q.sale
      /\ TxInv'
  BY <1>0, AbandonedInv
<1>2. EngineType' /\ WireType'
  BY <1>0, <1>1 DEF EngineType, WireType, Steps, Errors, Replies
<1>3. TypeOK'
  BY <1>0, <1>2, TypeFrame DEF TypeOK
<1>4. EngineInv'
  BY DEF TillInv, EngineInv
<1>5. WireInv'
  BY <1>1 DEF TillInv, WireInv, Sold
<1>6. NoConflict'
  BY DEF NoConflict
<1> QED  BY <1>1, <1>3, <1>4, <1>5, <1>6, Frame DEF TillInv

LEMMA MarkSentInv ==
    ASSUME TillInv, MarkSent
    PROVE  TillInv'
<1> USE DEF MarkSent
<1>0. /\ TypeOK /\ DiskType /\ EngineType /\ WireType /\ BudgetType
      /\ reply \in {"accepted", "warned"}
      /\ \A r \in net \cup txs : ~r.live
  BY DEF TillInv, TypeOK, WireInv
<1>1. NoConflict'
  BY DEF NoConflict
<1>2. PICK s \in cur :
        \/ /\ MutationAllowed
           /\ box' = [box EXCEPT ![s] = IF reply = "warned"
                                        THEN "sent_with_warning" ELSE "sent"]
           /\ ctx' \in {ctx, IF ctx = NoContext THEN ctx
                             ELSE Larger(ctx, seq[s])}
           /\ todo' = todo \ {s} /\ cur' = {} /\ pc' = "upload"
           /\ UNCHANGED <<err, faults>>
        \/ /\ MutationFails
           /\ err' = "unknown" /\ pc' = "fail"
           /\ UNCHANGED <<box, ctx, todo, cur>>
  OBVIOUS
<1>3. /\ s \in Sales /\ cur = {s} /\ box[s] = "sending" /\ inv[s] # 0
      /\ \A r \in todo \ {s} : box[r] = "pending"
  BY <1>0 DEF TillInv, EngineInv, EngineType, WireInv
<1>4. CASE pc' = "upload"
  <2>0. /\ MutationAllowed
        /\ box' = [box EXCEPT ![s] =
                     IF reply = "warned" THEN "sent_with_warning" ELSE "sent"]
        /\ ctx' \in {ctx, IF ctx = NoContext THEN ctx ELSE Larger(ctx, seq[s])}
        /\ todo' = todo \ {s} /\ cur' = {}
        /\ UNCHANGED <<err, faults>>
    BY <1>2, <1>4
  <2>1. DiskType'
    BY <1>0, <1>3, <2>0 DEF DiskType, Rows, Sent, Larger, NoContext
  <2>2. EngineType' /\ WireType'
    BY <1>0, <1>4, <2>0 DEF EngineType, Steps, WireType, Replies
  <2>3. TypeOK'
    BY <1>0, <2>0, <2>1, <2>2, TypeFrame DEF TypeOK
  <2>4. RowsInv'
    BY <1>0, <1>3, <2>0 DEF TillInv, RowsInv, DiskType
  <2>5. Sold' = Sold
    BY <1>0, <1>3, <2>0 DEF Sold, DiskType
  <2>6. SequenceInv'
    BY <2>0, <2>5 DEF TillInv, SequenceInv
  <2>7. EngineInv'
    BY <1>0, <1>3, <1>4, <2>0 DEF TillInv, EngineInv, DiskType, EngineType
  <2>8. WireInv'
    BY <1>0, <1>4, <2>0, <2>5 DEF TillInv, WireInv
  <2>9. ResetInv'
    BY <2>0 DEF TillInv, ResetInv, MutationAllowed
  <2> QED
    BY <1>1, <2>3, <2>4, <2>6, <2>7, <2>8, <2>9, Frame DEF TillInv
<1>5. CASE pc' # "upload"
  <2>0. /\ MutationFails /\ err' = "unknown" /\ pc' = "fail"
        /\ UNCHANGED <<box, ctx, todo, cur>>
    BY <1>2, <1>5
  <2>1. EngineType' /\ WireType' /\ BudgetType'
    BY <1>0, <2>0, MutationFailsType
    DEF EngineType, Steps, Errors, WireType, Replies
  <2>2. TypeOK'
    BY <1>0, <2>0, <2>1, TypeFrame DEF TypeOK
  <2>3. EngineInv'
    BY <2>0 DEF TillInv, EngineInv
  <2>4. WireInv'
    BY <1>0, <2>0 DEF TillInv, WireInv, Sold
  <2> QED  BY <1>1, <2>0, <2>2, <2>3, <2>4, Frame DEF TillInv
<1> QED  BY <1>4, <1>5

LEMMA MarkFailedInv ==
    ASSUME TillInv, MarkFailed
    PROVE  TillInv'
<1> USE DEF MarkFailed
<1>0. /\ TypeOK /\ DiskType /\ EngineType /\ BudgetType
      /\ reply = "none"
      /\ \A r \in net \cup txs : ~r.live
  BY DEF TillInv, TypeOK, WireInv
<1>1. PICK s \in cur :
        /\ \/ /\ MutationAllowed
              /\ box' = [box EXCEPT ![s] =
                           IF Retryable(err) THEN "pending" ELSE "quarantined"]
              /\ UNCHANGED faults
           \/ MutationFails /\ UNCHANGED box
        /\ cur' = {}
        /\ \/ pc' = "finish" /\ fin' = "failed" /\ todo' = {}
           \/ pc' = "upload" /\ UNCHANGED fin /\ todo' = todo \ {s}
  OBVIOUS
<1>2. /\ s \in Sales /\ cur = {s} /\ box[s] \in {"pending", "sending"}
      /\ \A r \in todo \ {s} : box[r] = "pending"
  BY <1>0 DEF TillInv, EngineInv, EngineType
<1>3. EngineType'
  BY <1>0, <1>1 DEF EngineType, Steps, Errors
<1>4. WireInv' /\ EngineInv' /\ RowsInv' /\ SequenceInv'
  <2>1. \A r \in Sales : /\ r # s => box'[r] = box[r]
                         /\ box'[s] \in Unsent
    BY <1>0, <1>1, <1>2 DEF DiskType, Unsent
  <2>2. Sold' = Sold
    BY <1>2, <2>1 DEF Sold, Unsent
  <2>3. WireInv'
    BY <1>0, <1>1, <2>2 DEF TillInv, WireInv
  <2>4. EngineInv'
    BY <1>0, <1>1, <1>2, <2>1 DEF EngineInv, EngineType
  <2>5. RowsInv'
    BY <1>2, <2>1 DEF TillInv, RowsInv, Unsent, Sent
  <2>6. SequenceInv'
    BY <2>2 DEF TillInv, SequenceInv
  <2> QED  BY <2>3, <2>4, <2>5, <2>6
<1>5. CASE MutationAllowed
  <2>1. DiskType'
    BY <1>0, <1>1, <1>2 DEF DiskType, Rows, Unsent
  <2>2. BudgetType'
    BY <1>0, <1>1, MutationFailsType DEF BudgetType
  <2>3. TypeOK'
    BY <1>0, <1>3, <2>1, <2>2, TypeFrame DEF TypeOK
  <2>4. ResetInv'
    BY <1>5 DEF TillInv, ResetInv, MutationAllowed
  <2> QED  BY <1>4, <2>3, <2>4, Frame DEF TillInv
<1>6. CASE ~MutationAllowed
  <2>1. MutationFails /\ UNCHANGED box
    BY <1>1, <1>6
  <2>2. BudgetType'
    BY <1>0, <2>1, MutationFailsType
  <2>3. TypeOK'
    BY <1>0, <1>3, <2>1, <2>2, TypeFrame DEF TypeOK
  <2> QED  BY <1>4, <2>1, <2>3, Frame DEF TillInv
<1> QED  BY <1>5, <1>6

\* The second look at the outbox, the pull and its application.
LEMMA PullInv ==
    ASSUME TillInv, Recheck \/ Pull \/ PullFails
    PROVE  TillInv'
<1> USE DEF Recheck, Pull, PullFails
<1>0. TypeOK /\ EngineType /\ ServerType /\ BudgetType
  BY DEF TillInv, TypeOK
<1>1. EngineType'
  BY <1>0 DEF EngineType, ServerType, Steps, Errors
<1>2. BudgetType'
  BY <1>0, BoundAssumption DEF BudgetType
<1>3. TypeOK'
  BY <1>0, <1>1, <1>2, TypeFrame DEF TypeOK
<1>4. pc' \in {"pull", "apply", "finish"} /\ pc \in {"upload", "pull"}
  OBVIOUS
<1>5. EngineInv' /\ WireInv'
  BY <1>4 DEF TillInv, EngineInv, WireInv, Sold
<1> QED  BY <1>3, <1>5, Frame DEF TillInv

LEMMA ApplyPullInv ==
    ASSUME TillInv, ApplyPull
    PROVE  TillInv'
<1> USE DEF ApplyPull
<1>0. TypeOK /\ DiskType /\ EngineType /\ BudgetType
  BY DEF TillInv, TypeOK
<1>1. PICK vs \in SUBSET Variants :
        \/ /\ MutationAllowed /\ ValidStock(vs)
           /\ lstock' = [v \in Variants |->
                           IF v \in vs THEN snap[v] ELSE lstock[v]]
           /\ fin' = "success"
           /\ UNCHANGED <<err, faults>>
        \/ /\ MutationFails \/ (~ValidStock(vs) /\ UNCHANGED faults)
           /\ fin' = "caught" /\ err' = "unknown"
           /\ UNCHANGED lstock
  OBVIOUS
<1>2. lstock' \in [Variants -> Nat]
  BY <1>0, <1>1 DEF DiskType, EngineType, ValidStock
<1>3. DiskType'
  BY <1>0, <1>2 DEF DiskType
<1>4. EngineType'
  BY <1>0, <1>1 DEF EngineType, Steps, Errors, NoStock
<1>5. BudgetType'
  <2>1. CASE UNCHANGED faults
    BY <1>0, <2>1 DEF BudgetType
  <2>2. CASE MutationFails
    BY <1>0, <2>2, MutationFailsType
  <2> QED  BY <1>1, <2>1, <2>2
<1>6. TypeOK'
  BY <1>0, <1>3, <1>4, <1>5, TypeFrame DEF TypeOK
<1>7. EngineInv' /\ WireInv'
  BY DEF TillInv, EngineInv, WireInv, Sold
<1> QED  BY <1>6, <1>7, Frame DEF TillInv

LEMMA FinishInv ==
    ASSUME TillInv, Finish \/ FinishFails
    PROVE  TillInv'
<1> USE DEF Finish, FinishFails
<1>0. TypeOK /\ FlagType /\ EngineType /\ BudgetType
  BY DEF TillInv, TypeOK
<1>1. FlagType'
  BY <1>0 DEF FlagType, NextTimer
<1>2. EngineType'
  BY <1>0 DEF EngineType, Steps, Errors
<1>3. BudgetType'
  <2>1. CASE Finish
    BY <1>0, <2>1, BoundAssumption DEF BudgetType
  <2>2. CASE FinishFails
    BY <1>0, <2>2, MutationFailsType
  <2> QED  BY <2>1, <2>2
<1>4. TypeOK'
  BY <1>0, <1>1, <1>2, <1>3, TypeFrame DEF TypeOK
<1>5. EngineInv' /\ WireInv'
  BY DEF TillInv, EngineInv, WireInv, Sold
<1> QED  BY <1>4, <1>5, Frame DEF TillInv

-----------------------------------------------------------------------------
(* Crash, restart and factory reset                                         *)

LEMMA CrashInv ==
    ASSUME TillInv, Crash
    PROVE  TillInv'
<1> USE DEF Crash, VolatileLost
<1>0. /\ TypeOK /\ FlagType /\ EngineType /\ WireType /\ BudgetType /\ TxInv
  BY DEF TillInv, TypeOK
<1>1. /\ net' \subseteq Request /\ txs' \subseteq Tx
      /\ \A r \in net' : ~r.live /\ \E q \in net : r.sale = q.sale
      /\ \A t \in txs' : ~t.live /\ \E q \in txs : t.sale = q.sale
      /\ TxInv'
  BY <1>0, AbandonedInv
<1>2. FlagType'
  BY <1>0 DEF FlagType
<1>3. EngineType' /\ WireType'
  BY <1>0, <1>1 DEF EngineType, WireType, Steps, Errors, Replies, NoStock
<1>4. BudgetType'
  BY <1>0, BoundAssumption DEF BudgetType
<1>5. TypeOK'
  BY <1>0, <1>2, <1>3, <1>4, TypeFrame DEF TypeOK
<1>6. EngineInv'
  BY DEF EngineInv
<1>7. WireInv'
  BY <1>1 DEF TillInv, WireInv, Sold
<1>8. ResetInv' /\ NoConflict'
  BY DEF ResetInv, NoConflict
<1> QED  BY <1>1, <1>5, <1>6, <1>7, <1>8, Frame DEF TillInv

LEMMA RestartInv ==
    ASSUME TillInv, Restart
    PROVE  TillInv'
<1> USE DEF Restart
<1>0. TypeOK /\ FlagType /\ DiskType
  BY DEF TillInv, TypeOK
<1>1. tseq \in Nat /\ tseq' \in Nat /\ tseq' >= tseq
  <2>1. PICK n \in StoredSequences : tseq' = Larger(Larger(tseq, n), ctx)
    OBVIOUS
  <2>2. n \in Nat
    BY <1>0 DEF StoredSequences, DiskType, Sold
  <2> QED  BY <1>0, <2>1, <2>2 DEF DiskType, Larger, NoContext
<1>2. \A s \in Sales : /\ box[s] # "sending" => box'[s] = box[s]
                       /\ box[s] = "sending" => box'[s] = "pending"
  BY DEF RecoveredRow
<1>3. DiskType'
  BY <1>0, <1>1 DEF DiskType, RecoveredRow, Rows, Unsent
<1>4. FlagType'
  BY <1>0 DEF FlagType
<1>5. TypeOK'
  BY <1>0, <1>3, <1>4, TypeFrame DEF TypeOK
<1>6. Sold' = Sold
  BY <1>2 DEF Sold
<1>7. RowsInv'
  BY <1>2 DEF TillInv, RowsInv, Sent
<1>8. SequenceInv'
  <2>1. \A r \in Sold : seq[r] \in Nat
    BY <1>0 DEF DiskType, Sold
  <2> QED  BY <1>1, <1>6, <2>1 DEF TillInv, SequenceInv
<1>9. EngineInv'
  BY <1>0, <1>2 DEF TillInv, EngineInv, TypeOK, EngineType
<1>10. WireInv'
  BY <1>6 DEF TillInv, WireInv
<1>11. ResetInv'
  BY DEF TillInv, ResetInv
<1> QED
  BY <1>5, <1>7, <1>8, <1>9, <1>10, <1>11, Frame DEF TillInv

\* The steps of a factory reset before the files go.
LEMMA ResetStepInv ==
    ASSUME TillInv, FactoryReset \/ Decommission \/ FactoryResetFails
    PROVE  TillInv'
<1> USE DEF FactoryReset, Decommission, FactoryResetFails
<1>0. TypeOK /\ FlagType /\ EngineType /\ BudgetType
  BY DEF TillInv, TypeOK
<1>1. FlagType'
  BY <1>0 DEF FlagType
<1>2. EngineType'
  BY <1>0 DEF EngineType
<1>3. BudgetType'
  BY <1>0, BoundAssumption DEF BudgetType
<1>4. TypeOK'
  BY <1>0, <1>1, <1>2, <1>3, TypeFrame DEF TypeOK
<1>5. ResetInv'
  BY DEF TillInv, ResetInv, Unresolved
<1> QED  BY <1>4, <1>5, Frame DEF TillInv

LEMMA WipeInv ==
    ASSUME TillInv, Wipe
    PROVE  TillInv'
<1> USE DEF Wipe, VolatileLost
<1>0. TypeOK /\ FlagType /\ DiskType /\ EngineType /\ WireType /\ TxInv
  BY DEF TillInv, TypeOK
<1>1. /\ net' \subseteq Request /\ txs' \subseteq Tx
      /\ \A r \in net' : ~r.live /\ \E q \in net : r.sale = q.sale
      /\ \A t \in txs' : ~t.live /\ \E q \in txs : t.sale = q.sale
      /\ TxInv'
  BY <1>0, AbandonedInv
<1>2. FlagType'
  BY <1>0 DEF FlagType
<1>3. EngineType' /\ WireType'
  BY <1>0, <1>1 DEF EngineType, WireType, Steps, Errors, Replies, NoStock
<1>4. DiskType'
  BY <1>0 DEF DiskType, Rows
<1>5. TypeOK'
  BY <1>0, <1>2, <1>3, <1>4, TypeFrame DEF TypeOK
<1>6. \A s \in Sales : /\ box[s] = "none" => box'[s] = "none"
                       /\ box[s] # "none" => box'[s] = "erased"
  OBVIOUS
<1>7. RowsInv'
  <2>1. \A s \in Sales : box[s] \in {"none", "sent"}
    BY DEF TillInv, ResetInv, Unresolved
  <2> QED  BY <1>6, <2>1 DEF TillInv, RowsInv, Sent
<1>8. Sold' = Sold
  BY <1>6 DEF Sold
<1>9. SequenceInv'
  BY <1>8 DEF TillInv, SequenceInv
<1>10. EngineInv'
  BY DEF EngineInv
<1>11. WireInv'
  BY <1>1, <1>8 DEF TillInv, WireInv
<1>12. ResetInv' /\ NoConflict'
  BY DEF ResetInv, NoConflict
<1> QED
  BY <1>1, <1>5, <1>7, <1>9, <1>10, <1>11, <1>12 DEF TillInv

-----------------------------------------------------------------------------
(* The server                                                               *)

(* The heart of the protocol: the sequence of a completed sale that has no  *)
(* invoice is not the sequence of any other invoice.                        *)
LEMMA SequenceFree ==
    ASSUME TillInv, NEW s \in Sold, inv[s] = 0
    PROVE  ~UniqueViolation(s)
<1> SUFFICES ASSUME NEW r \in Sales, inv[r] = seq[s] PROVE FALSE
  BY DEF UniqueViolation
<1>1. s \in Sales /\ seq[s] \in Nat /\ seq[s] >= 1
  BY DEF TillInv, TypeOK, DiskType, Sold, SequenceInv
<1>2. inv[r] = seq[r] /\ r \in Sold
  BY <1>1 DEF TillInv, RowsInv, Sold
<1>3. r = s
  BY <1>2 DEF TillInv, SequenceInv
<1> QED  BY <1>1, <1>3

\* The till waits for one request at a time.
LEMMA OneLiveRequest ==
    ASSUME TillInv, NEW r \in net, NEW q \in net, r.live, q.live
    PROVE  r = q
<1>1. q.sale = r.sale
  BY DEF TillInv, WireInv
<1>2. q \in Request /\ r \in Request
  BY DEF TillInv, TypeOK, WireType
<1> QED  BY <1>1, <1>2 DEF Request

LEMMA BeginInv ==
    ASSUME TillInv, NEW r \in net, Begin(r)
    PROVE  TillInv'
<1> USE DEF Begin
<1> DEFINE t == [sale |-> r.sale, live |-> r.live,
                 exists |-> inv[r.sale] # 0,
                 owned |-> \E s \in Sales : inv[s] = seq[r.sale],
                 base |-> last]
<1>0. /\ TypeOK /\ WireType /\ r \in Request /\ r.sale \in Sold
      /\ r.sale \in Sales /\ r.live \in BOOLEAN /\ last \in Nat
  BY DEF TillInv, TypeOK, WireType, ServerType, Request, WireInv
<1>1. txs = {} /\ txs' = {t} /\ net' = net \ {r}
  BY DEF TerminalUnlocked
<1>2. /\ t \in Tx /\ t.sale = r.sale /\ (t.live <=> r.live)
      /\ (t.exists <=> inv[r.sale] # 0)
      /\ (t.owned <=> \E s \in Sales : inv[s] = seq[r.sale])
  <2>1. (inv[r.sale] # 0) \in BOOLEAN
    OBVIOUS
  <2>2. (\E s \in Sales : inv[s] = seq[r.sale]) \in BOOLEAN
    OBVIOUS
  <2> QED  BY <1>0, <2>1, <2>2 DEF Tx
<1> HIDE DEF t
<1>3. WireType'
  BY <1>0, <1>1, <1>2 DEF WireType
<1>4. TypeOK'
  BY <1>0, <1>3, TypeFrame DEF TypeOK
<1>5. TxInv'
  <2>1. t.owned => t.exists
    BY <1>0, <1>2, SequenceFree DEF UniqueViolation
  <2> QED  BY <1>1, <1>2, <2>1 DEF TxInv
<1>6. WireInv'
  <2>1. \A q \in net \ {r} : r.live => ~q.live
    BY OneLiveRequest
  <2> QED  BY <1>0, <1>1, <1>2, <2>1 DEF TillInv, WireInv, Sold
<1> QED  BY <1>4, <1>5, <1>6, Frame DEF TillInv

\* A request that ends before createSale.
LEMMA RefuseInv ==
    ASSUME TillInv, NEW r \in net, Refuse(r) \/ Overloaded(r) \/ Lose(r)
    PROVE  TillInv'
<1> USE DEF Refuse, Overloaded, Lose
<1>0. TypeOK /\ WireType
  BY DEF TillInv, TypeOK
<1>1. /\ net' = net \ {r}
      /\ \/ r.live /\ reply' \in {"refused", "unavailable"}
         \/ UNCHANGED reply
  BY DEF Answer
<1>2. WireType'
  BY <1>0, <1>1 DEF WireType, Replies
<1>3. TypeOK'
  BY <1>0, <1>2, TypeFrame DEF TypeOK
<1>4. WireInv'
  <2>1. CASE UNCHANGED reply
    BY <1>1, <2>1 DEF TillInv, WireInv, Sold
  <2>2. CASE r.live /\ reply' \in {"refused", "unavailable"}
    <3>1. \A q \in net \ {r} : ~q.live
      BY <2>2, OneLiveRequest
    <3> QED  BY <1>1, <2>2, <3>1 DEF TillInv, WireInv, Sold
  <2> QED  BY <1>1, <2>1, <2>2
<1>5. NoConflict'
  BY <1>1 DEF TillInv, NoConflict
<1> QED  BY <1>3, <1>4, <1>5, Frame DEF TillInv

\* A transaction that ends without an invoice answers with what it found.
LEMMA EndTxInv ==
    ASSUME TillInv, NEW t \in txs,
           NEW a \in {"accepted", "warned", "unavailable"},
           a # "unavailable" => inv[t.sale] # 0,
           txs' = txs \ {t}, Answer(t, a),
           UNCHANGED <<diskVars, tillVars, engineVars, net, inv, warned, last,
                       revoked, stock, moved, budgetVars>>
    PROVE  TillInv'
<1>0. TypeOK /\ WireType
  BY DEF TillInv, TypeOK
<1>1. txs' = {} /\ \A q \in net : t.live => ~q.live
  BY DEF TillInv, TxInv, WireInv
<1>2. \/ t.live /\ reply' = a
      \/ UNCHANGED reply
  BY DEF Answer
<1>3. WireType'
  BY <1>0, <1>1, <1>2 DEF WireType, Replies
<1>4. TypeOK'
  BY <1>0, <1>3, TypeFrame DEF TypeOK
<1>5. WireInv'
  <2>1. CASE UNCHANGED reply
    BY <1>1, <2>1 DEF TillInv, WireInv, Sold
  <2>2. CASE t.live /\ reply' = a
    BY <1>1, <2>2 DEF TillInv, WireInv, Sold
  <2> QED  BY <1>2, <2>1, <2>2
<1>6. TxInv'
  BY <1>1 DEF TxInv
<1>7. NoConflict'
  BY <1>2 DEF TillInv, NoConflict
<1> QED  BY <1>4, <1>5, <1>6, <1>7, Frame DEF TillInv

\* What a commit that inserts the invoice finds and does.
LEMMA CommitCases ==
    ASSUME TillInv, NEW t \in txs, Commit(t)
    PROVE  \/ /\ inv[t.sale] # 0
              /\ Answer(t, IF t.sale \in warned THEN "warned" ELSE "accepted")
              /\ UNCHANGED <<inv, warned, last, stock>>
           \/ /\ inv[t.sale] = 0
              /\ inv' = [inv EXCEPT ![t.sale] = seq[t.sale]]
              /\ stock' = StockAfter(t.sale)
              /\ last' = Larger(last, seq[t.sale])
              /\ warned' \in {warned, warned \cup {t.sale}}
              /\ Answer(t, "warned") \/ Answer(t, "accepted")
<1>1. t.sale \in Sold /\ (t.exists <=> inv[t.sale] # 0) /\ (t.owned => t.exists)
  BY DEF TillInv, WireInv, TxInv
<1>2. ~t.exists => ~t.owned /\ ~UniqueViolation(t.sale)
  BY <1>1, SequenceFree
<1> QED  BY <1>1, <1>2 DEF Commit

LEMMA CommitInv ==
    ASSUME TillInv, NEW t \in txs, Commit(t)
    PROVE  TillInv'
<1>0. /\ TypeOK /\ DiskType /\ WireType /\ ServerType
      /\ t.sale \in Sales /\ t.sale \in Sold
  BY DEF TillInv, TypeOK, WireInv, Sold
<1>1. /\ txs' = txs \ {t}
      /\ UNCHANGED <<diskVars, tillVars, engineVars, net, revoked, moved,
                     budgetVars>>
  BY DEF Commit
<1>2. CASE inv[t.sale] # 0
  <2>1. /\ Answer(t, IF t.sale \in warned THEN "warned" ELSE "accepted")
        /\ UNCHANGED <<inv, warned, last, stock>>
    BY <1>2, CommitCases
  <2>2. CASE t.sale \in warned
    BY <1>1, <1>2, <2>1, <2>2, EndTxInv
  <2>3. CASE t.sale \notin warned
    BY <1>1, <1>2, <2>1, <2>3, EndTxInv
  <2> QED  BY <2>2, <2>3
<1>3. CASE inv[t.sale] = 0
  <2>0. /\ inv' = [inv EXCEPT ![t.sale] = seq[t.sale]]
        /\ stock' = StockAfter(t.sale)
        /\ last' = Larger(last, seq[t.sale])
        /\ warned' \in {warned, warned \cup {t.sale}}
        /\ Answer(t, "warned") \/ Answer(t, "accepted")
    BY <1>3, CommitCases
  <2>1. seq[t.sale] \in Nat /\ seq[t.sale] >= 1
    BY <1>0 DEF TillInv, SequenceInv, DiskType
  <2>2. \/ t.live /\ reply' \in {"accepted", "warned"}
        \/ UNCHANGED reply
    BY <2>0 DEF Answer
  <2>3. txs' = {} /\ \A q \in net : t.live => ~q.live
    BY <1>1 DEF TillInv, TxInv, WireInv
  <2>4. \A s \in Sales : /\ s # t.sale => inv'[s] = inv[s]
                         /\ inv'[t.sale] = seq[t.sale]
    BY <1>0, <2>0 DEF ServerType
  <2>5. ServerType'
    <3>1. stock' \in [Variants -> Int]
      <4>1. Cart[t.sale] \in [Variants -> Nat] /\ stock \in [Variants -> Int]
        BY <1>0, CartAssumption DEF ServerType
      <4> QED  BY <2>0, <4>1 DEF StockAfter
    <3>2. inv' \in [Sales -> Nat] /\ last' \in Nat /\ warned' \subseteq Sales
      BY <1>0, <2>0, <2>1 DEF ServerType, Larger
    <3> QED  BY <1>0, <1>1, <3>1, <3>2 DEF ServerType
  <2>6. WireType'
    BY <1>0, <1>1, <2>2, <2>3 DEF WireType, Replies
  <2>7. TypeOK'
    <3>1. FlagType'
      BY <1>0, <1>1 DEF TypeOK, FlagType
    <3> QED  BY <1>0, <1>1, <2>5, <2>6, <3>1, TypeFrame DEF TypeOK
  <2>8. RowsInv'
    BY <1>0, <1>1, <2>1, <2>4 DEF TillInv, RowsInv, Sold
  <2>9. TxInv'
    BY <2>3 DEF TxInv
  <2>10. WireInv'
    <3>1. CASE UNCHANGED reply
      BY <1>0, <1>1, <2>1, <2>3, <2>4, <3>1
      DEF TillInv, WireInv, Sold, TypeOK, EngineType
    <3>2. CASE t.live /\ reply' \in {"accepted", "warned"}
      BY <1>0, <1>1, <2>1, <2>3, <2>4, <3>2 DEF TillInv, WireInv, Sold
    <3> QED  BY <2>2, <3>1, <3>2
  <2>11. NoConflict'
    BY <2>2 DEF TillInv, NoConflict
  <2> QED
    BY <1>1, <2>7, <2>8, <2>9, <2>10, <2>11, Frame DEF TillInv
<1> QED  BY <1>2, <1>3

LEMMA RollbackInv ==
    ASSUME TillInv, NEW t \in txs, Rollback(t)
    PROVE  TillInv'
BY EndTxInv DEF Rollback

LEMMA OtherMoveInv ==
    ASSUME TillInv, NEW v \in Variants, NEW d \in {-1, 1}, OtherMove(v, d)
    PROVE  TillInv'
<1> USE DEF OtherMove
<1>0. TypeOK /\ ServerType /\ BudgetType
  BY DEF TillInv, TypeOK
<1>1. ServerType'
  BY <1>0 DEF ServerType
<1>2. BudgetType'
  BY <1>0, BoundAssumption DEF BudgetType
<1>3. TypeOK'
  BY <1>0, <1>1, <1>2, TypeFrame DEF TypeOK
<1> QED  BY <1>3, Frame DEF TillInv

-----------------------------------------------------------------------------
(* Every step, then the theorems                                            *)

LEMMA NextInv == TillInv /\ [Next]_vars => TillInv'
<1> SUFFICES ASSUME TillInv, [Next]_vars PROVE TillInv'
  OBVIOUS
<1>1. CASE Cashier
  BY <1>1, SaleInv, IssueAccountingInv, SessionInv DEF Cashier
<1>2. CASE Engine
  BY <1>2, SessionInv, StartInv, GetOutboxInv, MarkSendingInv, ReceiveInv,
     TimeOutInv, MarkSentInv, MarkFailedInv, PullInv, ApplyPullInv, FinishInv
  DEF Engine
<1>3. CASE Machine
  BY <1>3, CrashInv, RestartInv, ResetStepInv, WipeInv DEF Machine
<1>4. CASE Server
  BY <1>4, BeginInv, RefuseInv, CommitInv, RollbackInv, OtherMoveInv DEF Server
<1>5. CASE UNCHANGED vars
  <2>1. TypeOK
    BY DEF TillInv
  <2>2. TypeOK'
    BY <1>5, <2>1, TypeFrame DEF vars, TypeOK
  <2> QED  BY <1>5, <2>2, Frame DEF vars, TillInv
<1> QED  BY <1>1, <1>2, <1>3, <1>4, <1>5 DEF Next

\* The till and the server agree on every sale, in every reachable state of a
\* till with any number of sales, crashes, failed writes and resets.
THEOREM Invariance == Spec => []TillInv
<1>1. Init => TillInv
  BY InitInv
<1>2. TillInv /\ [Next]_vars => TillInv'
  BY NextInv
<1> QED  BY <1>1, <1>2, PTL DEF Spec

\* The variables keep their types; the local stock never goes below zero.
THEOREM TypeCorrect == Spec => []TypeOK
<1>1. TillInv => TypeOK
  BY DEF TillInv
<1> QED  BY <1>1, Invariance, PTL

\* Until a completed sale has an invoice the till keeps its outbox row.
THEOREM SaleSafe == Spec => []NoSaleLost
<1>1. TillInv => NoSaleLost
  BY DEF TillInv, TypeOK, DiskType, RowsInv, NoSaleLost, Sold, Rows
<1> QED  BY <1>1, Invariance, PTL

\* createSale never answers a command of the till with a conflict.
THEOREM ConflictFree == Spec => []NoConflict
<1>1. TillInv => NoConflict
  BY DEF TillInv
<1> QED  BY <1>1, Invariance, PTL

\* No step takes a row that the server acknowledged back into the queue.
THEOREM SentStaysSent == Spec => SentIsFinal
<1> DEFINE Final == \A s \in Sales :
                      box[s] \in Sent => box'[s] \in {box[s], "erased"}
<1>1. ASSUME TillInv, [Next]_vars PROVE [Final]_vars
  <2>0. DiskType /\ EngineType /\ EngineInv
    BY <1>1 DEF TillInv, TypeOK
  <2> SUFFICES ASSUME NEW s \in Sales, box[s] \in Sent
               PROVE  box'[s] \in {box[s], "erased"}
    OBVIOUS
  <2>1. ASSUME UNCHANGED box PROVE box'[s] \in {box[s], "erased"}
    BY <2>1
  <2>2. ASSUME NEW r \in Sales, Sale(r) PROVE box'[s] = box[s]
    BY <2>0, <2>2 DEF Sale, DiskType, Sent
  <2>3. ASSUME NEW r \in Sales, MarkSending(r) PROVE box'[s] = box[s]
    BY <2>0, <2>3 DEF MarkSending, DiskType, Sent
  <2>4. ASSUME MarkSent \/ MarkFailed PROVE box'[s] = box[s]
    <3>1. s \notin cur
      BY <2>0 DEF EngineInv, Sent
    <3> QED  BY <2>0, <2>4, <3>1 DEF MarkSent, MarkFailed, DiskType, EngineType
  <2>5. ASSUME Restart PROVE box'[s] = box[s]
    BY <2>5 DEF Restart, RecoveredRow, Sent
  <2>6. ASSUME Wipe PROVE box'[s] = "erased"
    BY <2>6 DEF Wipe, Sent
  <2>7. CASE Cashier
    BY <2>1, <2>2, <2>7
    DEF Cashier, IssueAccounting, Login, Logout, PressSync
  <2>8. CASE Engine
    BY <2>1, <2>3, <2>4, <2>8
    DEF Engine, TimerFires, SyncNow, Online, GetOutbox, Receive, TimeOut,
        Recheck, Pull, PullFails, ApplyPull, Finish, FinishFails
  <2>9. CASE Machine
    BY <2>1, <2>5, <2>6, <2>9
    DEF Machine, Crash, FactoryReset, Decommission, FactoryResetFails
  <2>10. CASE Server
    BY <2>1, <2>10
    DEF Server, Begin, Refuse, Overloaded, Lose, Commit, Rollback, OtherMove
  <2>11. CASE UNCHANGED vars
    BY <2>1, <2>11 DEF vars
  <2> QED  BY <1>1, <2>7, <2>8, <2>9, <2>10, <2>11 DEF Next
<1> QED  BY <1>1, Invariance, PTL DEF Spec, SentIsFinal

LEMMA NoFault ==
    ASSUME BudgetType, faults' = 0, MutationFails \/ UNCHANGED faults
    PROVE  faults = 0
BY DEF BudgetType, MutationFails

(* The rows that are 'sending' when a step begins, and the step's effect.   *)
LEMMA OrphanStep ==
    ASSUME TillInv, NoOrphanedSending, [Next]_vars
    PROVE  NoOrphanedSending'
<1>0. /\ DiskType /\ EngineType /\ BudgetType /\ EngineInv /\ ResetInv
      /\ (DiskType /\ BudgetType)'
  BY NextInv DEF TillInv, TypeOK
<1> SUFFICES ASSUME NEW s \in Sales, box'[s] = "sending", up', faults' = 0
             PROVE  s \in cur' /\ pc' \in {"await", "ack", "fail"}
  BY <1>0 DEF NoOrphanedSending, BudgetType
<1>1. ASSUME box[s] = "sending", up, faults = 0
      PROVE  s \in cur /\ pc \in {"await", "ack", "fail"} /\ reset = "idle"
  <2>1. s \in Unresolved
    BY <1>1 DEF Unresolved
  <2> QED  BY <1>0, <1>1, <2>1 DEF NoOrphanedSending, ResetInv, EngineType
<1>2. ASSUME UNCHANGED <<box, up, faults, cur, pc>>
      PROVE  s \in cur' /\ pc' \in {"await", "ack", "fail"}
  BY <1>1, <1>2
<1>3. ASSUME UNCHANGED <<box, up, faults>>, pc \notin {"await", "ack", "fail"}
      PROVE  FALSE
  BY <1>1, <1>3
<1>4. CASE Cashier
  <2>1. CASE \E r \in Sales : Sale(r)
    BY <1>0, <1>1, <2>1 DEF Sale, DiskType
  <2> QED
    BY <1>2, <1>4, <2>1 DEF Cashier, IssueAccounting, Login, Logout, PressSync
<1>5. CASE Engine
  <2>1. CASE TimerFires \/ SyncNow
    <3>1. faults = 0
      BY <1>0, <2>1, NoFault DEF TimerFires, SyncNow, Start
    <3>2. box[s] = "sending" /\ up
      BY <2>1 DEF TimerFires, SyncNow
    <3>3. pc # "idle" /\ s \in cur
      BY <1>1, <3>1, <3>2
    <3> QED  BY <1>1, <2>1, <3>1, <3>2, <3>3 DEF TimerFires, SyncNow
  <2>2. CASE \E r \in Sales : MarkSending(r)
    BY <1>0, <1>1, <2>2 DEF MarkSending, DiskType, MutationFails, BudgetType
  <2>3. CASE Receive \/ TimeOut
    BY <1>1, <2>3 DEF Receive, TimeOut
  <2>4. CASE MarkSent \/ MarkFailed
    <3>1. PICK r \in cur : \/ MutationFails
                           \/ /\ UNCHANGED faults
                              /\ box' = [box EXCEPT ![r] = box'[r]]
                              /\ box'[r] # "sending"
      BY <1>0, <2>4 DEF MarkSent, MarkFailed, EngineType, DiskType
    <3>2. up /\ cur = {r}
      BY <1>0, <2>4 DEF MarkSent, MarkFailed, EngineInv
    <3>3. ~MutationFails
      <4>1. box[r] \in {"pending", "sending"} /\ r \in Sales
        BY <1>0, <3>2 DEF EngineInv, EngineType
      <4>2. reset = "idle"
        BY <1>0, <3>2, <4>1 DEF ResetInv, Unresolved, EngineType
      <4> QED  BY <1>0, <4>2 DEF MutationFails, MutationAllowed, BudgetType
    <3> QED  BY <1>0, <1>1, <3>1, <3>2, <3>3 DEF DiskType
  <2>5. CASE ApplyPull \/ FinishFails
    <3>1. faults = 0
      BY <1>0, <2>5, NoFault DEF ApplyPull, FinishFails
    <3> QED  BY <1>1, <2>5, <3>1 DEF ApplyPull, FinishFails
  <2> QED
    BY <1>2, <1>3, <1>5, <2>1, <2>2, <2>3, <2>4, <2>5
    DEF Engine, Online, GetOutbox, Recheck, Pull, PullFails, Finish
<1>6. CASE Machine
  BY <1>2, <1>6
  DEF Machine, Crash, VolatileLost, Restart, RecoveredRow, FactoryReset,
      Decommission, FactoryResetFails, Wipe
<1>7. CASE Server
  BY <1>2, <1>7
  DEF Server, Begin, Refuse, Overloaded, Lose, Commit, Rollback, OtherMove
<1>8. CASE UNCHANGED vars
  BY <1>2, <1>8 DEF vars
<1> QED  BY <1>4, <1>5, <1>6, <1>7, <1>8 DEF Next

\* While no write of the file has failed, a row that is 'sending' is in the
\* hands of the engine or waits for initDb to free it.
THEOREM NoOrphan == Spec => []NoOrphanedSending
<1>1. Init => NoOrphanedSending
  BY DEF Init, NoOrphanedSending
<1>2. TillInv /\ NoOrphanedSending /\ [Next]_vars => NoOrphanedSending'
  BY OrphanStep
<1> QED  BY <1>1, <1>2, Invariance, PTL DEF Spec

\* Both together: pos:sale's row is kept until the invoice exists, and a row the
\* engine left behind is one that sync_get_outbox offers again.
THEOREM SaleAlwaysKept == Spec => []SaleKept
<1>1. NoSaleLost /\ NoOrphanedSending => SaleKept
  BY DEF SaleKept
<1> QED  BY <1>1, SaleSafe, NoOrphan, PTL

-----------------------------------------------------------------------------
(* Refinement                                                               *)

Booked == {s \in Sales : inv[s] # 0}

LEMMA SaleSells ==
    ASSUME TillInv, NEW s \in Sales, Sale(s)
    PROVE  Ledger!Sell(s)
<1>1. s \notin Sold /\ Sold' = Sold \cup {s}
  BY DEF Sale, Sold, TillInv, TypeOK, DiskType
<1> QED  BY <1>1 DEF Sale, Ledger!Sell

LEMMA CommitBooks ==
    ASSUME TillInv, NEW t \in txs, Commit(t)
    PROVE  Ledger!Book(t.sale) \/ UNCHANGED Ledger!vars
<1>0. t.sale \in Sold /\ t.sale \in Sales /\ UNCHANGED box
  BY DEF TillInv, WireInv, Sold, Commit
<1>1. CASE inv[t.sale] # 0
  BY <1>0, <1>1, CommitCases DEF Ledger!vars, Sold
<1>2. CASE inv[t.sale] = 0
  <2>1. /\ inv' = [inv EXCEPT ![t.sale] = seq[t.sale]]
        /\ stock' = StockAfter(t.sale)
    BY <1>2, CommitCases
  <2>2. seq[t.sale] \in Nat /\ seq[t.sale] # 0
    BY <1>0 DEF TillInv, SequenceInv, TypeOK, DiskType
  <2>3. Booked' = Booked \cup {t.sale} /\ t.sale \notin Booked
    BY <1>0, <1>2, <2>1, <2>2 DEF Booked, TillInv, TypeOK, ServerType
  <2> QED  BY <1>0, <2>1, <2>3 DEF Booked, Ledger!Book, StockAfter, Sold
<1> QED  BY <1>1, <1>2

\* A step that neither completes a sale, nor invoices one, nor moves stock.
LEMMA Stutters ==
    ASSUME UNCHANGED <<inv, stock>>,
           \A s \in Sales : box'[s] = "none" <=> box[s] = "none"
    PROVE  UNCHANGED Ledger!vars
<1>1. Sold' = Sold
  BY DEF Sold
<1> QED  BY <1>1 DEF Ledger!vars

\* The till and the server implement the ledger: a sale is completed once, it
\* is booked at most once, and booking it takes its cart from the branch stock.
THEOREM Refinement == Spec => ImplementsLedger
<1>1. Init => Ledger!Init
  BY DEF Init, Ledger!Init, Sold
<1>2. ASSUME TillInv, [Next]_vars PROVE [Ledger!Next]_(Ledger!vars)
  <2>0. DiskType /\ EngineType /\ EngineInv /\ RowsInv
    BY <1>2 DEF TillInv, TypeOK
  <2>1. ASSUME NEW s \in Sales, Sale(s) PROVE Ledger!Next
    BY <1>2, <2>1, SaleSells DEF Ledger!Next
  <2>2. ASSUME NEW t \in txs, Commit(t) PROVE [Ledger!Next]_(Ledger!vars)
    <3>1. t.sale \in Sales
      BY <1>2 DEF TillInv, WireInv, Sold
    <3> QED  BY <1>2, <2>2, <3>1, CommitBooks DEF Ledger!Next
  <2>3. ASSUME NEW v \in Variants, NEW d \in {-1, 1}, OtherMove(v, d)
        PROVE  Ledger!Next
    BY <2>3 DEF OtherMove, Ledger!Next, Ledger!Move, Sold
  <2>4. ASSUME UNCHANGED <<box, inv, stock>> PROVE UNCHANGED Ledger!vars
    BY <2>4, Stutters
  <2>5. ASSUME NEW s \in Sales, MarkSending(s) PROVE UNCHANGED Ledger!vars
    BY <2>0, <2>5, Stutters DEF MarkSending, DiskType
  <2>6. ASSUME MarkSent \/ MarkFailed PROVE UNCHANGED Ledger!vars
    BY <2>0, <2>6, Stutters DEF MarkSent, MarkFailed, DiskType, EngineInv
  <2>7. ASSUME Restart \/ Wipe PROVE UNCHANGED Ledger!vars
    BY <2>7, Stutters DEF Restart, Wipe, RecoveredRow
  <2>8. CASE Cashier
    BY <2>1, <2>4, <2>8
    DEF Cashier, IssueAccounting, Login, Logout, PressSync
  <2>9. CASE Engine
    BY <2>4, <2>5, <2>6, <2>9
    DEF Engine, TimerFires, SyncNow, Online, GetOutbox, Receive, TimeOut,
        Recheck, Pull, PullFails, ApplyPull, Finish, FinishFails
  <2>10. CASE Machine
    BY <2>4, <2>7, <2>10
    DEF Machine, Crash, FactoryReset, Decommission, FactoryResetFails
  <2>11. CASE Server
    BY <2>2, <2>3, <2>4, <2>11
    DEF Server, Begin, Refuse, Overloaded, Lose, Rollback
  <2>12. CASE UNCHANGED vars
    BY <2>4, <2>12 DEF vars
  <2> QED  BY <1>2, <2>8, <2>9, <2>10, <2>11, <2>12 DEF Next
<1> QED
  BY <1>1, <1>2, Invariance, PTL DEF Spec, ImplementsLedger, Ledger!Spec
=============================================================================
