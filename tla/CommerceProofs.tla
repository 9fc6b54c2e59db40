---------------------------- MODULE CommerceProofs ----------------------------
(***************************************************************************)
(* Proofs about what the tenant sells at which price and buys at which      *)
(* cost, for any clerks, books, codes, prices, offers, coupons, papers and  *)
(* requests under way.  Each part has its inductive invariant and its       *)
(* proof; the last section carries the results over to the composition      *)
(* MCCommerce, whose behaviours follow one part each.                       *)
(***************************************************************************)
EXTENDS MCCommerce, Sums, FiniteSetTheorems, SequenceTheorems, TLAPS

(***************************************************************************)
(* Price books: PriceBooks.                                                *)
(***************************************************************************)

\* The price books on their own.
PbSpec == PbInit /\ [][PbNext]_pbVars

\* The fields of a PriceBook row.
BookRecords ==
    [status : BookStatus, isDefault : BOOLEAN, scope : BookScopes, createdBy : Clerks,
     submittedBy : Clerks \cup {Nobody}, approvedBy : Clerks \cup {Nobody},
     sawDraft : BOOLEAN, name : {"first", "second"}]

\* Type correctness of the books, and a draft names nobody yet.
BooksOK ==
    /\ books = [b \in DOMAIN books |-> books[b]]
    /\ \A b \in DOMAIN books :
          /\ books[b] \in BookRecords
          /\ books[b].status = "draft" =>
                books[b].submittedBy = Nobody /\ books[b].approvedBy = Nobody

\* What an approval has read before it writes: its clerk did not create the book,
\* and unless it read a draft the book has been submitted, by somebody else.
\* IndependentApproval is not inductive without it.
ApprovalsOK ==
    \A c \in BookCalls : pbCalls[c].op = "approve" =>
        /\ pbCalls[c].book \in DOMAIN books /\ pbCalls[c].by \in Clerks
        /\ pbCalls[c].sawDraft \in BOOLEAN
        /\ pbCalls[c].by # books[pbCalls[c].book].createdBy
        /\ ~pbCalls[c].sawDraft =>
              /\ books[pbCalls[c].book].status # "draft"
              /\ pbCalls[c].by # books[pbCalls[c].book].submittedBy

\* What a replacement has read before it ends the previous defaults: they are of
\* its book's scope, defaults as long as they are active, and its book is a default
\* of that scope by now.
HandOversOK ==
    \A c \in BookCalls : pbCalls[c].op = "replace" =>
        /\ pbCalls[c].book \in DOMAIN books
        /\ \A x \in pbCalls[c].previous :
              /\ x \in DOMAIN books
              /\ books[x].scope = books[pbCalls[c].book].scope
              /\ books[x].status \in {"active", "ended"}
              /\ books[x].isDefault <=> books[x].status = "active"
              /\ books[pbCalls[c].book].isDefault \/ books[pbCalls[c].book].status = "ended"

\* Calls in flight are about books that are there.
CallsOK ==
    /\ pbCalls = [c \in BookCalls |-> pbCalls[c]]
    /\ \A c \in BookCalls :
          pbCalls[c].op \in {"rename", "activate"} => pbCalls[c].book \in DOMAIN books
    /\ ApprovalsOK /\ HandOversOK

\* The slot of a scope is held exactly while the scope has one active default.
HeldOK ==
    \A s \in BookScopes :
        IF s \in pbHeld THEN \E b \in DOMAIN books : ActiveDefaults(s) = {b}
                        ELSE ActiveDefaults(s) = {}

\* The inductive invariant of the price books.
PbInv == BooksOK /\ CallsOK /\ HeldOK /\ IndependentApproval

\* A tenant without books satisfies it.
LEMMA PbInitOK == PbInit => PbInv
  BY DEF PbInit, PbInv, BooksOK, CallsOK, ApprovalsOK, HandOversOK, HeldOK, PbIdle,
         ActiveDefaults, IndependentApproval

\* How a row may change without touching a default in force: nobody who was named
\* is replaced, and a status in force neither comes nor goes.
RowMoves(old, new) ==
    /\ new.createdBy = old.createdBy /\ new.scope = old.scope
    /\ new.isDefault = old.isDefault
    /\ new.status # old.status =>
          new.status \notin {"active", "ended"} /\ old.status \notin {"active", "ended"}
    /\ new.submittedBy # old.submittedBy => old.status = "draft"
    /\ new.status = "draft" =>
          old.status = "draft" /\ new.submittedBy = Nobody /\ new.approvedBy = Nobody
    /\ new.approvedBy # Nobody =>
          /\ new.approvedBy # new.createdBy
          /\ new.approvedBy = new.submittedBy => new.sawDraft

\* Replacing one row by one it may move to keeps the invariant.
LEMMA RowStep ==
  ASSUME PbInv, NEW b \in DOMAIN books, NEW row \in BookRecords, RowMoves(books[b], row),
         books' = [books EXCEPT ![b] = row], pbHeld' = pbHeld,
         \/ pbCalls' = pbCalls
         \/ \E c \in BookCalls : PbClose(c)
  PROVE  PbInv'
  <1>1. /\ DOMAIN books' = DOMAIN books /\ books'[b] = row
        /\ \A x \in DOMAIN books : x # b => books'[x] = books[x]
    BY DEF PbInv, BooksOK
  <1>2. BooksOK'
    BY <1>1 DEF PbInv, BooksOK, RowMoves
  <1>3. \A s \in BookScopes : ActiveDefaults(s)' = ActiveDefaults(s)
    BY <1>1 DEF ActiveDefaults, RowMoves
  <1>4. HeldOK'
    BY <1>1, <1>3 DEF PbInv, HeldOK
  <1>5. IndependentApproval'
    BY <1>1 DEF PbInv, IndependentApproval, RowMoves
  <1>6. \A c \in BookCalls : pbCalls'[c] = pbCalls[c] \/ pbCalls'[c] = PbIdle
    BY DEF PbClose, PbInv, CallsOK
  <1>7. PbIdle.op = "idle"
    BY DEF PbIdle
  <1>8. ApprovalsOK'
    BY <1>1, <1>6, <1>7 DEF PbInv, CallsOK, ApprovalsOK, RowMoves
  <1>9. HandOversOK'
    BY <1>1, <1>6, <1>7 DEF PbInv, CallsOK, HandOversOK, RowMoves
  <1>10. CallsOK'
    BY <1>1, <1>6, <1>7, <1>8, <1>9 DEF PbInv, CallsOK, PbClose
  <1>. QED
    BY <1>2, <1>4, <1>5, <1>10 DEF PbInv

\* A created book is a draft that nobody has submitted.
LEMMA CreateStep ==
  ASSUME PbInv, NEW b \in Books, NEW k \in Clerks, NEW s \in BookScopes, NEW d \in BOOLEAN,
         CreateBook(b, k, s, d)
  PROVE  PbInv'
  <1> DEFINE row == [status |-> "draft", isDefault |-> d, scope |-> s, createdBy |-> k,
                     submittedBy |-> Nobody, approvedBy |-> Nobody, sawDraft |-> FALSE,
                     name |-> "first"]
  <1>1. /\ b \notin DOMAIN books /\ DOMAIN books' = DOMAIN books \cup {b} /\ books'[b] = row
        /\ \A x \in DOMAIN books : books'[x] = books[x]
        /\ books' = [x \in DOMAIN books' |-> books'[x]]
        /\ UNCHANGED <<pbCalls, pbHeld>>
    BY DEF CreateBook
  <1>2. row \in BookRecords /\ row.status = "draft" /\ row.submittedBy = Nobody
        /\ row.approvedBy = Nobody
    BY DEF BookRecords, BookStatus
  <1> HIDE DEF row
  <1>3. BooksOK' /\ IndependentApproval'
    BY <1>1, <1>2 DEF PbInv, BooksOK, IndependentApproval
  <1>4. \A t \in BookScopes : ActiveDefaults(t)' = ActiveDefaults(t)
    BY <1>1, <1>2 DEF ActiveDefaults
  <1>5. HeldOK'
    BY <1>1, <1>4 DEF PbInv, HeldOK
  <1>6. ApprovalsOK' /\ HandOversOK'
    BY <1>1 DEF PbInv, CallsOK, ApprovalsOK, HandOversOK
  <1>. QED
    BY <1>1, <1>3, <1>5, <1>6 DEF PbInv, CallsOK

\* Ending a book frees the slot of its scope if it was the active default.
LEMMA EndStep ==
  ASSUME PbInv, NEW b, EndBook(b)
  PROVE  PbInv'
  <1>1. /\ b \in DOMAIN books /\ books[b].status = "active" /\ books[b] \in BookRecords
        /\ pbHeld' = IF books[b].isDefault THEN pbHeld \ {books[b].scope} ELSE pbHeld
        /\ UNCHANGED pbCalls
    BY DEF EndBook, Moves, PbInv, BooksOK
  <1>11. books'[b] = [books[b] EXCEPT !.status = "ended", !.isDefault = FALSE]
    BY <1>1 DEF EndBook, PbInv, BooksOK
  <1>2. /\ DOMAIN books' = DOMAIN books
        /\ \A x \in DOMAIN books : x # b => books'[x] = books[x]
        /\ books' = [x \in DOMAIN books' |-> books'[x]]
    BY <1>1 DEF EndBook, PbInv, BooksOK
  <1>3. /\ books'[b] \in BookRecords /\ books'[b].status = "ended" /\ ~books'[b].isDefault
        /\ books'[b].createdBy = books[b].createdBy
        /\ books'[b].submittedBy = books[b].submittedBy /\ books'[b].scope = books[b].scope
        /\ books'[b].approvedBy = books[b].approvedBy /\ books'[b].sawDraft = books[b].sawDraft
    BY <1>1, <1>11 DEF BookRecords, BookStatus
  <1>4. BooksOK'
    BY <1>2, <1>3 DEF PbInv, BooksOK
  <1>9. IndependentApproval'
    BY <1>2, <1>3 DEF PbInv, IndependentApproval
  <1>5. \A t \in BookScopes : ActiveDefaults(t)' = ActiveDefaults(t) \ {b}
    BY <1>2, <1>3 DEF ActiveDefaults
  <1>6. ASSUME NEW t \in BookScopes
        PROVE  IF t \in pbHeld' THEN \E x \in DOMAIN books' : ActiveDefaults(t)' = {x}
                                ELSE ActiveDefaults(t)' = {}
    <2>1. b \in ActiveDefaults(t) <=> books[b].isDefault /\ t = books[b].scope
      BY <1>1 DEF ActiveDefaults
    <2>2. IF t \in pbHeld THEN \E x \in DOMAIN books : ActiveDefaults(t) = {x}
                          ELSE ActiveDefaults(t) = {}
      BY DEF PbInv, HeldOK
    <2>3. ActiveDefaults(t)' = ActiveDefaults(t) \ {b}
      BY <1>5
    <2>. QED
      BY <1>1, <1>2, <2>1, <2>2, <2>3
  <1>7. HeldOK'
    BY <1>6 DEF HeldOK
  <1>8. ApprovalsOK'
    BY <1>1, <1>2, <1>3 DEF PbInv, CallsOK, ApprovalsOK
  <1>10. HandOversOK'
    BY <1>1, <1>2, <1>3 DEF PbInv, CallsOK, HandOversOK
  <1>. QED
    BY <1>1, <1>2, <1>4, <1>7, <1>8, <1>9, <1>10 DEF PbInv, CallsOK

\* Opening a call with what was read keeps the invariant.
LEMMA CallStep ==
  ASSUME PbInv, NEW c \in BookCalls, UNCHANGED <<books, pbHeld>>,
         NEW call, pbCalls' = [pbCalls EXCEPT ![c] = call],
         call.op \in {"rename", "activate"} => call.book \in DOMAIN books,
         call.op = "approve" =>
            /\ call.book \in DOMAIN books /\ call.by \in Clerks /\ call.sawDraft \in BOOLEAN
            /\ call.by # books[call.book].createdBy
            /\ ~call.sawDraft => /\ books[call.book].status # "draft"
                                 /\ call.by # books[call.book].submittedBy,
         call.op = "replace" =>
            /\ call.book \in DOMAIN books
            /\ \A x \in call.previous :
                  /\ x \in DOMAIN books /\ books[x].scope = books[call.book].scope
                  /\ books[x].status \in {"active", "ended"}
                  /\ books[x].isDefault <=> books[x].status = "active"
                  /\ books[call.book].isDefault \/ books[call.book].status = "ended"
  PROVE  PbInv'
  <1>1. BooksOK' /\ IndependentApproval'
    BY DEF PbInv, BooksOK, IndependentApproval
  <1>2. HeldOK'
    BY DEF PbInv, HeldOK, ActiveDefaults
  <1>3. pbCalls'[c] = call /\ \A d \in BookCalls : d # c => pbCalls'[d] = pbCalls[d]
    BY DEF PbInv, CallsOK
  <1>4. ApprovalsOK'
    BY <1>3 DEF PbInv, CallsOK, ApprovalsOK
  <1>5. HandOversOK'
    BY <1>3 DEF PbInv, CallsOK, HandOversOK
  <1>. QED
    BY <1>1, <1>2, <1>3, <1>4, <1>5 DEF PbInv, CallsOK

\* Activating a default hands the slot of its scope over, or is refused.
LEMMA HandOverStep ==
  ASSUME PbInv, NEW c \in BookCalls, ActivateWrite(c)
  PROVE  PbInv'
  <1> DEFINE b == pbCalls[c].book
             previous == pbCalls[c].previous
  <1>0. pbCalls[c].op = "replace" /\ PbClose(c)
    BY DEF ActivateWrite, PbRefuse
  <1>1. CASE ~(Moves(b, "scheduled", "active") /\ DefaultIndexAllows(b, previous))
    <2>1. PbIdle.op = "idle" /\ PbRefuse(c)
      BY <1>1 DEF ActivateWrite, PbIdle
    <2>. QED
      BY <2>1, CallStep DEF PbRefuse, PbClose
  <1>2. CASE Moves(b, "scheduled", "active") /\ DefaultIndexAllows(b, previous)
    <2>1. /\ b \in DOMAIN books /\ books[b].status = "scheduled"
          /\ books' = HandOver(b, previous)
          /\ pbHeld' = IF books[b].isDefault THEN pbHeld \cup {books[b].scope} ELSE pbHeld
          /\ books[b].isDefault => ActiveDefaults(books[b].scope) \subseteq previous \cup {b}
      BY <1>2 DEF ActivateWrite, Moves, DefaultIndexAllows
    <2>2. \A x \in previous :
             /\ x \in DOMAIN books /\ books[x].scope = books[b].scope
             /\ books[x].status \in {"active", "ended"} /\ books[b].isDefault
      BY <1>0, <2>1 DEF PbInv, CallsOK, HandOversOK
    <2>3. \A x \in DOMAIN books : books[x] \in BookRecords
      BY DEF PbInv, BooksOK
    <2> HIDE DEF b, previous
    <2>4. /\ DOMAIN books' = DOMAIN books
          /\ books' = [x \in DOMAIN books' |-> books'[x]]
          /\ \A x \in DOMAIN books : x # b /\ x \notin previous => books'[x] = books[x]
      BY <2>1, <2>2 DEF HandOver
    <2>14. /\ books'[b] = [books[b] EXCEPT !.status = "active"]
           /\ \A x \in previous :
                 books'[x] = [books[x] EXCEPT !.status = "ended", !.isDefault = FALSE]
      BY <2>1, <2>2 DEF HandOver
    <2>5. \A x \in DOMAIN books :
             /\ books'[x] \in BookRecords
             /\ books'[x].createdBy = books[x].createdBy /\ books'[x].scope = books[x].scope
             /\ books'[x].submittedBy = books[x].submittedBy
             /\ books'[x].approvedBy = books[x].approvedBy
             /\ books'[x].sawDraft = books[x].sawDraft
      <3> SUFFICES ASSUME NEW x \in DOMAIN books
                   PROVE  /\ books'[x] \in BookRecords
                          /\ books'[x].createdBy = books[x].createdBy
                          /\ books'[x].scope = books[x].scope
                          /\ books'[x].submittedBy = books[x].submittedBy
                          /\ books'[x].approvedBy = books[x].approvedBy
                          /\ books'[x].sawDraft = books[x].sawDraft
        OBVIOUS
      <3>1. \/ books'[x] = [books[x] EXCEPT !.status = "active"]
            \/ books'[x] = [books[x] EXCEPT !.status = "ended", !.isDefault = FALSE]
            \/ books'[x] = books[x]
        BY <2>4, <2>14
      <3>2. books[x] \in BookRecords
        BY <2>3
      <3>. QED
        BY <3>1, <3>2 DEF BookRecords, BookStatus
    <2>6. /\ books'[b].status = "active" /\ books'[b].isDefault = books[b].isDefault
          /\ b \notin previous
          /\ \A x \in previous : books'[x].status = "ended" /\ ~books'[x].isDefault
      <3>1. books[b] \in BookRecords /\ b \notin previous
        BY <2>1, <2>2, <2>3
      <3>2. books'[b].status = "active" /\ books'[b].isDefault = books[b].isDefault
        BY <2>14, <3>1 DEF BookRecords
      <3>3. ASSUME NEW x \in previous PROVE books'[x].status = "ended" /\ books'[x].isDefault = FALSE
        <4>1. books[x] \in BookRecords
          BY <2>2, <2>3
        <4>2. books'[x] = [books[x] EXCEPT !.status = "ended", !.isDefault = FALSE]
          BY <2>14
        <4>. QED
          BY <4>1, <4>2 DEF BookRecords
      <3>. QED
        BY <3>1, <3>2, <3>3
    <2>7. IndependentApproval'
      BY <2>4, <2>5 DEF PbInv, IndependentApproval
    <2>13. BooksOK'
      <3>1. \A x \in DOMAIN books : books'[x].status = "draft" => books[x].status = "draft"
        BY <2>4, <2>6
      <3>. QED
        BY <2>4, <2>5, <3>1 DEF PbInv, BooksOK
    <2>8. ASSUME NEW t \in BookScopes
          PROVE  IF t \in pbHeld' THEN \E x \in DOMAIN books' : ActiveDefaults(t)' = {x}
                                  ELSE ActiveDefaults(t)' = {}
      <3>1. CASE books[b].isDefault /\ t = books[b].scope
        <4>1. ActiveDefaults(t)' = {b}
          <5>1. b \in ActiveDefaults(t)'
            BY <2>1, <2>4, <2>5, <2>6, <3>1 DEF ActiveDefaults
          <5>2. ASSUME NEW x \in ActiveDefaults(t)', x # b PROVE FALSE
            <6>1. x \in DOMAIN books /\ x \notin previous
              BY <2>4, <2>6 DEF ActiveDefaults
            <6>2. x \in ActiveDefaults(t)
              BY <2>4, <5>2, <6>1 DEF ActiveDefaults
            <6>. QED
              BY <2>1, <3>1, <5>2, <6>1, <6>2
          <5>. QED
            BY <5>1, <5>2
        <4>. QED
          BY <2>1, <2>4, <3>1, <4>1
      <3>2. CASE ~(books[b].isDefault /\ t = books[b].scope)
        <4>1. ActiveDefaults(t)' = ActiveDefaults(t)
          BY <2>1, <2>2, <2>4, <2>5, <2>6, <3>2 DEF ActiveDefaults
        <4>2. t \in pbHeld' <=> t \in pbHeld
          BY <2>1, <3>2
        <4>. QED
          BY <2>4, <4>1, <4>2 DEF PbInv, HeldOK
      <3>. QED
        BY <3>1, <3>2
    <2>9. HeldOK'
      BY <2>8 DEF HeldOK
    <2>10. /\ PbIdle.op = "idle" /\ pbCalls'[c] = PbIdle
           /\ \A d \in BookCalls : d # c => pbCalls'[d] = pbCalls[d]
           /\ pbCalls' = [d \in BookCalls |-> pbCalls'[d]]
      BY <1>0 DEF PbClose, PbIdle, PbInv, CallsOK
    <2>11. ApprovalsOK'
      <3>1. \A x \in DOMAIN books : books[x].status # "draft" => books'[x].status # "draft"
        BY <2>1, <2>2, <2>4, <2>6
      <3>. QED
        BY <2>4, <2>5, <2>10, <3>1 DEF PbInv, CallsOK, ApprovalsOK
    <2>12. HandOversOK'
      <3>1. \A x \in DOMAIN books :
              /\ books[x].status \in {"active", "ended"} =>
                    /\ books'[x].status \in {"active", "ended"}
                    /\ (books[x].isDefault <=> books[x].status = "active") =>
                          (books'[x].isDefault <=> books'[x].status = "active")
              /\ books[x].isDefault \/ books[x].status = "ended" =>
                    books'[x].isDefault \/ books'[x].status = "ended"
        BY <2>1, <2>2, <2>4, <2>6
      <3>. QED
        BY <2>4, <2>5, <2>10, <3>1 DEF PbInv, CallsOK, HandOversOK
    <2>. QED
      BY <2>4, <2>7, <2>9, <2>10, <2>11, <2>12, <2>13 DEF PbInv, CallsOK
  <1>. QED
    BY <1>1, <1>2

\* Every step of the price books keeps the invariant.
LEMMA PbStep ==
  ASSUME PbInv, PbNext
  PROVE  PbInv'
  <1>1. ASSUME NEW b \in Books, NEW k \in Clerks, SubmitBook(b, k) PROVE PbInv'
    <2> DEFINE row == [books[b] EXCEPT !.status = "submitted", !.submittedBy = k]
    <2>1. b \in DOMAIN books /\ books[b].status = "draft" /\ books[b] \in BookRecords
          /\ books[b].approvedBy = Nobody
      BY <1>1 DEF SubmitBook, Moves, PbInv, BooksOK
    <2>2. row \in BookRecords /\ RowMoves(books[b], row)
      BY <2>1 DEF BookRecords, BookStatus, RowMoves
    <2>3. books' = [books EXCEPT ![b] = row] /\ UNCHANGED <<pbCalls, pbHeld>>
      BY <1>1, <2>1 DEF SubmitBook
    <2>. QED
      BY <2>1, <2>2, <2>3, RowStep
  <1>2. ASSUME NEW b \in Books, ScheduleBook(b) PROVE PbInv'
    <2> DEFINE row == [books[b] EXCEPT !.status = "scheduled"]
    <2>1. b \in DOMAIN books /\ books[b].status = "approved" /\ books[b] \in BookRecords
      BY <1>2 DEF ScheduleBook, Moves, PbInv, BooksOK
    <2>2. row \in BookRecords /\ RowMoves(books[b], row)
      BY <2>1 DEF BookRecords, BookStatus, RowMoves, PbInv, IndependentApproval
    <2>3. books' = [books EXCEPT ![b] = row] /\ UNCHANGED <<pbCalls, pbHeld>>
      BY <1>2, <2>1 DEF ScheduleBook
    <2>. QED
      BY <2>1, <2>2, <2>3, RowStep
  <1>3. ASSUME NEW c \in BookCalls, RenameWrite(c) PROVE PbInv'
    <2> DEFINE b == pbCalls[c].book
               row == [books[b] EXCEPT !.name = "second"]
    <2>1. b \in DOMAIN books /\ books[b] \in BookRecords
          /\ (books[b].status = "draft" =>
                 books[b].submittedBy = Nobody /\ books[b].approvedBy = Nobody)
      BY <1>3 DEF RenameWrite, PbInv, BooksOK, CallsOK
    <2>2. row \in BookRecords /\ RowMoves(books[b], row)
      BY <2>1 DEF BookRecords, RowMoves, PbInv, IndependentApproval
    <2>3. books' = [books EXCEPT ![b] = row] /\ PbClose(c) /\ pbHeld' = pbHeld
      BY <1>3, <2>1 DEF RenameWrite
    <2>. QED
      BY <2>1, <2>2, <2>3, RowStep
  <1>4. ASSUME NEW c \in BookCalls, ApproveWrite(c) PROVE PbInv'
    <2> DEFINE b == pbCalls[c].book
               row == [books[b] EXCEPT !.status = "approved", !.approvedBy = pbCalls[c].by,
                                       !.sawDraft = pbCalls[c].sawDraft]
    <2>1. CASE Moves(b, "submitted", "approved")
      <3>1. b \in DOMAIN books /\ books[b].status = "submitted" /\ books[b] \in BookRecords
        BY <2>1 DEF Moves, PbInv, BooksOK
      <3>2. /\ pbCalls[c].by \in Clerks /\ pbCalls[c].sawDraft \in BOOLEAN
            /\ pbCalls[c].by # books[b].createdBy
            /\ ~pbCalls[c].sawDraft => pbCalls[c].by # books[b].submittedBy
        BY <1>4 DEF ApproveWrite, PbInv, CallsOK, ApprovalsOK
      <3>3. row \in BookRecords /\ RowMoves(books[b], row)
        BY <3>1, <3>2 DEF BookRecords, BookStatus, RowMoves
      <3>4. books' = [books EXCEPT ![b] = row] /\ PbClose(c) /\ pbHeld' = pbHeld
        BY <1>4, <2>1, <3>1 DEF ApproveWrite
      <3>. QED
        BY <3>1, <3>3, <3>4, RowStep
    <2>2. CASE ~Moves(b, "submitted", "approved")
      <3>1. PbIdle.op = "idle" /\ PbRefuse(c)
        BY <1>4, <2>2 DEF ApproveWrite, PbIdle
      <3>. QED
        BY <3>1, CallStep DEF PbRefuse, PbClose
    <2>. QED
      BY <2>1, <2>2
  <1>5. ASSUME NEW c \in BookCalls, NEW b \in Books, RenameRead(c, b) \/ ActivateRead(c, b)
        PROVE  PbInv'
    <2>1. PICK op \in {"rename", "activate"} :
             b \in DOMAIN books /\ PbOpen(c, [op |-> op, book |-> b])
      BY <1>5 DEF RenameRead, ActivateRead
    <2>. QED
      BY <2>1, CallStep DEF PbOpen
  <1>6. ASSUME NEW c \in BookCalls, NEW b \in Books, NEW k \in Clerks, ApproveRead(c, b, k)
        PROVE  PbInv'
    <2> DEFINE call == [op |-> "approve", book |-> b, by |-> k,
                        sawDraft |-> books[b].status = "draft"]
    <2>1. b \in DOMAIN books /\ books[b].createdBy # k /\ books[b].submittedBy # k
          /\ PbOpen(c, call)
      BY <1>6 DEF ApproveRead, MayApprove
    <2>2. call.op = "approve" /\ call.book = b /\ call.by = k
          /\ call.sawDraft = (books[b].status = "draft")
      OBVIOUS
    <2> HIDE DEF call
    <2>. QED
      BY <2>1, <2>2, CallStep DEF PbOpen
  <1>7. ASSUME NEW c \in BookCalls, ActivateFind(c) PROVE PbInv'
    <2> DEFINE b == pbCalls[c].book
               previous == IF books[b].isDefault THEN ActiveDefaults(books[b].scope) \ {b} ELSE {}
               call == [op |-> "replace", book |-> b, previous |-> previous]
    <2>1. pbCalls' = [pbCalls EXCEPT ![c] = call] /\ UNCHANGED <<books, pbHeld>>
          /\ b \in DOMAIN books
      BY <1>7 DEF ActivateFind, PbInv, CallsOK
    <2>2. \A x \in previous :
             /\ x \in DOMAIN books /\ books[x].scope = books[b].scope
             /\ books[x].status \in {"active", "ended"} /\ books[b].isDefault
             /\ books[x].isDefault <=> books[x].status = "active"
      BY DEF ActiveDefaults
    <2>3. call.op = "replace" /\ call.book = b /\ call.previous = previous
      OBVIOUS
    <2> HIDE DEF call, previous, b
    <2>. QED
      BY <2>1, <2>2, <2>3, CallStep
  <1>. QED
    BY <1>1, <1>2, <1>3, <1>4, <1>5, <1>6, <1>7, CreateStep, EndStep, HandOverStep DEF PbNext

\* A scope whose slot is held by one book has one active default.
LEMMA OneDefault ==
  ASSUME HeldOK
  PROVE  OneDefaultPerScope
  <1> SUFFICES ASSUME NEW s \in BookScopes
               PROVE  Cardinality(ActiveDefaults(s)) = IF s \in pbHeld THEN 1 ELSE 0
    BY DEF OneDefaultPerScope
  <1>1. CASE s \in pbHeld
    <2>1. PICK b \in DOMAIN books : ActiveDefaults(s) = {b}
      BY <1>1 DEF HeldOK
    <2>. QED
      BY <1>1, <2>1, FS_Singleton
  <1>2. CASE s \notin pbHeld
    BY <1>2, FS_EmptySet DEF HeldOK
  <1>. QED
    BY <1>1, <1>2

\* Along every behaviour of the price books nobody approves a book of their own,
\* but for an approval that read it as a draft, and a scope has one active
\* default.
THEOREM PbSafe == PbSpec => [](IndependentApproval /\ OneDefaultPerScope)
  <1>1. PbInv /\ UNCHANGED pbVars => PbInv'
    BY DEF pbVars, PbInv, BooksOK, CallsOK, ApprovalsOK, HandOversOK, HeldOK, ActiveDefaults,
           IndependentApproval
  <1>2. PbInv => IndependentApproval /\ OneDefaultPerScope
    BY OneDefault DEF PbInv
  <1>. QED
    BY <1>1, <1>2, PbInitOK, PbStep, PTL DEF PbSpec

(***************************************************************************)
(* Tax codes: TaxCodes.                                                    *)
(***************************************************************************)

\* The tax codes on their own.
TaxSpec == TaxInit /\ [][TaxNext]_taxVars

\* The fields of a TaxCode row.
CodeRecords ==
    [code : CodeNames, version : Nat, rate : Rates,
     status : {"draft", "submitted", "approved", "scheduled", "active", "superseded"},
     createdBy : TaxClerks, submittedBy : TaxClerks \cup {NoOne},
     approvedBy : TaxClerks \cup {NoOne}, sawDraft : BOOLEAN, submittedRate : Rates, supersedes : CodeIds \cup {NoCode},
     supersededBy : CodeIds \cup {NoCode}]

\* Type correctness of the tax codes.
CodesTyped ==
    /\ codes = [x \in DOMAIN codes |-> codes[x]]
    /\ DOMAIN codes \subseteq CodeIds
    /\ \A x \in DOMAIN codes : codes[x] \in CodeRecords

\* What holds of each row: a draft is approved by nobody, a code past the draft
\* has the rate that was submitted, and it names a successor exactly when it is
\* superseded.
CodeRowOK(row) ==
    /\ row.status = "draft" => row.approvedBy = NoOne
    /\ row.status # "draft" => row.rate = row.submittedRate
    /\ row.supersededBy # NoCode <=> row.status = "superseded"
    /\ row.approvedBy # NoOne => (row.approvedBy = row.submittedBy => row.sawDraft)

\* Every row is as CodeRowOK says.
CodeRowsOK == \A x \in DOMAIN codes : CodeRowOK(codes[x])

\* A superseded code and its successor point to each other. Without it a second
\* successor could take over what has been replaced already.
LinksOK ==
    \A x \in DOMAIN codes : codes[x].supersededBy # NoCode =>
        /\ codes[x].supersededBy \in Activated
        /\ codes[codes[x].supersededBy].supersedes = x

\* Once a code has been active, one is.
OneActive == Activated # {} => \E x \in DOMAIN codes : ActiveCodes = {x}

\* What the calls in flight have read: an approval that did not read a draft is
\* about a code submitted by somebody else.
TaxCallsOK ==
    /\ taxCalls = [c \in TaxCalls |-> taxCalls[c]]
    /\ \A c \in TaxCalls : taxCalls[c].op # "idle" => taxCalls[c].id \in DOMAIN codes
    /\ \A c \in TaxCalls : taxCalls[c].op = "next" =>
          taxCalls[c].rate \in Rates /\ taxCalls[c].by \in TaxClerks
    /\ \A c \in TaxCalls : taxCalls[c].op = "approve" =>
          /\ taxCalls[c].by \in TaxClerks /\ taxCalls[c].sawDraft \in BOOLEAN
          /\ ~taxCalls[c].sawDraft =>
                /\ codes[taxCalls[c].id].status # "draft"
                /\ taxCalls[c].by # codes[taxCalls[c].id].submittedBy

\* The inductive invariant of the tax codes.
TaxInv == CodesTyped /\ CodeRowsOK /\ LinksOK /\ OneActive /\ TaxCallsOK

\* A tenant without tax codes satisfies it.
LEMMA TaxInitOK == TaxInit => TaxInv
  BY DEF TaxInit, TaxInv, CodesTyped, CodeRowsOK, LinksOK, OneActive, TaxCallsOK, TaxIdle,
         Activated, ActiveCodes

\* Closing a call, or leaving the calls alone, keeps what they have read true as
\* long as no submitted code becomes a draft again or changes its submitter.
LEMMA TaxClosing ==
  ASSUME TaxCallsOK, taxCalls' = taxCalls \/ \E c \in TaxCalls : TaxClose(c),
         DOMAIN codes \subseteq DOMAIN codes',
         \A x \in DOMAIN codes : codes[x].status # "draft" =>
            codes'[x].status # "draft" /\ codes'[x].submittedBy = codes[x].submittedBy
  PROVE  TaxCallsOK'
  <1>1. \A c \in TaxCalls : taxCalls'[c] = taxCalls[c] \/ taxCalls'[c] = TaxIdle
    BY DEF TaxClose, TaxCallsOK
  <1>2. TaxIdle.op = "idle"
    BY DEF TaxIdle
  <1>3. taxCalls' = [c \in TaxCalls |-> taxCalls'[c]]
    BY DEF TaxClose, TaxCallsOK
  <1>. QED
    BY <1>1, <1>2, <1>3 DEF TaxCallsOK

\* How a row may change without entering or leaving force.
CodeMoves(old, new) ==
    /\ new.status # old.status =>
          new.status \notin {"active", "superseded"} /\ old.status \notin {"active", "superseded"}
    /\ new.supersedes = old.supersedes /\ new.supersededBy = old.supersededBy
    /\ old.status # "draft" => new.status # "draft" /\ new.submittedBy = old.submittedBy

\* Replacing one row by one it may move to keeps the invariant.
LEMMA CodeStep ==
  ASSUME TaxInv, NEW x \in DOMAIN codes, NEW row \in CodeRecords, CodeRowOK(row),
         CodeMoves(codes[x], row), codes' = [codes EXCEPT ![x] = row],
         taxCalls' = taxCalls \/ \E c \in TaxCalls : TaxClose(c)
  PROVE  TaxInv'
  <1>1. /\ DOMAIN codes' = DOMAIN codes /\ codes'[x] = row
        /\ \A y \in DOMAIN codes : y # x => codes'[y] = codes[y]
    BY DEF TaxInv, CodesTyped
  <1>2. CodesTyped'
    BY <1>1 DEF TaxInv, CodesTyped
  <1>3. CodeRowsOK'
    BY <1>1 DEF TaxInv, CodeRowsOK
  <1>4. Activated' = Activated /\ ActiveCodes' = ActiveCodes
    BY <1>1 DEF Activated, ActiveCodes, CodeMoves
  <1>5. OneActive'
    BY <1>1, <1>4 DEF TaxInv, OneActive
  <1>6. LinksOK'
    <2>1. \A y \in DOMAIN codes : codes'[y].supersedes = codes[y].supersedes
                               /\ codes'[y].supersededBy = codes[y].supersededBy
      BY <1>1 DEF CodeMoves
    <2>2. Activated \subseteq DOMAIN codes
      BY DEF Activated
    <2>. QED
      BY <1>1, <1>4, <2>1, <2>2 DEF TaxInv, LinksOK
  <1>7. TaxCallsOK'
    BY <1>1, TaxClosing DEF TaxInv, CodeMoves
  <1>. QED
    BY <1>2, <1>3, <1>5, <1>6, <1>7 DEF TaxInv

\* A new draft keeps it.
LEMMA NewRowStep ==
  ASSUME TaxInv, RoomForRow, NEW code \in CodeNames, NEW v \in Nat, NEW rate \in Rates,
         NEW prev \in CodeIds \cup {NoCode}, NEW clerk \in TaxClerks,
         codes' = With(codes, NewId, DraftRow(code, v, rate, prev, clerk)),
         taxCalls' = taxCalls \/ \E c \in TaxCalls : TaxClose(c)
  PROVE  TaxInv'
  <1> DEFINE row == DraftRow(code, v, rate, prev, clerk)
             x == NewId
  <1>1. x \in CodeIds /\ x \notin DOMAIN codes
    BY DEF RoomForRow, NewId
  <1>2. row \in CodeRecords /\ CodeRowOK(row) /\ row.status = "draft" /\ row.supersededBy = NoCode
    BY DEF DraftRow, CodeRecords, CodeRowOK
  <1> HIDE DEF row, x
  <1>3. /\ DOMAIN codes' = DOMAIN codes \cup {x} /\ codes'[x] = row
        /\ \A y \in DOMAIN codes : codes'[y] = codes[y]
        /\ codes' = [y \in DOMAIN codes' |-> codes'[y]]
    BY <1>1 DEF With, row, x
  <1>4. CodesTyped' /\ CodeRowsOK'
    BY <1>1, <1>2, <1>3 DEF TaxInv, CodesTyped, CodeRowsOK
  <1>5. Activated' = Activated /\ ActiveCodes' = ActiveCodes
    BY <1>1, <1>2, <1>3 DEF Activated, ActiveCodes
  <1>6. OneActive'
    BY <1>3, <1>5 DEF TaxInv, OneActive
  <1>7. LinksOK'
    <2>1. Activated \subseteq DOMAIN codes
      BY DEF Activated
    <2>. QED
      BY <1>2, <1>3, <1>5, <2>1 DEF TaxInv, LinksOK
  <1>8. TaxCallsOK'
    BY <1>1, <1>3, TaxClosing DEF TaxInv
  <1>. QED
    BY <1>4, <1>6, <1>7, <1>8 DEF TaxInv

\* A step that leaves the codes alone keeps what is said of them.
LEMMA CodesKept ==
  ASSUME TaxInv, UNCHANGED codes, TaxCallsOK'
  PROVE  TaxInv'
  BY DEF TaxInv, CodesTyped, CodeRowsOK, LinksOK, OneActive, Activated, ActiveCodes

\* Promoting a scheduled code supersedes the active one in the same transaction,
\* or is refused.
LEMMA PromoteStep ==
  ASSUME TaxInv, NEW c \in TaxCalls, PromoteWrite(c)
  PROVE  TaxInv'
  <1> DEFINE x == taxCalls[c].id
             incumbent == taxCalls[c].incumbent
  <1>0. TaxClose(c) /\ taxCalls[c].op = "promote"
    BY DEF PromoteWrite
  <1>1. CASE x \in incumbent \/ ~PromotionGoes(x, incumbent)
    <2>1. codes' = codes
      BY <1>1 DEF PromoteWrite
    <2>2. TaxCallsOK'
      BY <1>0, <2>1, TaxClosing DEF TaxInv
    <2>. QED
      BY <2>1, <2>2, CodesKept
  <1>2. CASE ~(x \in incumbent \/ ~PromotionGoes(x, incumbent))
    <2>1. /\ x \in DOMAIN codes /\ x \notin incumbent /\ Activatable(x)
          /\ incumbent = ActiveCodes /\ codes' = PromoteOver(x, incumbent)
      BY <1>0, <1>2 DEF PromoteWrite, PromotionGoes, TaxInv, TaxCallsOK
    <2>2. codes[x].status \in {"approved", "scheduled"} /\ codes[x] \in CodeRecords
          /\ CodeRowOK(codes[x]) /\ x \in CodeIds
      BY <2>1 DEF Activatable, TaxInv, CodesTyped, CodeRowsOK
    <2>3. TaxCallsOK /\ CodesTyped /\ CodeRowsOK /\ LinksOK /\ OneActive
      BY DEF TaxInv
    <2> HIDE DEF x, incumbent
    <2> DEFINE prev == IF incumbent = {} THEN codes[x].supersedes ELSE CHOOSE i \in incumbent : TRUE
    <2>4. /\ DOMAIN codes' = DOMAIN codes
          /\ codes' = [y \in DOMAIN codes' |-> codes'[y]]
          /\ \A y \in DOMAIN codes : y # x /\ y \notin incumbent => codes'[y] = codes[y]
      BY <2>1 DEF PromoteOver
    <2>5. codes'[x] = [codes[x] EXCEPT !.status = "active", !.supersedes = prev]
      BY <2>1 DEF PromoteOver
    <2>6. \A y \in incumbent :
             codes'[y] = [codes[y] EXCEPT !.status = "superseded", !.supersededBy = x]
      BY <2>1 DEF PromoteOver, ActiveCodes
    <2>7. prev \in CodeIds \cup {NoCode} /\ (incumbent # {} => prev \in incumbent)
      <3>1. incumbent \subseteq CodeIds
        BY <2>1, <2>3 DEF ActiveCodes, CodesTyped
      <3>2. codes[x].supersedes \in CodeIds \cup {NoCode}
        BY <2>2 DEF CodeRecords
      <3>. QED
        BY <3>1, <3>2
    <2> HIDE DEF prev
    <2>8. /\ codes'[x] \in CodeRecords /\ CodeRowOK(codes'[x]) /\ codes'[x].status = "active"
          /\ codes'[x].supersedes = prev /\ codes'[x].supersededBy = NoCode
          /\ codes'[x].submittedBy = codes[x].submittedBy
      BY <2>2, <2>5, <2>7 DEF CodeRecords, CodeRowOK
    <2>9. ASSUME NEW y \in incumbent
          PROVE  /\ codes'[y] \in CodeRecords /\ CodeRowOK(codes'[y])
                 /\ codes'[y].status = "superseded" /\ codes'[y].supersededBy = x
                 /\ codes'[y].supersedes = codes[y].supersedes
                 /\ codes'[y].submittedBy = codes[y].submittedBy
      <3>1. codes[y] \in CodeRecords /\ CodeRowOK(codes[y]) /\ codes[y].status = "active"
        BY <2>1, <2>3 DEF ActiveCodes, CodesTyped, CodeRowsOK
      <3>2. codes'[y] = [codes[y] EXCEPT !.status = "superseded", !.supersededBy = x]
        BY <2>6
      <3>3. x # NoCode
        BY <2>2, CodeIdsAssumption
      <3>. QED
        BY <2>2, <3>1, <3>2, <3>3 DEF CodeRecords, CodeRowOK
    <2>10. CodesTyped' /\ CodeRowsOK'
      <3>1. \A y \in DOMAIN codes : codes'[y] \in CodeRecords /\ CodeRowOK(codes'[y])
        BY <2>3, <2>4, <2>8, <2>9 DEF CodesTyped, CodeRowsOK
      <3>. QED
        BY <2>3, <2>4, <3>1 DEF CodesTyped, CodeRowsOK
    <2>11. ActiveCodes' = {x}
      <3>1. x \in ActiveCodes'
        BY <2>1, <2>4, <2>8 DEF ActiveCodes
      <3>2. ASSUME NEW y \in ActiveCodes', y # x PROVE FALSE
        <4>1. y \in DOMAIN codes /\ y \notin incumbent
          BY <2>4, <2>9 DEF ActiveCodes
        <4>2. y \in ActiveCodes
          BY <2>4, <3>2, <4>1 DEF ActiveCodes
        <4>. QED
          BY <2>1, <4>1, <4>2
      <3>. QED
        BY <3>1, <3>2
    <2>12. OneActive'
      BY <2>1, <2>4, <2>11 DEF OneActive
    <2>13. Activated' = Activated \cup {x}
      <3>1. \A y \in DOMAIN codes : y \in Activated' <=> y \in Activated \cup {x}
        <4> SUFFICES ASSUME NEW y \in DOMAIN codes PROVE y \in Activated' <=> y \in Activated \cup {x}
          OBVIOUS
        <4>1. CASE y = x
          BY <2>4, <2>8, <4>1 DEF Activated
        <4>2. CASE y \in incumbent
          BY <2>1, <2>4, <2>9, <4>2 DEF Activated, ActiveCodes
        <4>3. CASE y # x /\ y \notin incumbent
          BY <2>4, <4>3 DEF Activated
        <4>. QED
          BY <4>1, <4>2, <4>3
      <3>. QED
        BY <2>1, <2>4, <3>1 DEF Activated
    <2>14. LinksOK'
      <3> SUFFICES ASSUME NEW y \in DOMAIN codes, codes'[y].supersededBy # NoCode
                   PROVE  /\ codes'[y].supersededBy \in Activated'
                          /\ codes'[codes'[y].supersededBy].supersedes = y
        BY <2>4 DEF LinksOK
      <3>1. CASE y = x
        BY <2>8, <3>1
      <3>2. CASE y \in incumbent
        <4>1. \E z : ActiveCodes = {z}
          BY <2>1, <3>2, <2>3 DEF OneActive, Activated, ActiveCodes
        <4>2. prev = y
          BY <2>1, <2>7, <3>2, <4>1
        <4>3. codes'[y].supersededBy = x
          BY <2>9, <3>2
        <4>. QED
          BY <2>8, <2>13, <4>2, <4>3
      <3>3. CASE y # x /\ y \notin incumbent
        <4> DEFINE z == codes[y].supersededBy
        <4>1. codes'[y].supersededBy = z /\ z \in Activated /\ codes[z].supersedes = y
          BY <2>3, <2>4, <3>3 DEF LinksOK
        <4>2. z # x /\ z \in DOMAIN codes
          BY <2>2, <4>1 DEF Activated
        <4>3. codes'[z].supersedes = codes[z].supersedes
          BY <2>4, <2>9, <4>2
        <4>. QED
          BY <2>13, <4>1, <4>3
      <3>. QED
        BY <3>1, <3>2, <3>3
    <2>15. TaxCallsOK'
      <3>1. \A y \in DOMAIN codes : codes[y].status # "draft" =>
               codes'[y].status # "draft" /\ codes'[y].submittedBy = codes[y].submittedBy
        BY <2>4, <2>8, <2>9
      <3>. QED
        BY <1>0, <2>3, <2>4, <3>1, TaxClosing
    <2>. QED
      BY <2>10, <2>12, <2>14, <2>15 DEF TaxInv
  <1>. QED
    BY <1>1, <1>2

\* Opening a call with what was read keeps the invariant.
LEMMA TaxOpening ==
  ASSUME TaxInv, NEW c \in TaxCalls, NEW call, UNCHANGED codes,
         taxCalls' = [taxCalls EXCEPT ![c] = call],
         call.id \in DOMAIN codes, call.op = "next" => call.rate \in Rates /\ call.by \in TaxClerks,
         call.op = "approve" =>
            /\ call.by \in TaxClerks /\ call.sawDraft \in BOOLEAN
            /\ ~call.sawDraft => codes[call.id].status # "draft" /\ call.by # codes[call.id].submittedBy
  PROVE  TaxInv'
  <1>1. taxCalls'[c] = call /\ \A d \in TaxCalls : d # c => taxCalls'[d] = taxCalls[d]
    BY DEF TaxInv, TaxCallsOK
  <1>2. TaxCallsOK'
    BY <1>1 DEF TaxInv, TaxCallsOK
  <1>. QED
    BY <1>2, CodesKept

\* Every step of the tax codes keeps the invariant.
LEMMA TaxStep ==
  ASSUME TaxInv, TaxNext
  PROVE  TaxInv'
  <1>0. \A x \in DOMAIN codes : codes[x] \in CodeRecords /\ CodeRowOK(codes[x])
    BY DEF TaxInv, CodesTyped, CodeRowsOK
  <1>1. ASSUME NEW n \in CodeNames, NEW r \in Rates, NEW k \in TaxClerks, CreateCode(n, r, k)
        PROVE  TaxInv'
    BY <1>1, NewRowStep DEF CreateCode
  <1>2. ASSUME NEW x \in CodeIds, NEW r \in Rates, EditDraft(x, r) PROVE TaxInv'
    <2> DEFINE row == [codes[x] EXCEPT !.rate = r]
    <2>1. x \in DOMAIN codes /\ codes[x].status = "draft"
      BY <1>2 DEF EditDraft, Editable
    <2>2. row \in CodeRecords /\ CodeRowOK(row) /\ CodeMoves(codes[x], row)
      BY <1>0, <2>1 DEF CodeRecords, CodeRowOK, CodeMoves
    <2>3. codes' = [codes EXCEPT ![x] = row] /\ UNCHANGED taxCalls
      BY <1>2, <2>1 DEF EditDraft
    <2>. QED
      BY <2>1, <2>2, <2>3, CodeStep
  <1>3. ASSUME NEW x \in CodeIds, NEW k \in TaxClerks, SubmitCode(x, k) PROVE TaxInv'
    <2> DEFINE row == [codes[x] EXCEPT !.status = "submitted", !.submittedBy = k,
                                       !.submittedRate = codes[x].rate]
    <2>1. x \in DOMAIN codes /\ codes[x].status = "draft"
      BY <1>3 DEF SubmitCode
    <2>2. row \in CodeRecords /\ CodeRowOK(row) /\ CodeMoves(codes[x], row)
      BY <1>0, <2>1 DEF CodeRecords, CodeRowOK, CodeMoves
    <2>3. codes' = [codes EXCEPT ![x] = row] /\ UNCHANGED taxCalls
      BY <1>3, <2>1 DEF SubmitCode
    <2>. QED
      BY <2>1, <2>2, <2>3, CodeStep
  <1>4. ASSUME NEW x \in CodeIds, ScheduleCode(x) PROVE TaxInv'
    <2> DEFINE row == [codes[x] EXCEPT !.status = "scheduled"]
    <2>1. x \in DOMAIN codes /\ codes[x].status = "approved"
      BY <1>4 DEF ScheduleCode
    <2>2. row \in CodeRecords /\ CodeRowOK(row) /\ CodeMoves(codes[x], row)
      BY <1>0, <2>1 DEF CodeRecords, CodeRowOK, CodeMoves
    <2>3. codes' = [codes EXCEPT ![x] = row] /\ UNCHANGED taxCalls
      BY <1>4, <2>1 DEF ScheduleCode
    <2>. QED
      BY <2>1, <2>2, <2>3, CodeStep
  <1>5. ASSUME NEW c \in TaxCalls, ApproveCodeWrite(c) PROVE TaxInv'
    <2> DEFINE x == taxCalls[c].id
               row == [codes[x] EXCEPT !.status = "approved", !.approvedBy = taxCalls[c].by,
                                       !.sawDraft = taxCalls[c].sawDraft]
    <2>1. x \in DOMAIN codes /\ taxCalls[c].by \in TaxClerks /\ taxCalls[c].sawDraft \in BOOLEAN
          /\ (~taxCalls[c].sawDraft => taxCalls[c].by # codes[x].submittedBy) /\ TaxClose(c)
      BY <1>5 DEF ApproveCodeWrite, TaxInv, TaxCallsOK
    <2>2. CASE codes[x].status = "submitted"
      <3>3. codes[x] \in CodeRecords /\ CodeRowOK(codes[x])
        BY <1>0, <2>1
      <3>4. /\ row \in CodeRecords /\ row.status = "approved" /\ row.approvedBy = taxCalls[c].by
            /\ row.sawDraft = taxCalls[c].sawDraft /\ row.rate = codes[x].rate
            /\ row.submittedRate = codes[x].submittedRate
            /\ row.supersedes = codes[x].supersedes /\ row.supersededBy = codes[x].supersededBy
            /\ row.submittedBy = codes[x].submittedBy
        BY <2>1, <3>3 DEF CodeRecords
      <3>1. row \in CodeRecords /\ CodeRowOK(row) /\ CodeMoves(codes[x], row)
        <4> HIDE DEF row, x
        <4>. QED
          BY <2>1, <2>2, <3>3, <3>4 DEF CodeRowOK, CodeMoves
      <3>2. codes' = [codes EXCEPT ![x] = row]
        BY <1>5, <2>1, <2>2 DEF ApproveCodeWrite
      <3>. QED
        BY <2>1, <3>1, <3>2, CodeStep
    <2>3. CASE codes[x].status # "submitted"
      <3>1. UNCHANGED codes
        BY <1>5, <2>3 DEF ApproveCodeWrite
      <3>2. TaxCallsOK'
        BY <2>1, <3>1, TaxClosing DEF TaxInv
      <3>. QED
        BY <3>1, <3>2, CodesKept
    <2>. QED
      BY <2>2, <2>3
  <1>6. ASSUME NEW c \in TaxCalls, NextVersionWrite(c) PROVE TaxInv'
    <2> DEFINE x == taxCalls[c].id
               v == codes[x].version + 1
    <2>1. /\ x \in DOMAIN codes /\ TaxClose(c)
          /\ taxCalls[c].rate \in Rates /\ taxCalls[c].by \in TaxClerks
      BY <1>6 DEF NextVersionWrite, TaxInv, TaxCallsOK
    <2>2. codes[x].code \in CodeNames /\ v \in Nat /\ x \in CodeIds \cup {NoCode}
      BY <1>0, <2>1 DEF CodeRecords, TaxInv, CodesTyped
    <2>3. \/ /\ RoomForRow
             /\ codes' = With(codes, NewId, DraftRow(codes[x].code, v, taxCalls[c].rate, x,
                                                     taxCalls[c].by))
          \/ UNCHANGED codes
      BY <1>6 DEF NextVersionWrite
    <2> HIDE DEF v, x
    <2>4. CASE UNCHANGED codes
      BY <2>1, <2>4, TaxClosing, CodesKept DEF TaxInv
    <2>. QED
      BY <2>1, <2>2, <2>3, <2>4, NewRowStep
  <1>7. ASSUME NEW c \in TaxCalls, NEW x \in CodeIds, NEW k \in TaxClerks, ApproveCodeRead(c, x, k)
        PROVE  TaxInv'
    <2> DEFINE call == [op |-> "approve", id |-> x, by |-> k, sawDraft |-> codes[x].status = "draft"]
    <2>1. x \in DOMAIN codes /\ codes[x].submittedBy # k /\ TaxOpen(c, call)
      BY <1>7 DEF ApproveCodeRead
    <2>2. call.op = "approve" /\ call.id = x /\ call.by = k
          /\ call.sawDraft = (codes[x].status = "draft")
      OBVIOUS
    <2> HIDE DEF call
    <2>. QED
      BY <2>1, <2>2, TaxOpening DEF TaxOpen
  <1>8. ASSUME NEW c \in TaxCalls, NEW x \in CodeIds, ActivateCodeRead(c, x) PROVE TaxInv'
    BY <1>8, TaxOpening DEF ActivateCodeRead, TaxOpen
  <1>9. ASSUME NEW c \in TaxCalls, NEW x \in CodeIds, NEW r \in Rates, NEW k \in TaxClerks,
               NextVersionRead(c, x, r, k)
        PROVE  TaxInv'
    BY <1>9, TaxOpening DEF NextVersionRead, TaxOpen
  <1>10. ASSUME NEW c \in TaxCalls, FindIncumbent(c) PROVE TaxInv'
    <2>1. taxCalls[c].id \in DOMAIN codes
      BY <1>10 DEF FindIncumbent, TaxInv, TaxCallsOK
    <2>. QED
      BY <1>10, <2>1, TaxOpening DEF FindIncumbent
  <1>. QED
    BY <1>1, <1>2, <1>3, <1>4, <1>5, <1>6, <1>7, <1>8, <1>9, <1>10, PromoteStep DEF TaxNext

\* The invariant gives RateTraceable and TaxApprovedByAnother.
LEMMA TaxTraceable ==
  ASSUME TaxInv
  PROVE  RateTraceable /\ TaxApprovedByAnother
  <1>1. TaxApprovedByAnother
    BY DEF TaxInv, CodeRowsOK, CodeRowOK, TaxApprovedByAnother
  <1>2. Activated # {} => Cardinality(ActiveCodes) = 1
    <2> SUFFICES ASSUME Activated # {} PROVE Cardinality(ActiveCodes) = 1
      OBVIOUS
    <2>1. PICK x : ActiveCodes = {x}
      BY DEF TaxInv, OneActive
    <2>. QED
      BY <2>1, FS_Singleton
  <1>3. ASSUME NEW x \in Activated
        PROVE  /\ codes[x].rate = codes[x].submittedRate
               /\ codes[x].supersededBy # NoCode <=> x \notin ActiveCodes
               /\ codes[x].supersededBy # NoCode =>
                     /\ codes[x].supersededBy \in Activated
                     /\ codes[codes[x].supersededBy].supersedes = x
    <2>1. x \in DOMAIN codes /\ codes[x].status \in {"active", "superseded"} /\ CodeRowOK(codes[x])
      BY DEF Activated, TaxInv, CodeRowsOK
    <2>. QED
      BY <2>1 DEF TaxInv, LinksOK, CodeRowOK, ActiveCodes
  <1>. QED
    BY <1>1, <1>2, <1>3 DEF RateTraceable

\* Along every behaviour of the tax codes the active rate is the one that was
\* submitted, with its predecessors linked, and its approver is not its submitter
\* unless the approval read a draft.
THEOREM TaxSafe == TaxSpec => [](RateTraceable /\ TaxApprovedByAnother)
  <1>1. TaxInv /\ UNCHANGED taxVars => TaxInv'
    BY CodesKept DEF taxVars, TaxInv, TaxCallsOK
  <1>. QED
    BY <1>1, TaxInitOK, TaxStep, TaxTraceable, PTL DEF TaxSpec

(***************************************************************************)
(* Entries of a price book: PriceEntries.                                  *)
(***************************************************************************)

\* The entries of a price book on their own.
EntSpec == EntInit /\ [][EntNext]_entVars

\* The fields of a PriceBookEntry row.
EntryRecords ==
    [version : Nat, status : {"active", "superseded"}, price : UnitPrices,
     allowZero : BOOLEAN, replacedBy : Nat]

\* The versions are 1 to last, each but the last superseded by the next.
HistoryUpTo(last) ==
    /\ {e.version : e \in entries} = 1..last
    /\ \A e \in entries :
          /\ e.status = IF e.version = last THEN "active" ELSE "superseded"
          /\ e.replacedBy = IF e.version = last THEN 0 ELSE e.version + 1
          /\ ValidPrice(e.price, e.allowZero)

\* One row per version, and EntryHistory's chain up to their number.
EntriesOK ==
    /\ entries \subseteq EntryRecords /\ IsFiniteSet(entries)
    /\ \A e, f \in entries : e.version = f.version => e = f
    /\ HistoryUpTo(Cardinality(entries))

\* The calls in flight carry valid prices.
EntCallsOK ==
    /\ entCalls = [c \in EntryCalls |-> entCalls[c]]
    /\ \A c \in EntryCalls :
          /\ entCalls[c].op = "create" =>
                /\ entCalls[c].price \in UnitPrices /\ entCalls[c].allowZero \in BOOLEAN
                /\ ValidPrice(entCalls[c].price, entCalls[c].allowZero)
          /\ entCalls[c].op = "supersede" =>
                /\ entCalls[c].price \in UnitPrices /\ entCalls[c].allowZero \in BOOLEAN
                /\ ValidPrice(entCalls[c].price, entCalls[c].allowZero)

\* The inductive invariant of the entries.
EntInv == EntriesOK /\ EntCallsOK

\* A book without entries satisfies it.
LEMMA EntInitOK == EntInit => EntInv
  <1> SUFFICES ASSUME EntInit PROVE EntInv
    OBVIOUS
  <1>1. IsFiniteSet(entries) /\ Cardinality(entries) = 0 /\ entries = {}
    BY FS_EmptySet DEF EntInit
  <1>2. EntriesOK
    BY <1>1 DEF EntriesOK, HistoryUpTo
  <1>. QED
    BY <1>2 DEF EntInit, EntInv, EntCallsOK, EntIdle

\* An entry is created as version 1 where none is active, which is only where
\* there is none.
LEMMA FirstEntry ==
  ASSUME EntInv, NEW c \in EntryCalls, EntryWrite(c)
  PROVE  EntriesOK'
  <1> DEFINE n == Cardinality(entries)
             row == [version |-> 1, status |-> "active", price |-> entCalls[c].price,
                     allowZero |-> entCalls[c].allowZero, replacedBy |-> 0]
  <1>1. CASE \E e \in entries : e.status = "active"
    <2>1. entries' = entries
      BY <1>1 DEF EntryWrite
    <2>. QED
      BY <2>1 DEF EntInv, EntriesOK, HistoryUpTo
  <1>2. CASE ~ \E e \in entries : e.status = "active"
    <2>1. entries' = entries \cup {row}
      BY <1>2 DEF EntryWrite
    <2>2. n \in Nat
      BY FS_CardinalityType DEF EntInv, EntriesOK
    <2>3. n = 0
      <3> SUFFICES ASSUME n # 0 PROVE FALSE
        OBVIOUS
      <3>1. n \in {e.version : e \in entries}
        BY <2>2 DEF EntInv, EntriesOK, HistoryUpTo
      <3>. QED
        BY <1>2, <3>1 DEF EntInv, EntriesOK, HistoryUpTo
    <2>4. entries = {}
      BY <2>3, FS_EmptySet DEF EntInv, EntriesOK
    <2>5. entries' = {row}
      BY <2>1, <2>4
    <2>6. IsFiniteSet({row}) /\ Cardinality({row}) = 1
      BY FS_Singleton
    <2>7. row \in EntryRecords /\ row.version = 1 /\ row.status = "active" /\ row.replacedBy = 0
          /\ ValidPrice(row.price, row.allowZero)
      BY DEF EntryRecords, EntInv, EntCallsOK, EntryWrite
    <2> HIDE DEF row, n
    <2>8. {e.version : e \in {row}} = 1..1
      BY <2>7
    <2>. QED
      BY <2>5, <2>6, <2>7, <2>8 DEF EntriesOK, HistoryUpTo
  <1>. QED
    BY <1>1, <1>2

\* What superseding changes of a row.
LEMMA SupersededRow ==
  ASSUME NEW e \in EntryRecords, NEW p \in UnitPrices, NEW z \in BOOLEAN
  PROVE  LET was == [e EXCEPT !.status = "superseded", !.replacedBy = e.version + 1]
             now == Successor(e, p, z)
         IN /\ was \in EntryRecords /\ was.version = e.version /\ was.status = "superseded"
            /\ was.replacedBy = e.version + 1 /\ was.price = e.price
            /\ was.allowZero = e.allowZero
            /\ now \in EntryRecords /\ now.version = e.version + 1 /\ now.status = e.status
            /\ now.price = p /\ now.allowZero = z /\ now.replacedBy = e.replacedBy
  <1>1. e.version + 1 \in Nat
    BY DEF EntryRecords
  <1>. QED
    BY <1>1 DEF EntryRecords, Successor

\* Superseding the active entry makes the next version, and of any other is
\* refused.
LEMMA NextEntry ==
  ASSUME EntInv, NEW c \in EntryCalls, SupersedeWrite(c)
  PROVE  EntriesOK'
  <1> DEFINE e == entCalls[c].entry
             price == entCalls[c].price
             allowed == entCalls[c].allowZero
             n == Cardinality(entries)
             was == [e EXCEPT !.status = "superseded", !.replacedBy = e.version + 1]
             now == Successor(e, price, allowed)
             rest == entries \ {e}
  <1>1. CASE ~StillActive(e)
    <2>1. entries' = entries
      BY <1>1 DEF SupersedeWrite
    <2>. QED
      BY <2>1 DEF EntInv, EntriesOK, HistoryUpTo
  <1>2. CASE StillActive(e)
    <2>1. entries' = rest \cup {was, now}
      BY <1>2 DEF SupersedeWrite
    <2>2. e \in entries /\ e \in EntryRecords /\ e.status = "active"
      BY <1>2 DEF StillActive, EntInv, EntriesOK
    <2>3. n \in Nat
      BY FS_CardinalityType DEF EntInv, EntriesOK
    <2>4. e.version = n
      BY <2>2 DEF EntInv, EntriesOK, HistoryUpTo
    <2>5. /\ price \in UnitPrices /\ allowed \in BOOLEAN
          /\ ValidPrice(price, allowed) /\ ValidPrice(e.price, e.allowZero)
      BY <2>2 DEF EntInv, EntCallsOK, EntriesOK, HistoryUpTo, SupersedeWrite
    <2>6. /\ was \in EntryRecords /\ was.version = n /\ was.status = "superseded"
          /\ was.replacedBy = n + 1 /\ was.price = e.price /\ was.allowZero = e.allowZero
      <3> HIDE DEF e, n, price, allowed
      <3>1. e \in EntryRecords /\ price \in UnitPrices /\ allowed \in BOOLEAN
        BY <2>2, <2>5
      <3>. QED
        BY <2>4, <3>1, SupersededRow
    <2>7. /\ now \in EntryRecords /\ now.version = n + 1 /\ now.status = "active"
          /\ now.price = price /\ now.allowZero = allowed
          /\ now.replacedBy = 0
      <3>1. e.replacedBy = 0
        BY <2>2, <2>4 DEF EntInv, EntriesOK, HistoryUpTo
      <3> HIDE DEF e, n, price, allowed, was
      <3>2. e \in EntryRecords /\ price \in UnitPrices /\ allowed \in BOOLEAN
        BY <2>2, <2>5
      <3>3. /\ now \in EntryRecords /\ now.version = e.version + 1 /\ now.status = e.status
            /\ now.price = price /\ now.allowZero = allowed /\ now.replacedBy = e.replacedBy
        <4>1. e.version + 1 \in Nat
          BY <3>2 DEF EntryRecords
        <4>. QED
          BY <3>2, <4>1 DEF EntryRecords, Successor
      <3> HIDE DEF now
      <3>. QED
        BY <2>2, <2>4, <3>1, <3>3
    <2>8. /\ \A f \in rest : f \in EntryRecords /\ f.version \in 1..n /\ f.version # n
          /\ \A f, g \in rest : f.version = g.version => f = g
      BY <2>2, <2>4 DEF EntInv, EntriesOK, HistoryUpTo
    <2>9. \A f \in rest : /\ f.status = "superseded" /\ f.replacedBy = f.version + 1
                          /\ ValidPrice(f.price, f.allowZero)
      BY <2>8 DEF EntInv, EntriesOK, HistoryUpTo
    <2>10. IsFiniteSet(entries)
      BY DEF EntInv, EntriesOK
    <2>19. {f.version : f \in entries} = 1..n
      BY DEF EntInv, EntriesOK, HistoryUpTo
    <2> HIDE DEF was, now, n, e, price, allowed
    <2>11. IsFiniteSet(rest) /\ Cardinality(rest) = n - 1
      BY <2>2, <2>10, FS_RemoveElement DEF n
    <2> HIDE DEF rest
    <2>12. was \notin rest /\ now \notin rest \cup {was}
      BY <2>3, <2>6, <2>7, <2>8
    <2>13. IsFiniteSet(rest \cup {was}) /\ Cardinality(rest \cup {was}) = n
      BY <2>3, <2>11, <2>12, FS_AddElement
    <2>14. IsFiniteSet((rest \cup {was}) \cup {now}) /\ Cardinality((rest \cup {was}) \cup {now}) = n + 1
      BY <2>12, <2>13, FS_AddElement
    <2>15. entries' = (rest \cup {was}) \cup {now}
      BY <2>1
    <2>16. {f.version : f \in entries'} = 1..n+1
      <3>1. \A v \in 1..n+1 : \E f \in entries' : f.version = v
        <4> SUFFICES ASSUME NEW v \in 1..n+1 PROVE \E f \in entries' : f.version = v
          OBVIOUS
        <4>1. CASE v = n + 1
          BY <2>7, <2>15, <4>1
        <4>2. CASE v = n
          BY <2>6, <2>15, <4>2
        <4>3. CASE v # n /\ v # n + 1
          <5>1. v \in 1..n
            BY <2>3, <4>3
          <5>2. PICK f \in entries : f.version = v
            BY <2>19, <5>1
          <5>. QED
            BY <2>4, <2>15, <4>3, <5>2 DEF rest
        <4>. QED
          BY <4>1, <4>2, <4>3
      <3>2. \A f \in entries' : f.version \in 1..n+1
        <4>1. n >= 1
          BY <2>2, <2>3, <2>4, <2>19
        <4>. QED
          BY <2>3, <2>6, <2>7, <2>8, <2>15, <4>1
      <3>. QED
        BY <3>1, <3>2
    <2>17. \A f \in entries' :
              /\ f.status = IF f.version = n + 1 THEN "active" ELSE "superseded"
              /\ f.replacedBy = IF f.version = n + 1 THEN 0 ELSE f.version + 1
              /\ ValidPrice(f.price, f.allowZero)
      <3> SUFFICES ASSUME NEW f \in entries'
                   PROVE  /\ f.status = IF f.version = n + 1 THEN "active" ELSE "superseded"
                          /\ f.replacedBy = IF f.version = n + 1 THEN 0 ELSE f.version + 1
                          /\ ValidPrice(f.price, f.allowZero)
        OBVIOUS
      <3>1. CASE f \in rest
        <4>1. f.version # n + 1
          BY <2>3, <2>8, <3>1
        <4>. QED
          BY <2>9, <3>1, <4>1
      <3>2. CASE f = was
        BY <2>3, <2>5, <2>6, <3>2
      <3>3. CASE f = now
        BY <2>5, <2>7, <3>3
      <3>. QED
        BY <2>15, <3>1, <3>2, <3>3
    <2>18. /\ \A f, g \in entries' : f.version = g.version => f = g
           /\ entries' \subseteq EntryRecords
      <3>1. \A f \in rest : f.version # n /\ f.version # n + 1
        BY <2>3, <2>8
      <3>2. n # n + 1
        BY <2>3
      <3>. QED
        BY <2>6, <2>7, <2>8, <2>15, <3>1, <3>2
    <2>. QED
      BY <2>14, <2>15, <2>16, <2>17, <2>18 DEF EntriesOK, HistoryUpTo
  <1>. QED
    BY <1>1, <1>2

\* Every step of the entries keeps the invariant.
LEMMA EntStep ==
  ASSUME EntInv, EntNext
  PROVE  EntInv'
  <1>1. CASE BookMoves
    BY <1>1 DEF BookMoves, EntInv, EntriesOK, HistoryUpTo, EntCallsOK
  <1>2. ASSUME NEW c \in EntryCalls, NEW call, EntOpen(c, call),
               call.op \in {"create", "supersede"} =>
                  /\ call.price \in UnitPrices /\ call.allowZero \in BOOLEAN
                  /\ ValidPrice(call.price, call.allowZero)
        PROVE  EntInv'
    <2>1. entCalls'[c] = call /\ \A d \in EntryCalls : d # c => entCalls'[d] = entCalls[d]
      BY <1>2 DEF EntOpen, EntInv, EntCallsOK
    <2>2. EntCallsOK'
      BY <1>2, <2>1 DEF EntOpen, EntInv, EntCallsOK
    <2>. QED
      BY <1>2, <2>2 DEF EntOpen, EntInv, EntriesOK, HistoryUpTo
  <1>3. ASSUME NEW c \in EntryCalls, NEW k \in Pricers, NEW p \in UnitPrices, NEW z \in BOOLEAN,
               EntryRead(c, k, p, z)
        PROVE  EntInv'
    <2> DEFINE call == [op |-> "create", price |-> p, allowZero |-> z]
    <2>1. EntOpen(c, call) /\ ValidPrice(p, z)
      BY <1>3 DEF EntryRead
    <2>2. call.op = "create" /\ call.price = p /\ call.allowZero = z
      OBVIOUS
    <2> HIDE DEF call
    <2>. QED
      BY <1>2, <2>1, <2>2
  <1>4. ASSUME NEW c \in EntryCalls, NEW k \in Pricers, NEW p \in UnitPrices, NEW e \in entries,
               NEW f \in Flags, SupersedeRead(c, e, k, p, f)
        PROVE  EntInv'
    <2> DEFINE z == AllowsZero(e, f)
               call == [op |-> "supersede", entry |-> e, price |-> p, allowZero |-> z]
    <2>1. EntOpen(c, call) /\ ValidPrice(p, z)
      BY <1>4 DEF SupersedeRead
    <2>2. call.op = "supersede" /\ call.price = p /\ call.allowZero = z
      OBVIOUS
    <2>3. z \in BOOLEAN
      BY DEF AllowsZero, EntInv, EntriesOK, EntryRecords
    <2> HIDE DEF call, z
    <2>. QED
      BY <1>2, <2>1, <2>2, <2>3
  <1>5. ASSUME NEW c \in EntryCalls, EntryWrite(c) \/ SupersedeWrite(c) PROVE EntInv'
    <2>1. EntriesOK' /\ EntClose(c)
      BY <1>5, FirstEntry, NextEntry DEF EntryWrite, SupersedeWrite
    <2>2. EntCallsOK'
      BY <2>1 DEF EntClose, EntIdle, EntInv, EntCallsOK
    <2>. QED
      BY <2>1, <2>2 DEF EntInv
  <1>. QED
    BY <1>1, <1>3, <1>4, <1>5 DEF EntNext

\* Along every behaviour of the entries the versions form one unbroken chain that
\* ends in the active one.
THEOREM EntSafe == EntSpec => []EntryHistory
  <1>1. EntInv /\ UNCHANGED entVars => EntInv'
    BY DEF entVars, EntInv, EntriesOK, HistoryUpTo, EntCallsOK
  <1>2. EntInv => EntryHistory
    BY DEF EntInv, EntriesOK, HistoryUpTo, EntryHistory
  <1>. QED
    BY <1>1, <1>2, EntInitOK, EntStep, PTL DEF EntSpec

(***************************************************************************)
(* Exceptions granted at the counter: PriceExceptions.                     *)
(***************************************************************************)

\* The exceptions on their own.
ExcSpec == ExcInit /\ [][ExcNext]_excVars

\* What holds of each row: it can be approved, and an exemption that is pending
\* has not been.
ExcRowOK(r) ==
    /\ "approvedBy" \in DOMAIN r
    /\ r.kind = "exemption" =>
          /\ "status" \in DOMAIN r /\ r.status \in {"pending", "approved", "revoked"}
          /\ r.status = "pending" => r.approvedBy = Unapproved

\* Every row is as ExcRowOK says.
ExcRowsOK ==
    /\ rows = [x \in DOMAIN rows |-> rows[x]]
    /\ \A x \in DOMAIN rows : ExcRowOK(rows[x])

\* What the calls in flight have read: an exemption is not approved by who asked
\* for it.
ExcCallsOK ==
    /\ excCalls = [c \in ExcCalls |-> excCalls[c]]
    /\ \A c \in ExcCalls :
          /\ excCalls[c].op = "approve" => excCalls[c].id \in DOMAIN rows
          /\ excCalls[c].op = "exempt" =>
                /\ excCalls[c].id \in DOMAIN rows /\ rows[excCalls[c].id].kind = "exemption"
                /\ excCalls[c].by # rows[excCalls[c].id].by

\* The inductive invariant of the exceptions.
ExcInv == ExcRowsOK /\ ExcCallsOK

\* How a row may change: its evidence stays, an approver is named once and is
\* somebody else, and an exemption goes forward.
EvidenceStep(r, s) ==
    /\ EvidenceOf(s) = EvidenceOf(r)
    /\ s.approvedBy # r.approvedBy =>
          /\ r.approvedBy = Unapproved /\ s.approvedBy # r.by
          /\ r.kind = "override" => r.pending
    /\ r.kind = "exemption" =>
          <<r.status, s.status>> \notin
             {<<"revoked", "pending">>, <<"revoked", "approved">>, <<"approved", "pending">>}

\* Every row changes as EvidenceStep says.
Kept == \A x \in DOMAIN rows : x \in DOMAIN rows' /\ EvidenceStep(rows[x], rows'[x])

\* The same, spelled as in EvidenceKept.
Spelled ==
    \A x \in DOMAIN rows :
          /\ x \in DOMAIN rows' /\ EvidenceOf(rows'[x]) = EvidenceOf(rows[x])
          /\ rows'[x].approvedBy # rows[x].approvedBy =>
                /\ rows[x].approvedBy = Unapproved /\ rows'[x].approvedBy # rows[x].by
                /\ rows[x].kind = "override" => rows[x].pending
          /\ rows[x].kind = "exemption" =>
                <<rows[x].status, rows'[x].status>> \notin
                   {<<"revoked", "pending">>, <<"revoked", "approved">>,
                    <<"approved", "pending">>}

\* No exceptions, nothing to keep.
LEMMA ExcInitOK == ExcInit => ExcInv
  BY DEF ExcInit, ExcInv, ExcRowsOK, ExcCallsOK, ExcIdle

\* A row that does not change keeps its evidence.
LEMMA SameEvidence ==
  ASSUME NEW r, ExcRowOK(r)
  PROVE  EvidenceStep(r, r)
  BY DEF EvidenceStep, ExcRowOK

\* Closing a call, or leaving the calls alone, keeps what they have read true as
\* long as rows keep their kind and requester.
LEMMA ExcCallsKept ==
  ASSUME ExcInv, DOMAIN rows \subseteq DOMAIN rows',
         \A x \in DOMAIN rows : rows'[x].kind = rows[x].kind /\ rows'[x].by = rows[x].by,
         excCalls' = excCalls \/ \E c \in ExcCalls : ExcClose(c)
  PROVE  ExcCallsOK'
  <1>1. \A c \in ExcCalls : excCalls'[c] = excCalls[c] \/ excCalls'[c] = ExcIdle
    BY DEF ExcClose, ExcInv, ExcCallsOK
  <1>2. ExcIdle.op = "idle" /\ excCalls' = [c \in ExcCalls |-> excCalls'[c]]
    BY DEF ExcIdle, ExcClose, ExcInv, ExcCallsOK
  <1>. QED
    BY <1>1, <1>2 DEF ExcInv, ExcCallsOK

\* A step that leaves the rows alone keeps the evidence.
LEMMA RowsKept ==
  ASSUME ExcInv, UNCHANGED rows, ExcCallsOK'
  PROVE  ExcInv' /\ Kept
  BY SameEvidence DEF ExcInv, ExcRowsOK, Kept

\* A new row keeps that of the others.
LEMMA InsertStep ==
  ASSUME ExcInv, Room, NEW row, ExcRowOK(row), Insert(row),
         excCalls' = excCalls \/ \E c \in ExcCalls : ExcClose(c)
  PROVE  ExcInv' /\ Kept
  <1>1. FreshRow \notin DOMAIN rows
    BY DEF Room, FreshRow
  <1>2. /\ DOMAIN rows' = DOMAIN rows \cup {FreshRow}
        /\ \A x \in DOMAIN rows : rows'[x] = rows[x]
        /\ rows'[FreshRow] = row /\ rows' = [x \in DOMAIN rows' |-> rows'[x]]
    BY <1>1 DEF Insert
  <1>3. ExcRowsOK'
    BY <1>2 DEF ExcInv, ExcRowsOK
  <1>4. ExcCallsOK'
    BY <1>2, ExcCallsKept
  <1>5. Kept
    BY <1>2, SameEvidence DEF ExcInv, ExcRowsOK, Kept
  <1>. QED
    BY <1>3, <1>4, <1>5 DEF ExcInv

\* Replacing one row by one it may move to keeps the invariant.
LEMMA WriteStep ==
  ASSUME ExcInv, NEW x \in DOMAIN rows, NEW row, ExcRowOK(row), EvidenceStep(rows[x], row),
         row.kind = rows[x].kind, row.by = rows[x].by,
         rows' = [rows EXCEPT ![x] = row],
         excCalls' = excCalls \/ \E c \in ExcCalls : ExcClose(c)
  PROVE  ExcInv' /\ Kept
  <1>1. /\ DOMAIN rows' = DOMAIN rows /\ rows'[x] = row
        /\ \A y \in DOMAIN rows : y # x => rows'[y] = rows[y]
        /\ rows' = [y \in DOMAIN rows' |-> rows'[y]]
    BY DEF ExcInv, ExcRowsOK
  <1>2. ExcRowsOK'
    BY <1>1 DEF ExcInv, ExcRowsOK
  <1>3. ExcCallsOK'
    BY <1>1, ExcCallsKept
  <1>4. Kept
    BY <1>1, SameEvidence DEF ExcInv, ExcRowsOK, Kept
  <1>. QED
    BY <1>2, <1>3, <1>4 DEF ExcInv

\* Opening a call with what was read keeps the invariant.
LEMMA ExcOpening ==
  ASSUME ExcInv, NEW c \in ExcCalls, NEW call, ExcOpen(c, call),
         call.op = "approve" => call.id \in DOMAIN rows,
         call.op = "exempt" =>
            call.id \in DOMAIN rows /\ rows[call.id].kind = "exemption" /\ call.by # rows[call.id].by
  PROVE  ExcInv' /\ Kept
  <1>1. excCalls'[c] = call /\ \A d \in ExcCalls : d # c => excCalls'[d] = excCalls[d]
    BY DEF ExcOpen, ExcInv, ExcCallsOK
  <1>2. ExcCallsOK'
    BY <1>1 DEF ExcOpen, ExcInv, ExcCallsOK
  <1>. QED
    BY <1>2, RowsKept DEF ExcOpen

\* Naming an approver changes no evidence.
LEMMA NamedEvidence ==
  ASSUME NEW r, "approvedBy" \in DOMAIN r, NEW by
  PROVE  LET s == [r EXCEPT !.approvedBy = by]
         IN EvidenceOf(s) = EvidenceOf(r) /\ s.approvedBy = by /\ DOMAIN s = DOMAIN r
            /\ s.kind = r.kind /\ s.by = r.by /\ s.status = r.status
  BY DEF EvidenceOf

\* A change of status changes no evidence.
LEMMA StatusEvidence ==
  ASSUME NEW r, "status" \in DOMAIN r, NEW st
  PROVE  LET s == [r EXCEPT !.status = st]
         IN EvidenceOf(s) = EvidenceOf(r) /\ s.status = st /\ DOMAIN s = DOMAIN r
            /\ s.kind = r.kind /\ s.by = r.by /\ s.approvedBy = r.approvedBy
  BY DEF EvidenceOf

\* An override is approved once, while pending, and not by who asked.
LEMMA ApproveOverride ==
  ASSUME ExcInv, NEW c \in ExcCalls, ApprovalRecorded(c)
  PROVE  ExcInv' /\ Kept
  <1> DEFINE x == excCalls[c].id
             row == [rows[x] EXCEPT !.approvedBy = excCalls[c].by]
  <1>1. x \in DOMAIN rows /\ ExcRowOK(rows[x]) /\ ExcClose(c)
    BY DEF ApprovalRecorded, ExcInv, ExcCallsOK, ExcRowsOK
  <1>2. CASE OverrideApprovable(x, excCalls[c].by)
    <2>1. rows' = [rows EXCEPT ![x] = row]
      BY <1>1, <1>2 DEF ApprovalRecorded
    <2>2. rows[x].kind = "override" /\ rows[x].pending /\ rows[x].approvedBy = Unapproved
          /\ rows[x].by # excCalls[c].by
      BY <1>2 DEF OverrideApprovable, AwaitsApproval
    <2>3. /\ EvidenceOf(row) = EvidenceOf(rows[x]) /\ row.approvedBy = excCalls[c].by
          /\ DOMAIN row = DOMAIN rows[x] /\ row.kind = rows[x].kind /\ row.by = rows[x].by
      BY <1>1, NamedEvidence DEF ExcRowOK
    <2> HIDE DEF row, x
    <2>4. ExcRowOK(row) /\ EvidenceStep(rows[x], row)
      BY <1>1, <2>2, <2>3 DEF ExcRowOK, EvidenceStep
    <2>. QED
      BY <1>1, <2>1, <2>3, <2>4, WriteStep
  <1>3. CASE ~OverrideApprovable(x, excCalls[c].by)
    <2>1. UNCHANGED rows
      BY <1>3 DEF ApprovalRecorded
    <2>. QED
      BY <1>1, <2>1, ExcCallsKept, RowsKept
  <1>. QED
    BY <1>2, <1>3

\* An exemption is approved once, while pending, and not by who asked.
LEMMA ApproveExemption ==
  ASSUME ExcInv, NEW c \in ExcCalls, ExemptionApproved(c)
  PROVE  ExcInv' /\ Kept
  <1> DEFINE x == excCalls[c].id
             mid == [rows[x] EXCEPT !.status = "approved"]
             row == [mid EXCEPT !.approvedBy = excCalls[c].by]
  <1>1. x \in DOMAIN rows /\ ExcRowOK(rows[x]) /\ ExcClose(c)
        /\ rows[x].kind = "exemption" /\ excCalls[c].by # rows[x].by
    BY DEF ExemptionApproved, ExcInv, ExcCallsOK, ExcRowsOK
  <1>2. CASE ExemptionPending(x)
    <2>1. rows' = [rows EXCEPT ![x] = row]
      BY <1>1, <1>2 DEF ExemptionApproved
    <2>2. rows[x].status = "pending" /\ rows[x].approvedBy = Unapproved
      BY <1>1, <1>2 DEF ExemptionPending, ExcRowOK
    <2>3. /\ EvidenceOf(mid) = EvidenceOf(rows[x]) /\ mid.status = "approved"
          /\ DOMAIN mid = DOMAIN rows[x] /\ mid.kind = rows[x].kind /\ mid.by = rows[x].by
      BY <1>1, StatusEvidence DEF ExcRowOK
    <2> HIDE DEF mid
    <2>4. /\ EvidenceOf(row) = EvidenceOf(mid) /\ row.approvedBy = excCalls[c].by
          /\ DOMAIN row = DOMAIN mid /\ row.kind = mid.kind /\ row.by = mid.by
          /\ row.status = mid.status
      BY <1>1, <2>3, NamedEvidence DEF ExcRowOK
    <2> HIDE DEF row, x
    <2>5. ExcRowOK(row) /\ EvidenceStep(rows[x], row)
      BY <1>1, <2>2, <2>3, <2>4 DEF ExcRowOK, EvidenceStep
    <2>. QED
      BY <1>1, <2>1, <2>3, <2>4, <2>5, WriteStep
  <1>3. CASE ~ExemptionPending(x)
    <2>1. UNCHANGED rows
      BY <1>3 DEF ExemptionApproved
    <2>. QED
      BY <1>1, <2>1, ExcCallsKept, RowsKept
  <1>. QED
    BY <1>2, <1>3

\* Every step of the exceptions keeps the invariant and the evidence.
LEMMA ExcStep ==
  ASSUME ExcInv, ExcNext
  PROVE  ExcInv' /\ Kept
  <1>1. ASSUME NEW p \in Limits, SaveLimits(p) PROVE ExcInv' /\ Kept
    BY <1>1, ExcCallsKept, RowsKept DEF SaveLimits
  <1>2. ASSUME NEW by \in Staff, ApplyExemption(by) PROVE ExcInv' /\ Kept
    <2> DEFINE row == [kind |-> "exemption", status |-> "pending", by |-> by,
                       approvedBy |-> Unapproved]
    <2>1. ExcRowOK(row)
      BY DEF ExcRowOK
    <2>2. Room /\ Insert(row) /\ UNCHANGED excCalls
      BY <1>2 DEF ApplyExemption
    <2> HIDE DEF row
    <2>. QED
      BY <2>1, <2>2, InsertStep
  <1>3. ASSUME NEW x \in RowIds, RevokeExemption(x) PROVE ExcInv' /\ Kept
    <2> DEFINE row == [rows[x] EXCEPT !.status = "revoked"]
    <2>1. x \in DOMAIN rows /\ rows[x].kind = "exemption" /\ rows[x].status # "revoked"
          /\ rows' = [rows EXCEPT ![x] = row] /\ UNCHANGED excCalls /\ ExcRowOK(rows[x])
      BY <1>3 DEF RevokeExemption, Live, ExcInv, ExcRowsOK
    <2>2. /\ EvidenceOf(row) = EvidenceOf(rows[x]) /\ row.status = "revoked"
          /\ DOMAIN row = DOMAIN rows[x] /\ row.kind = rows[x].kind /\ row.by = rows[x].by
          /\ row.approvedBy = rows[x].approvedBy
      BY <2>1, StatusEvidence DEF ExcRowOK
    <2> HIDE DEF row
    <2>3. ExcRowOK(row) /\ EvidenceStep(rows[x], row)
      BY <2>1, <2>2 DEF ExcRowOK, EvidenceStep
    <2>. QED
      BY <2>1, <2>2, <2>3, WriteStep
  <1>4. ASSUME NEW c \in ExcCalls, OverrideRecorded(c) \/ DiscountRecorded(c)
        PROVE  ExcInv' /\ Kept
    <2>1. ExcClose(c)
      BY <1>4 DEF OverrideRecorded, DiscountRecorded
    <2>2. CASE UNCHANGED rows
      BY <2>1, <2>2, ExcCallsKept, RowsKept
    <2>3. ASSUME NEW k \in {"override", "discount"}, NEW base, NEW final, NEW pending, NEW by, Room,
                 Insert([kind |-> k, base |-> base, final |-> final, pending |-> pending, by |-> by,
                         approvedBy |-> Unapproved])
          PROVE  ExcInv' /\ Kept
      <3>1. ExcRowOK([kind |-> k, base |-> base, final |-> final, pending |-> pending, by |-> by,
                      approvedBy |-> Unapproved])
        BY DEF ExcRowOK
      <3>. QED
        BY <2>1, <2>3, <3>1, InsertStep
    <2>4. CASE OverrideRecorded(c) /\ ~UNCHANGED rows
      BY <2>3, <2>4 DEF OverrideRecorded
    <2>5. CASE DiscountRecorded(c) /\ ~UNCHANGED rows
      BY <2>3, <2>5 DEF DiscountRecorded
    <2>. QED
      BY <1>4, <2>2, <2>4, <2>5
  <1>5. ASSUME NEW c \in ExcCalls, NEW by \in Staff, NEW q \in Quotations, NEW n \in Asked,
               OverrideQuoted(c, by, q, n) \/ \E b \in {"percentage", "amount"} : DiscountQuoted(c, by, q, b, n)
        PROVE  ExcInv' /\ Kept
    <2>1. CASE OverrideQuoted(c, by, q, n)
      BY <2>1, ExcOpening DEF OverrideQuoted
    <2>2. ASSUME NEW b \in {"percentage", "amount"}, DiscountQuoted(c, by, q, b, n)
          PROVE  ExcInv' /\ Kept
      BY <2>2, ExcOpening DEF DiscountQuoted
    <2>. QED
      BY <1>5, <2>1, <2>2
  <1>6. ASSUME NEW c \in ExcCalls, NEW by \in Staff, NEW x \in RowIds,
               ApprovalLooked(c, x, by) \/ ExemptionLooked(c, x, by)
        PROVE  ExcInv' /\ Kept
    <2>1. PICK op \in {"approve", "exempt"} :
             /\ x \in DOMAIN rows /\ ExcOpen(c, [op |-> op, id |-> x, by |-> by])
             /\ op = "exempt" => rows[x].kind = "exemption" /\ rows[x].by # by
      BY <1>6 DEF ApprovalLooked, ExemptionLooked
    <2>. QED
      BY <2>1, ExcOpening
  <1>. QED
    BY <1>1, <1>2, <1>3, <1>4, <1>5, <1>6, ApproveOverride, ApproveExemption DEF ExcNext

\* Every step of the exceptions keeps the evidence of every row.
THEOREM ExcSafe == ExcSpec => EvidenceKept
  <1>1. ExcInv /\ UNCHANGED excVars => ExcInv' /\ Kept
    <2> SUFFICES ASSUME ExcInv, UNCHANGED excVars PROVE ExcInv' /\ Kept
      OBVIOUS
    <2>1. ExcCallsOK'
      BY DEF excVars, ExcInv, ExcCallsOK
    <2>. QED
      BY <2>1, RowsKept DEF excVars
  <1>2. Kept => Spelled
    BY DEF Kept, EvidenceStep, Spelled
  <1>3. ExcInv /\ [ExcNext]_excVars => ExcInv' /\ [Spelled]_excVars
    BY <1>1, <1>2, ExcStep
  <1>4. ExcSpec => [][Spelled]_excVars
    BY <1>3, ExcInitOK, PTL DEF ExcSpec
  <1>. QED
    BY <1>4 DEF EvidenceKept, Spelled

(***************************************************************************)
(* Promotions and bundles: Promotions.                                     *)
(***************************************************************************)

\* The promotions and bundles on their own.
PrmSpec == PrmInit /\ [][PrmNext]_prmVars

\* The fields of a Promotion row.
PromoRecords ==
    [status : {"draft", "scheduled", "active", "paused", "ended", "cancelled"},
     submittedBy : Marketers \cup {Unnamed}, approvedBy : Marketers \cup {Unnamed},
     policy : BOOLEAN, whole : BOOLEAN, content : Nat, scheduledContent : Nat, early : BOOLEAN]
\* The fields of a Bundle row.
BundleRecords ==
    [status : {"draft", "active", "ended"}, policy : BOOLEAN, components : Nat, version : Nat,
     supersedes : BundleIds \cup {Unnamed}, early : BOOLEAN]

\* Type correctness of the promotions, and each is complete for its status.
PromosOK ==
    /\ promos = [x \in DOMAIN promos |-> promos[x]]
    /\ \A x \in DOMAIN promos : promos[x] \in PromoRecords /\ PromotionComplete(promos[x])
\* Type correctness of the bundles, and each is complete for its status.
BundlesOK ==
    /\ bundles = [x \in DOMAIN bundles |-> bundles[x]]
    /\ \A x \in DOMAIN bundles : bundles[x] \in BundleRecords /\ BundleComplete(bundles[x])

\* What a call in flight has read of its promotion: a schedule found both names,
\* an activation that did not read a draft a policy.
PromoCallOK(call) ==
    /\ call.op \in {"approve", "schedule", "activate"} => call.id \in DOMAIN promos
    /\ call.op = "approve" => call.by \in Marketers
    /\ call.op = "schedule" => BothNamed(call.id)
    /\ call.op = "activate" =>
          /\ call.early \in BOOLEAN
          /\ ~call.early => promos[call.id].status # "draft" /\ promos[call.id].policy
\* What a call in flight has read of its bundle: a sale found components and a
\* policy.
BundleCallOK(call) ==
    /\ call.op \in {"components", "sell"} => call.id \in DOMAIN bundles
    /\ call.op = "sell" => bundles[call.id].components > 0 /\ call.seen.policy
\* Every call in flight is as PromoCallOK and BundleCallOK say.
PrmCallsOK ==
    /\ prmCalls = [c \in PromoCalls |-> prmCalls[c]]
    /\ \A c \in PromoCalls : PromoCallOK(prmCalls[c]) /\ BundleCallOK(prmCalls[c])

\* The inductive invariant of the offers. Completeness alone is not inductive: an
\* activation writes on the strength of what it read, so what was read must stay
\* true.
PrmInv == PromosOK /\ BundlesOK /\ PrmCallsOK

\* No offers, nothing to complete.
LEMMA PrmInitOK == PrmInit => PrmInv
  BY DEF PrmInit, PrmInv, PromosOK, BundlesOK, PrmCallsOK, PromoCallOK, BundleCallOK, PrmIdle

\* A slot without a call has read nothing.
LEMMA IdleOK == PromoCallOK(PrmIdle) /\ BundleCallOK(PrmIdle)
  BY DEF PromoCallOK, BundleCallOK, PrmIdle

\* How a promotion may change under a call that has read it: who is named stays
\* named, and past the draft the policy is fixed.
PromoMoves(old, new) ==
    /\ old.submittedBy # Unnamed => new.submittedBy # Unnamed
    /\ old.approvedBy # Unnamed => new.approvedBy # Unnamed
    /\ old.status # "draft" => new.status # "draft" /\ new.policy = old.policy
\* How a bundle may change under a call that has read it: components are not
\* taken away.
BundleMoves(old, new) == old.components > 0 => new.components > 0

\* Closing a call, or leaving the calls alone, keeps what they have read true as
\* long as rows move so.
LEMMA PrmCallsKept ==
  ASSUME PrmCallsOK, prmCalls' = prmCalls \/ \E c \in PromoCalls : PrmClose(c),
         DOMAIN promos \subseteq DOMAIN promos', DOMAIN bundles \subseteq DOMAIN bundles',
         \A x \in DOMAIN promos : PromoMoves(promos[x], promos'[x]),
         \A x \in DOMAIN bundles : BundleMoves(bundles[x], bundles'[x])
  PROVE  PrmCallsOK'
  <1>1. /\ \A c \in PromoCalls : prmCalls'[c] = prmCalls[c] \/ prmCalls'[c] = PrmIdle
        /\ prmCalls' = [c \in PromoCalls |-> prmCalls'[c]]
    BY DEF PrmClose, PrmCallsOK
  <1>2. ASSUME NEW call, PromoCallOK(call) PROVE PromoCallOK(call)'
    BY <1>2 DEF PromoCallOK, PromoMoves, BothNamed
  <1>3. ASSUME NEW call, BundleCallOK(call) PROVE BundleCallOK(call)'
    BY <1>3 DEF BundleCallOK, BundleMoves
  <1>4. PrmIdle.op = "idle"
    BY DEF PrmIdle
  <1>5. \A c \in PromoCalls : PromoCallOK(prmCalls[c])'
    BY <1>1, <1>4 DEF PrmCallsOK, PromoCallOK, PromoMoves, BothNamed
  <1>6. \A c \in PromoCalls : BundleCallOK(prmCalls[c])'
    BY <1>1, <1>4 DEF PrmCallsOK, BundleCallOK, BundleMoves
  <1>. QED
    BY <1>1, <1>5, <1>6 DEF PrmCallsOK

\* Replacing one promotion by a complete one it may move to keeps the invariant.
LEMMA PromoStep ==
  ASSUME PrmInv, NEW x \in DOMAIN promos, NEW row \in PromoRecords, PromotionComplete(row),
         PromoMoves(promos[x], row), promos' = [promos EXCEPT ![x] = row], UNCHANGED bundles,
         prmCalls' = prmCalls \/ \E c \in PromoCalls : PrmClose(c)
  PROVE  PrmInv'
  <1>1. /\ DOMAIN promos' = DOMAIN promos /\ promos'[x] = row
        /\ \A y \in DOMAIN promos : y # x => promos'[y] = promos[y]
    BY DEF PrmInv, PromosOK
  <1>2. PromosOK'
    BY <1>1 DEF PrmInv, PromosOK
  <1>3. BundlesOK'
    BY DEF PrmInv, BundlesOK
  <1>4. PrmCallsOK'
    <2>1. \A y \in DOMAIN promos : PromoMoves(promos[y], promos'[y])
      BY <1>1 DEF PromoMoves
    <2>2. \A y \in DOMAIN bundles : BundleMoves(bundles[y], bundles'[y])
      BY DEF BundleMoves
    <2>. QED
      BY <1>1, <2>1, <2>2, PrmCallsKept DEF PrmInv
  <1>. QED
    BY <1>2, <1>3, <1>4 DEF PrmInv

\* Replacing one bundle by a complete one it may move to keeps the invariant.
LEMMA BundleStep ==
  ASSUME PrmInv, NEW x \in DOMAIN bundles, NEW row \in BundleRecords, BundleComplete(row),
         BundleMoves(bundles[x], row), bundles' = [bundles EXCEPT ![x] = row], UNCHANGED promos,
         prmCalls' = prmCalls \/ \E c \in PromoCalls : PrmClose(c)
  PROVE  PrmInv'
  <1>1. /\ DOMAIN bundles' = DOMAIN bundles /\ bundles'[x] = row
        /\ \A y \in DOMAIN bundles : y # x => bundles'[y] = bundles[y]
    BY DEF PrmInv, BundlesOK
  <1>2. BundlesOK'
    BY <1>1 DEF PrmInv, BundlesOK
  <1>3. PromosOK'
    BY DEF PrmInv, PromosOK
  <1>4. PrmCallsOK'
    <2>1. \A y \in DOMAIN promos : PromoMoves(promos[y], promos'[y])
      BY DEF PromoMoves
    <2>2. \A y \in DOMAIN bundles : BundleMoves(bundles[y], bundles'[y])
      BY <1>1 DEF BundleMoves
    <2>. QED
      BY <1>1, <2>1, <2>2, PrmCallsKept DEF PrmInv
  <1>. QED
    BY <1>2, <1>3, <1>4 DEF PrmInv

\* Opening a call with what was read keeps the invariant.
LEMMA CallOnly ==
  ASSUME PrmInv, UNCHANGED <<promos, bundles>>, NEW c \in PromoCalls, NEW call,
         prmCalls' = [prmCalls EXCEPT ![c] = call], PromoCallOK(call), BundleCallOK(call)
  PROVE  PrmInv'
  <1>1. PromosOK' /\ BundlesOK'
    BY DEF PrmInv, PromosOK, BundlesOK
  <1>2. prmCalls'[c] = call /\ \A d \in PromoCalls : d # c => prmCalls'[d] = prmCalls[d]
    BY DEF PrmInv, PrmCallsOK
  <1>3. PrmCallsOK'
    BY <1>2 DEF PrmInv, PrmCallsOK, PromoCallOK, BundleCallOK, BothNamed
  <1>. QED
    BY <1>1, <1>3 DEF PrmInv

\* A new promotion is a draft.
LEMMA NewPromo ==
  ASSUME PrmInv, NEW x \in PromoIds, NEW p \in BOOLEAN, NEW b \in Offered,
         CreatePromo(x, p, b)
  PROVE  PrmInv'
  <1> DEFINE row == [status |-> "draft", submittedBy |-> Unnamed, approvedBy |-> Unnamed,
                     policy |-> p, whole |-> BenefitShape(b), content |-> 0,
                     scheduledContent |-> 0, early |-> FALSE]
  <1>0. BenefitShape(b) = TRUE
    BY DEF CreatePromo, BenefitShape, Offered
  <1>1. row \in PromoRecords /\ row.status = "draft" /\ row.whole
    BY <1>0 DEF PromoRecords
  <1>2. PromotionComplete(row)
    BY <1>1 DEF PromotionComplete
  <1>3. x \notin DOMAIN promos /\ promos' = Extended(promos, x, row) /\ UNCHANGED <<bundles, prmCalls>>
    BY DEF CreatePromo, PromoStatement
  <1> HIDE DEF row
  <1>4. /\ DOMAIN promos' = DOMAIN promos \cup {x} /\ promos'[x] = row
        /\ \A y \in DOMAIN promos : promos'[y] = promos[y]
        /\ promos' = [y \in DOMAIN promos' |-> promos'[y]]
    BY <1>3 DEF Extended
  <1>5. PromosOK' /\ BundlesOK'
    BY <1>1, <1>2, <1>3, <1>4 DEF PrmInv, PromosOK, BundlesOK
  <1>6. PrmCallsOK'
    BY <1>3, <1>4, PrmCallsKept DEF PrmInv, PromoMoves, BundleMoves
  <1>. QED
    BY <1>5, <1>6 DEF PrmInv

\* A new bundle, and the next version of one, is a draft.
LEMMA NewBundle ==
  ASSUME PrmInv, NEW c \in PromoCalls, NEW x \in BundleIds, NEW p \in BOOLEAN, NEW v \in Nat,
         NEW prev \in BundleIds \cup {Unnamed}, InsertBundle(c, x, p, v, prev)
  PROVE  PrmInv'
  <1> DEFINE row == BundleRow(p, v, prev)
             call == [op |-> "components", id |-> x]
  <1>1. row \in BundleRecords /\ row.status = "draft"
    BY DEF BundleRecords, BundleRow
  <1>2. BundleComplete(row)
    BY <1>1 DEF BundleComplete
  <1>3. x \notin DOMAIN bundles /\ bundles' = Extended(bundles, x, row) /\ UNCHANGED promos
        /\ prmCalls' = [prmCalls EXCEPT ![c] = call]
    BY DEF InsertBundle, PrmOpen
  <1>7. call.op = "components" /\ call.id = x
    OBVIOUS
  <1> HIDE DEF row, call
  <1>4. /\ DOMAIN bundles' = DOMAIN bundles \cup {x} /\ bundles'[x] = row
        /\ \A y \in DOMAIN bundles : bundles'[y] = bundles[y]
        /\ bundles' = [y \in DOMAIN bundles' |-> bundles'[y]]
    BY <1>3 DEF Extended
  <1>5. PromosOK' /\ BundlesOK'
    BY <1>1, <1>2, <1>3, <1>4 DEF PrmInv, PromosOK, BundlesOK
  <1>8. /\ prmCalls'[c] = call /\ \A d \in PromoCalls : d # c => prmCalls'[d] = prmCalls[d]
        /\ prmCalls' = [d \in PromoCalls |-> prmCalls'[d]]
    BY <1>3 DEF PrmInv, PrmCallsOK
  <1>9. \A d \in PromoCalls : PromoCallOK(prmCalls[d])'
    BY <1>3, <1>7, <1>8 DEF PrmInv, PrmCallsOK, PromoCallOK, BothNamed
  <1>10. \A d \in PromoCalls : BundleCallOK(prmCalls[d])'
    BY <1>4, <1>7, <1>8 DEF PrmInv, PrmCallsOK, BundleCallOK
  <1>. QED
    BY <1>5, <1>8, <1>9, <1>10 DEF PrmInv, PrmCallsOK

\* Every step of the offers keeps the invariant.
LEMMA PrmStep ==
  ASSUME PrmInv, PrmNext
  PROVE  PrmInv'
  <1>0. /\ \A x \in DOMAIN promos : promos[x] \in PromoRecords /\ PromotionComplete(promos[x])
        /\ \A x \in DOMAIN bundles : bundles[x] \in BundleRecords /\ BundleComplete(bundles[x])
    BY DEF PrmInv, PromosOK, BundlesOK
  <1>1. ASSUME NEW x \in PromoIds, NEW p \in BOOLEAN, NEW b \in Offered, EditPromo(x, p, b)
        PROVE  PrmInv'
    <2> DEFINE w == BenefitShape(b)
               row == [promos[x] EXCEPT !.content = @ + 1, !.policy = p, !.whole = w]
    <2>0. w \in BOOLEAN
      BY DEF BenefitShape, Offered
    <2>1. x \in DOMAIN promos /\ promos[x].status = "draft" /\ promos[x] \in PromoRecords
      BY <1>0, <1>1 DEF EditPromo, PromoIs
    <2>2. /\ row \in PromoRecords /\ row.status = "draft" /\ row.content > 0
          /\ row.submittedBy = promos[x].submittedBy /\ row.approvedBy = promos[x].approvedBy
      <3>1. ASSUME NEW q \in PromoRecords, NEW e,
                   e = [q EXCEPT !.content = @ + 1, !.policy = p, !.whole = w]
            PROVE  /\ e \in PromoRecords /\ e.status = q.status /\ e.content > 0
                   /\ e.submittedBy = q.submittedBy /\ e.approvedBy = q.approvedBy
        <4>1. q.content + 1 \in Nat /\ q.content + 1 > 0
          BY DEF PromoRecords
        <4> HIDE DEF w
        <4>. QED
          BY <2>0, <3>1, <4>1 DEF PromoRecords
      <3>. QED
        BY <2>0, <2>1, <3>1
    <2>3. promos' = [promos EXCEPT ![x] = row] /\ UNCHANGED <<bundles, prmCalls>>
      BY <1>1, <2>1 DEF EditPromo, Rewrite, PromoStatement
    <2> HIDE DEF row
    <2>4. PromotionComplete(row) /\ PromoMoves(promos[x], row)
      BY <2>1, <2>2 DEF PromotionComplete, PromoMoves
    <2>. QED
      BY <2>1, <2>2, <2>3, <2>4, PromoStep
  <1>2. ASSUME NEW x \in PromoIds, NEW k \in Marketers, SubmitPromo(x, k) PROVE PrmInv'
    <2> DEFINE row == [promos[x] EXCEPT !.submittedBy = k]
    <2>1. x \in DOMAIN promos /\ promos[x].status = "draft" /\ promos[x] \in PromoRecords
      BY <1>0, <1>2 DEF SubmitPromo, PromoIs
    <2>2. /\ row \in PromoRecords /\ row.status = "draft" /\ row.submittedBy = k
          /\ row.approvedBy = promos[x].approvedBy
          /\ row.whole = promos[x].whole /\ row.content = promos[x].content
      BY <2>1 DEF PromoRecords
    <2>3. promos' = [promos EXCEPT ![x] = row] /\ UNCHANGED <<bundles, prmCalls>>
      BY <1>2, <2>1 DEF SubmitPromo, PromoStatement
    <2> HIDE DEF row
    <2>4. PromotionComplete(row) /\ PromoMoves(promos[x], row)
      BY <1>0, <2>1, <2>2, MarketersAssumption DEF PromotionComplete, PromoMoves
    <2>. QED
      BY <2>1, <2>2, <2>3, <2>4, PromoStep
  <1>3. ASSUME NEW x \in PromoIds, PausePromo(x) \/ ResumePromo(x) \/ EndPromo(x) \/ CancelPromo(x)
        PROVE  PrmInv'
    <2>1. PICK to \in {"paused", "active", "ended", "cancelled"} :
            /\ x \in DOMAIN promos
            /\ to # "cancelled" => promos[x].status \in {"active", "paused"}
            /\ promos' = [promos EXCEPT ![x].status = to] /\ UNCHANGED <<bundles, prmCalls>>
      BY <1>3 DEF PausePromo, ResumePromo, EndPromo, CancelPromo, MovePromo, PromoIs, PromoStatement
    <2> DEFINE row == [promos[x] EXCEPT !.status = to]
    <2>2. promos[x] \in PromoRecords /\ PromotionComplete(promos[x])
      BY <1>0, <2>1
    <2>3. /\ row \in PromoRecords /\ row.status = to
          /\ row.submittedBy = promos[x].submittedBy /\ row.approvedBy = promos[x].approvedBy
          /\ row.policy = promos[x].policy /\ row.early = promos[x].early
          /\ row.content = promos[x].content /\ row.scheduledContent = promos[x].scheduledContent
          /\ row.whole = promos[x].whole
      BY <2>2 DEF PromoRecords
    <2>4. promos' = [promos EXCEPT ![x] = row]
      BY <2>1
    <2> HIDE DEF row
    <2>5. PromotionComplete(row) /\ PromoMoves(promos[x], row)
      BY <2>1, <2>2, <2>3 DEF PromotionComplete, PromoMoves
    <2>. QED
      BY <2>1, <2>3, <2>4, <2>5, PromoStep
  <1>4. ASSUME NEW c \in PromoCalls, PrmClose(c), UNCHANGED <<promos, bundles>>
        PROVE  PrmInv'
    BY <1>4, IdleOK, CallOnly DEF PrmClose
  <1>5. ASSUME NEW c \in PromoCalls, ApprovePromoWrite(c) PROVE PrmInv'
    <2> DEFINE x == prmCalls[c].id
               row == [promos[x] EXCEPT !.approvedBy = prmCalls[c].by]
    <2>1. x \in DOMAIN promos /\ prmCalls[c].by \in Marketers /\ PrmClose(c) /\ UNCHANGED bundles
      BY <1>5 DEF ApprovePromoWrite, PrmInv, PrmCallsOK, PromoCallOK
    <2>4. PromotionComplete(promos[x])
      BY <1>0, <2>1
    <2>2. CASE PromoIs(x, {"draft"}) /\ promos[x].submittedBy # Unnamed
      <3>1. promos' = [promos EXCEPT ![x] = row] /\ promos[x].status = "draft"
        BY <1>5, <2>1, <2>2 DEF ApprovePromoWrite, PromoIs
      <3>2. /\ row \in PromoRecords /\ row.status = promos[x].status
            /\ row.submittedBy = promos[x].submittedBy /\ row.approvedBy = prmCalls[c].by
            /\ row.whole = promos[x].whole /\ row.content = promos[x].content
        BY <1>0, <2>1 DEF PromoRecords
      <3> HIDE DEF row, x
      <3>3. PromotionComplete(row) /\ PromoMoves(promos[x], row)
        BY <2>1, <2>4, <3>1, <3>2, MarketersAssumption DEF PromotionComplete, PromoMoves
      <3>. QED
        BY <2>1, <3>1, <3>2, <3>3, PromoStep
    <2>3. CASE ~(PromoIs(x, {"draft"}) /\ promos[x].submittedBy # Unnamed)
      BY <1>4, <1>5, <2>1, <2>3 DEF ApprovePromoWrite
    <2>. QED
      BY <2>2, <2>3
  <1>6. ASSUME NEW c \in PromoCalls, SchedulePromoWrite(c) PROVE PrmInv'
    <2> DEFINE x == prmCalls[c].id
               row == [promos[x] EXCEPT !.status = "scheduled", !.scheduledContent = promos[x].content]
    <2>1. x \in DOMAIN promos /\ BothNamed(x) /\ PrmClose(c) /\ UNCHANGED bundles
      BY <1>6 DEF SchedulePromoWrite, PrmInv, PrmCallsOK, PromoCallOK
    <2>4. PromotionComplete(promos[x])
      BY <1>0, <2>1
    <2>2. CASE PromoIs(x, {"draft"})
      <3>1. promos' = [promos EXCEPT ![x] = row] /\ promos[x].status = "draft"
        BY <1>6, <2>1, <2>2 DEF SchedulePromoWrite, PromoIs
      <3>2. /\ row \in PromoRecords /\ row.status = "scheduled"
            /\ row.submittedBy = promos[x].submittedBy /\ row.approvedBy = promos[x].approvedBy
            /\ row.content = row.scheduledContent
            /\ row.whole = promos[x].whole /\ row.content = promos[x].content
        BY <1>0, <2>1 DEF PromoRecords
      <3> HIDE DEF row, x
      <3>3. PromotionComplete(row) /\ PromoMoves(promos[x], row)
        BY <2>1, <2>4, <3>1, <3>2 DEF PromotionComplete, PromoMoves, BothNamed
      <3>. QED
        BY <2>1, <3>1, <3>2, <3>3, PromoStep
    <2>3. CASE ~PromoIs(x, {"draft"})
      BY <1>4, <1>6, <2>1, <2>3 DEF SchedulePromoWrite
    <2>. QED
      BY <2>2, <2>3
  <1>7. ASSUME NEW c \in PromoCalls, ActivatePromoWrite(c) PROVE PrmInv'
    <2> DEFINE x == prmCalls[c].id
               row == [promos[x] EXCEPT !.status = "active", !.early = prmCalls[c].early]
    <2>1. x \in DOMAIN promos /\ prmCalls[c].early \in BOOLEAN
          /\ (~prmCalls[c].early => promos[x].policy) /\ PrmClose(c) /\ UNCHANGED bundles
      BY <1>7 DEF ActivatePromoWrite, PrmInv, PrmCallsOK, PromoCallOK
    <2>2. CASE PromoIs(x, {"scheduled"})
      <3>1. promos' = [promos EXCEPT ![x] = row] /\ promos[x].status = "scheduled"
            /\ promos[x] \in PromoRecords /\ PromotionComplete(promos[x])
        BY <1>0, <1>7, <2>1, <2>2 DEF ActivatePromoWrite, PromoIs
      <3>2. /\ row \in PromoRecords /\ row.status = "active"
            /\ row.submittedBy = promos[x].submittedBy /\ row.approvedBy = promos[x].approvedBy
            /\ row.policy = promos[x].policy /\ row.early = prmCalls[c].early
            /\ row.content = promos[x].content /\ row.scheduledContent = promos[x].scheduledContent
            /\ row.whole = promos[x].whole
        BY <2>1, <3>1 DEF PromoRecords
      <3> HIDE DEF row, x
      <3>3. PromotionComplete(row) /\ PromoMoves(promos[x], row)
        BY <2>1, <3>1, <3>2 DEF PromotionComplete, PromoMoves
      <3>. QED
        BY <2>1, <3>1, <3>2, <3>3, PromoStep
    <2>3. CASE ~PromoIs(x, {"scheduled"})
      BY <1>4, <1>7, <2>1, <2>3 DEF ActivatePromoWrite
    <2>. QED
      BY <2>2, <2>3
  <1>8. ASSUME NEW c \in PromoCalls, NEW x \in PromoIds,
               \/ \E k \in Marketers : ApprovePromoRead(c, x, k)
               \/ SchedulePromoRead(c, x) \/ ActivatePromoRead(c, x)
        PROVE  PrmInv'
    <2>1. PICK call : /\ PrmOpen(c, call) /\ UNCHANGED <<promos, bundles>>
                      /\ PromoCallOK(call) /\ BundleCallOK(call)
      <3>1. ASSUME NEW k \in Marketers, ApprovePromoRead(c, x, k)
            PROVE  \E call : /\ PrmOpen(c, call) /\ UNCHANGED <<promos, bundles>>
                             /\ PromoCallOK(call) /\ BundleCallOK(call)
        <4> WITNESS [op |-> "approve", id |-> x, by |-> k]
        <4>. QED
          BY <3>1 DEF ApprovePromoRead, PromoCallOK, BundleCallOK
      <3>2. ASSUME SchedulePromoRead(c, x)
            PROVE  \E call : /\ PrmOpen(c, call) /\ UNCHANGED <<promos, bundles>>
                             /\ PromoCallOK(call) /\ BundleCallOK(call)
        <4> WITNESS [op |-> "schedule", id |-> x]
        <4>. QED
          BY <3>2 DEF SchedulePromoRead, PromoCallOK, BundleCallOK
      <3>3. ASSUME ActivatePromoRead(c, x)
            PROVE  \E call : /\ PrmOpen(c, call) /\ UNCHANGED <<promos, bundles>>
                             /\ PromoCallOK(call) /\ BundleCallOK(call)
        <4> WITNESS [op |-> "activate", id |-> x, early |-> promos[x].status = "draft"]
        <4>. QED
          BY <3>3 DEF ActivatePromoRead, PromoCallOK, BundleCallOK
      <3>. QED
        BY <1>8, <3>1, <3>2, <3>3
    <2>. QED
      BY <2>1, CallOnly DEF PrmOpen
  <1>9. ASSUME NEW x \in BundleIds, NEW p \in BOOLEAN, NEW r \in BOOLEAN, EditBundle(x, p, r)
        PROVE  PrmInv'
    <2> DEFINE row == [bundles[x] EXCEPT !.policy = p, !.components = IF r THEN 1 ELSE @]
    <2>1. x \in DOMAIN bundles /\ bundles[x].status = "draft" /\ bundles[x] \in BundleRecords
          /\ UNCHANGED <<promos, prmCalls>>
      BY <1>0, <1>9 DEF EditBundle, BundleStatement
    <2>2. row \in BundleRecords /\ row.status = "draft"
          /\ row.components = IF r THEN 1 ELSE bundles[x].components
      BY <2>1 DEF BundleRecords
    <2>3. bundles' = [bundles EXCEPT ![x] = row]
      BY <1>9, <2>1 DEF EditBundle
    <2> HIDE DEF row
    <2>4. BundleComplete(row) /\ BundleMoves(bundles[x], row)
      BY <2>2 DEF BundleComplete, BundleMoves
    <2>. QED
      BY <2>1, <2>2, <2>3, <2>4, BundleStep
  <1>10. ASSUME NEW x \in BundleIds, EndBundle(x) PROVE PrmInv'
    <2> DEFINE row == [bundles[x] EXCEPT !.status = "ended"]
    <2>1. x \in DOMAIN bundles /\ bundles[x].status = "active" /\ bundles[x] \in BundleRecords
          /\ BundleComplete(bundles[x]) /\ UNCHANGED <<promos, prmCalls>>
      BY <1>0, <1>10 DEF EndBundle, BundleStatement
    <2>2. row \in BundleRecords /\ row.status = "ended" /\ row.components = bundles[x].components
          /\ row.policy = bundles[x].policy /\ row.early = bundles[x].early
      BY <2>1 DEF BundleRecords
    <2>3. bundles' = [bundles EXCEPT ![x] = row]
      BY <1>10, <2>1 DEF EndBundle
    <2> HIDE DEF row
    <2>4. BundleComplete(row) /\ BundleMoves(bundles[x], row)
      BY <2>1, <2>2 DEF BundleComplete, BundleMoves
    <2>. QED
      BY <2>1, <2>2, <2>3, <2>4, BundleStep
  <1>11. ASSUME NEW c \in PromoCalls, NEW x \in BundleIds, NEW p \in BOOLEAN,
                CreateBundle(c, x, p) \/ \E y \in BundleIds : SupersedeBundle(c, x, y, p)
         PROVE  PrmInv'
    <2>1. CASE CreateBundle(c, x, p)
      BY <2>1, NewBundle DEF CreateBundle
    <2>2. ASSUME NEW y \in BundleIds, SupersedeBundle(c, x, y, p) PROVE PrmInv'
      <3>1. bundles[y].version + 1 \in Nat
        BY <1>0, <2>2 DEF SupersedeBundle, BundleRecords
      <3>. QED
        BY <2>2, <3>1, NewBundle DEF SupersedeBundle
    <2>. QED
      BY <1>11, <2>1, <2>2
  <1>12. ASSUME NEW c \in PromoCalls, NEW x \in BundleIds, ActivateBundleRead(c, x) PROVE PrmInv'
    <2> DEFINE call == [op |-> "sell", id |-> x, seen |-> bundles[x]]
    <2>1. x \in DOMAIN bundles /\ bundles[x].policy /\ bundles[x].components > 0
          /\ PrmOpen(c, call) /\ UNCHANGED <<promos, bundles>>
      BY <1>12 DEF ActivateBundleRead, Sellable
    <2>2. PromoCallOK(call) /\ BundleCallOK(call)
      BY <2>1 DEF PromoCallOK, BundleCallOK
    <2> HIDE DEF call
    <2>. QED
      BY <2>1, <2>2, CallOnly DEF PrmOpen
  <1>13. ASSUME NEW c \in PromoCalls, InsertComponents(c) PROVE PrmInv'
    <2> DEFINE x == prmCalls[c].id
               row == [bundles[x] EXCEPT !.components = @ + 1]
    <2>1. x \in DOMAIN bundles /\ PrmClose(c) /\ UNCHANGED promos
          /\ bundles[x] \in BundleRecords /\ BundleComplete(bundles[x])
      BY <1>0, <1>13 DEF InsertComponents, PrmInv, PrmCallsOK, BundleCallOK
    <2>2. bundles' = [bundles EXCEPT ![x] = row]
      BY <1>13, <2>1 DEF InsertComponents
    <2>3. row \in BundleRecords /\ row.status = bundles[x].status
          /\ row.components = bundles[x].components + 1 /\ bundles[x].components \in Nat
          /\ row.policy = bundles[x].policy /\ row.early = bundles[x].early
      <3> HIDE DEF x
      <3>. QED
        BY <2>1 DEF BundleRecords
    <2> HIDE DEF row, x
    <2>4. BundleComplete(row) /\ BundleMoves(bundles[x], row)
      BY <2>1, <2>3 DEF BundleComplete, BundleMoves
    <2>. QED
      BY <2>1, <2>2, <2>3, <2>4, BundleStep
  <1>14. ASSUME NEW c \in PromoCalls, ActivateBundleWrite(c) PROVE PrmInv'
    <2> DEFINE x == prmCalls[c].id
               row == [bundles[x] EXCEPT !.status = "active", !.early = bundles[x] # prmCalls[c].seen]
    <2>1. x \in DOMAIN bundles /\ bundles[x].components > 0 /\ prmCalls[c].seen.policy
          /\ PrmClose(c) /\ UNCHANGED promos /\ bundles[x] \in BundleRecords
      BY <1>0, <1>14 DEF ActivateBundleWrite, PrmInv, PrmCallsOK, BundleCallOK
    <2>2. CASE bundles[x].status = "draft"
      <3>1. bundles' = [bundles EXCEPT ![x] = row]
        BY <1>14, <2>1, <2>2 DEF ActivateBundleWrite
      <3>2. row \in BundleRecords /\ row.components = bundles[x].components
            /\ row.policy = bundles[x].policy /\ row.early = (bundles[x] # prmCalls[c].seen)
        BY <2>1 DEF BundleRecords
      <3> HIDE DEF row, x
      <3>3. BundleComplete(row) /\ BundleMoves(bundles[x], row)
        BY <2>1, <3>2 DEF BundleComplete, BundleMoves
      <3>. QED
        BY <2>1, <3>1, <3>2, <3>3, BundleStep
    <2>3. CASE bundles[x].status # "draft"
      BY <1>4, <1>14, <2>1, <2>3 DEF ActivateBundleWrite
    <2>. QED
      BY <2>2, <2>3
  <1>15. ASSUME NEW c \in PromoCalls, CrashBeforeComponents(c) PROVE PrmInv'
    BY <1>4, <1>15 DEF CrashBeforeComponents
  <1>. QED
    BY <1>1, <1>2, <1>3, <1>5, <1>6, <1>7, <1>8, <1>9, <1>10, <1>11, <1>12, <1>13, <1>14, <1>15,
       NewPromo DEF PrmNext

\* Along every behaviour of the offers what is live is complete.
THEOREM PrmSafe == PrmSpec => []LiveOffersComplete
  <1>1. PrmInv /\ UNCHANGED prmVars => PrmInv'
    BY DEF prmVars, PrmInv, PromosOK, BundlesOK, PrmCallsOK, PromoCallOK, BundleCallOK, BothNamed
  <1>2. PrmInv => LiveOffersComplete
    BY DEF PrmInv, PromosOK, BundlesOK, LiveOffersComplete
  <1>. QED
    BY <1>1, <1>2, PrmInitOK, PrmStep, PTL DEF PrmSpec

(***************************************************************************)
(* Coupons: Coupons.                                                       *)
(***************************************************************************)

\* The coupon and its requests on their own.
CpnSpec == CpnInit /\ [][CpnNext]_cpnVars

\* The redemptions that took a use off the capacity.
Took == {r \in redeemed : r.counted}
\* The fields of a CouponRedemption row.
RedemptionRecords == [key : Keys, n : Nat, counted : BOOLEAN, nth : Nat, cap : Nat]
\* A request between its statements.
WorkingRecords == [at : {"look", "count", "insert", "reserve", "compensate"}, key : Keys, n : Nat]
\* A request whose answer is on its way.
AnswerRecords == [at : {"answer"}, key : Keys, word : {"refused", "replayed", "redeemed"}]

\* Type correctness of the coupon.
CouponOK ==
    /\ DOMAIN coupon = {"type", "boundTo", "max", "perCustomer", "active", "expired", "uses"}
    /\ coupon.uses \in Nat /\ coupon.max \in Nat

\* The request is between its statements.
Working(c) == cpnCalls[c] \in WorkingRecords

\* Type correctness of the requests; each has a number of its own.
RequestsOK ==
    /\ attempts \in Nat
    /\ cpnCalls \in [CouponSlots -> WorkingRecords \cup AnswerRecords \cup {CpnIdle}]
    /\ \A c \in CouponSlots : Working(c) => cpnCalls[c].n < attempts
    /\ \A c, d \in CouponSlots : Working(c) /\ Working(d) /\ cpnCalls[c].n = cpnCalls[d].n => c = d

\* One row per key, and the coupon's uses are the rows that took one.
RedeemedOK ==
    /\ redeemed \subseteq RedemptionRecords
    /\ \A r, s \in redeemed : r.key = s.key => r = s
    /\ IsFiniteSet(Took) /\ Cardinality(Took) = coupon.uses
    /\ \A r \in Took : r.cap # Unlimited => r.nth <= r.cap

\* A request about to reserve has its own row, which has taken nothing yet; one
\* about to compensate removes no row that has. CouponCounted is not inductive
\* without it: a compensation could delete a row that was counted, or a row count
\* twice.
OwnRowsOK ==
    \A c \in CouponSlots :
        /\ cpnCalls[c].at = "reserve" => OwnRow(c) # {}
        /\ cpnCalls[c].at \in {"reserve", "compensate"} => \A r \in OwnRow(c) : ~r.counted

\* Who was told that it was redeemed has a row that took a use.
AnswersOK ==
    /\ \A c \in CouponSlots : cpnCalls[c].at = "answer" /\ cpnCalls[c].word = "redeemed" =>
          \E r \in Took : r.key = cpnCalls[c].key
    /\ told = [k \in Keys |-> told[k]]
    /\ \A k \in Keys : "redeemed" \in told[k] => \E r \in Took : r.key = k

\* The inductive invariant of the coupon.
CpnInv == CouponOK /\ RequestsOK /\ RedeemedOK /\ OwnRowsOK /\ AnswersOK

\* A new coupon has no uses.
LEMMA CpnInitOK == CpnInit => CpnInv
  <1> SUFFICES ASSUME CpnInit PROVE CpnInv
    OBVIOUS
  <1>1. CouponOK /\ coupon.uses = 0
    <2>1. PICK s \in CouponShapes : coupon = NewCoupon(s)
      BY DEF CpnInit
    <2>2. CapacityOf(s.type, s.max) \in Nat
      BY CouponsAssumption DEF CapacityOf
    <2>. QED
      BY <2>1, <2>2 DEF CouponOK, NewCoupon
  <1>2. Took = {} /\ redeemed = {}
    BY DEF CpnInit, Took
  <1>3. IsFiniteSet(Took) /\ Cardinality(Took) = 0
    BY <1>2, FS_EmptySet
  <1>4. CpnIdle.at = "idle" /\ CpnIdle \notin WorkingRecords
    BY DEF CpnIdle, WorkingRecords
  <1>5. RequestsOK
    BY <1>4 DEF CpnInit, RequestsOK, Working
  <1>6. RedeemedOK
    BY <1>1, <1>2, <1>3 DEF RedeemedOK
  <1>7. OwnRowsOK /\ AnswersOK
    BY <1>2, <1>4 DEF CpnInit, OwnRowsOK, AnswersOK
  <1>. QED
    BY <1>1, <1>5, <1>6, <1>7 DEF CpnInv

\* An edit of the coupon leaves its uses alone.
LEMMA UpdateStep ==
  ASSUME CpnInv, NEW new, UpdateCoupon(new), DOMAIN new = DOMAIN coupon, new.uses = coupon.uses,
         new.max \in Nat
  PROVE  CpnInv'
  <1>1. coupon' = new /\ UNCHANGED <<redeemed, cpnCalls, attempts, told>>
    BY DEF UpdateCoupon
  <1>2. CouponOK'
    BY <1>1 DEF CpnInv, CouponOK
  <1>3. Took' = Took /\ \A c : OwnRow(c)' = OwnRow(c)
    BY <1>1 DEF Took, OwnRow, KeyOf
  <1>. QED
    BY <1>1, <1>2, <1>3 DEF CpnInv, RequestsOK, Working, RedeemedOK, OwnRowsOK, AnswersOK

\* A request is idle, at work or answered, and only one of them.
LEMMA CpnKinds ==
  /\ \A r \in WorkingRecords : r \notin AnswerRecords /\ r # CpnIdle /\ r.at \notin {"answer", "idle"}
  /\ \A r \in AnswerRecords : r \notin WorkingRecords /\ r # CpnIdle /\ r.at = "answer"
  /\ CpnIdle \notin WorkingRecords /\ CpnIdle.at = "idle"
  BY DEF WorkingRecords, AnswerRecords, CpnIdle

\* A request at a statement is at work.
LEMMA AtWork ==
  ASSUME CpnInv, NEW c \in CouponSlots,
         cpnCalls[c].at \in {"look", "count", "insert", "reserve", "compensate"}
  PROVE  Working(c) /\ cpnCalls[c].key \in Keys /\ cpnCalls[c].n \in Nat
  BY CpnKinds DEF CpnInv, RequestsOK, Working, WorkingRecords

\* Moving a request to another statement, or to its answer.
LEMMA Moved ==
  ASSUME CpnInv, NEW c \in CouponSlots, Working(c), UNCHANGED attempts,
         \/ \E at \in {"look", "count", "insert", "reserve", "compensate"} : Step(c, at)
         \/ \E w \in {"refused", "replayed", "redeemed"} : Answer(c, w)
  PROVE  /\ RequestsOK'
         /\ \A d \in CouponSlots : d # c => cpnCalls'[d] = cpnCalls[d]
         /\ cpnCalls'[c].key = cpnCalls[c].key
  <1>1. cpnCalls[c] \in WorkingRecords /\ cpnCalls \in [CouponSlots -> WorkingRecords \cup AnswerRecords \cup {CpnIdle}]
    BY DEF Working, CpnInv, RequestsOK
  <1>2. ASSUME NEW at \in {"look", "count", "insert", "reserve", "compensate"}, Step(c, at)
        PROVE  /\ RequestsOK'
               /\ \A d \in CouponSlots : d # c => cpnCalls'[d] = cpnCalls[d]
               /\ cpnCalls'[c].key = cpnCalls[c].key
    <2> DEFINE new == [cpnCalls[c] EXCEPT !.at = at]
    <2>1. new \in WorkingRecords /\ new.key = cpnCalls[c].key /\ new.n = cpnCalls[c].n
      BY <1>1 DEF WorkingRecords
    <2>2. cpnCalls' = [cpnCalls EXCEPT ![c] = new]
      BY <1>2 DEF Step
    <2> HIDE DEF new
    <2>3. cpnCalls'[c] = new /\ \A d \in CouponSlots : d # c => cpnCalls'[d] = cpnCalls[d]
      BY <1>1, <2>2
    <2>. QED
      BY <1>1, <2>1, <2>2, <2>3 DEF CpnInv, RequestsOK, Working
  <1>3. ASSUME NEW w \in {"refused", "replayed", "redeemed"}, Answer(c, w)
        PROVE  /\ RequestsOK'
               /\ \A d \in CouponSlots : d # c => cpnCalls'[d] = cpnCalls[d]
               /\ cpnCalls'[c].key = cpnCalls[c].key
    <2> DEFINE new == [at |-> "answer", key |-> cpnCalls[c].key, word |-> w]
    <2>1. new \in AnswerRecords /\ new.key = cpnCalls[c].key /\ new \notin WorkingRecords
      BY <1>1, CpnKinds DEF WorkingRecords, AnswerRecords
    <2>2. cpnCalls' = [cpnCalls EXCEPT ![c] = new]
      BY <1>3 DEF Answer
    <2> HIDE DEF new
    <2>3. cpnCalls'[c] = new /\ \A d \in CouponSlots : d # c => cpnCalls'[d] = cpnCalls[d]
      BY <1>1, <2>2
    <2>. QED
      BY <1>1, <2>1, <2>2, <2>3 DEF CpnInv, RequestsOK, Working
  <1>. QED
    BY <1>2, <1>3

\* A step that only moves a request, and not to where a row is owed.
LEMMA OnlyCalls ==
  ASSUME CpnInv, NEW c \in CouponSlots, UNCHANGED <<coupon, redeemed, told>>, RequestsOK',
         \A d \in CouponSlots : d # c => cpnCalls'[d] = cpnCalls[d],
         cpnCalls'[c].at \notin {"reserve", "compensate"},
         cpnCalls'[c].at = "answer" => cpnCalls'[c].word # "redeemed"
  PROVE  CpnInv'
  <1>1. CouponOK' /\ Took' = Took
    BY DEF CpnInv, CouponOK, Took
  <1>2. RedeemedOK'
    BY <1>1 DEF CpnInv, RedeemedOK
  <1>3. \A d \in CouponSlots : d # c => OwnRow(d)' = OwnRow(d)
    BY DEF OwnRow, KeyOf
  <1>4. OwnRowsOK'
    BY <1>3 DEF CpnInv, OwnRowsOK
  <1>5. AnswersOK'
    BY <1>1 DEF CpnInv, AnswersOK
  <1>. QED
    BY <1>1, <1>2, <1>4, <1>5 DEF CpnInv

\* Where a request is after its step.
LEMMA AtAfter ==
  ASSUME CpnInv, NEW c \in CouponSlots, Working(c)
  PROVE  /\ \A at : Step(c, at) => cpnCalls'[c].at = at /\ cpnCalls'[c].n = cpnCalls[c].n
         /\ \A w : Answer(c, w) => cpnCalls'[c].at = "answer" /\ cpnCalls'[c].word = w
  <1>1. cpnCalls[c] \in WorkingRecords /\ c \in DOMAIN cpnCalls
    BY DEF Working, CpnInv, RequestsOK
  <1>. QED
    BY <1>1 DEF Step, Answer, WorkingRecords

\* The checks and the count only move the request.
LEMMA ChecksStep ==
  ASSUME CpnInv, NEW c \in CouponSlots, Look(c) \/ CountOwn(c)
  PROVE  CpnInv'
  <1>1. Working(c) /\ UNCHANGED <<coupon, redeemed, told, attempts>>
    BY AtWork DEF Look, CountOwn
  <1>2. Step(c, "count") \/ Step(c, "insert") \/ Answer(c, "refused")
    BY DEF Look, CountOwn
  <1>3. RequestsOK' /\ \A d \in CouponSlots : d # c => cpnCalls'[d] = cpnCalls[d]
    BY <1>1, <1>2, Moved
  <1>4. /\ cpnCalls'[c].at \notin {"reserve", "compensate"}
        /\ cpnCalls'[c].at = "answer" => cpnCalls'[c].word # "redeemed"
    BY <1>1, <1>2, AtAfter
  <1>. QED
    BY <1>1, <1>3, <1>4, OnlyCalls

\* Rows of a request are not those of another.
LEMMA OthersRows ==
  ASSUME CpnInv, NEW c \in CouponSlots, NEW d \in CouponSlots, c # d, Working(c), Working(d)
  PROVE  \A r : r.n = cpnCalls[c].n => r.n # cpnCalls[d].n
  BY DEF CpnInv, RequestsOK

\* A row is inserted only under a key that has none.
LEMMA InsertRowStep ==
  ASSUME CpnInv, NEW c \in CouponSlots, InsertRow(c)
  PROVE  CpnInv'
  <1> DEFINE k == cpnCalls[c].key
             row == [key |-> k, n |-> cpnCalls[c].n, counted |-> FALSE, nth |-> 0, cap |-> Unlimited]
  <1>1. Working(c) /\ k \in Keys /\ cpnCalls[c].n \in Nat
        /\ UNCHANGED <<coupon, told, attempts>> /\ cpnCalls[c].at = "insert"
    BY AtWork DEF InsertRow
  <1>2. CASE KeyTaken(k)
    <2>1. Answer(c, "replayed") /\ UNCHANGED redeemed
      BY <1>2 DEF InsertRow, KeyOf
    <2>2. RequestsOK' /\ \A d \in CouponSlots : d # c => cpnCalls'[d] = cpnCalls[d]
      BY <1>1, <2>1, Moved
    <2>3. cpnCalls'[c].at = "answer" /\ cpnCalls'[c].word = "replayed"
      BY <1>1, <2>1, AtAfter
    <2>. QED
      BY <1>1, <2>1, <2>2, <2>3, OnlyCalls
  <1>3. CASE ~KeyTaken(k)
    <2>1. redeemed' = redeemed \cup {row} /\ Step(c, "reserve")
      BY <1>3 DEF InsertRow, KeyOf
    <2>2. \A r \in redeemed : r.key # k
      BY <1>3 DEF KeyTaken, RowOf
    <2>3. row \in RedemptionRecords /\ row.key = k /\ row.n = cpnCalls[c].n /\ row.counted = FALSE
      BY <1>1 DEF RedemptionRecords, Unlimited
    <2>4. RequestsOK' /\ (\A d \in CouponSlots : d # c => cpnCalls'[d] = cpnCalls[d])
          /\ cpnCalls'[c].key = k
      BY <1>1, <2>1, Moved
    <2>5. cpnCalls'[c].at = "reserve" /\ cpnCalls'[c].n = cpnCalls[c].n
      BY <1>1, <2>1, AtAfter
    <2> HIDE DEF row, k
    <2>6. Took' = Took
      BY <2>1, <2>3 DEF Took
    <2>7. CouponOK'
      BY <1>1 DEF CpnInv, CouponOK
    <2>8. RedeemedOK'
      <3>1. redeemed' \subseteq RedemptionRecords
        BY <2>1, <2>3 DEF CpnInv, RedeemedOK
      <3>2. \A r, s \in redeemed' : r.key = s.key => r = s
        BY <2>1, <2>2, <2>3 DEF CpnInv, RedeemedOK
      <3>. QED
        BY <1>1, <2>6, <3>1, <3>2 DEF CpnInv, RedeemedOK
    <2>9. OwnRowsOK'
      <3>1. OwnRow(c)' = {row}
        <4>1. \A r \in redeemed' : r.key = k => r = row
          BY <2>1, <2>2
        <4>. QED
          BY <2>1, <2>3, <2>4, <2>5, <4>1 DEF OwnRow, KeyOf
      <3>2. ASSUME NEW d \in CouponSlots, d # c, cpnCalls[d].at \in {"reserve", "compensate"}
            PROVE  OwnRow(d)' = OwnRow(d)
        <4>1. Working(d)
          BY <3>2, AtWork
        <4>2. row.n # cpnCalls[d].n
          BY <1>1, <2>3, <3>2, <4>1, OthersRows
        <4>. QED
          BY <2>1, <2>4, <3>2, <4>2 DEF OwnRow, KeyOf
      <3>3. \A d \in CouponSlots : d # c =>
              /\ cpnCalls'[d].at = "reserve" => OwnRow(d)' # {}
              /\ cpnCalls'[d].at \in {"reserve", "compensate"} => \A r \in OwnRow(d)' : ~r.counted
        BY <2>4, <3>2 DEF CpnInv, OwnRowsOK
      <3>4. OwnRow(c)' # {} /\ \A r \in OwnRow(c)' : ~r.counted
        BY <2>3, <3>1
      <3>. QED
        BY <3>3, <3>4 DEF OwnRowsOK
    <2>10. AnswersOK'
      BY <1>1, <2>4, <2>5, <2>6 DEF CpnInv, AnswersOK
    <2>. QED
      BY <2>4, <2>7, <2>8, <2>9, <2>10 DEF CpnInv
  <1>. QED
    BY <1>2, <1>3

\* Taking a use marks the request's own row, or leaves it to be removed.
LEMMA ReserveStep ==
  ASSUME CpnInv, NEW c \in CouponSlots, Reserve(c)
  PROVE  CpnInv'
  <1>1. Working(c) /\ UNCHANGED <<told, attempts>> /\ cpnCalls[c].at = "reserve"
        /\ cpnCalls[c].key \in Keys /\ cpnCalls[c].n \in Nat
    BY AtWork DEF Reserve
  <1>2. CASE ~HasCapacity
    <2>1. Step(c, "compensate") /\ UNCHANGED <<coupon, redeemed>>
      BY <1>2 DEF Reserve
    <2>2. RequestsOK' /\ (\A d \in CouponSlots : d # c => cpnCalls'[d] = cpnCalls[d])
          /\ cpnCalls'[c].key = cpnCalls[c].key
      BY <1>1, <2>1, Moved
    <2>3. cpnCalls'[c].at = "compensate" /\ cpnCalls'[c].n = cpnCalls[c].n
      BY <1>1, <2>1, AtAfter
    <2>4. \A d \in CouponSlots : OwnRow(d)' = OwnRow(d)
      BY <2>1, <2>2, <2>3 DEF OwnRow, KeyOf
    <2>5. Took' = Took /\ CouponOK'
      BY <2>1 DEF Took, CpnInv, CouponOK
    <2>6. OwnRowsOK'
      BY <1>1, <2>2, <2>3, <2>4 DEF CpnInv, OwnRowsOK
    <2>7. RedeemedOK' /\ AnswersOK'
      BY <1>1, <2>1, <2>2, <2>3, <2>5 DEF CpnInv, RedeemedOK, AnswersOK
    <2>. QED
      BY <2>2, <2>5, <2>6, <2>7 DEF CpnInv
  <1>3. CASE HasCapacity
    <2>1. PICK row \in OwnRow(c) : TRUE
      BY <1>1 DEF CpnInv, OwnRowsOK
    <2>2. row \in redeemed /\ row \in RedemptionRecords /\ row.key = cpnCalls[c].key
          /\ row.n = cpnCalls[c].n
      BY <2>1 DEF OwnRow, KeyOf, CpnInv, RedeemedOK
    <2>3. OwnRow(c) = {row}
      BY <2>2 DEF OwnRow, KeyOf, CpnInv, RedeemedOK
    <2>4. ~row.counted
      BY <1>1, <2>1 DEF CpnInv, OwnRowsOK
    <2> DEFINE new == [row EXCEPT !.counted = TRUE, !.nth = coupon.uses + 1, !.cap = coupon.max]
    <2>5. /\ coupon' = [coupon EXCEPT !.uses = @ + 1]
          /\ redeemed' = (redeemed \ OwnRow(c))
                           \cup {[r EXCEPT !.counted = TRUE, !.nth = coupon.uses + 1,
                                           !.cap = coupon.max] : r \in OwnRow(c)}
          /\ Answer(c, "redeemed")
      BY <1>3 DEF Reserve
    <2>6. redeemed' = (redeemed \ {row}) \cup {new}
      BY <2>3, <2>5
    <2>7. CouponOK' /\ coupon'.uses = coupon.uses + 1 /\ coupon.uses \in Nat /\ coupon.max \in Nat
      <3>1. coupon.uses \in Nat /\ coupon.max \in Nat /\ coupon.uses + 1 \in Nat
        BY DEF CpnInv, CouponOK
      <3>2. /\ DOMAIN coupon' = DOMAIN coupon /\ coupon'.max = coupon.max
            /\ coupon'.uses = coupon.uses + 1
        BY <2>5 DEF CpnInv, CouponOK
      <3>. QED
        BY <3>1, <3>2 DEF CpnInv, CouponOK
    <2>8. /\ new \in RedemptionRecords /\ new.key = row.key /\ new.n = row.n /\ new.counted = TRUE
          /\ new.nth = coupon.uses + 1 /\ new.cap = coupon.max
      <3>1. coupon.uses + 1 \in Nat
        BY <2>7
      <3>. QED
        BY <2>2, <2>7, <3>1 DEF RedemptionRecords
    <2>9. new.cap # Unlimited => new.nth <= new.cap
      BY <1>3, <2>7, <2>8 DEF HasCapacity
    <2>10. RequestsOK' /\ (\A d \in CouponSlots : d # c => cpnCalls'[d] = cpnCalls[d])
          /\ cpnCalls'[c].key = cpnCalls[c].key
      BY <1>1, <2>5, Moved
    <2>11. cpnCalls'[c].at = "answer" /\ cpnCalls'[c].word = "redeemed"
      BY <1>1, <2>5, AtAfter
    <2> HIDE DEF new
    <2>12. Took' = Took \cup {new} /\ new \notin Took
      <3>1. new \notin redeemed
        <4>1. new # row
          BY <2>4, <2>8
        <4>. QED
          BY <2>2, <2>8, <4>1 DEF CpnInv, RedeemedOK
      <3>. QED
        BY <2>4, <2>6, <2>8, <3>1 DEF Took
    <2>13. IsFiniteSet(Took') /\ Cardinality(Took') = coupon'.uses
      <3>1. IsFiniteSet(Took) /\ Cardinality(Took) = coupon.uses
        BY DEF CpnInv, RedeemedOK
      <3>. QED
        BY <2>7, <2>12, <3>1, FS_AddElement
    <2>14. RedeemedOK'
      <3>1. redeemed' \subseteq RedemptionRecords
        BY <2>6, <2>8 DEF CpnInv, RedeemedOK
      <3>2. \A r, s \in redeemed' : r.key = s.key => r = s
        BY <2>2, <2>6, <2>8 DEF CpnInv, RedeemedOK
      <3>3. \A r \in Took' : r.cap # Unlimited => r.nth <= r.cap
        BY <2>9, <2>12 DEF CpnInv, RedeemedOK
      <3>. QED
        BY <2>13, <3>1, <3>2, <3>3 DEF RedeemedOK
    <2>15. OwnRowsOK'
      <3>1. ASSUME NEW d \in CouponSlots, d # c, cpnCalls[d].at \in {"reserve", "compensate"}
            PROVE  OwnRow(d)' = OwnRow(d)
        <4>1. Working(d)
          BY <3>1, AtWork
        <4>2. row.n # cpnCalls[d].n /\ new.n # cpnCalls[d].n
          BY <1>1, <2>2, <2>8, <3>1, <4>1, OthersRows
        <4>. QED
          BY <2>6, <2>10, <3>1, <4>2 DEF OwnRow, KeyOf
      <3>. QED
        BY <2>10, <2>11, <3>1 DEF CpnInv, OwnRowsOK
    <2>16. AnswersOK'
      <3>1. new \in Took' /\ new.key = cpnCalls'[c].key /\ Took \subseteq Took'
        BY <2>2, <2>8, <2>10, <2>12
      <3>. QED
        BY <1>1, <2>10, <3>1 DEF CpnInv, AnswersOK
    <2>. QED
      BY <2>7, <2>10, <2>14, <2>15, <2>16 DEF CpnInv
  <1>. QED
    BY <1>2, <1>3

\* Removing the request's own row removes none that took a use.
LEMMA CompensateStep ==
  ASSUME CpnInv, NEW c \in CouponSlots, Compensate(c)
  PROVE  CpnInv'
  <1>1. Working(c) /\ UNCHANGED <<coupon, told, attempts>> /\ cpnCalls[c].at = "compensate"
        /\ redeemed' = redeemed \ OwnRow(c) /\ Answer(c, "refused")
    BY AtWork DEF Compensate
  <1>2. RequestsOK' /\ (\A d \in CouponSlots : d # c => cpnCalls'[d] = cpnCalls[d])
    BY <1>1, Moved
  <1>3. cpnCalls'[c].at = "answer" /\ cpnCalls'[c].word = "refused"
    BY <1>1, AtAfter
  <1>4. Took' = Took
    <2>1. \A r \in OwnRow(c) : ~r.counted
      BY <1>1 DEF CpnInv, OwnRowsOK
    <2>. QED
      BY <1>1, <2>1 DEF Took
  <1>5. CouponOK' /\ RedeemedOK' /\ AnswersOK'
    BY <1>1, <1>2, <1>3, <1>4 DEF CpnInv, CouponOK, RedeemedOK, AnswersOK
  <1>6. OwnRowsOK'
    <2>1. ASSUME NEW d \in CouponSlots, d # c, cpnCalls[d].at \in {"reserve", "compensate"}
          PROVE  OwnRow(d)' = OwnRow(d)
      <3>1. Working(d)
        BY <2>1, AtWork
      <3>2. \A r \in OwnRow(c) : r.n # cpnCalls[d].n
        BY <1>1, <2>1, <3>1, OthersRows DEF OwnRow
      <3>. QED
        BY <1>1, <1>2, <2>1, <3>2 DEF OwnRow, KeyOf
    <2>. QED
      BY <1>2, <1>3, <2>1 DEF CpnInv, OwnRowsOK
  <1>. QED
    BY <1>2, <1>5, <1>6 DEF CpnInv

\* A new request has a number of its own.
LEMMA RequestStep ==
  ASSUME CpnInv, NEW c \in CouponSlots, NEW k \in Keys, Request(c, k)
  PROVE  CpnInv'
  <1> DEFINE new == [at |-> "look", key |-> k, n |-> attempts]
  <1>1. /\ attempts \in Nat /\ attempts' = attempts + 1
        /\ cpnCalls \in [CouponSlots -> WorkingRecords \cup AnswerRecords \cup {CpnIdle}]
        /\ cpnCalls' = [cpnCalls EXCEPT ![c] = new] /\ UNCHANGED <<coupon, redeemed, told>>
    BY DEF Request, CpnInv, RequestsOK
  <1>2. new \in WorkingRecords /\ new.n = attempts /\ new.at = "look"
    BY <1>1 DEF WorkingRecords
  <1> HIDE DEF new
  <1>3. cpnCalls'[c] = new /\ \A d \in CouponSlots : d # c => cpnCalls'[d] = cpnCalls[d]
    BY <1>1
  <1>4. \A d \in CouponSlots : Working(d) => cpnCalls[d].n \in Nat /\ cpnCalls[d].n < attempts
    BY DEF CpnInv, RequestsOK, Working, WorkingRecords
  <1>5. RequestsOK'
    <2>1. \A d \in CouponSlots : Working(d)' /\ d # c => Working(d)
      BY <1>3 DEF Working
    <2>2. attempts < attempts + 1 /\ \A n \in Nat : n < attempts => n < attempts + 1 /\ n # attempts
      BY <1>1
    <2>3. cpnCalls' \in [CouponSlots -> WorkingRecords \cup AnswerRecords \cup {CpnIdle}]
      BY <1>1, <1>2
    <2>4. \A d \in CouponSlots : Working(d)' => cpnCalls'[d].n < attempts'
      BY <1>1, <1>2, <1>3, <1>4, <2>1, <2>2
    <2>5. \A d, e \in CouponSlots : Working(d)' /\ Working(e)' /\ cpnCalls'[d].n = cpnCalls'[e].n => d = e
      BY <1>2, <1>3, <1>4, <2>1, <2>2 DEF CpnInv, RequestsOK
    <2>. QED
      BY <1>1, <2>3, <2>4, <2>5 DEF RequestsOK
  <1>. QED
    BY <1>1, <1>2, <1>3, <1>5, OnlyCalls

\* A delivered answer tells what it says, and a lost one nothing.
LEMMA EndedStep ==
  ASSUME CpnInv, NEW c \in CouponSlots, Deliver(c) \/ CrashOrLost(c)
  PROVE  CpnInv'
  <1>1. cpnCalls' = [cpnCalls EXCEPT ![c] = CpnIdle] /\ UNCHANGED <<coupon, redeemed, attempts>>
    BY DEF Deliver, CrashOrLost
  <1>2. cpnCalls \in [CouponSlots -> WorkingRecords \cup AnswerRecords \cup {CpnIdle}]
    BY DEF CpnInv, RequestsOK
  <1>3. cpnCalls'[c] = CpnIdle /\ \A d \in CouponSlots : d # c => cpnCalls'[d] = cpnCalls[d]
    BY <1>1, <1>2
  <1>4. RequestsOK'
    <2>1. \A d \in CouponSlots : Working(d)' => d # c /\ Working(d)
      BY <1>3, CpnKinds DEF Working
    <2>2. cpnCalls' \in [CouponSlots -> WorkingRecords \cup AnswerRecords \cup {CpnIdle}]
      BY <1>1, <1>2
    <2>. QED
      BY <1>1, <1>3, <2>1, <2>2 DEF CpnInv, RequestsOK
  <1>5. CASE CrashOrLost(c)
    BY <1>1, <1>3, <1>4, <1>5, CpnKinds, OnlyCalls DEF CrashOrLost
  <1>6. CASE Deliver(c)
    <2> DEFINE k == cpnCalls[c].key
               w == cpnCalls[c].word
    <2>1. told' = [told EXCEPT ![k] = @ \cup {w}] /\ cpnCalls[c].at = "answer"
      BY <1>6 DEF Deliver, KeyOf
    <2>2. Took' = Took
      BY <1>1 DEF Took
    <2>3. told' = [x \in Keys |-> told'[x]]
          /\ \A x \in Keys : "redeemed" \in told'[x] => "redeemed" \in told[x] \/ (x = k /\ w = "redeemed")
      BY <2>1 DEF CpnInv, AnswersOK
    <2>4. AnswersOK'
      <3>1. w = "redeemed" => \E r \in Took : r.key = k
        BY <2>1 DEF CpnInv, AnswersOK
      <3> HIDE DEF k, w
      <3>. QED
        BY <1>3, <2>2, <2>3, <3>1, CpnKinds DEF CpnInv, AnswersOK
    <2>5. CouponOK' /\ RedeemedOK'
      BY <1>1, <2>2 DEF CpnInv, CouponOK, RedeemedOK
    <2>6. \A d \in CouponSlots : d # c => OwnRow(d)' = OwnRow(d)
      BY <1>1, <1>3 DEF OwnRow, KeyOf
    <2>7. OwnRowsOK'
      BY <1>3, <2>6, CpnKinds DEF CpnInv, OwnRowsOK
    <2>. QED
      BY <1>4, <2>4, <2>5, <2>7 DEF CpnInv
  <1>. QED
    BY <1>5, <1>6

\* Every step of the coupon keeps the invariant.
LEMMA CpnStep ==
  ASSUME CpnInv, CpnNext
  PROVE  CpnInv'
  <1>1. ASSUME NEW n \in NewCaps, SetCap(n) PROVE CpnInv'
    <2>1. DOMAIN [coupon EXCEPT !.max = n] = DOMAIN coupon
          /\ [coupon EXCEPT !.max = n].uses = coupon.uses /\ [coupon EXCEPT !.max = n].max = n
      BY DEF CpnInv, CouponOK
    <2>2. n \in Nat
      BY CouponsAssumption
    <2>. QED
      BY <1>1, <2>1, <2>2, UpdateStep DEF SetCap
  <1>2. CASE Toggle \/ Expire
    <2> DEFINE toggled == [coupon EXCEPT !.active = ~@]
               expired == [coupon EXCEPT !.expired = TRUE]
    <2>1. /\ DOMAIN toggled = DOMAIN coupon /\ toggled.uses = coupon.uses
          /\ toggled.max = coupon.max
      BY DEF CpnInv, CouponOK
    <2>2. /\ DOMAIN expired = DOMAIN coupon /\ expired.uses = coupon.uses
          /\ expired.max = coupon.max
      BY DEF CpnInv, CouponOK
    <2>3. UpdateCoupon(toggled) \/ UpdateCoupon(expired)
      BY <1>2 DEF Toggle, Expire
    <2> HIDE DEF toggled, expired
    <2>4. coupon.max \in Nat
      BY DEF CpnInv, CouponOK
    <2>. QED
      BY <2>1, <2>2, <2>3, <2>4, UpdateStep
  <1>3. CASE PausePromotion
    BY <1>3 DEF PausePromotion, CpnInv, CouponOK, RequestsOK, Working, RedeemedOK, Took, OwnRowsOK,
                OwnRow, KeyOf, AnswersOK
  <1>. QED
    BY <1>1, <1>2, <1>3, RequestStep, ChecksStep, InsertRowStep, ReserveStep, CompensateStep, EndedStep
       DEF CpnNext

\* Along every behaviour of the coupon its uses are the redemptions that took
\* one, none beyond the capacity it found, and who was told that it was redeemed
\* has one.
THEOREM CpnSafe == CpnSpec => []CouponCounted
  <1>1. CpnInv /\ UNCHANGED cpnVars => CpnInv'
    BY DEF cpnVars, CpnInv, CouponOK, RequestsOK, Working, RedeemedOK, Took, OwnRowsOK, OwnRow, KeyOf,
           AnswersOK
  <1>2. CpnInv => CouponCounted
    BY DEF CpnInv, RedeemedOK, AnswersOK, Took, CouponCounted
  <1>. QED
    BY <1>1, <1>2, CpnInitOK, CpnStep, PTL DEF CpnSpec

(***************************************************************************)
(* Reference data: Catalogue.                                              *)
(***************************************************************************)

\* The reference data on its own.
CatSpec == CatInit /\ [][CatNext]_catVars

\* The fields of a UomConversion row.
ConversionRecords == [version : Nat, status : {"active", "superseded"}, by : Nat]
\* A row of a table, or none.
RowRecords == [key : RowKeys, on : BOOLEAN] \cup {Gone}

\* Type correctness of the conversions, and their chain.
ConversionsOK == conversions \in Seq(ConversionRecords) /\ ConversionChain

\* One row per key.
OneHolder == \A i, j \in Rows : entities[i].key = entities[j].key => i = j
\* Type correctness of the table, and one row per key.
TableOK == entities \in [EntityIds -> RowRecords] /\ OneHolder

\* The audited verdicts of an offer.
VerdictsOf(i) == {a[2] : a \in {b \in audits : b[1] = i}}
\* Type correctness of the suggestions; one is pending at most, and a verdict has
\* its audit.
OffersOK ==
    /\ offers \in Seq({"pending", "approved", "rejected"})
    /\ audits \subseteq (DOMAIN offers) \X {"approved", "rejected"}
    /\ \A i, j \in Pending : i = j
    /\ \A i \in DOMAIN offers : VerdictsOf(i) = {offers[i]} \ {"pending"}

\* Once there is history, the type and those a request is about to write were
\* checked before it. CatalogueSound is not inductive without the second half.
TypeFixed ==
    sold => /\ itemType \in overtaken
            /\ \A s \in CatalogueSlots : task[s].op = "retype" => task[s].asks \in overtaken

\* What a request has read is still there. A flag is set on a row that was found,
\* and only assortment rows are: a customer's could have been deleted since.
TaskOK(x) ==
    /\ x.op = "supersede" => x.seen \in DOMAIN conversions
    /\ x.op = "create" => x.asks \in RowKeys
    /\ x.op = "flag" => desk = "assortment" /\ x.seen \in Rows
    /\ x.op = "update" => x.seen \in EntityIds /\ x.asks \in RowKeys
    /\ x.op = "review" => x.seen \in DOMAIN offers /\ x.asks \in {"approved", "rejected"}
\* Every request is as TaskOK says.
TasksOK ==
    /\ task = [s \in CatalogueSlots |-> task[s]]
    /\ \A s \in CatalogueSlots : TaskOK(task[s])

\* The inductive invariant of the reference data.
CatInv == ConversionsOK /\ TableOK /\ OffersOK /\ TypeFixed /\ TasksOK

\* Empty tables satisfy it.
LEMMA CatInitOK == CatInit => CatInv
  <1> SUFFICES ASSUME CatInit PROVE CatInv
    OBVIOUS
  <1>1. Gone \in RowRecords /\ Rows = {}
    BY DEF CatInit, Gone, RowRecords, Rows
  <1>2. ConversionsOK /\ TableOK
    BY <1>1 DEF CatInit, ConversionsOK, ConversionChain, TableOK, OneHolder
  <1>3. OffersOK
    BY DEF CatInit, OffersOK, Pending
  <1>. QED
    BY <1>2, <1>3 DEF CatInit, CatInv, TypeFixed, TasksOK, TaskOK, NoTask

\* What is said of the conversions stands while they do.
LEMMA CatConversionsKept == ASSUME ConversionsOK, UNCHANGED conversions PROVE ConversionsOK'
  BY DEF ConversionsOK, ConversionChain
\* What is said of the table stands while it does.
LEMMA CatTableKept == ASSUME TableOK, UNCHANGED entities PROVE TableOK' /\ Rows' = Rows
  BY DEF TableOK, OneHolder, Rows
\* What is said of the suggestions stands while they do.
LEMMA CatOffersKept == ASSUME OffersOK, UNCHANGED <<offers, audits>> PROVE OffersOK'
  BY DEF OffersOK, Pending, VerdictsOf
\* What is said of the type stands while it does and no request to change it
\* comes.
LEMMA CatTypeKept ==
  ASSUME TypeFixed, UNCHANGED <<itemType, sold, overtaken>>,
         \A s \in CatalogueSlots : task'[s].op = "retype" => task'[s] = task[s]
  PROVE  TypeFixed'
  BY DEF TypeFixed

\* A request dropped or left alone, while nothing it has read goes away.
LEMMA CatTasksKept ==
  ASSUME TasksOK, desk' = desk, DOMAIN conversions \subseteq DOMAIN conversions',
         DOMAIN offers \subseteq DOMAIN offers', desk = "assortment" => Rows \subseteq Rows',
         task' = task \/ \E s \in CatalogueSlots : Drop(s)
  PROVE  /\ TasksOK'
         /\ \A s \in CatalogueSlots : task'[s].op = "retype" => task'[s] = task[s]
  <1>1. /\ \A s \in CatalogueSlots : task'[s] = task[s] \/ task'[s] = NoTask
        /\ task' = [s \in CatalogueSlots |-> task'[s]]
    BY DEF Drop, TasksOK
  <1>2. NoTask.op = "none"
    BY DEF NoTask
  <1>. QED
    BY <1>1, <1>2 DEF TasksOK, TaskOK

\* A request that has read what is there.
LEMMA CatTaken ==
  ASSUME CatInv, NEW s \in CatalogueSlots, NEW op, NEW seen, NEW asks, Take(s, op, seen, asks),
         op = "supersede" => seen \in DOMAIN conversions,
         op = "create" => asks \in RowKeys,
         op = "flag" => desk = "assortment" /\ seen \in Rows,
         op = "update" => seen \in EntityIds /\ asks \in RowKeys,
         op = "review" => seen \in DOMAIN offers /\ asks \in {"approved", "rejected"},
         op = "retype" => ~sold,
         UNCHANGED <<desk, conversions, entities, itemType, sold, offers, audits, overtaken>>
  PROVE  CatInv'
  <1> DEFINE new == [op |-> op, seen |-> seen, asks |-> asks]
  <1>1. /\ task'[s] = new /\ \A u \in CatalogueSlots : u # s => task'[u] = task[u]
        /\ task' = [u \in CatalogueSlots |-> task'[u]]
    BY DEF Take, CatInv, TasksOK
  <1>2. new.op = op /\ new.seen = seen /\ new.asks = asks
    OBVIOUS
  <1> HIDE DEF new
  <1>3. Rows' = Rows
    BY DEF Rows
  <1>4. ASSUME NEW u \in CatalogueSlots PROVE TaskOK(task[u])'
    <2>1. CASE u # s
      BY <1>1, <1>3, <2>1 DEF CatInv, TasksOK, TaskOK
    <2>2. CASE u = s
      BY <1>1, <1>2, <1>3, <2>2 DEF TaskOK
    <2>. QED
      BY <2>1, <2>2
  <1>5. TasksOK'
    BY <1>1, <1>4 DEF TasksOK
  <1>6. TypeFixed'
    BY <1>1, <1>2 DEF CatInv, TypeFixed
  <1>. QED
    BY <1>5, <1>6, CatConversionsKept, CatTableKept, CatOffersKept DEF CatInv

\* The chain of versions, of any list of them.
Chained(cv) ==
    \A i \in DOMAIN cv :
        /\ cv[i].version = i
        /\ cv[i].status = (IF i = Len(cv) THEN "active" ELSE "superseded")
        /\ cv[i].by = (IF i = Len(cv) THEN 0 ELSE i + 1)

\* A chain is extended by superseding its last link.
LEMMA ChainExtended ==
  ASSUME NEW cv \in Seq(ConversionRecords), NEW n \in Nat, n = Len(cv), n > 0, Chained(cv),
         NEW old \in ConversionRecords, NEW new \in ConversionRecords,
         old.version = n, old.status = "superseded", old.by = n + 1,
         new.version = n + 1, new.status = "active", new.by = 0
  PROVE  LET ext == Append([cv EXCEPT ![n] = old], new)
         IN  ext \in Seq(ConversionRecords) /\ Chained(ext) /\ DOMAIN cv \subseteq DOMAIN ext
  <1> DEFINE half == [cv EXCEPT ![n] = old]
             ext == Append(half, new)
  <1>1. DOMAIN cv = 1..n
    OBVIOUS
  <1>2. /\ half \in Seq(ConversionRecords) /\ Len(half) = n /\ half[n] = old
        /\ \A k \in 1..n : k # n => half[k] = cv[k]
    BY <1>1
  <1> HIDE DEF half
  <1>3. /\ ext \in Seq(ConversionRecords) /\ Len(ext) = n + 1 /\ ext[n + 1] = new
        /\ \A k \in 1..n : ext[k] = half[k]
    BY <1>2
  <1> HIDE DEF ext
  <1>4. DOMAIN ext = 1..(n + 1)
    BY <1>3
  <1>5. ASSUME NEW k \in DOMAIN ext
        PROVE  /\ ext[k].version = k
               /\ ext[k].status = (IF k = Len(ext) THEN "active" ELSE "superseded")
               /\ ext[k].by = (IF k = Len(ext) THEN 0 ELSE k + 1)
    <2>1. CASE k = n + 1
      BY <1>3, <2>1
    <2>2. CASE k = n
      <3>1. ext[k] = old /\ k # Len(ext)
        BY <1>2, <1>3, <2>2
      <3>. QED
        BY <2>2, <3>1
    <2>3. CASE k # n + 1 /\ k # n
      <3>1. k \in 1..n /\ ext[k] = cv[k] /\ k # Len(ext) /\ k # Len(cv)
        BY <1>2, <1>3, <1>4, <2>3
      <3>. QED
        BY <1>1, <3>1 DEF Chained
    <2>. QED
      BY <2>1, <2>2, <2>3
  <1>6. Chained(ext)
    BY <1>5 DEF Chained
  <1>7. DOMAIN cv \subseteq DOMAIN ext
    BY <1>1, <1>4
  <1>. QED
    BY <1>3, <1>6, <1>7 DEF ext, half

\* What superseding makes of a row.
LEMMA LinkChanged ==
  ASSUME NEW c \in ConversionRecords, NEW n \in Nat
  PROVE  LET old == [c EXCEPT !.status = "superseded", !.by = n]
         IN  /\ old \in ConversionRecords /\ old.version = c.version
             /\ old.status = "superseded" /\ old.by = n
  BY DEF ConversionRecords

\* Two fields of a row written at once are the row replaced.
LEMMA LinkReplaced ==
  ASSUME NEW cv \in Seq(ConversionRecords), NEW i \in DOMAIN cv, NEW n \in Nat
  PROVE  [cv EXCEPT ![i].status = "superseded", ![i].by = n]
           = [cv EXCEPT ![i] = [cv[i] EXCEPT !.status = "superseded", !.by = n]]
  <1>1. cv[i] \in ConversionRecords
    OBVIOUS
  <1>2. cv = [k \in DOMAIN cv |-> cv[k]]
    OBVIOUS
  <1>. QED
    BY <1>1, <1>2 DEF ConversionRecords

\* Superseding extends the chain at its end, or is refused by the index.
LEMMA SupersedeStep ==
  ASSUME CatInv, NEW s \in CatalogueSlots, SupersedeConversion(s)
  PROVE  CatInv'
  <1> DEFINE i == task[s].seen
             n == Len(conversions)
             ver == conversions[i].version + 1
             old == [conversions[i] EXCEPT !.status = "superseded", !.by = n + 1]
             new == [version |-> ver, status |-> "active", by |-> 0]
  <1>1. /\ i \in DOMAIN conversions /\ conversions \in Seq(ConversionRecords) /\ n \in Nat
        /\ DOMAIN conversions = 1..n /\ Chained(conversions)
    BY DEF SupersedeConversion, Superseding, CatInv, TasksOK, TaskOK, ConversionsOK, ConversionChain,
           Chained
  <1>0. n + 1 \in Nat
    BY <1>1
  <1>2. conversions[i].version = i /\ ver = i + 1
    BY <1>1 DEF Chained
  <1>3. /\ Drop(s) /\ UNCHANGED <<desk, entities, itemType, sold, offers, audits, overtaken>>
        /\ conversions' = IF \E k \in DOMAIN conversions : conversions[k].version = ver
                          THEN conversions
                          ELSE Append([conversions EXCEPT ![i] = old], new)
    BY <1>1, <1>0, LinkReplaced DEF SupersedeConversion, Superseding
  <1>4. conversions[i] \in ConversionRecords /\ n + 1 \in Nat
    BY <1>1
  <1>5. /\ old \in ConversionRecords /\ old.version = i /\ old.status = "superseded"
        /\ old.by = n + 1
    BY <1>2, <1>4, LinkChanged
  <1>6. /\ new \in ConversionRecords /\ new.version = i + 1 /\ new.status = "active" /\ new.by = 0
    BY <1>1, <1>2 DEF ConversionRecords
  <1> HIDE DEF i, n, ver, old, new
  <1>7. ConversionsOK' /\ DOMAIN conversions \subseteq DOMAIN conversions'
    <2>1. CASE \E k \in DOMAIN conversions : conversions[k].version = ver
      <3>1. conversions' = conversions
        BY <1>3, <2>1
      <3>. QED
        BY <3>1, CatConversionsKept DEF CatInv
    <2>2. CASE ~ \E k \in DOMAIN conversions : conversions[k].version = ver
      <3>1. i = n /\ n > 0
        <4>1. i + 1 \notin 1..n
          BY <1>1, <1>2, <2>2 DEF Chained
        <4>. QED
          BY <1>1, <4>1
      <3>2. n = Len(conversions)
        BY DEF n
      <3>3. conversions' = Append([conversions EXCEPT ![n] = old], new)
        BY <1>3, <2>2, <3>1
      <3>4. /\ conversions' \in Seq(ConversionRecords) /\ Chained(conversions')
            /\ DOMAIN conversions \subseteq DOMAIN conversions'
        BY <1>1, <1>5, <1>6, <3>1, <3>2, <3>3, ChainExtended
      <3>. QED
        BY <3>4 DEF ConversionsOK, ConversionChain, Chained
    <2>. QED
      BY <2>1, <2>2
  <1>8. Rows' = Rows /\ TableOK' /\ OffersOK'
    BY <1>3, CatTableKept, CatOffersKept DEF CatInv
  <1>9. TasksOK' /\ \A u \in CatalogueSlots : task'[u].op = "retype" => task'[u] = task[u]
    BY <1>3, <1>7, <1>8, CatTasksKept DEF CatInv
  <1>. QED
    BY <1>3, <1>7, <1>8, <1>9, CatTypeKept DEF CatInv

\* A row is written: it is gone after, or no other row has its key.
LEMMA RowWritten ==
  ASSUME CatInv, NEW i \in EntityIds, NEW row \in RowRecords,
         entities' = [entities EXCEPT ![i] = row],
         UNCHANGED <<desk, conversions, itemType, sold, offers, audits, overtaken>>,
         row # Gone => \A j \in Rows : entities[j].key = row.key => j = i,
         desk = "assortment" /\ i \in Rows => row # Gone,
         task' = task \/ \E s \in CatalogueSlots : Drop(s)
  PROVE  CatInv'
  <1>1. /\ entities' \in [EntityIds -> RowRecords] /\ entities'[i] = row
        /\ \A j \in EntityIds : j # i => entities'[j] = entities[j]
    BY DEF CatInv, TableOK
  <1>2. \A j \in EntityIds : j # i => (j \in Rows' <=> j \in Rows)
    BY <1>1 DEF Rows
  <1>3. i \in Rows' <=> row # Gone
    BY <1>1 DEF Rows
  <1>4. Rows \subseteq EntityIds /\ Rows' \subseteq EntityIds
    BY DEF Rows
  <1>5. OneHolder'
    BY <1>1, <1>2, <1>3, <1>4 DEF CatInv, TableOK, OneHolder
  <1>6. desk = "assortment" => Rows \subseteq Rows'
    BY <1>2, <1>3, <1>4
  <1>7. TasksOK' /\ \A u \in CatalogueSlots : task'[u].op = "retype" => task'[u] = task[u]
    BY <1>6, CatTasksKept DEF CatInv
  <1>. QED
    BY <1>1, <1>5, <1>7, CatConversionsKept, CatOffersKept, CatTypeKept DEF CatInv, TableOK

\* An insert, an update and a flag meet the unique index.
LEMMA TableStep ==
  ASSUME CatInv, NEW s \in CatalogueSlots, Save(s) \/ SaveFlags(s) \/ Update(s)
  PROVE  CatInv'
  <1> DEFINE i == task[s].seen
             k == task[s].asks
  <1>1. TaskOK(task[s]) /\ entities \in [EntityIds -> RowRecords] /\ OneHolder
    BY DEF CatInv, TasksOK, TableOK
  <1>2. CASE Save(s)
    <2>1. k \in RowKeys
      BY <1>1, <1>2 DEF Save, TaskOK
    <2>2. CASE Holder(k) # {}
      <3>1. Drop(s) /\ UNCHANGED <<desk, conversions, entities, itemType, sold, offers, audits, overtaken>>
        BY <1>2, <2>2 DEF Save
      <3>2. Rows' = Rows /\ TableOK' /\ ConversionsOK' /\ OffersOK'
        BY <3>1, CatTableKept, CatConversionsKept, CatOffersKept DEF CatInv
      <3>3. TasksOK' /\ \A u \in CatalogueSlots : task'[u].op = "retype" => task'[u] = task[u]
        BY <3>1, <3>2, CatTasksKept DEF CatInv
      <3>. QED
        BY <3>1, <3>2, <3>3, CatTypeKept DEF CatInv
    <2>3. CASE Holder(k) = {}
      <3> DEFINE row == [key |-> k, on |-> TRUE]
      <3>1. row \in RowRecords /\ row.key = k /\ row # Gone
        BY <2>1 DEF RowRecords, Gone
      <3>2. PICK e \in EntityIds \ Rows : entities' = [entities EXCEPT ![e] = row]
        BY <1>2, <2>3 DEF Save
      <3>3. Drop(s) /\ UNCHANGED <<desk, conversions, itemType, sold, offers, audits, overtaken>>
        BY <1>2 DEF Save
      <3>4. \A j \in Rows : entities[j].key # k
        BY <2>3 DEF Holder
      <3> HIDE DEF row
      <3>. QED
        BY <3>1, <3>2, <3>3, <3>4, RowWritten
    <2>. QED
      BY <2>2, <2>3
  <1>3. CASE SaveFlags(s)
    <2>1. PICK b \in BOOLEAN : Updated(i, [entities[i] EXCEPT !.on = b]) /\ Drop(s)
      BY <1>3 DEF SaveFlags
    <2> DEFINE row == [entities[i] EXCEPT !.on = b]
    <2>2. i \in Rows /\ i \in EntityIds /\ entities[i] \in RowRecords
      BY <1>1, <1>3 DEF SaveFlags, TaskOK, Rows
    <2>3. row \in RowRecords /\ row.key = entities[i].key
      BY <2>2 DEF RowRecords, Rows
    <2>4. desk = "assortment"
      BY <1>1, <1>3 DEF SaveFlags, TaskOK
    <2>5. row # Gone
      <3>1. entities[i].key \in RowKeys /\ Gone.key = "gone"
        BY <2>2 DEF Rows, RowRecords, Gone
      <3>. QED
        BY <2>3, <3>1, RowKeysAssumption
    <2>6. \A j \in Rows : entities[j].key = row.key => j = i
      BY <1>1, <2>2, <2>3 DEF OneHolder
    <2> HIDE DEF row
    <2>7. entities' = [entities EXCEPT ![i] = row]
          /\ UNCHANGED <<desk, conversions, itemType, sold, offers, audits, overtaken>>
      BY <2>1 DEF Updated, row
    <2>. QED
      BY <2>1, <2>2, <2>3, <2>5, <2>6, <2>7, RowWritten
  <1>4. CASE Update(s)
    <2>1. PICK b \in BOOLEAN :
             /\ Drop(s)
             /\ Updated(i, IF i \in Rows /\ Holder(k) \subseteq {i}
                           THEN [key |-> k, on |-> b] ELSE entities[i])
      BY <1>4 DEF Update
    <2>2. i \in EntityIds /\ k \in RowKeys /\ entities[i] \in RowRecords
      BY <1>1, <1>4 DEF Update, TaskOK
    <2> DEFINE row == IF i \in Rows /\ Holder(k) \subseteq {i}
                      THEN [key |-> k, on |-> b] ELSE entities[i]
    <2>3. /\ row \in RowRecords /\ (i \in Rows => row # Gone)
          /\ row # Gone => \A j \in Rows : entities[j].key = row.key => j = i
      <3>1. CASE i \in Rows /\ Holder(k) \subseteq {i}
        <4>1. row = [key |-> k, on |-> b] /\ row.key = k
          BY <3>1
        <4> HIDE DEF row
        <4>2. row \in RowRecords /\ row # Gone
          BY <2>2, <4>1, RowKeysAssumption DEF RowRecords, Gone
        <4>. QED
          BY <3>1, <4>1, <4>2 DEF Holder
      <3>2. CASE ~(i \in Rows /\ Holder(k) \subseteq {i})
        <4>1. row = entities[i]
          BY <3>2
        <4> HIDE DEF row
        <4>. QED
          BY <1>1, <2>2, <4>1 DEF OneHolder, Rows
      <3>. QED
        BY <3>1, <3>2
    <2>4. entities' = [entities EXCEPT ![i] = row]
          /\ UNCHANGED <<desk, conversions, itemType, sold, offers, audits, overtaken>>
      BY <2>1 DEF Updated
    <2> HIDE DEF row
    <2>. QED
      BY <2>1, <2>2, <2>3, <2>4, RowWritten
  <1>. QED
    BY <1>2, <1>3, <1>4

\* The verdict of a suggestion is audited in the transaction that gives it, once.
LEMMA ReviewStep ==
  ASSUME CatInv, NEW s \in CatalogueSlots, Review(s)
  PROVE  CatInv'
  <1>0. PICK i, v : i = task[s].seen /\ v = task[s].asks
    OBVIOUS
  <1>1. /\ Drop(s) /\ UNCHANGED <<desk, conversions, entities, itemType, sold, overtaken>>
        /\ i \in DOMAIN offers /\ v \in {"approved", "rejected"}
    BY <1>0 DEF Review, CatInv, TasksOK, TaskOK
  <1>2. offers \in Seq({"pending", "approved", "rejected"})
    BY DEF CatInv, OffersOK
  <1>3. OffersOK' /\ DOMAIN offers' = DOMAIN offers
    <2>1. CASE offers[i] # "pending"
      <3>1. UNCHANGED <<offers, audits>>
        BY <1>0, <2>1 DEF Review
      <3>. QED
        BY <3>1, CatOffersKept DEF CatInv
    <2>2. CASE offers[i] = "pending"
      <3>1. offers' = [offers EXCEPT ![i] = v] /\ audits' = audits \cup {<<i, v>>}
        BY <1>0, <2>2 DEF Review
      <3>2. /\ offers' \in Seq({"pending", "approved", "rejected"}) /\ DOMAIN offers' = DOMAIN offers
            /\ offers'[i] = v /\ \A j \in DOMAIN offers : j # i => offers'[j] = offers[j]
        BY <1>1, <1>2, <3>1
      <3>3. audits' \subseteq (DOMAIN offers') \X {"approved", "rejected"}
        BY <1>1, <3>1, <3>2 DEF CatInv, OffersOK
      <3>4. Pending' \subseteq Pending
        BY <1>1, <3>2 DEF Pending
      <3>5. VerdictsOf(i) = {}
        BY <1>1, <2>2 DEF CatInv, OffersOK
      <3>6. VerdictsOf(i)' = {v}
        <4>1. \A a \in audits : a[1] # i
          BY <3>5 DEF VerdictsOf
        <4>2. {b \in audits' : b[1] = i} = {<<i, v>>}
          BY <3>1, <4>1
        <4>3. VerdictsOf(i)' = {a[2] : a \in {<<i, v>>}}
          BY <4>2 DEF VerdictsOf
        <4>4. <<i, v>>[2] = v
          OBVIOUS
        <4>. QED
          BY <4>3, <4>4
      <3>7. ASSUME NEW j \in DOMAIN offers, j # i PROVE VerdictsOf(j)' = VerdictsOf(j)
        <4>1. {b \in audits' : b[1] = j} = {b \in audits : b[1] = j}
          BY <3>1, <3>7
        <4>. QED
          BY <4>1 DEF VerdictsOf
      <3>8. ASSUME NEW j \in DOMAIN offers' PROVE VerdictsOf(j)' = {offers'[j]} \ {"pending"}
        <4>1. CASE j # i
          <5>1. VerdictsOf(j) = {offers[j]} \ {"pending"} /\ offers'[j] = offers[j]
            BY <3>2, <4>1 DEF CatInv, OffersOK
          <5>2. VerdictsOf(j)' = VerdictsOf(j)
            BY <3>2, <3>7, <4>1
          <5>. QED
            BY <5>1, <5>2
        <4>2. CASE j = i
          <5>1. VerdictsOf(j)' = {v} /\ offers'[j] = v
            BY <3>2, <3>6, <4>2
          <5>. QED
            BY <1>1, <5>1
        <4>. QED
          BY <4>1, <4>2
      <3>. QED
        BY <3>2, <3>3, <3>4, <3>8 DEF CatInv, OffersOK
    <2>. QED
      BY <2>1, <2>2
  <1>4. Rows' = Rows /\ TableOK' /\ ConversionsOK'
    BY <1>1, CatTableKept, CatConversionsKept DEF CatInv
  <1>5. TasksOK' /\ \A u \in CatalogueSlots : task'[u].op = "retype" => task'[u] = task[u]
    BY <1>1, <1>3, <1>4, CatTasksKept DEF CatInv
  <1>. QED
    BY <1>1, <1>3, <1>4, <1>5, CatTypeKept DEF CatInv

\* A suggestion is made only where none is pending.
LEMMA SuggestStep ==
  ASSUME CatInv, NEW s \in CatalogueSlots, Suggest(s)
  PROVE  CatInv'
  <1>1. /\ Drop(s) /\ UNCHANGED <<desk, conversions, entities, itemType, sold, audits, overtaken>>
        /\ offers' = IF Pending # {} THEN offers ELSE Append(offers, "pending")
    BY DEF Suggest
  <1>2. offers \in Seq({"pending", "approved", "rejected"})
    BY DEF CatInv, OffersOK
  <1>3. OffersOK' /\ DOMAIN offers \subseteq DOMAIN offers'
    <2>1. CASE Pending # {}
      <3>1. UNCHANGED <<offers, audits>>
        BY <1>1, <2>1
      <3>. QED
        BY <3>1, CatOffersKept DEF CatInv
    <2>2. CASE Pending = {}
      <3>0. PICK n : n = Len(offers) + 1
        OBVIOUS
      <3>1. offers' = Append(offers, "pending")
        BY <1>1, <2>2
      <3>2. /\ offers' \in Seq({"pending", "approved", "rejected"}) /\ n \in Nat
            /\ offers'[n] = "pending" /\ n \notin DOMAIN offers
            /\ \A j \in DOMAIN offers : j \in DOMAIN offers' /\ offers'[j] = offers[j]
            /\ \A j \in DOMAIN offers' : j \in DOMAIN offers \/ j = n
        BY <1>2, <3>0, <3>1
      <3>3. audits' \subseteq (DOMAIN offers') \X {"approved", "rejected"}
        BY <1>1, <3>2 DEF CatInv, OffersOK
      <3>4. Pending' \subseteq {n}
        BY <2>2, <3>2 DEF Pending
      <3>5. VerdictsOf(n)' = {}
        <4>1. \A b \in audits' : b[1] \in DOMAIN offers
          BY <1>1 DEF CatInv, OffersOK
        <4>2. {b \in audits' : b[1] = n} = {}
          BY <3>2, <4>1
        <4>3. VerdictsOf(n)' = {a[2] : a \in {}}
          BY <4>2 DEF VerdictsOf
        <4>. QED
          BY <4>3
      <3>6. \A j \in DOMAIN offers : VerdictsOf(j)' = VerdictsOf(j)
        BY <1>1 DEF VerdictsOf
      <3>7. ASSUME NEW j \in DOMAIN offers' PROVE VerdictsOf(j)' = {offers'[j]} \ {"pending"}
        <4>1. CASE j \in DOMAIN offers
          <5>1. VerdictsOf(j) = {offers[j]} \ {"pending"} /\ offers'[j] = offers[j]
            BY <3>2, <4>1 DEF CatInv, OffersOK
          <5>2. VerdictsOf(j)' = VerdictsOf(j)
            BY <3>6, <4>1
          <5>. QED
            BY <5>1, <5>2
        <4>2. CASE j = n
          <5>1. VerdictsOf(j)' = {} /\ offers'[j] = "pending"
            BY <3>2, <3>5, <4>2
          <5>. QED
            BY <5>1
        <4>. QED
          BY <3>2, <4>1, <4>2
      <3>. QED
        BY <3>2, <3>3, <3>4, <3>7 DEF OffersOK
    <2>. QED
      BY <2>1, <2>2
  <1>4. Rows' = Rows /\ TableOK' /\ ConversionsOK'
    BY <1>1, CatTableKept, CatConversionsKept DEF CatInv
  <1>5. TasksOK' /\ \A u \in CatalogueSlots : task'[u].op = "retype" => task'[u] = task[u]
    BY <1>1, <1>3, <1>4, CatTasksKept DEF CatInv
  <1>. QED
    BY <1>1, <1>3, <1>4, <1>5, CatTypeKept DEF CatInv

\* A change of type that is written after the first sale was checked before it.
LEMMA TypeStep ==
  ASSUME CatInv, Transact \/ \E s \in CatalogueSlots : UpdateVariant(s)
  PROVE  CatInv'
  <1>1. UNCHANGED <<desk, conversions, entities, offers, audits>>
    BY DEF Transact, UpdateVariant
  <1>2. Rows' = Rows /\ TableOK' /\ ConversionsOK' /\ OffersOK'
    BY <1>1, CatTableKept, CatConversionsKept, CatOffersKept DEF CatInv
  <1>3. TasksOK' /\ \A u \in CatalogueSlots : task'[u].op = "retype" => task'[u] = task[u]
    <2>1. task' = task \/ \E s \in CatalogueSlots : Drop(s)
      BY DEF Transact, UpdateVariant
    <2>. QED
      BY <1>1, <1>2, <2>1, CatTasksKept DEF CatInv
  <1>4. TypeFixed'
    <2>1. CASE Transact
      <3>1. /\ itemType' = itemType /\ task' = task
            /\ overtaken' = {task[s].asks : s \in {u \in CatalogueSlots : task[u].op = "retype"}}
                            \cup {itemType}
        BY <2>1 DEF Transact
      <3>. QED
        BY <3>1 DEF TypeFixed
    <2>2. ASSUME NEW s \in CatalogueSlots, UpdateVariant(s) PROVE TypeFixed'
      <3>1. /\ itemType' = task[s].asks /\ task[s].op = "retype" /\ UNCHANGED <<sold, overtaken>>
        BY <2>2 DEF UpdateVariant
      <3>. QED
        BY <1>3, <3>1 DEF CatInv, TypeFixed
    <2>. QED
      BY <2>1, <2>2
  <1>. QED
    BY <1>2, <1>3, <1>4 DEF CatInv

\* Every step of the reference data keeps the invariant.
LEMMA CatStep ==
  ASSUME CatInv, CatNext
  PROVE  CatInv'
  <1>1. CASE CreateConversion
    <2> DEFINE first == [version |-> 1, status |-> "active", by |-> 0]
    <2>1. /\ conversions = <<>> /\ conversions' = <<first>>
          /\ UNCHANGED <<desk, entities, itemType, sold, offers, audits, task, overtaken>>
      BY <1>1 DEF CreateConversion
    <2>2. first \in ConversionRecords
      BY DEF ConversionRecords
    <2>3. ConversionsOK' /\ DOMAIN conversions \subseteq DOMAIN conversions'
      BY <2>1, <2>2 DEF ConversionsOK, ConversionChain
    <2>4. Rows' = Rows /\ TableOK' /\ OffersOK'
      BY <2>1, CatTableKept, CatOffersKept DEF CatInv
    <2>5. TasksOK'
      BY <2>1, <2>3, <2>4, CatTasksKept DEF CatInv
    <2>. QED
      BY <2>1, <2>3, <2>4, <2>5 DEF CatInv, TypeFixed
  <1>2. ASSUME NEW i \in EntityIds, RemoveRow(i) PROVE CatInv'
    BY <1>2, RowWritten DEF RemoveRow, Updated, RowRecords
  <1>3. ASSUME NEW s \in CatalogueSlots,
               \/ FindPending(s) \/ \E i \in DOMAIN conversions : FindConversion(s, i)
               \/ \E k \in RowKeys : FindKey(s, k) \/ \E i \in EntityIds : FindRow(s, i, k)
               \/ \E t \in {"stock", "service"} : CheckHistory(s, t)
               \/ \E i \in DOMAIN offers, v \in {"approved", "rejected"} : FindOffer(s, i, v)
        PROVE  CatInv'
    <2>1. UNCHANGED <<desk, conversions, entities, itemType, sold, offers, audits, overtaken>>
      BY <1>3 DEF FindPending, FindConversion, FindKey, FindRow, CheckHistory, FindOffer
    <2>2. CASE FindPending(s) \/ \E i \in DOMAIN conversions : FindConversion(s, i)
      BY <2>1, <2>2, CatTaken DEF FindPending, FindConversion
    <2>3. ASSUME NEW k \in RowKeys, FindKey(s, k) PROVE CatInv'
      <3>1. CASE Take(s, "create", 0, k)
        BY <2>1, <3>1, CatTaken
      <3>2. CASE desk = "assortment" /\ \E i \in Holder(k) : Take(s, "flag", i, k)
        BY <2>1, <3>2, CatTaken DEF Holder
      <3>. QED
        BY <2>3, <3>1, <3>2 DEF FindKey
    <2>4. ASSUME NEW k \in RowKeys, NEW i \in EntityIds, FindRow(s, i, k) PROVE CatInv'
      BY <2>1, <2>4, CatTaken DEF FindRow
    <2>5. CASE \E t \in {"stock", "service"} : CheckHistory(s, t)
      BY <2>1, <2>5, CatTaken DEF CheckHistory
    <2>6. ASSUME NEW i \in DOMAIN offers, NEW v \in {"approved", "rejected"}, FindOffer(s, i, v)
          PROVE  CatInv'
      BY <2>1, <2>6, CatTaken DEF FindOffer
    <2>. QED
      BY <1>3, <2>2, <2>3, <2>4, <2>5, <2>6
  <1>. QED
    BY <1>1, <1>2, <1>3, SupersedeStep, TableStep, SuggestStep, ReviewStep, TypeStep DEF CatNext

\* The invariant gives CatalogueSound.
LEMMA CatSound == CatInv => CatalogueSound
  <1> SUFFICES ASSUME CatInv PROVE CatalogueSound
    OBVIOUS
  <1>1. Cardinality(Pending) <= 1
    <2>1. CASE Pending = {}
      BY <2>1, FS_EmptySet
    <2>2. CASE Pending # {}
      <3>1. PICK i \in Pending : TRUE
        BY <2>2
      <3>2. Pending = {i}
        BY <3>1 DEF CatInv, OffersOK
      <3>. QED
        BY <3>2, FS_Singleton
    <2>. QED
      BY <2>1, <2>2
  <1>2. RowsUnique
    BY <1>1 DEF RowsUnique, CatInv, TableOK, OneHolder, OffersOK, VerdictsOf
  <1>. QED
    BY <1>2 DEF CatalogueSound, CatInv, ConversionsOK, TypeFixed

\* Along every behaviour of the reference data a conversion has an unbroken
\* history, a key one row, a suggestion one audited verdict and a variant with
\* history the type it was checked for.
THEOREM CatSafe == CatSpec => []CatalogueSound
  <1>1. CatInv /\ UNCHANGED catVars => CatInv'
    <2> SUFFICES ASSUME CatInv, UNCHANGED catVars PROVE CatInv'
      OBVIOUS
    <2>1. UNCHANGED <<desk, conversions, entities, itemType, sold, offers, audits, task, overtaken>>
      BY DEF catVars
    <2>2. Rows' = Rows /\ TableOK' /\ ConversionsOK' /\ OffersOK'
      BY <2>1, CatTableKept, CatConversionsKept, CatOffersKept DEF CatInv
    <2>3. TasksOK' /\ TypeFixed'
      BY <2>1, <2>2 DEF CatInv, TasksOK, TaskOK, TypeFixed
    <2>. QED
      BY <2>2, <2>3 DEF CatInv
  <1>. QED
    BY <1>1, CatInitOK, CatStep, CatSound, PTL DEF CatSpec

(***************************************************************************)
(* Lists with a total: Listings.                                           *)
(***************************************************************************)

\* The lists and their totals on their own.
LstSpec == LstInit /\ [][LstNext]_lstVars

\* A row that a list may show.
LineRecords == [tenant : Tenants, write : Writes]
\* A promise of a total.
CountRecords ==
    [tenant : Tenants, step : {"running", "evaluated", "done", "failed"},
     counted : SUBSET LineRecords, at : Nat]
\* An entry of the map.
PlaceRecords == [key : Tenants, count : Nat, pending : BOOLEAN, expires : Nat]
\* A list under way.
ListRecords ==
    [step : {"idle", "reading", "answered"}, tenant : Tenants \cup {"none"}, count : Nat,
     asked : Nat, must : SUBSET LineRecords]

\* The tenant's rows whose write has been answered.
AnsweredLines(t) == {r \in Matching(t) : written[r.write] = "answered"}

\* Type correctness of the lists; a row comes with its write.
LstTypeOK ==
    /\ moment \in Nat /\ lines \subseteq LineRecords
    /\ written \in [Writes -> {"not", "committed", "answered", "amended"}]
    /\ \A r \in lines : written[r.write] # "not"
    /\ counts \in Seq(CountRecords)
    /\ countCache \in Seq(PlaceRecords)
    /\ lists \in [ListSlots -> ListRecords]

\* A total counts rows of its own tenant, and was resolved in the past.
CountOK(c) ==
    /\ \A r \in counts[c].counted : r.tenant = counts[c].tenant
    /\ counts[c].at <= moment

\* An entry of the map is its promise's: pending while it runs, then with its
\* expiry, and it counts every row answered so far. This is what clearing the map
\* on every write buys, and TotalsFresh is not inductive without it.
PlaceOK(x) ==
    /\ x.count \in DOMAIN counts
    /\ counts[x.count].tenant = x.key
    /\ x.pending => counts[x.count].step \in {"running", "evaluated"}
    /\ ~x.pending => counts[x.count].step = "done" /\ x.expires = counts[x.count].at + CountTtl
    /\ counts[x.count].step # "running" => AnsweredLines(x.key) \subseteq counts[x.count].counted

\* A key has one place.
KeysUnique(cache) == \A i, j \in DOMAIN cache : cache[i].key = cache[j].key => i = j

\* The map: one place per key, no more than the limit, every entry as PlaceOK
\* says.
MapOK ==
    /\ KeysUnique(countCache) /\ Len(countCache) <= CacheLimit
    /\ \A i \in DOMAIN countCache : PlaceOK(countCache[i])

\* A list under way waits for a promise of its tenant that has not failed, and
\* whose total, once there, is fresh for it.
ListOK(x) ==
    x.step # "idle" =>
        LET c == counts[x.count]
        IN  /\ x.count \in DOMAIN counts /\ c.tenant = x.tenant /\ x.asked <= moment
            /\ x.must \subseteq Matching(x.tenant)
            /\ c.step # "failed"
            /\ c.step # "running" => x.must \subseteq c.counted
            /\ c.step = "done" => x.asked <= c.at \/ x.asked < c.at + CountTtl
            /\ x.step = "answered" => c.step = "done"

\* The inductive invariant of the lists.
LstInv ==
    /\ LstTypeOK /\ MapOK
    /\ \A c \in DOMAIN counts : CountOK(c)
    /\ \A l \in ListSlots : ListOK(lists[l])

\* No lists and an empty map satisfy it.
LEMMA LstInitOK == LstInit => LstInv
  <1> SUFFICES ASSUME LstInit PROVE LstInv
    OBVIOUS
  <1>1. Idle \in ListRecords /\ Idle.step = "idle"
    BY DEF Idle, ListRecords
  <1>2. LstTypeOK
    BY <1>1 DEF LstInit, LstTypeOK
  <1>3. DOMAIN counts = {} /\ DOMAIN countCache = {} /\ Len(countCache) = 0
    BY DEF LstInit
  <1>4. MapOK
    BY <1>3, CacheAssumption DEF MapOK, KeysUnique
  <1>. QED
    BY <1>1, <1>2, <1>3, <1>4 DEF LstInit, LstInv, ListOK

\* What is left of a sequence when one element is taken out of it.
LEMMA RemovedPlace ==
  ASSUME NEW S, NEW s \in Seq(S), NEW i \in DOMAIN s
  PROVE  LET t == RemoveAt(s, i)
         IN /\ t \in Seq(S) /\ Len(t) = Len(s) - 1
            /\ \A j \in DOMAIN t : t[j] = s[IF j < i THEN j ELSE j + 1]
  <1> DEFINE l == SubSeq(s, 1, i - 1)
             r == SubSeq(s, i + 1, Len(s))
  <1>1. l \in Seq(S) /\ Len(l) = i - 1 /\ \A j \in 1..i-1 : l[j] = s[j]
    OBVIOUS
  <1>2. r \in Seq(S) /\ Len(r) = Len(s) - i /\ \A j \in 1..Len(s) - i : r[j] = s[j + i]
    OBVIOUS
  <1>3. RemoveAt(s, i) = l \o r
    BY DEF RemoveAt
  <1> HIDE DEF l, r
  <1>4. l \o r \in Seq(S) /\ Len(l \o r) = Len(s) - 1
    BY <1>1, <1>2
  <1>5. ASSUME NEW j \in 1..Len(s) - 1 PROVE (l \o r)[j] = s[IF j < i THEN j ELSE j + 1]
    <2>1. CASE j < i
      BY <1>1, <1>2, <2>1
    <2>2. CASE j >= i
      <3>1. (l \o r)[j] = r[j - (i - 1)]
        BY <1>1, <1>2, <2>2
      <3>2. j - (i - 1) \in 1..Len(s) - i
        BY <2>2
      <3>. QED
        BY <1>2, <2>2, <3>1, <3>2
    <2>3. i \in Nat /\ j \in Nat
      OBVIOUS
    <2>4. j < i \/ j >= i
      BY <2>3
    <2>. QED
      BY <2>1, <2>2, <2>4
  <1>6. DOMAIN (l \o r) = 1..Len(s) - 1
    BY <1>4
  <1>. QED
    BY <1>3, <1>4, <1>5, <1>6

\* What is left of a map when places go, in its order.
Thinned(new, old) ==
    /\ new \in Seq(PlaceRecords) /\ Len(new) <= Len(old) /\ KeysUnique(new)
    /\ \A j \in DOMAIN new : \E i \in DOMAIN old : new[j] = old[i]

\* Deleting a place leaves the others and none with its key.
LEMMA PlaceRemoved ==
  ASSUME NEW s \in Seq(PlaceRecords), KeysUnique(s), NEW i \in DOMAIN s
  PROVE  Thinned(RemoveAt(s, i), s) /\ \A j \in DOMAIN RemoveAt(s, i) : RemoveAt(s, i)[j].key # s[i].key
  <1> DEFINE t == RemoveAt(s, i)
             from(j) == IF j < i THEN j ELSE j + 1
  <1>1. /\ t \in Seq(PlaceRecords) /\ Len(t) = Len(s) - 1
        /\ \A j \in DOMAIN t : t[j] = s[from(j)]
    BY RemovedPlace
  <1> HIDE DEF t
  <1>2. ASSUME NEW j \in DOMAIN t PROVE from(j) \in DOMAIN s /\ from(j) # i
    BY <1>1
  <1>3. \A j, k \in DOMAIN t : from(j) = from(k) => j = k
    BY <1>1
  <1> HIDE DEF from
  <1>4. KeysUnique(t)
    BY <1>1, <1>2, <1>3 DEF KeysUnique
  <1>5. Len(t) <= Len(s)
    BY <1>1
  <1>6. \A j \in DOMAIN t : t[j].key # s[i].key
    BY <1>1, <1>2 DEF KeysUnique
  <1>7. \A j \in DOMAIN t : \E k \in DOMAIN s : t[j] = s[k]
    BY <1>1, <1>2
  <1>8. Thinned(t, s)
    BY <1>1, <1>4, <1>5, <1>7 DEF Thinned
  <1>. QED
    BY <1>6, <1>8 DEF t

\* Setting a key and trimming leave a map within its limit, with one place per
\* key.
LEMMA PlacePut ==
  ASSUME NEW s \in Seq(PlaceRecords), KeysUnique(s), Len(s) <= CacheLimit, NEW x \in PlaceRecords
  PROVE  LET t == Trimmed(Put(s, x))
         IN /\ t \in Seq(PlaceRecords) /\ KeysUnique(t) /\ Len(t) <= CacheLimit
            /\ \A j \in DOMAIN t : t[j] = x \/ \E i \in DOMAIN s : t[j] = s[i]
  <1> DEFINE p == Put(s, x)
  <1>1. /\ p \in Seq(PlaceRecords) /\ KeysUnique(p) /\ Len(p) <= CacheLimit + 1
        /\ \A j \in DOMAIN p : p[j] = x \/ \E i \in DOMAIN s : p[j] = s[i]
    <2>1. CASE \E i \in DOMAIN s : s[i].key = x.key
      <3>1. p = [i \in DOMAIN s |-> IF s[i].key = x.key THEN x ELSE s[i]]
        BY <2>1 DEF Put
      <3> HIDE DEF p
      <3>2. DOMAIN s = 1..Len(s) /\ Len(s) \in Nat
        OBVIOUS
      <3>3. p \in Seq(PlaceRecords) /\ Len(p) = Len(s) /\ DOMAIN p = DOMAIN s
        BY <3>1, <3>2
      <3>4. \A i \in DOMAIN s : p[i].key = s[i].key /\ (p[i] = x \/ p[i] = s[i])
        BY <3>1
      <3>. QED
        BY <3>2, <3>3, <3>4, CacheAssumption DEF KeysUnique
    <2>2. CASE ~ \E i \in DOMAIN s : s[i].key = x.key
      <3>1. p = Append(s, x)
        BY <2>2 DEF Put
      <3> HIDE DEF p
      <3>2. /\ p \in Seq(PlaceRecords) /\ Len(p) = Len(s) + 1 /\ p[Len(s) + 1] = x
            /\ \A i \in 1..Len(s) : p[i] = s[i]
        BY <3>1
      <3>3. \A j \in DOMAIN p : j \in DOMAIN s \/ j = Len(s) + 1
        BY <3>2
      <3>4. KeysUnique(p)
        BY <2>2, <3>2, <3>3 DEF KeysUnique
      <3>5. Len(p) <= CacheLimit + 1
        BY <3>2, CacheAssumption
      <3>. QED
        BY <3>2, <3>3, <3>4, <3>5
    <2>. QED
      BY <2>1, <2>2
  <1> HIDE DEF p
  <1>2. CASE Len(p) > CacheLimit
    <2>1. Trimmed(p) = Tail(p) /\ Len(p) = CacheLimit + 1
      BY <1>1, <1>2, CacheAssumption DEF Trimmed
    <2>2. /\ Tail(p) \in Seq(PlaceRecords) /\ Len(Tail(p)) = CacheLimit
          /\ \A j \in 1..CacheLimit : Tail(p)[j] = p[j + 1]
      BY <1>1, <2>1, CacheAssumption
    <2>3. \A j \in DOMAIN Tail(p) : j \in 1..CacheLimit /\ j + 1 \in DOMAIN p
      BY <1>1, <2>1, <2>2, CacheAssumption
    <2>4. KeysUnique(Tail(p))
      BY <1>1, <2>2, <2>3 DEF KeysUnique
    <2>5. \A j \in DOMAIN Tail(p) : Tail(p)[j] = x \/ \E i \in DOMAIN s : Tail(p)[j] = s[i]
      BY <1>1, <2>2, <2>3
    <2>6. Len(Tail(p)) <= CacheLimit
      BY <2>2, CacheAssumption
    <2>. QED
      BY <2>1, <2>2, <2>4, <2>5, <2>6 DEF p
  <1>3. CASE ~(Len(p) > CacheLimit)
    <2>1. Trimmed(p) = p /\ Len(p) <= CacheLimit
      BY <1>1, <1>3, CacheAssumption DEF Trimmed
    <2>. QED
      BY <1>1, <2>1 DEF p
  <1>. QED
    BY <1>2, <1>3

\* What a list asks for.
LEMMA ListingTyped ==
  ASSUME LstInv, NEW t \in Tenants, NEW c \in Nat
  PROVE  /\ Listing(t, c) \in ListRecords /\ Listing(t, c).step = "reading"
         /\ Listing(t, c).tenant = t /\ Listing(t, c).count = c /\ Listing(t, c).asked = moment
         /\ Listing(t, c).must = AnsweredLines(t)
  <1>1. AnsweredLines(t) \subseteq LineRecords /\ moment \in Nat
    BY DEF AnsweredLines, Matching, LstInv, LstTypeOK
  <1>. QED
    BY <1>1 DEF Listing, AnsweredLines, ListRecords

\* One list goes on; nothing else changes.
LEMMA ListReplaced ==
  ASSUME LstInv, NEW l \in ListSlots, NEW x \in ListRecords, ListOK(x),
         lists' = [lists EXCEPT ![l] = x], UNCHANGED <<lines, written, countCache, counts, moment>>
  PROVE  LstInv'
  <1>1. lists' \in [ListSlots -> ListRecords]
    BY DEF LstInv, LstTypeOK
  <1>2. lists'[l] = x /\ \A m \in ListSlots : m # l => lists'[m] = lists[m]
    BY DEF LstInv, LstTypeOK
  <1>3. \A m \in ListSlots : ListOK(lists[m])'
    BY <1>2 DEF LstInv, ListOK, Matching
  <1>4. LstTypeOK'
    BY <1>1 DEF LstInv, LstTypeOK
  <1>5. MapOK' /\ \A c \in DOMAIN counts' : CountOK(c)'
    BY DEF LstInv, MapOK, KeysUnique, PlaceOK, AnsweredLines, Matching, CountOK
  <1>. QED
    BY <1>3, <1>4, <1>5 DEF LstInv

\* What a place that may be shared holds.
LEMMA CachedPlace ==
  ASSUME LstInv, NEW t, NEW i \in Cached(t)
  PROVE  /\ i \in DOMAIN countCache /\ countCache[i].key = t /\ countCache[i] \in PlaceRecords
         /\ PlaceOK(countCache[i])
         /\ countCache[i].pending \/ countCache[i].expires > moment
  <1>1. i \in DOMAIN countCache /\ countCache \in Seq(PlaceRecords) /\ PlaceOK(countCache[i])
    BY DEF Cached, LstInv, LstTypeOK, MapOK
  <1>2. countCache[i] \in PlaceRecords
    BY <1>1
  <1>3. countCache[i].key = t
    BY DEF Cached
  <1>4. countCache[i].pending \/ countCache[i].expires > moment
    BY DEF Cached
  <1>. QED
    BY <1>1, <1>2, <1>3, <1>4

\* A list that shares a total of the map finds every answered row counted, and a
\* total that is young enough.
LEMMA SharedStep ==
  ASSUME LstInv, NEW l \in ListSlots, NEW t \in Tenants, NEW i \in Cached(CountKey(t)),
         lists' = [lists EXCEPT ![l] = Listing(t, countCache[i].count)],
         UNCHANGED <<lines, written, countCache, counts, moment>>
  PROVE  LstInv'
  <1>1. /\ i \in DOMAIN countCache /\ countCache[i].key = t /\ countCache[i] \in PlaceRecords
        /\ PlaceOK(countCache[i])
        /\ countCache[i].pending \/ countCache[i].expires > moment
    BY CachedPlace DEF CountKey
  <1> DEFINE c == countCache[i].count
             x == Listing(t, c)
  <1>2. countCache[i] \in PlaceRecords /\ PlaceOK(countCache[i]) /\ c \in Nat
    BY <1>1 DEF PlaceRecords
  <1>3. /\ c \in DOMAIN counts /\ counts[c].tenant = t /\ counts[c].step # "failed"
        /\ counts[c].step # "running" => AnsweredLines(t) \subseteq counts[c].counted
    BY <1>1, <1>2 DEF PlaceOK
  <1>4. counts[c] \in CountRecords /\ counts[c].at \in Nat /\ moment \in Nat
    <2>1. counts \in Seq(CountRecords) /\ moment \in Nat
      BY DEF LstInv, LstTypeOK
    <2>2. counts[c] \in CountRecords
      BY <1>3, <2>1
    <2>. QED
      BY <2>1, <2>2 DEF CountRecords
  <1>5. counts[c].step = "done" => moment < counts[c].at + CountTtl
    <2> SUFFICES ASSUME counts[c].step = "done" PROVE moment < counts[c].at + CountTtl
      OBVIOUS
    <2>1. ~countCache[i].pending /\ countCache[i].expires > moment
          /\ countCache[i].expires = counts[c].at + CountTtl
      BY <1>1, <1>2 DEF PlaceOK, PlaceRecords
    <2>. QED
      BY <2>1, <1>4, CacheAssumption
  <1>6. /\ x \in ListRecords /\ x.step = "reading" /\ x.tenant = t /\ x.count = c
        /\ x.asked = moment /\ x.must = AnsweredLines(t)
    BY <1>2, ListingTyped
  <1> HIDE DEF x
  <1>7. AnsweredLines(t) \subseteq Matching(t)
    BY DEF AnsweredLines
  <1>8. ListOK(x)
    BY <1>3, <1>4, <1>5, <1>6, <1>7 DEF ListOK
  <1>9. lists' = [lists EXCEPT ![l] = x]
    BY DEF x
  <1>. QED
    BY <1>6, <1>8, <1>9, ListReplaced

\* A list that starts a count of its own.
LEMMA StartedStep ==
  ASSUME LstInv, NEW l \in ListSlots, NEW t \in Tenants,
         counts' = Append(counts, NewCount(t)),
         lists' = [lists EXCEPT ![l] = Listing(t, Len(counts) + 1)],
         UNCHANGED <<lines, written, moment>>,
         countCache' \in Seq(PlaceRecords), KeysUnique(countCache)', Len(countCache') <= CacheLimit,
         \A j \in DOMAIN countCache' :
            \/ \E i \in DOMAIN countCache : countCache'[j] = countCache[i]
            \/ countCache'[j] = [key |-> CountKey(t), count |-> Len(counts) + 1, pending |-> TRUE,
                                 expires |-> 0]
  PROVE  LstInv'
  <1> DEFINE id == Len(counts) + 1
             x == Listing(t, id)
             fresh == [key |-> CountKey(t), count |-> id, pending |-> TRUE, expires |-> 0]
  <1>1. id \in Nat /\ counts \in Seq(CountRecords)
    BY DEF LstInv, LstTypeOK
  <1>2. /\ NewCount(t) \in CountRecords /\ NewCount(t).tenant = t
        /\ NewCount(t).step = "running" /\ NewCount(t).counted = {} /\ NewCount(t).at = 0
    BY DEF NewCount, CountRecords
  <1>3. /\ counts' \in Seq(CountRecords) /\ DOMAIN counts' = 1..id /\ DOMAIN counts = 1..(id - 1)
        /\ counts'[id] = NewCount(t)
        /\ \A c \in DOMAIN counts : c \in DOMAIN counts' /\ counts'[c] = counts[c]
        /\ \A c \in DOMAIN counts' : c \in DOMAIN counts \/ c = id
    BY <1>1, <1>2
  <1>4. /\ x \in ListRecords /\ x.step = "reading" /\ x.tenant = t /\ x.count = id
        /\ x.asked = moment /\ x.must = AnsweredLines(t)
    BY <1>1, ListingTyped
  <1>5. fresh.key = t /\ fresh.count = id /\ fresh.pending = TRUE
    BY DEF CountKey
  <1>6. id \in DOMAIN counts'
    BY <1>1, <1>3
  <1>7. lists' = [lists EXCEPT ![l] = x] /\ \A j \in DOMAIN countCache' :
            (\E i \in DOMAIN countCache : countCache'[j] = countCache[i]) \/ countCache'[j] = fresh
    OBVIOUS
  <1> HIDE DEF x, fresh, id
  <1>8. /\ lists' \in [ListSlots -> ListRecords]
        /\ lists'[l] = x /\ \A m \in ListSlots : m # l => lists'[m] = lists[m]
    BY <1>4, <1>7 DEF LstInv, LstTypeOK
  <1>9. LstTypeOK'
    BY <1>3, <1>8 DEF LstInv, LstTypeOK
  <1>10. ASSUME NEW c \in DOMAIN counts' PROVE CountOK(c)'
    <2>1. moment \in Nat
      BY DEF LstInv, LstTypeOK
    <2>2. CASE c \in DOMAIN counts
      <3>1. CountOK(c) /\ counts'[c] = counts[c] /\ moment' = moment
        BY <1>3, <2>2 DEF LstInv
      <3>. QED
        BY <3>1 DEF CountOK
    <2>3. CASE c = id
      <3>1. counts'[c].counted = {} /\ counts'[c].at = 0 /\ moment' = moment
        BY <1>2, <1>3, <2>3
      <3>. QED
        BY <2>1, <3>1 DEF CountOK
    <2>. QED
      BY <1>3, <2>2, <2>3
  <1>11. ASSUME NEW m \in ListSlots PROVE ListOK(lists[m])'
    <2>1. CASE m # l
      <3>1. ListOK(lists[m]) /\ lists'[m] = lists[m]
        BY <1>8, <2>1 DEF LstInv
      <3>. QED
        BY <1>3, <3>1 DEF ListOK, Matching
    <2>2. CASE m = l
      <3>1. AnsweredLines(t) \subseteq Matching(t) /\ Matching(t)' = Matching(t) /\ moment \in Nat
        BY DEF AnsweredLines, Matching, LstInv, LstTypeOK
      <3>. QED
        BY <1>2, <1>3, <1>4, <1>6, <1>8, <2>2, <3>1 DEF ListOK
    <2>. QED
      BY <2>1, <2>2
  <1>12. ASSUME NEW j \in DOMAIN countCache' PROVE PlaceOK(countCache[j])'
    <2>1. CASE \E i \in DOMAIN countCache : countCache'[j] = countCache[i]
      <3>1. PICK i \in DOMAIN countCache : countCache'[j] = countCache[i]
        BY <2>1
      <3>2. PlaceOK(countCache[i])
        BY DEF LstInv, MapOK
      <3>3. \A u : AnsweredLines(u)' = AnsweredLines(u)
        BY DEF AnsweredLines, Matching
      <3>4. PICK c : c = countCache[i].count
        OBVIOUS
      <3>5. c \in DOMAIN counts' /\ counts'[c] = counts[c]
        BY <1>3, <3>2, <3>4 DEF PlaceOK
      <3>. QED
        BY <3>1, <3>2, <3>3, <3>4, <3>5 DEF PlaceOK
    <2>2. CASE countCache'[j] = fresh
      BY <1>2, <1>3, <1>5, <1>6, <2>2 DEF PlaceOK
    <2>. QED
      BY <1>7, <2>1, <2>2
  <1>. QED
    BY <1>9, <1>10, <1>11, <1>12 DEF LstInv, MapOK

\* Asking for a list shares a count or starts one.
LEMMA AskStep ==
  ASSUME LstInv, NEW l \in ListSlots, NEW t \in Tenants, Ask(l, t) \/ AskReturns(l, t)
  PROVE  LstInv'
  <1> DEFINE fresh == [key |-> CountKey(t), count |-> Len(counts) + 1, pending |-> TRUE,
                       expires |-> 0]
  <1>1. /\ countCache \in Seq(PlaceRecords) /\ KeysUnique(countCache)
        /\ Len(countCache) <= CacheLimit /\ fresh \in PlaceRecords
    BY DEF LstInv, LstTypeOK, MapOK, PlaceRecords, CountKey
  <1>2. CASE Ask(l, t)
    <2>1. CASE \E i \in Cached(CountKey(t)) :
                  /\ lists' = [lists EXCEPT ![l] = Listing(t, countCache[i].count)]
                  /\ UNCHANGED <<countCache, counts>>
      BY <1>2, <2>1, SharedStep DEF Ask
    <2>2. CASE /\ counts' = Append(counts, NewCount(t))
               /\ countCache' = Trimmed(Put(countCache, fresh))
               /\ lists' = [lists EXCEPT ![l] = Listing(t, Len(counts) + 1)]
      <3>1. /\ countCache' \in Seq(PlaceRecords) /\ KeysUnique(countCache')
            /\ Len(countCache') <= CacheLimit
            /\ \A j \in DOMAIN countCache' :
                  countCache'[j] = fresh \/ \E i \in DOMAIN countCache : countCache'[j] = countCache[i]
        BY <1>1, <2>2, PlacePut
      <3>2. KeysUnique(countCache)'
        BY <3>1 DEF KeysUnique
      <3>3. UNCHANGED <<lines, written, moment>>
        BY <1>2 DEF Ask
      <3>. QED
        BY <2>2, <3>1, <3>2, <3>3, StartedStep
    <2>. QED
      BY <1>2, <2>1, <2>2 DEF Ask
  <1>3. CASE AskReturns(l, t)
    <2>1. countCache' = countCache
      BY <1>3 DEF AskReturns
    <2>2. KeysUnique(countCache)'
      BY <1>1, <2>1 DEF KeysUnique
    <2>. QED
      BY <1>1, <1>3, <2>1, <2>2, StartedStep DEF AskReturns
  <1>. QED
    BY <1>2, <1>3

\* A list is answered when its total is there, and displayed.
LEMMA ListStep ==
  ASSUME LstInv, NEW l \in ListSlots, Answered(l) \/ Displayed(l)
  PROVE  LstInv'
  <1>1. lists[l] \in ListRecords /\ ListOK(lists[l])
    BY DEF LstInv, LstTypeOK
  <1>2. CASE Answered(l)
    <2> DEFINE x == [lists[l] EXCEPT !.step = "answered"]
    <2>1. lists[l].step = "reading" /\ counts[lists[l].count].step = "done"
      BY <1>2 DEF Answered
    <2>2. /\ x \in ListRecords /\ x.step = "answered" /\ x.count = lists[l].count
          /\ x.tenant = lists[l].tenant /\ x.asked = lists[l].asked /\ x.must = lists[l].must
      BY <1>1 DEF ListRecords
    <2>3. lists' = [lists EXCEPT ![l] = x] /\ UNCHANGED <<lines, written, countCache, counts, moment>>
      BY <1>2 DEF Answered
    <2> HIDE DEF x
    <2>4. ListOK(x)
      BY <1>1, <2>1, <2>2 DEF ListOK
    <2>. QED
      BY <2>2, <2>3, <2>4, ListReplaced
  <1>3. CASE Displayed(l)
    <2>1. Idle \in ListRecords /\ Idle.step = "idle"
      BY DEF Idle, ListRecords
    <2>2. ListOK(Idle)
      BY <2>1 DEF ListOK
    <2>. QED
      BY <1>3, <2>1, <2>2, ListReplaced DEF Displayed
  <1>. QED
    BY <1>2, <1>3

\* One promise goes on; the rows stay.
CountReplaced(c, new) ==
    /\ new \in CountRecords /\ counts' = [counts EXCEPT ![c] = new]
    /\ UNCHANGED <<lines, written, moment>>

\* What changes when one promise goes on.
LEMMA CountFacts ==
  ASSUME LstInv, NEW c \in DOMAIN counts, NEW new, CountReplaced(c, new)
  PROVE  /\ counts' \in Seq(CountRecords) /\ DOMAIN counts' = DOMAIN counts /\ counts'[c] = new
         /\ \A d \in DOMAIN counts : d # c => counts'[d] = counts[d]
         /\ UNCHANGED <<lines, written, moment>>
         /\ \A t : Matching(t)' = Matching(t) /\ AnsweredLines(t)' = AnsweredLines(t)
  BY DEF CountReplaced, LstInv, LstTypeOK, Matching, AnsweredLines

\* The count is evaluated over the rows there are.
LEMMA EvaluateStep ==
  ASSUME LstInv, NEW c \in DOMAIN counts, EvaluateCount(c)
  PROVE  LstInv'
  <1> DEFINE new == [counts[c] EXCEPT !.step = "evaluated", !.counted = Matching(counts[c].tenant)]
  <1>1. counts[c] \in CountRecords /\ counts[c].step = "running" /\ CountOK(c)
    <2>1. counts \in Seq(CountRecords)
      BY DEF LstInv, LstTypeOK
    <2>. QED
      BY <2>1 DEF EvaluateCount, LstInv
  <1>2. Matching(counts[c].tenant) \subseteq LineRecords
    BY DEF Matching, LstInv, LstTypeOK
  <1>3. /\ new \in CountRecords /\ new.step = "evaluated" /\ new.tenant = counts[c].tenant
        /\ new.counted = Matching(counts[c].tenant) /\ new.at = counts[c].at
    BY <1>1, <1>2 DEF CountRecords
  <1>4. counts' = [counts EXCEPT ![c] = new] /\ UNCHANGED <<lines, written, countCache, lists, moment>>
    BY DEF EvaluateCount
  <1> HIDE DEF new
  <1>5. CountReplaced(c, new)
    BY <1>3, <1>4 DEF CountReplaced
  <1>6. /\ counts' \in Seq(CountRecords) /\ DOMAIN counts' = DOMAIN counts /\ counts'[c] = new
        /\ \A d \in DOMAIN counts : d # c => counts'[d] = counts[d]
        /\ \A t : Matching(t)' = Matching(t) /\ AnsweredLines(t)' = AnsweredLines(t)
    BY <1>5, CountFacts
  <1>7. LstTypeOK'
    BY <1>4, <1>6 DEF LstInv, LstTypeOK
  <1>8. ASSUME NEW d \in DOMAIN counts' PROVE CountOK(d)'
    <2>1. CountOK(d)
      BY <1>6 DEF LstInv
    <2>2. \A r \in Matching(counts[c].tenant) : r.tenant = counts[c].tenant
      BY DEF Matching
    <2>3. CASE d # c
      BY <1>4, <1>6, <2>1, <2>3 DEF CountOK
    <2>4. CASE d = c
      BY <1>1, <1>3, <1>4, <1>6, <2>2, <2>4 DEF CountOK
    <2>. QED
      BY <2>3, <2>4
  <1>9. ASSUME NEW x, PlaceOK(x) PROVE PlaceOK(x)'
    <2>1. AnsweredLines(counts[c].tenant) \subseteq Matching(counts[c].tenant)
      BY DEF AnsweredLines
    <2>2. CASE x.count # c
      BY <1>6, <1>9, <2>2 DEF PlaceOK
    <2>3. CASE x.count = c
      BY <1>1, <1>3, <1>6, <1>9, <2>1, <2>3 DEF PlaceOK
    <2>. QED
      BY <2>2, <2>3
  <1>10. ASSUME NEW x, ListOK(x) PROVE ListOK(x)'
    <2>1. CASE x.count # c
      BY <1>4, <1>6, <1>10, <2>1 DEF ListOK
    <2>2. CASE x.count = c
      BY <1>1, <1>3, <1>4, <1>6, <1>10, <2>2 DEF ListOK
    <2>. QED
      BY <2>1, <2>2
  <1>11. \A i \in DOMAIN countCache' : PlaceOK(countCache[i])'
    <2>1. \A i \in DOMAIN countCache : PlaceOK(countCache[i])
      BY DEF LstInv, MapOK
    <2>. QED
      BY <1>4, <1>6, <2>1, <1>9 DEF PlaceOK
  <1>12. \A l \in ListSlots : ListOK(lists[l])'
    BY <1>4, <1>10 DEF LstInv, ListOK
  <1>13. MapOK'
    BY <1>4, <1>11 DEF LstInv, MapOK, KeysUnique
  <1>. QED
    BY <1>7, <1>8, <1>12, <1>13 DEF LstInv

\* A count that is done keeps its total in the map only where the map still holds
\* this very promise.
LEMMA ResolveStep ==
  ASSUME LstInv, NEW c \in DOMAIN counts, Resolve(c)
  PROVE  LstInv'
  <1> DEFINE new == [counts[c] EXCEPT !.step = "done", !.at = moment]
             kept(x) == [x EXCEPT !.pending = FALSE, !.expires = moment + CountTtl]
  <1>1. counts[c] \in CountRecords /\ counts[c].step = "evaluated" /\ CountOK(c)
    <2>1. counts \in Seq(CountRecords)
      BY DEF LstInv, LstTypeOK
    <2>2. counts[c].step = "evaluated"
      BY Zenon DEF Resolve
    <2>. QED
      BY <2>1, <2>2 DEF LstInv
  <1>2. moment \in Nat /\ moment + CountTtl \in Nat
    BY CacheAssumption DEF LstInv, LstTypeOK
  <1>3. /\ new \in CountRecords /\ new.step = "done" /\ new.tenant = counts[c].tenant
        /\ new.counted = counts[c].counted /\ new.at = moment
    BY <1>1, <1>2 DEF CountRecords
  <1>4. /\ counts' = [counts EXCEPT ![c] = new] /\ UNCHANGED <<lines, written, lists, moment>>
        /\ countCache' = [i \in DOMAIN countCache |->
                            IF Owns(countCache[i], c) THEN kept(countCache[i]) ELSE countCache[i]]
    BY DEF Resolve
  <1>5. \A x \in PlaceRecords : /\ kept(x) \in PlaceRecords /\ kept(x).key = x.key
                                /\ kept(x).count = x.count /\ kept(x).pending = FALSE
                                /\ kept(x).expires = moment + CountTtl
    BY <1>2 DEF PlaceRecords
  <1> HIDE DEF new, kept
  <1>6. CountReplaced(c, new)
    BY <1>3, <1>4 DEF CountReplaced
  <1>7. /\ counts' \in Seq(CountRecords) /\ DOMAIN counts' = DOMAIN counts /\ counts'[c] = new
        /\ \A d \in DOMAIN counts : d # c => counts'[d] = counts[d]
        /\ \A t : Matching(t)' = Matching(t) /\ AnsweredLines(t)' = AnsweredLines(t)
    BY <1>6, CountFacts
  <1>8. countCache \in Seq(PlaceRecords) /\ \A i \in DOMAIN countCache : countCache[i] \in PlaceRecords
    BY DEF LstInv, LstTypeOK
  <1>9. /\ DOMAIN countCache' = DOMAIN countCache
        /\ \A i \in DOMAIN countCache :
              countCache'[i] = IF Owns(countCache[i], c) THEN kept(countCache[i]) ELSE countCache[i]
    BY <1>4
  <1>10. countCache' \in Seq(PlaceRecords) /\ Len(countCache') = Len(countCache)
    <2>1. DOMAIN countCache = 1..Len(countCache) /\ Len(countCache) \in Nat
      BY <1>8
    <2>2. countCache' \in [1..Len(countCache) -> PlaceRecords]
      BY <1>4, <1>5, <1>8, <2>1
    <2>. QED
      BY <2>1, <2>2
  <1>11. LstTypeOK'
    BY <1>4, <1>7, <1>10 DEF LstInv, LstTypeOK
  <1>12. ASSUME NEW d \in DOMAIN counts' PROVE CountOK(d)'
    <2>1. CountOK(d)
      BY <1>7 DEF LstInv
    <2>2. CASE d # c
      BY <1>4, <1>7, <2>1, <2>2 DEF CountOK
    <2>3. CASE d = c
      BY <1>1, <1>2, <1>3, <1>4, <1>7, <2>3 DEF CountOK
    <2>. QED
      BY <2>2, <2>3
  <1>13. ASSUME NEW i \in DOMAIN countCache PROVE PlaceOK(countCache[i])'
    <2>1. PlaceOK(countCache[i]) /\ countCache[i] \in PlaceRecords
      BY <1>8 DEF LstInv, MapOK
    <2>2. CASE Owns(countCache[i], c)
      <3>1. /\ countCache'[i].key = countCache[i].key /\ countCache'[i].count = c
            /\ countCache'[i].pending = FALSE /\ countCache'[i].expires = moment + CountTtl
        BY <1>5, <1>9, <2>1, <2>2 DEF Owns
      <3>2. /\ counts[c].tenant = countCache[i].key
            /\ AnsweredLines(countCache[i].key) \subseteq counts[c].counted
        BY <1>1, <2>1, <2>2 DEF PlaceOK, Owns
      <3>. QED
        BY <1>3, <1>7, <3>1, <3>2 DEF PlaceOK
    <2>3. CASE ~Owns(countCache[i], c)
      <3>1. countCache'[i] = countCache[i]
        BY <1>9, <2>3
      <3>2. countCache[i].count # c
        BY <1>1, <2>1, <2>3 DEF PlaceOK, Owns, PlaceRecords
      <3>. QED
        BY <1>7, <2>1, <3>1, <3>2 DEF PlaceOK
    <2>. QED
      BY <2>2, <2>3
  <1>14. \A i \in DOMAIN countCache : countCache'[i].key = countCache[i].key
    BY <1>5, <1>8, <1>9
  <1>15. MapOK'
    BY <1>9, <1>10, <1>13, <1>14 DEF LstInv, MapOK, KeysUnique
  <1>16. ASSUME NEW l \in ListSlots PROVE ListOK(lists[l])'
    <2>1. ListOK(lists[l]) /\ lists'[l] = lists[l] /\ lists[l] \in ListRecords
      BY <1>4 DEF LstInv, LstTypeOK
    <2>2. CASE lists[l].count # c
      BY <1>4, <1>7, <2>1, <2>2 DEF ListOK
    <2>3. CASE lists[l].count = c
      BY <1>1, <1>3, <1>4, <1>7, <2>1, <2>3 DEF ListOK
    <2>. QED
      BY <2>2, <2>3
  <1>. QED
    BY <1>11, <1>12, <1>15, <1>16 DEF LstInv

\* A failed count leaves the map, and with it everyone who waits for it.
LEMMA RejectStep ==
  ASSUME LstInv, NEW c \in DOMAIN counts, Reject(c)
  PROVE  LstInv'
  <1> DEFINE new == [counts[c] EXCEPT !.step = "failed"]
             mine == \E i \in DOMAIN countCache : Owns(countCache[i], c)
             place == CHOOSE i \in DOMAIN countCache : Owns(countCache[i], c)
  <1>1. counts[c] \in CountRecords /\ counts[c].step \in {"running", "evaluated"} /\ CountOK(c)
    <2>1. counts \in Seq(CountRecords)
      BY DEF LstInv, LstTypeOK
    <2>. QED
      BY <2>1 DEF Reject, LstInv
  <1>2. /\ new \in CountRecords /\ new.step = "failed" /\ new.tenant = counts[c].tenant
        /\ new.counted = counts[c].counted /\ new.at = counts[c].at
    BY <1>1 DEF CountRecords
  <1>3. /\ counts' = [counts EXCEPT ![c] = new] /\ UNCHANGED <<lines, written, moment>>
        /\ countCache' = IF mine THEN RemoveAt(countCache, place) ELSE countCache
    BY DEF Reject
  <1>4. /\ lists' = [l \in ListSlots |-> IF lists[l].step # "idle" /\ lists[l].count = c
                                         THEN Idle ELSE lists[l]]
    BY DEF Reject
  <1>5. mine => place \in DOMAIN countCache /\ Owns(countCache[place], c)
    OBVIOUS
  <1> HIDE DEF new, place
  <1>6. CountReplaced(c, new)
    BY <1>2, <1>3 DEF CountReplaced
  <1>7. /\ counts' \in Seq(CountRecords) /\ DOMAIN counts' = DOMAIN counts /\ counts'[c] = new
        /\ \A d \in DOMAIN counts : d # c => counts'[d] = counts[d]
        /\ \A t : Matching(t)' = Matching(t) /\ AnsweredLines(t)' = AnsweredLines(t)
    BY <1>6, CountFacts
  <1>8. /\ countCache \in Seq(PlaceRecords) /\ KeysUnique(countCache)
        /\ Len(countCache) <= CacheLimit /\ Len(countCache) \in Nat
        /\ \A i \in DOMAIN countCache : PlaceOK(countCache[i]) /\ countCache[i] \in PlaceRecords
    BY DEF LstInv, LstTypeOK, MapOK
  <1>9. Thinned(countCache', countCache) /\ \A j \in DOMAIN countCache' : countCache'[j].count # c
    <2>1. CASE mine
      <3>1. place \in DOMAIN countCache /\ Owns(countCache[place], c)
        BY <1>5, <2>1
      <3>2. /\ Thinned(countCache', countCache)
            /\ \A j \in DOMAIN countCache' : countCache'[j].key # countCache[place].key
        BY <1>3, <1>8, <2>1, <3>1, PlaceRemoved
      <3>3. countCache[place].key = counts[c].tenant
        BY <1>8, <3>1 DEF PlaceOK, Owns
      <3>4. ASSUME NEW j \in DOMAIN countCache' PROVE countCache'[j].count # c
        <4>1. PICK i \in DOMAIN countCache : countCache'[j] = countCache[i]
          BY <3>2 DEF Thinned
        <4>. QED
          BY <1>8, <3>2, <3>3, <4>1 DEF PlaceOK
      <3>. QED
        BY <3>2, <3>4
    <2>2. CASE ~mine
      <3>1. countCache' = countCache
        BY <1>3, <2>2
      <3>2. \A i \in DOMAIN countCache : countCache[i].count # c
        BY <1>1, <1>8, <2>2 DEF Owns, PlaceOK, PlaceRecords
      <3>. QED
        BY <1>8, <3>1, <3>2 DEF Thinned
    <2>. QED
      BY <2>1, <2>2
  <1> HIDE DEF mine
  <1>10. ASSUME NEW j \in DOMAIN countCache' PROVE PlaceOK(countCache[j])'
    <2>1. PICK i \in DOMAIN countCache : countCache'[j] = countCache[i]
      BY <1>9 DEF Thinned
    <2>2. PlaceOK(countCache[i]) /\ countCache[i].count # c
      BY <1>8, <1>9, <2>1
    <2>. QED
      BY <1>7, <2>1, <2>2 DEF PlaceOK
  <1>11. MapOK'
    <2>1. Len(countCache') <= CacheLimit /\ KeysUnique(countCache')
      BY <1>8, <1>9, CacheAssumption DEF Thinned
    <2>. QED
      BY <1>10, <2>1 DEF MapOK, KeysUnique
  <1>12. Idle \in ListRecords /\ Idle.step = "idle"
    BY DEF Idle, ListRecords
  <1>13. lists' \in [ListSlots -> ListRecords]
    BY <1>4, <1>12 DEF LstInv, LstTypeOK
  <1>14. ASSUME NEW l \in ListSlots PROVE ListOK(lists[l])'
    <2>1. ListOK(lists[l]) /\ lists[l] \in ListRecords
      BY DEF LstInv, LstTypeOK
    <2>2. CASE lists[l].step # "idle" /\ lists[l].count = c
      <3>1. lists'[l] = Idle
        BY <1>4, <2>2
      <3>. QED
        BY <1>12, <3>1 DEF ListOK
    <2>3. CASE ~(lists[l].step # "idle" /\ lists[l].count = c)
      <3>1. lists'[l] = lists[l]
        BY <1>4, <2>3
      <3>. QED
        BY <1>3, <1>7, <2>1, <2>3, <3>1 DEF ListOK
    <2>. QED
      BY <2>2, <2>3
  <1>15. ASSUME NEW d \in DOMAIN counts' PROVE CountOK(d)'
    <2>1. CountOK(d)
      BY <1>7 DEF LstInv
    <2>2. CASE d # c
      BY <1>3, <1>7, <2>1, <2>2 DEF CountOK
    <2>3. CASE d = c
      BY <1>1, <1>2, <1>3, <1>7, <2>3 DEF CountOK
    <2>. QED
      BY <2>2, <2>3
  <1>16. LstTypeOK'
    BY <1>3, <1>7, <1>9, <1>13 DEF LstInv, LstTypeOK, Thinned
  <1>. QED
    BY <1>11, <1>14, <1>15, <1>16 DEF LstInv

\* A write that commits adds a row not answered yet; one that is answered has
\* emptied the map.
LEMMA WrittenStep ==
  ASSUME LstInv, NEW w \in Writes,
         InvalidateCounts(w) \/ \E t \in Tenants : Commit(w, t) \/ Amend(w, t)
  PROVE  LstInv'
  <1>1. CASE InvalidateCounts(w)
    <2>1. /\ written[w] = "committed" /\ written' = [written EXCEPT ![w] = "answered"]
          /\ countCache' = <<>> /\ UNCHANGED <<lines, counts, lists, moment>>
      BY <1>1 DEF InvalidateCounts
    <2>2. LstTypeOK'
      BY <2>1 DEF LstInv, LstTypeOK
    <2>3. DOMAIN countCache' = {} /\ Len(countCache') = 0
      BY <2>1
    <2>4. MapOK'
      BY <2>3, CacheAssumption DEF MapOK, KeysUnique
    <2>. QED
      BY <2>1, <2>2, <2>4 DEF LstInv, CountOK, ListOK, Matching
  <1>2. ASSUME NEW t \in Tenants, Commit(w, t) \/ Amend(w, t) PROVE LstInv'
    <2>1. PICK v \in {"committed", "amended"} :
             /\ written[w] = "not" /\ written' = [written EXCEPT ![w] = v]
             /\ lines' = lines \cup {[tenant |-> t, write |-> w]}
             /\ UNCHANGED <<countCache, counts, lists, moment>>
      BY <1>2 DEF Commit, Amend
    <2>2. [tenant |-> t, write |-> w] \in LineRecords
      BY DEF LineRecords
    <2>3. /\ written' \in [Writes -> {"not", "committed", "answered", "amended"}]
          /\ written'[w] # "answered" /\ written'[w] # "not"
          /\ \A y \in Writes : y # w => written'[y] = written[y]
      BY <2>1 DEF LstInv, LstTypeOK
    <2>4. /\ \A r \in lines : r.write \in Writes /\ r.write # w
          /\ lines \subseteq lines' /\ lines' \subseteq LineRecords
      BY <2>1, <2>2 DEF LstInv, LstTypeOK, LineRecords
    <2>5. \A r \in lines' : r \in lines \/ r.write = w
      BY <2>1
    <2>6. LstTypeOK'
      BY <2>1, <2>3, <2>4, <2>5 DEF LstInv, LstTypeOK
    <2>7. \A u : AnsweredLines(u)' = AnsweredLines(u) /\ Matching(u) \subseteq Matching(u)'
      BY <2>3, <2>4, <2>5 DEF AnsweredLines, Matching
    <2>8. MapOK'
      BY <2>1, <2>7 DEF LstInv, MapOK, KeysUnique, PlaceOK
    <2>9. \A l \in ListSlots : ListOK(lists[l])'
      BY <2>1, <2>7 DEF LstInv, ListOK
    <2>. QED
      BY <2>1, <2>6, <2>8, <2>9 DEF LstInv, CountOK
  <1>. QED
    BY <1>1, <1>2

\* Every step of the lists keeps the invariant.
LEMMA LstStep ==
  ASSUME LstInv, LstNext
  PROVE  LstInv'
  <1>1. CASE LaterOn
    <2>1. moment' = moment + 1 /\ UNCHANGED <<lines, written, countCache, counts, lists>>
      BY <1>1 DEF LaterOn
    <2>2. moment \in Nat /\ moment' \in Nat /\ moment <= moment'
      BY <2>1 DEF LstInv, LstTypeOK
    <2>3. LstTypeOK' /\ MapOK'
      BY <2>1, <2>2 DEF LstInv, LstTypeOK, MapOK, KeysUnique, PlaceOK, AnsweredLines, Matching
    <2>4. counts \in Seq(CountRecords) /\ \A c \in DOMAIN counts : counts[c] \in CountRecords
      BY DEF LstInv, LstTypeOK
    <2>5. ASSUME NEW c \in DOMAIN counts' PROVE CountOK(c)'
      <3>1. counts[c].at \in Nat /\ CountOK(c)
        BY <2>1, <2>4 DEF CountRecords, LstInv
      <3>. QED
        BY <2>1, <2>2, <3>1 DEF CountOK
    <2>6. ASSUME NEW l \in ListSlots PROVE ListOK(lists[l])'
      <3>1. lists[l].asked \in Nat /\ ListOK(lists[l])
        BY DEF LstInv, LstTypeOK, ListRecords
      <3>2. lists[l].asked <= moment => lists[l].asked <= moment'
        BY <2>2, <3>1
      <3>. QED
        BY <2>1, <3>1, <3>2 DEF ListOK, Matching
    <2>. QED
      BY <2>3, <2>5, <2>6 DEF LstInv
  <1>. QED
    BY <1>1, AskStep, ListStep, EvaluateStep, ResolveStep, RejectStep, WrittenStep DEF LstNext

\* The invariant gives TotalsFresh.
LEMMA LstFresh == LstInv => TotalsFresh
  <1> SUFFICES ASSUME LstInv, NEW l \in ListSlots, lists[l].step = "answered"
               PROVE  LET c == counts[lists[l].count]
                      IN  /\ lists[l].must \subseteq c.counted
                          /\ \A r \in c.counted : r.tenant = lists[l].tenant
                          /\ lists[l].asked <= c.at \/ lists[l].asked < c.at + CountTtl
                          /\ Len(countCache) <= CacheLimit
    BY DEF TotalsFresh
  <1>1. ListOK(lists[l]) /\ Len(countCache) <= CacheLimit
    BY DEF LstInv, MapOK
  <1>2. lists[l].count \in DOMAIN counts
    BY <1>1 DEF ListOK
  <1>3. CountOK(lists[l].count)
    BY <1>2 DEF LstInv
  <1>. QED
    BY <1>1, <1>3 DEF ListOK, CountOK

\* Along every behaviour of the lists the total of an answered list is its
\* tenant's own and fresh.
THEOREM LstSafe == LstSpec => []TotalsFresh
  <1>1. LstInv /\ UNCHANGED lstVars => LstInv'
    BY DEF lstVars, LstInv, LstTypeOK, MapOK, KeysUnique, PlaceOK, AnsweredLines, Matching, CountOK,
           ListOK
  <1>. QED
    BY <1>1, LstInitOK, LstStep, LstFresh, PTL DEF LstSpec

(***************************************************************************)
(* Purchasing and the cost of stock: Purchasing.                           *)
(***************************************************************************)

\* Purchasing on its own.
PurSpec == PurInit /\ [][PurNext]_purVars

\* RoundDiv is the nearest integer.
LEMMA RoundIs ==
  ASSUME NEW a \in Nat, NEW b \in Nat \ {0}
  PROVE  \E q \in Nat : /\ q = RoundDiv(a, b)
                        /\ 2 * (b * q - a) <= b
                        /\ -b <= 2 * (b * q - a)
  <1>1. PICK m, n : m = 2*a + b /\ n = 2*b
    OBVIOUS
  <1>2. m \in Nat /\ n \in Nat \ {0}
    BY <1>1
  <1>3. PICK q \in Nat, r \in Nat : q = m \div n /\ r < n /\ m = n * q + r
    BY <1>2, DivMod
  <1>4. q = RoundDiv(a, b)
    BY <1>1, <1>3 DEF RoundDiv
  <1>5. PICK x \in Nat : x = b * q
    OBVIOUS
  <1>6. n * q = 2 * x
    BY <1>1, <1>5
  <1>7. 2*a + b = 2*x + r /\ r < 2*b
    BY <1>1, <1>3, <1>6
  <1>8. 2*(x - a) <= b /\ -b <= 2*(x-a)
    BY <1>7
  <1>. QED
    BY <1>4, <1>5, <1>8

\* The sums of the model are the sums of Sums.
LEMMA SumOverIs ==
  ASSUME NEW S, NEW f, DOMAIN f = S
  PROVE  SumOver(f) = SumOf(f, S)
  BY DEF SumOver, SumOf

\* The largest-remainder allocation: shares and remainders as functions.
LEMMA AllocationIs ==
  ASSUME NEW D, IsFiniteSet(D), D \subseteq Nat, NEW gross \in [D -> Nat],
         NEW subtotal \in Nat \ {0}, NEW discount \in Nat
  PROVE  \E share, rest :
           /\ Apportioned(D, gross, subtotal, discount, share, rest)
           /\ Allocation(gross, subtotal, discount)
                = Served(D, share, rest, discount - SumOf(share, D))
  <1>1. PICK share, rest :
           /\ share = [v \in D |-> (discount * gross[v]) \div subtotal]
           /\ rest = [v \in D |-> (discount * gross[v]) % subtotal]
    OBVIOUS
  <1>2. ASSUME NEW v \in D
        PROVE  /\ share[v] \in Nat /\ rest[v] \in Nat /\ rest[v] < subtotal
               /\ discount * gross[v] = subtotal * share[v] + rest[v]
    <2>1. PICK x \in Nat : x = discount * gross[v]
      OBVIOUS
    <2>2. PICK q \in Nat, r \in Nat :
             q = x \div subtotal /\ r = x % subtotal /\ r < subtotal /\ x = subtotal * q + r
      BY <2>1, DivMod
    <2>3. share[v] = q /\ rest[v] = r
      BY <1>1, <2>1, <2>2
    <2>. QED
      BY <2>1, <2>2, <2>3
  <1>3. share \in [D -> Nat] /\ rest \in [D -> Nat]
    BY <1>1, <1>2
  <1>4. PICK left : left = discount - SumOf(share, D)
    OBVIOUS
  <1>5. left \in Int
    <2>1. SumOf(share, D) \in Nat
      BY <1>3, SumNonNegative
    <2>. QED
      BY <1>4, <2>1
  <1>6. PICK B : B = ServedBefore(D, rest)
    OBVIOUS
  <1>7. Allocation(gross, subtotal, discount)
           = [v \in D |-> share[v] + IF Cardinality(B[v]) < left THEN 1 ELSE 0]
    <2>1. DOMAIN gross = D /\ subtotal # 0
      OBVIOUS
    <2>2. SumOver(share) = SumOf(share, D)
      BY <1>3, SumOverIs
    <2>3. Allocation(gross, subtotal, discount) =
            [v \in D |->
               ((discount * gross[v]) \div subtotal)
               + IF Cardinality({w \in D :
                      \/ (discount * gross[w]) % subtotal > (discount * gross[v]) % subtotal
                      \/ /\ (discount * gross[w]) % subtotal = (discount * gross[v]) % subtotal
                         /\ w < v})
                    < discount - SumOver([w \in D |-> (discount * gross[w]) \div subtotal])
                 THEN 1 ELSE 0]
      BY <2>1 DEF Allocation
    <2>4. ASSUME NEW v \in D
          PROVE  {w \in D :
                      \/ (discount * gross[w]) % subtotal > (discount * gross[v]) % subtotal
                      \/ /\ (discount * gross[w]) % subtotal = (discount * gross[v]) % subtotal
                         /\ w < v} = B[v]
      <3>1. \A w \in D : rest[w] = (discount * gross[w]) % subtotal
        BY <1>1
      <3>2. B[v] = {w \in D : rest[w] > rest[v] \/ (rest[w] = rest[v] /\ w < v)}
        BY <1>6 DEF ServedBefore
      <3>. QED
        BY <3>1, <3>2
    <2>5. \A v \in D : share[v] = (discount * gross[v]) \div subtotal
      BY <1>1
    <2>. QED
      BY <1>1, <1>4, <2>2, <2>3, <2>4, <2>5
  <1>8. Allocation(gross, subtotal, discount) = Served(D, share, rest, left)
    BY <1>6, <1>7 DEF Served
  <1>9. Apportioned(D, gross, subtotal, discount, share, rest)
    BY <1>2, <1>3 DEF Apportioned
  <1>. QED
    BY <1>4, <1>8, <1>9

\* A discount that is no more than the subtotal is shared out to the cent, each line
\* its part to within a cent and no more than it costs.
LEMMA AllocationFair ==
  ASSUME NEW D, IsFiniteSet(D), D \subseteq Nat, NEW gross \in [D -> Nat],
         NEW subtotal \in Nat \ {0}, subtotal = SumOf(gross, D),
         NEW discount \in Nat, discount <= subtotal
  PROVE  Fair(D, gross, subtotal, discount, Allocation(gross, subtotal, discount))
  <1>1. PICK share, rest :
             /\ Apportioned(D, gross, subtotal, discount, share, rest)
             /\ Allocation(gross, subtotal, discount)
                  = Served(D, share, rest, discount - SumOf(share, D))
    BY AllocationIs
  <1>2. Fair(D, gross, subtotal, discount, Served(D, share, rest, discount - SumOf(share, D)))
    BY <1>1, LargestRemainders
  <1>. QED
    BY <1>1, <1>2

\* A line of a receipt, as it is booked.
LineOk(l) ==
    /\ l = [qty |-> l.qty, gross |-> l.gross, discount |-> l.discount, net |-> l.net,
            netUnit |-> l.netUnit]
    /\ l.qty \in Nat \ {0} /\ l.gross \in Nat /\ l.discount \in Nat /\ l.net \in Nat
    /\ l.net = l.gross - l.discount /\ l.netUnit \in Nat

\* Lines of one variant merge into a positive quantity and a cost.
LEMMA MergedLines ==
  ASSUME NEW p \in Papers \cup LegacyPapers
  PROVE  /\ LineVariants(p) \subseteq Variants /\ LineVariants(p) \subseteq Nat
         /\ IsFiniteSet(LineVariants(p))
         /\ Qty(p) \in [LineVariants(p) -> Nat \ {0}]
         /\ Gross(p) \in [LineVariants(p) -> Nat]
         /\ Subtotal(p) = SumOf(Gross(p), LineVariants(p)) /\ Subtotal(p) \in Nat
  <1>1. p.items \in Seq([variant : Variants, qty : Nat \ {0}, unit_cost : Nat])
    <2>1. IsReceivePurchaseDto(p)
      BY PurchasingAssumption
    <2>. QED
      BY <2>1 DEF IsReceivePurchaseDto
  <1>2. PICK I : I = DOMAIN p.items /\ I = 1 .. Len(p.items)
    BY <1>1
  <1>3. \A i \in I : /\ p.items[i].variant \in Variants /\ p.items[i].qty \in Nat \ {0}
                     /\ p.items[i].unit_cost \in Nat
    <2>1. ASSUME NEW i \in I
          PROVE  p.items[i] \in [variant : Variants, qty : Nat \ {0}, unit_cost : Nat]
      BY <1>1, <1>2, ElementOfSeq
    <2>. QED
      BY <2>1
  <1>4. IsFiniteSet(I)
    <2>1. Len(p.items) \in Int
      BY <1>1
    <2>. QED
      BY <1>2, <2>1, FS_Interval
  <1>5. LineVariants(p) \subseteq Variants /\ LineVariants(p) \subseteq Nat
    BY <1>2, <1>3, PurchasingAssumption DEF LineVariants
  <1>6. IsFiniteSet(LineVariants(p))
    BY <1>5, PurchasingAssumption, FS_Subset
  <1>7. ASSUME NEW v \in LineVariants(p)
        PROVE  Qty(p)[v] \in Nat \ {0} /\ Gross(p)[v] \in Nat
    <2>1. PICK S : S = ItemsOf(p, v)
      OBVIOUS
    <2>2. S \subseteq I /\ S # {} /\ IsFiniteSet(S)
      <3>1. S = {i \in I : p.items[i].variant = v}
        BY <1>2, <2>1 DEF ItemsOf
      <3>2. PICK i \in I : p.items[i].variant = v
        BY <1>2 DEF LineVariants
      <3>3. S \subseteq I /\ S # {}
        BY <3>1, <3>2
      <3>. QED
        BY <1>4, <3>3, FS_Subset
    <2>3. PICK f, g : /\ f = [i \in S |-> p.items[i].qty]
                      /\ g = [i \in S |-> p.items[i].qty * p.items[i].unit_cost]
      OBVIOUS
    <2>4. Qty(p)[v] = SumOf(f, S) /\ Gross(p)[v] = SumOf(g, S)
      <3>1. Qty(p)[v] = SumOver(f) /\ Gross(p)[v] = SumOver(g)
        BY <2>1, <2>3 DEF Qty, Gross
      <3>2. DOMAIN f = S /\ DOMAIN g = S
        BY <2>3
      <3>. QED
        BY <3>1, <3>2, SumOverIs
    <2>5. \A i \in S : f[i] \in Nat /\ f[i] > 0
      BY <1>3, <2>2, <2>3
    <2>6. \A i \in S : g[i] \in Nat
      <3> SUFFICES ASSUME NEW i \in S PROVE g[i] \in Nat
        OBVIOUS
      <3>1. p.items[i].qty \in Nat /\ p.items[i].unit_cost \in Nat
        BY <1>3, <2>2
      <3>2. p.items[i].qty * p.items[i].unit_cost \in Nat
        BY <3>1
      <3>. QED
        BY <2>3, <3>2
    <2>7. SumOf(g, S) \in Nat
      BY <2>2, <2>6, SumNonNegative
    <2>8. SumOf(f, S) \in Nat /\ \A i \in S : f[i] <= SumOf(f, S)
      BY <2>2, <2>5, SumNonNegative
    <2>9. SumOf(f, S) > 0
      BY <2>2, <2>5, <2>8
    <2>. QED
      BY <2>4, <2>7, <2>8, <2>9
  <1>8. Qty(p) \in [LineVariants(p) -> Nat \ {0}] /\ Gross(p) \in [LineVariants(p) -> Nat]
    <2>1. DOMAIN Qty(p) = LineVariants(p) /\ DOMAIN Gross(p) = LineVariants(p)
      BY DEF Qty, Gross
    <2>2. /\ Qty(p) = [v \in LineVariants(p) |-> Qty(p)[v]]
          /\ Gross(p) = [v \in LineVariants(p) |-> Gross(p)[v]]
      BY DEF Qty, Gross
    <2>. QED
      BY <1>7, <2>1, <2>2
  <1>9. Subtotal(p) = SumOf(Gross(p), LineVariants(p)) /\ Subtotal(p) \in Nat
    <2>1. Subtotal(p) = SumOf(Gross(p), LineVariants(p))
      BY <1>8, SumOverIs DEF Subtotal
    <2>2. \A v \in LineVariants(p) : Gross(p)[v] \in Nat
      BY <1>7
    <2>. QED
      BY <1>6, <2>1, <2>2, SumNonNegative
  <1>. QED
    BY <1>5, <1>6, <1>8, <1>9

\* The discount of a paper is an amount.
LEMMA DiscountType ==
  ASSUME NEW p \in Papers \cup LegacyPapers
  PROVE  Discount(p) \in Nat
  <1>1. PICK s \in Nat : s = Subtotal(p)
    BY MergedLines
  <1>11. Micro \in Nat \ {0}
    BY DEF Micro
  <1>2. PICK d : d = p.discount
    OBVIOUS
  <1>21. d \in [amount : Nat] \cup [percent : 0 .. Micro]
    <2>1. IsReceivePurchaseDto(p)
      BY PurchasingAssumption
    <2>. QED
      BY <1>2, <2>1 DEF IsReceivePurchaseDto
  <1>22. Discount(p) = IF "amount" \in DOMAIN d THEN d.amount ELSE RoundDiv(s * d.percent, Micro)
    BY <1>1, <1>2 DEF Discount
  <1>3. CASE d \in [amount : Nat]
    <2>1. "amount" \in DOMAIN d /\ d.amount \in Nat
      BY <1>3
    <2>. QED
      BY <1>22, <2>1
  <1>4. CASE d \in [percent : 0 .. Micro]
    <2>1. "amount" \notin DOMAIN d /\ d.percent \in 0 .. Micro
      BY <1>4
    <2>2. s * d.percent \in Nat
      <3>1. PICK n : n = d.percent
        OBVIOUS
      <3>2. n \in Nat
        BY <1>11, <2>1, <3>1
      <3>3. s * n \in Nat
        BY <3>2
      <3>. QED
        BY <3>1, <3>3
    <2>3. RoundDiv(s * d.percent, Micro) \in Nat
      BY <1>11, <2>2, RoundIs
    <2>. QED
      BY <1>22, <2>1, <2>3
  <1>. QED
    BY <1>21, <1>3, <1>4

\* Nothing to discount leaves no cent to allocate.
LEMMA AllocationOfNothing ==
  ASSUME NEW D, IsFiniteSet(D), NEW gross \in [D -> Nat]
  PROVE  Allocation(gross, 0, 0) = [v \in D |-> 0]
  <1>1. PICK z : z = [v \in D |-> 0]
    OBVIOUS
  <1>2. SumOver(z) = 0
    <2>1. DOMAIN z = D /\ \A v \in D : z[v] = 0
      BY <1>1
    <2>. QED
      BY <2>1, SumOverIs, SumZero
  <1>3. PICK B : B = [v \in D |-> {w \in D : 0 > 0 \/ (0 = 0 /\ w < v)}]
    OBVIOUS
  <1>4. Allocation(gross, 0, 0) = [v \in D |-> 0 + IF Cardinality(B[v]) < 0 - SumOver(z) THEN 1 ELSE 0]
    BY <1>1, <1>3 DEF Allocation
  <1>5. ASSUME NEW v \in D PROVE ~(Cardinality(B[v]) < 0)
    <2>1. B[v] \subseteq D
      BY <1>3
    <2>2. Cardinality(B[v]) \in Nat
      BY <2>1, FS_Subset, FS_CardinalityType
    <2>. QED
      BY <2>2
  <1>. QED
    BY <1>2, <1>4, <1>5

\* A line at its discount, rounded to a unit cost.
LEMMA ReceiptLineIs ==
  ASSUME NEW qty \in Nat \ {0}, NEW gross \in Nat, NEW discount \in Nat, discount <= gross
  PROVE  /\ LineOk(ReceiptLine(qty, gross, discount))
         /\ ReceiptLine(qty, gross, discount).gross = gross
         /\ ReceiptLine(qty, gross, discount).discount = discount
  <1>1. PICK n \in Nat : n = gross - discount
    OBVIOUS
  <1>2. n * Micro \in Nat
    BY DEF Micro
  <1>3. PICK u \in Nat : u = RoundDiv(n * Micro, qty)
    BY <1>2, RoundIs
  <1>4. ReceiptLine(qty, gross, discount)
          = [qty |-> qty, gross |-> gross, discount |-> discount, net |-> n, netUnit |-> u]
    BY <1>1, <1>3 DEF ReceiptLine
  <1>5. PICK l : l = ReceiptLine(qty, gross, discount)
    OBVIOUS
  <1>6. /\ l = [qty |-> qty, gross |-> gross, discount |-> discount, net |-> n, netUnit |-> u]
        /\ l.qty = qty /\ l.gross = gross /\ l.discount = discount /\ l.net = n /\ l.netUnit = u
    BY <1>4, <1>5
  <1>7. LineOk(l)
    BY <1>1, <1>6 DEF LineOk
  <1>. QED
    BY <1>5, <1>6, <1>7

\* The lines of a paper whose discount is no more than it costs: every one is
\* sound, they add up to the paper, and each has its part of the discount.
LEMMA PreparedLines ==
  ASSUME NEW p \in Papers, Discount(p) <= Subtotal(p), NEW ls, ls = Prepared[p].lines
  PROVE  /\ DOMAIN ls = LineVariants(p)
         /\ \A v \in DOMAIN ls : LineOk(ls[v])
         /\ SumOver([v \in DOMAIN ls |-> ls[v].gross]) = Subtotal(p)
         /\ SumOver([v \in DOMAIN ls |-> ls[v].discount]) = Discount(p)
         /\ Subtotal(p) > 0 => \A v \in DOMAIN ls :
              /\ ls[v].discount * Subtotal(p) - Discount(p) * ls[v].gross < Subtotal(p)
              /\ Discount(p) * ls[v].gross - ls[v].discount * Subtotal(p) < Subtotal(p)
  <1>1. PICK D, qty, gross, s, d : /\ D = LineVariants(p) /\ qty = Qty(p) /\ gross = Gross(p)
                                   /\ s = Subtotal(p) /\ d = Discount(p)
    OBVIOUS
  <1>2. /\ IsFiniteSet(D) /\ D \subseteq Nat /\ qty \in [D -> Nat \ {0}] /\ gross \in [D -> Nat]
        /\ s = SumOf(gross, D) /\ s \in Nat
    BY <1>1, MergedLines
  <1>3. d \in Nat /\ d <= s
    BY <1>1, DiscountType
  <1>4. PICK a : a = Allocation(gross, s, d)
    OBVIOUS
  <1>5. /\ a \in [D -> Nat] /\ (\A v \in D : a[v] <= gross[v]) /\ SumOf(a, D) = d
        /\ s > 0 => \A v \in D : a[v] * s - d * gross[v] < s /\ d * gross[v] - a[v] * s < s
    <2>1. CASE s = 0
      <3>1. d = 0
        BY <1>3, <2>1
      <3>2. a = [v \in D |-> 0]
        BY <1>2, <1>4, <2>1, <3>1, AllocationOfNothing
      <3>3. SumOf(a, D) = 0
        <4>1. \A v \in D : a[v] = 0
          BY <3>2
        <4>. QED
          BY <1>2, <4>1, SumZero
      <3>4. \A v \in D : gross[v] \in Nat
        BY <1>2
      <3>. QED
        BY <2>1, <3>1, <3>2, <3>3, <3>4
    <2>2. CASE s # 0
      <3>1. s \in Nat \ {0}
        BY <1>2, <2>2
      <3>2. Fair(D, gross, s, d, a)
        BY <1>2, <1>3, <1>4, <3>1, AllocationFair
      <3>. QED
        BY <3>2 DEF Fair
    <2>. QED
      BY <2>1, <2>2
  <1>6. ls = [v \in D |-> ReceiptLine(qty[v], gross[v], a[v])]
    <2>1. Prepared[p].lines = ReceiptLines(qty, gross, a)
      BY <1>1, <1>4 DEF Prepared, PreparePurchaseReceipt
    <2>2. DOMAIN gross = D
      BY <1>2
    <2>. QED
      BY <2>1, <2>2 DEF ReceiptLines
  <1>7. DOMAIN ls = D
    BY <1>6
  <1>8. ASSUME NEW v \in D
        PROVE  LineOk(ls[v]) /\ ls[v].gross = gross[v] /\ ls[v].discount = a[v]
    <2>1. qty[v] \in Nat \ {0} /\ gross[v] \in Nat /\ a[v] \in Nat /\ a[v] <= gross[v]
      BY <1>2, <1>5
    <2>2. ls[v] = ReceiptLine(qty[v], gross[v], a[v])
      BY <1>6
    <2>. QED
      BY <2>1, <2>2, ReceiptLineIs
  <1>9. SumOver([v \in D |-> ls[v].gross]) = s
    <2>1. [v \in D |-> ls[v].gross] = gross
      BY <1>2, <1>8
    <2>2. SumOver(gross) = s
      BY <1>1 DEF Subtotal
    <2>. QED
      BY <2>1, <2>2
  <1>10. SumOver([v \in D |-> ls[v].discount]) = d
    <2>1. [v \in D |-> ls[v].discount] = a
      BY <1>5, <1>8
    <2>2. SumOver(a) = SumOf(a, D)
      <3>1. DOMAIN a = D
        BY <1>5
      <3>. QED
        BY <3>1, SumOverIs
    <2>. QED
      BY <1>5, <2>1, <2>2
  <1>11. s > 0 => \A v \in D : /\ ls[v].discount * s - d * ls[v].gross < s
                               /\ d * ls[v].gross - ls[v].discount * s < s
    BY <1>5, <1>8
  <1>. QED
    BY <1>1, <1>7, <1>8, <1>9, <1>10, <1>11

\* The lines of a receipt booked before the cost ledger have no discount.
LEMMA LegacyLinesOk ==
  ASSUME NEW p \in LegacyPapers
  PROVE  /\ DOMAIN LegacyLines(p) = LineVariants(p)
         /\ \A v \in LineVariants(p) : LineOk(LegacyLines(p)[v])
  <1>1. PICK D, qty, gross : D = LineVariants(p) /\ qty = Qty(p) /\ gross = Gross(p)
    OBVIOUS
  <1>2. qty \in [D -> Nat \ {0}] /\ gross \in [D -> Nat]
    BY <1>1, MergedLines
  <1>3. LegacyLines(p) = [v \in D |-> ReceiptLine(qty[v], gross[v], 0)]
    <2>1. LegacyLines(p) = ReceiptLines(qty, gross, [v \in D |-> 0])
      BY <1>1 DEF LegacyLines
    <2>2. DOMAIN gross = D
      BY <1>2
    <2>. QED
      BY <2>1, <2>2 DEF ReceiptLines
  <1>4. ASSUME NEW v \in D PROVE LineOk(LegacyLines(p)[v])
    <2>1. qty[v] \in Nat \ {0} /\ gross[v] \in Nat /\ 0 \in Nat /\ 0 <= gross[v]
      BY <1>2
    <2>2. LegacyLines(p)[v] = ReceiptLine(qty[v], gross[v], 0)
      BY <1>3
    <2>. QED
      BY <2>1, <2>2, ReceiptLineIs
  <1>. QED
    BY <1>1, <1>3, <1>4

\* A table in the order of its rows.
IsLog(s) == \E S : s \in Seq(S)

\* What one more row leaves of a table.
LEMMA LogAppend ==
  ASSUME NEW s, IsLog(s), NEW e
  PROVE  /\ Len(s) \in Nat /\ DOMAIN s = 1 .. Len(s)
         /\ IsLog(Append(s, e)) /\ Len(Append(s, e)) = Len(s) + 1
         /\ DOMAIN Append(s, e) = 1 .. Len(s) + 1
         /\ \A i \in 1 .. Len(s) : Append(s, e)[i] = s[i]
         /\ Append(s, e)[Len(s) + 1] = e
         /\ Append(s, e) # <<>> /\ Last(Append(s, e)) = e
  <1>1. PICK S : s \in Seq(S)
    BY DEF IsLog
  <1>2. PICK T : T = S \cup {e}
    OBVIOUS
  <1>3. s \in Seq(T) /\ e \in T
    BY <1>1, <1>2, SeqMonotonic
  <1>4. Len(s) \in Nat /\ DOMAIN s = 1 .. Len(s)
    BY <1>1
  <1>5. PICK t : t = Append(s, e)
    OBVIOUS
  <1>6. /\ t \in Seq(T) /\ t # <<>> /\ Len(t) = Len(s) + 1
        /\ \A i \in 1 .. Len(s) : t[i] = s[i]
        /\ t[Len(s) + 1] = e
    BY <1>3, <1>5, AppendProperties
  <1>7. DOMAIN t = 1 .. Len(s) + 1
    BY <1>6
  <1>8. Last(t) = e
    BY <1>4, <1>6 DEF Last
  <1>9. IsLog(t)
    BY <1>6 DEF IsLog
  <1>. QED
    BY <1>4, <1>5, <1>6, <1>7, <1>8, <1>9

\* A row or nothing put after a log.
LEMMA LogConcat ==
  ASSUME NEW s, IsLog(s), NEW e, NEW d
  PROVE  /\ s \o <<>> \o <<e>> = Append(s, e)
         /\ s \o <<d>> \o <<e>> = Append(Append(s, d), e)
  <1>1. PICK S : s \in Seq(S)
    BY DEF IsLog
  <1>2. PICK T : T = S \cup {d, e}
    OBVIOUS
  <1>3. s \in Seq(T) /\ d \in T /\ e \in T
    BY <1>1, <1>2, SeqMonotonic
  <1>4. s \o <<>> = s /\ s \o <<d>> = Append(s, d) /\ s \o <<e>> = Append(s, e)
    BY <1>3, ConcatEmptySeq, AppendIsConcat
  <1>5. Append(s, d) \in Seq(T)
    BY <1>3, AppendProperties
  <1>6. Append(s, d) \o <<e>> = Append(Append(s, d), e)
    BY <1>3, <1>5, AppendIsConcat
  <1>. QED
    BY <1>4, <1>6

\* A log may be empty.
LEMMA EmptyLog == IsLog(<<>>) /\ Len(<<>>) = 0
  <1>1. <<>> \in Seq({})
    OBVIOUS
  <1>. QED
    BY <1>1 DEF IsLog

\* A log is numbered from 1.
LEMMA LogIs ==
  ASSUME NEW s, IsLog(s)
  PROVE  Len(s) \in Nat /\ DOMAIN s = 1 .. Len(s) /\ (s = <<>> <=> Len(s) = 0)
  BY DEF IsLog

\* A row of the cost ledger: what was there and what moved make what is there, and
\* the rounding is what the average gained or lost, at most half a cent a unit.
RowOk(row) ==
    /\ row.delta \in Int /\ row.before \in Int /\ row.after \in Int /\ row.value \in Int
    /\ row.rounding \in Int /\ row.costBefore \in Nat /\ row.costAfter \in Nat
    /\ row.after = row.before + row.delta
    /\ row.rounding = Positive(row.after) * row.costAfter
                        - (Positive(row.before) * row.costBefore + row.value)
    /\ row.before >= 0 /\ row.after >= 0 =>
         2 * row.rounding \in -Max({row.before, row.after}) .. Max({row.before, row.after})

\* The row that Movement writes, its variant's cost c given.
Row(type, key, before, delta, value, c, next) ==
    [type |-> type, key |-> key, delta |-> delta, before |-> before,
     after |-> before + delta, costBefore |-> c, costAfter |-> next,
     value |-> value,
     rounding |-> Positive(before + delta) * next - (Positive(before) * c + value)]

\* The larger of two numbers.
LEMMA MaxOfTwo ==
  ASSUME NEW a \in Int, NEW b \in Int
  PROVE  /\ a <= b => Max({a, b}) = b
         /\ b <= a => Max({a, b}) = a
  <1>1. Max({a, b}) \in {a, b} /\ \A y \in {a, b} : Max({a, b}) >= y
    <2>1. \E x \in {a, b} : \A y \in {a, b} : x >= y
      <3>1. CASE a <= b
        BY <3>1
      <3>2. CASE b <= a
        BY <3>2
      <3>. QED
        BY <3>1, <3>2
    <2>. QED
      BY <2>1 DEF Max
  <1>. QED
    BY <1>1

\* The smaller of two numbers.
LEMMA MinOfTwo ==
  ASSUME NEW a \in Int, NEW b \in Int
  PROVE  Min({a, b}) \in {a, b} /\ Min({a, b}) <= a /\ Min({a, b}) <= b
  <1>1. Min({a, b}) \in {a, b} /\ \A y \in {a, b} : Min({a, b}) <= y
    <2>1. \E x \in {a, b} : \A y \in {a, b} : x <= y
      <3>1. CASE a <= b
        BY <3>1
      <3>2. CASE b <= a
        BY <3>2
      <3>. QED
        BY <3>1, <3>2
    <2>. QED
      BY <2>1 DEF Min
  <1>. QED
    BY <1>1

\* The fields of a row.
LEMMA RowFields ==
  ASSUME NEW type, NEW key, NEW before \in Int, NEW delta \in Int, NEW value \in Int,
         NEW c \in Nat, NEW next \in Nat, NEW row,
         row = Row(type, key, before, delta, value, c, next)
  PROVE  /\ row.key = key /\ row.delta = delta /\ row.before = before
         /\ row.after = before + delta /\ row.costBefore = c /\ row.costAfter = next
         /\ row.value = value
         /\ row.rounding = Positive(before + delta) * next - (Positive(before) * c + value)
         /\ row.rounding \in Int
  <1>1. Positive(before + delta) \in Nat /\ Positive(before) \in Nat
    BY DEF Positive
  <1>2. PICK m, n : m = Positive(before + delta) * next /\ n = Positive(before) * c
    OBVIOUS
  <1>3. m \in Int /\ n \in Int
    BY <1>1, <1>2
  <1>4. PICK k : k = m - (n + value)
    OBVIOUS
  <1>5. k \in Int
    BY <1>3, <1>4
  <1>6. row = [type |-> type, key |-> key, delta |-> delta, before |-> before,
               after |-> before + delta, costBefore |-> c, costAfter |-> next,
               value |-> value, rounding |-> k]
    BY <1>2, <1>4 DEF Row
  <1>. QED
    BY <1>2, <1>4, <1>5, <1>6

\* A row is sound when its rounding is within bounds.
LEMMA RowOkIf ==
  ASSUME NEW type, NEW key, NEW before \in Int, NEW delta \in Int, NEW value \in Int,
         NEW c \in Nat, NEW next \in Nat, NEW row,
         row = Row(type, key, before, delta, value, c, next),
         before >= 0 /\ before + delta >= 0 =>
           2 * row.rounding \in -Max({before, before + delta}) .. Max({before, before + delta})
  PROVE  RowOk(row)
  <1>1. /\ row.key = key /\ row.delta = delta /\ row.before = before
        /\ row.after = before + delta /\ row.costBefore = c /\ row.costAfter = next
        /\ row.value = value
        /\ row.rounding = Positive(before + delta) * next - (Positive(before) * c + value)
        /\ row.rounding \in Int
    BY RowFields
  <1>. QED
    BY <1>1 DEF RowOk

\* The moving average of what was there and what came in.
Average(c, before, delta, value) ==
    LET after == before + delta IN
    IF after <= 0 THEN c
    ELSE IF before < 0 THEN RoundDiv(value, delta)
    ELSE RoundDiv(c * before + value, after)

\* What comes in at any value is averaged in: the row is sound, whether stock was
\* below zero or not.
LEMMA IncomingRow ==
  ASSUME NEW type, NEW key, NEW before \in Int, NEW delta \in Nat \ {0}, NEW value \in Nat,
         NEW c \in Nat, NEW next, next = Average(c, before, delta, value)
  PROVE  next \in Nat /\ RowOk(Row(type, key, before, delta, value, c, next))
  <1>1. CASE before < 0
    <2>1. next \in Nat
      <3>1. RoundDiv(value, delta) \in Nat
        BY RoundIs
      <3>. QED
        BY <1>1, <3>1 DEF Average
    <2>2. PICK row : row = Row(type, key, before, delta, value, c, next)
      OBVIOUS
    <2>3. RowOk(row)
      <3>1. ~(before >= 0 /\ before + delta >= 0) /\ delta \in Int /\ value \in Int
        BY <1>1
      <3>. QED
        BY <2>1, <2>2, <3>1, RowOkIf
    <2>. QED
      BY <2>1, <2>2, <2>3
  <1>2. CASE before >= 0
    <2>1. PICK a \in Nat \ {0} : a = before + delta
      BY <1>2
    <2>2. PICK x : x = c * before
      OBVIOUS
    <2>3. x \in Nat /\ before \in Nat
      BY <1>2, <2>2
    <2>4. next = RoundDiv(x + value, a)
      BY <1>2, <2>1, <2>2 DEF Average
    <2>5. PICK q \in Nat : /\ q = RoundDiv(x + value, a)
                           /\ 2 * (a * q - (x + value)) <= a
                           /\ -a <= 2 * (a * q - (x + value))
      <3>1. x + value \in Nat
        BY <2>3
      <3>. QED
        BY <3>1, RoundIs
    <2>6. next = q
      BY <2>4, <2>5
    <2>7. PICK row : row = Row(type, key, before, delta, value, c, next)
      OBVIOUS
    <2>8. row.rounding = a * q - (x + value) /\ row.rounding \in Int
      <3>1. row.rounding = Positive(before + delta) * next - (Positive(before) * c + value)
            /\ row.rounding \in Int
        BY <2>6, <2>7, RowFields
      <3>2. Positive(before + delta) = a /\ Positive(before) = before
        BY <1>2, <2>1 DEF Positive
      <3>3. before * c = x
        BY <2>2, <2>3
      <3>. QED
        BY <2>6, <3>1, <3>2, <3>3
    <2>9. Max({before, before + delta}) = a
      BY <2>1, MaxOfTwo
    <2>10. 2 * row.rounding \in -a .. a
      BY <2>5, <2>8
    <2>11. RowOk(row)
      BY <2>6, <2>7, <2>9, <2>10, RowOkIf
    <2>. QED
      BY <2>6, <2>7, <2>11
  <1>. QED
    BY <1>1, <1>2

\* Stock that leaves at its cost rounds nothing.
LEMMA OutgoingRow ==
  ASSUME NEW type, NEW key, NEW before \in Int, NEW q \in Nat \ {0}, NEW c \in Nat,
         before - q >= 0
  PROVE  RowOk(Row(type, key, before, -q, -q * c, c, c))
  <1>1. PICK x : x = q * c
    OBVIOUS
  <1>2. x \in Nat /\ -q * c = -x /\ -x \in Int
    BY <1>1
  <1>3. PICK row : row = Row(type, key, before, -q, -x, c, c)
    OBVIOUS
  <1>4. row.rounding = 0
    <2>1. row.rounding = Positive(before + (-q)) * c - (Positive(before) * c + (-x))
      BY <1>2, <1>3, RowFields
    <2>2. Positive(before + (-q)) = before - q /\ Positive(before) = before
      BY DEF Positive
    <2>3. PICK y : y = before * c
      OBVIOUS
    <2>4. y \in Int /\ (before - q) * c = y - x
      BY <1>1, <2>3
    <2>. QED
      BY <1>2, <2>1, <2>2, <2>3, <2>4
  <1>5. Max({before, before + (-q)}) = before
    BY MaxOfTwo
  <1>6. RowOk(row)
    BY <1>2, <1>3, <1>4, <1>5, RowOkIf
  <1>. QED
    BY <1>2, <1>3, <1>6

\* A reversal of the last receipt takes back its rounding too.
Reverses(row, receipt) ==
    /\ RowOk(row) /\ row.after = receipt.before /\ row.costAfter = receipt.costBefore
    /\ row.rounding = -receipt.rounding

\* The row that takes a sound receipt back reverses it.
LEMMA ReversalRow ==
  ASSUME NEW type, NEW key, NEW receipt, RowOk(receipt), receipt.delta \in Nat \ {0},
         receipt.after - receipt.delta >= 0
  PROVE  Reverses(Row(type, key, receipt.after, -receipt.delta, -receipt.value,
                      receipt.costAfter, receipt.costBefore), receipt)
  <1>0. PICK q, row : /\ q = receipt.delta
                      /\ row = Row(type, key, receipt.after, -q, -receipt.value,
                                   receipt.costAfter, receipt.costBefore)
    OBVIOUS
  <1>a. q \in Nat \ {0} /\ receipt.after - q >= 0
    BY <1>0
  <1>1. PICK b, a, x, r, cb, ca :
           /\ b = receipt.before /\ a = receipt.after /\ x = receipt.value
           /\ r = receipt.rounding /\ cb = receipt.costBefore /\ ca = receipt.costAfter
    OBVIOUS
  <1>2. /\ b \in Int /\ a \in Int /\ x \in Int /\ r \in Int /\ cb \in Nat /\ ca \in Nat
        /\ a = b + q /\ r = Positive(a) * ca - (Positive(b) * cb + x)
        /\ b >= 0 /\ a >= 0 => 2 * r \in -Max({b, a}) .. Max({b, a})
    BY <1>0, <1>1 DEF RowOk
  <1>3. b \in Nat /\ a \in Nat /\ Positive(a) = a /\ Positive(b) = b /\ a + (-q) = b
    BY <1>1, <1>2, <1>a DEF Positive
  <1>4. row = Row(type, key, a, -q, -x, ca, cb)
    BY <1>0, <1>1
  <1>5. /\ row.after = a + (-q) /\ row.costAfter = cb
        /\ row.rounding = Positive(a + (-q)) * cb - (Positive(a) * ca + (-x))
    BY <1>2, <1>4, <1>a, RowFields
  <1>6. PICK m, n : m = a * ca /\ n = b * cb
    OBVIOUS
  <1>7. m \in Int /\ n \in Int
    BY <1>2, <1>6
  <1>8. r = m - (n + x) /\ row.rounding = n - (m + (-x))
    BY <1>2, <1>3, <1>5, <1>6
  <1>9. row.rounding = -r
    <2>1. PICK rr : rr = row.rounding
      OBVIOUS
    <2>2. rr = n - (m + (-x)) /\ r = m - (n + x)
      BY <1>8, <2>1
    <2>3. m \in Int /\ n \in Int /\ x \in Int
      BY <1>2, <1>7
    <2>4. rr = -r
      BY <2>2, <2>3
    <2>. QED
      BY <2>1, <2>4
  <1>10. Max({b, a}) = a /\ Max({a, b}) = a
    BY <1>2, <1>3, <1>a, MaxOfTwo
  <1>11. 2 * row.rounding \in -a .. a
    BY <1>2, <1>3, <1>9, <1>10
  <1>12. RowOk(row)
    <2>1. a + (-q) = b /\ -q \in Int /\ -x \in Int
      BY <1>2, <1>3, <1>a
    <2>2. a >= 0 /\ a + (-q) >= 0 =>
             2 * row.rounding \in -Max({a, a + (-q)}) .. Max({a, a + (-q)})
      BY <1>10, <1>11, <2>1
    <2>. QED
      BY <1>2, <1>4, <2>1, <2>2, RowOkIf
  <1>. QED
    BY <1>0, <1>1, <1>3, <1>5, <1>9, <1>12 DEF Reverses

\* The returns of a line among the rows rs, and what they took and credited.
Of(rs, i, v) == {r \in DOMAIN rs : rs[r].invoice = i /\ v \in DOMAIN rs[r].qty}
\* Units and credit of a line in the returns rs.
Back(rs, i, v) == SumOver([r \in Of(rs, i, v) |-> rs[r].qty[v]])
Credited(rs, i, v) == SumOver([r \in Of(rs, i, v) |-> rs[r].credit[v]])

\* What a line may have back and credited.
CreditOk(l, back, credited) ==
    /\ back \in Nat /\ back <= l.qty
    /\ credited \in Nat /\ credited <= l.net
    /\ back = l.qty => credited = l.net

\* A row of the returns: positive quantities of some lines, each with a credit.
ReturnOk(x, invs) ==
    /\ x.invoice \in DOMAIN invs
    /\ DOMAIN x.qty \subseteq DOMAIN invs[x.invoice].lines /\ DOMAIN x.qty # {}
    /\ \A v \in DOMAIN x.qty : x.qty[v] \in Nat \ {0} /\ x.credit[v] \in Nat

\* A further return of q units keeps the credit within the line, and exact at its end.
LEMMA CreditStep ==
  ASSUME NEW l, LineOk(l), NEW back, NEW credited, CreditOk(l, back, credited),
         NEW q \in Nat \ {0}, q <= l.qty - back, NEW x, x = Credit(l, back, credited, q)
  PROVE  x \in Nat /\ CreditOk(l, back + q, credited + x)
  <1>1. PICK n, m, u : n = l.qty /\ m = l.net /\ u = l.netUnit
    OBVIOUS
  <1>2. n \in Nat \ {0} /\ m \in Nat /\ u \in Nat
    BY <1>1 DEF LineOk
  <1>3. back \in Nat /\ back <= n /\ credited \in Nat /\ credited <= m
    BY <1>1 DEF CreditOk
  <1>4. PICK left \in Nat : left = m - credited
    BY <1>2, <1>3
  <1>5. PICK r \in Nat : r = RoundDiv(u * q, Micro)
    <2>1. u * q \in Nat
      BY <1>2
    <2>2. Micro \in Nat \ {0}
      BY DEF Micro
    <2>. QED
      BY <2>1, <2>2, RoundIs
  <1>6. x = IF q = n - back THEN left ELSE Min({left, r})
    BY <1>1, <1>4, <1>5 DEF Credit
  <1>7. CASE q = n - back
    <2>1. x = left /\ back + q = n /\ credited + x = m
      BY <1>2, <1>3, <1>4, <1>6, <1>7
    <2>. QED
      BY <1>1, <1>2, <1>4, <2>1 DEF CreditOk
  <1>8. CASE q # n - back
    <2>1. x = Min({left, r})
      BY <1>6, <1>8
    <2>2. x \in Nat /\ x <= left
      BY <2>1, MinOfTwo
    <2>3. back + q # n /\ back + q <= n /\ back + q \in Nat
      BY <1>1, <1>2, <1>3, <1>8
    <2>4. credited + x \in Nat /\ credited + x <= m
      BY <1>2, <1>3, <1>4, <2>2
    <2>. QED
      BY <1>1, <2>2, <2>3, <2>4 DEF CreditOk
  <1>. QED
    BY <1>7, <1>8

\* The sums over the returns of a line are numbers.
LEMMA SumsOfReturns ==
  ASSUME NEW rs, IsLog(rs), NEW invs, \A r \in DOMAIN rs : ReturnOk(rs[r], invs),
         NEW i, NEW v
  PROVE  /\ IsFiniteSet(Of(rs, i, v)) /\ Of(rs, i, v) \subseteq DOMAIN rs
         /\ \A r \in Of(rs, i, v) : rs[r].qty[v] \in Nat /\ rs[r].credit[v] \in Nat
  <1>1. Len(rs) \in Nat /\ DOMAIN rs = 1 .. Len(rs)
    BY LogIs
  <1>2. Of(rs, i, v) \subseteq DOMAIN rs
    BY DEF Of
  <1>3. IsFiniteSet(Of(rs, i, v))
    <2>1. IsFiniteSet(DOMAIN rs)
      BY <1>1, FS_Interval
    <2>. QED
      BY <1>2, <2>1, FS_Subset
  <1>4. ASSUME NEW r \in Of(rs, i, v) PROVE rs[r].qty[v] \in Nat /\ rs[r].credit[v] \in Nat
    <2>1. r \in DOMAIN rs /\ v \in DOMAIN rs[r].qty
      BY DEF Of
    <2>2. ReturnOk(rs[r], invs)
      BY <2>1
    <2>. QED
      BY <2>1, <2>2 DEF ReturnOk
  <1>. QED
    BY <1>2, <1>3, <1>4

\* A sum grows by an amount.
GrowsBy(sum, next, n) == next = sum + n

\* One more return of the line adds to the sums.
LEMMA OneMoreReturn ==
  ASSUME NEW rs, IsLog(rs), NEW invs, \A r \in DOMAIN rs : ReturnOk(rs[r], invs),
         NEW x, ReturnOk(x, invs), NEW i, NEW v
  PROVE  /\ x.invoice = i /\ v \in DOMAIN x.qty =>
              /\ GrowsBy(Back(rs, i, v), Back(Append(rs, x), i, v), x.qty[v])
              /\ GrowsBy(Credited(rs, i, v), Credited(Append(rs, x), i, v), x.credit[v])
         /\ ~(x.invoice = i /\ v \in DOMAIN x.qty) =>
              /\ Back(Append(rs, x), i, v) = Back(rs, i, v)
              /\ Credited(Append(rs, x), i, v) = Credited(rs, i, v)
  <1>1. PICK n, t : n = Len(rs) + 1 /\ t = Append(rs, x)
    OBVIOUS
  <1>2. /\ n \in Nat /\ DOMAIN rs = 1 .. n - 1 /\ DOMAIN t = 1 .. n /\ t[n] = x /\ IsLog(t)
        /\ \A r \in DOMAIN rs : t[r] = rs[r]
    BY <1>1, LogAppend
  <1>3. \A r \in DOMAIN t : ReturnOk(t[r], invs)
    <2> SUFFICES ASSUME NEW r \in DOMAIN t PROVE ReturnOk(t[r], invs)
      OBVIOUS
    <2>1. CASE r = n
      BY <1>2, <2>1
    <2>2. CASE r # n
      <3>1. r \in DOMAIN rs
        BY <1>2, <2>2
      <3>. QED
        BY <1>2, <3>1
    <2>. QED
      BY <2>1, <2>2
  <1>4. PICK S, T : S = Of(rs, i, v) /\ T = Of(t, i, v)
    OBVIOUS
  <1>5. /\ IsFiniteSet(S) /\ IsFiniteSet(T) /\ S \subseteq DOMAIN rs /\ n \notin S
        /\ \A r \in S : rs[r].qty[v] \in Nat /\ rs[r].credit[v] \in Nat
        /\ \A r \in T : t[r].qty[v] \in Nat /\ t[r].credit[v] \in Nat
    <2>1. /\ IsFiniteSet(S) /\ S \subseteq DOMAIN rs
          /\ \A r \in S : rs[r].qty[v] \in Nat /\ rs[r].credit[v] \in Nat
      BY <1>4, SumsOfReturns
    <2>2. IsFiniteSet(T) /\ \A r \in T : t[r].qty[v] \in Nat /\ t[r].credit[v] \in Nat
      BY <1>2, <1>3, <1>4, SumsOfReturns
    <2>3. n \notin S
      BY <1>2, <2>1
    <2>. QED
      BY <2>1, <2>2, <2>3
  <1>6. PICK f, g, F, G :
           /\ f = [r \in S |-> rs[r].qty[v]] /\ g = [r \in S |-> rs[r].credit[v]]
           /\ F = [r \in T |-> t[r].qty[v]] /\ G = [r \in T |-> t[r].credit[v]]
    OBVIOUS
  <1>7. /\ Back(rs, i, v) = SumOf(f, S) /\ Credited(rs, i, v) = SumOf(g, S)
        /\ Back(t, i, v) = SumOf(F, T) /\ Credited(t, i, v) = SumOf(G, T)
    <2>1. /\ Back(rs, i, v) = SumOver(f) /\ Credited(rs, i, v) = SumOver(g)
          /\ Back(t, i, v) = SumOver(F) /\ Credited(t, i, v) = SumOver(G)
      BY <1>4, <1>6 DEF Back, Credited
    <2>2. DOMAIN f = S /\ DOMAIN g = S /\ DOMAIN F = T /\ DOMAIN G = T
      BY <1>6
    <2>. QED
      BY <2>1, <2>2, SumOverIs
  <1>8. \A r \in S : r \in T => f[r] \in Int /\ f[r] = F[r] /\ g[r] \in Int /\ g[r] = G[r]
    BY <1>2, <1>5, <1>6
  <1>9. CASE x.invoice = i /\ v \in DOMAIN x.qty
    <2>1. T = S \cup {n}
      <3>1. ASSUME NEW r \in T PROVE r \in S \cup {n}
        <4>1. r \in DOMAIN t /\ t[r].invoice = i /\ v \in DOMAIN t[r].qty
          BY <1>4 DEF Of
        <4>2. r # n => r \in DOMAIN rs
          BY <1>2, <4>1
        <4>. QED
          BY <1>2, <1>4, <4>1, <4>2 DEF Of
      <3>2. ASSUME NEW r \in S PROVE r \in T
        BY <1>2, <1>4 DEF Of
      <3>3. n \in T
        <4>1. n \in DOMAIN t /\ t[n].invoice = i /\ v \in DOMAIN t[n].qty
          BY <1>1, <1>2, <1>9, LogIs
        <4>. QED
          BY <1>4, <4>1 DEF Of
      <3>. QED
        BY <3>1, <3>2, <3>3
    <2>2. n \in T /\ T \ {n} = S
      BY <1>5, <2>1
    <2>3. \A r \in T : F[r] \in Int /\ G[r] \in Int
      BY <1>5, <1>6
    <2>4. SumOf(F, T) = F[n] + SumOf(F, S) /\ SumOf(G, T) = G[n] + SumOf(G, S)
      BY <1>5, <2>2, <2>3, SumSplit
    <2>5. SumOf(f, S) = SumOf(F, S) /\ SumOf(g, S) = SumOf(G, S)
      <3>1. \A r \in S : f[r] \in Int /\ f[r] = F[r]
        BY <1>8, <2>1
      <3>2. \A r \in S : g[r] \in Int /\ g[r] = G[r]
        BY <1>8, <2>1
      <3>. QED
        BY <1>5, <3>1, <3>2, SumSame
    <2>6. F[n] = x.qty[v] /\ G[n] = x.credit[v] /\ F[n] \in Int /\ G[n] \in Int
      BY <1>2, <1>6, <2>2, <2>3
    <2>7. SumOf(F, S) \in Int /\ SumOf(G, S) \in Int
      <3>1. \A r \in S : F[r] \in Int
        BY <2>1, <2>3
      <3>2. \A r \in S : G[r] \in Int
        BY <2>1, <2>3
      <3>. QED
        BY <1>5, <3>1, <3>2, SumType
    <2>. QED
      BY <1>1, <1>7, <1>9, <2>4, <2>5, <2>6, <2>7 DEF GrowsBy
  <1>10. CASE ~(x.invoice = i /\ v \in DOMAIN x.qty)
    <2>1. T = S
      <3>1. ASSUME NEW r \in T PROVE r \in S
        <4>1. r \in DOMAIN t /\ t[r].invoice = i /\ v \in DOMAIN t[r].qty
          BY <1>4 DEF Of
        <4>2. r # n
          BY <1>2, <1>10, <4>1
        <4>3. r \in DOMAIN rs
          BY <1>2, <4>1, <4>2
        <4>. QED
          BY <1>2, <1>4, <4>1, <4>3 DEF Of
      <3>2. ASSUME NEW r \in S PROVE r \in T
        BY <1>2, <1>4 DEF Of
      <3>. QED
        BY <3>1, <3>2
    <2>2. f = F /\ g = G
      BY <1>2, <1>5, <1>6, <2>1
    <2>. QED
      BY <1>1, <1>7, <1>10, <2>1, <2>2
  <1>. QED
    BY <1>9, <1>10

\* A line nothing was sent back of.
LEMMA NoReturnYet ==
  ASSUME NEW rs, NEW i, NEW v, Of(rs, i, v) = {}
  PROVE  Back(rs, i, v) = 0 /\ Credited(rs, i, v) = 0
  <1>1. PICK f, g : f = [r \in {} |-> rs[r].qty[v]] /\ g = [r \in {} |-> rs[r].credit[v]]
    OBVIOUS
  <1>2. Back(rs, i, v) = SumOver(f) /\ Credited(rs, i, v) = SumOver(g)
    BY <1>1 DEF Back, Credited
  <1>3. DOMAIN f = {} /\ DOMAIN g = {}
    BY <1>1
  <1>. QED
    BY <1>2, <1>3, SumOverIs, SumEmpty

\* An invoice with its lines; those of version 2 are prepared from its paper.
InvoiceOk(x) ==
    /\ x = [paper |-> x.paper, version |-> x.version, key |-> x.key, lines |-> x.lines,
            status |-> x.status, reversal |-> x.reversal]
    /\ DOMAIN x.lines \subseteq Variants /\ \A v \in DOMAIN x.lines : LineOk(x.lines[v])
    /\ x.version = 2 => /\ x.paper \in Papers /\ Discount(x.paper) <= Subtotal(x.paper)
                        /\ x.lines = Prepared[x.paper].lines

\* The papers: invoices, what was sent back of them, and each booked once.
InvoicesOk == IsLog(invoices) /\ \A i \in DOMAIN invoices : InvoiceOk(invoices[i])
ReturnsOk == IsLog(returns) /\ \A r \in DOMAIN returns : ReturnOk(returns[r], invoices)
CreditsOk ==
    \A i \in DOMAIN invoices : \A v \in DOMAIN invoices[i].lines :
        CreditOk(invoices[i].lines[v], Back(returns, i, v), Credited(returns, i, v))
BooksInv == InvoicesOk /\ ReturnsOk /\ CreditsOk /\ ReceiptBookedOnce

\* The steps of purchasing, the users and their choices taken apart.
LEMMA PurSteps ==
  ASSUME [PurNext]_purVars
  PROVE  \/ \E p \in Papers, c \in Commands \cup {NoCommand} : Receive(p, c)
         \/ \E i \in DOMAIN invoices : \E q \in Requests(i), c \in Commands :
              ReturnToSupplier(i, q, c)
         \/ \E i \in DOMAIN invoices, c \in Commands : ReverseReceipt(i, c)
         \/ \E v \in Variants : Sell(v) \/ CustomerReturn(v) \/ Ship(v)
         \/ UNCHANGED <<invoices, returns, stock, elsewhere, cost, costLog, stockLog, soldAt>>
  <1>1. CASE UNCHANGED purVars
    BY <1>1 DEF purVars
  <1>2. CASE PurNext
    <2>1. CASE \E p \in Papers : ClickReceive(p) \/ Receive(p, NoCommand)
      BY <2>1 DEF ClickReceive
    <2>2. CASE \E i \in DOMAIN invoices : ClickReturn(i) \/ \E c \in Commands : ReverseReceipt(i, c)
      BY <2>2 DEF ClickReturn
    <2>3. CASE \E v \in Variants : Sell(v) \/ CustomerReturn(v) \/ Ship(v)
      BY <2>3
    <2>4. CASE \E s \in Suppliers : SaveSupplier(s) \/ RemoveSupplier(s)
      BY <2>4 DEF SaveSupplier, RemoveSupplier
    <2>. QED
      BY <1>2, <2>1, <2>2, <2>3, <2>4 DEF PurNext
  <1>. QED
    BY <1>1, <1>2

\* A return names the same lines while the invoices keep theirs.
LEMMA ReturnKept ==
  ASSUME NEW x, NEW invs, ReturnOk(x, invs), NEW next,
         \A i \in DOMAIN invs : i \in DOMAIN next /\ next[i].lines = invs[i].lines
  PROVE  ReturnOk(x, next)
  BY DEF ReturnOk

\* The receipts booked before the cost ledger, in the order chosen for them.
LEMMA LegacyOrder ==
  /\ Cardinality(LegacyPapers) \in Nat
  /\ SetToSeq(LegacyPapers) \in [1 .. Cardinality(LegacyPapers) -> LegacyPapers]
  /\ \A i, j \in 1 .. Cardinality(LegacyPapers) :
        SetToSeq(LegacyPapers)[i] = SetToSeq(LegacyPapers)[j] => i = j
  <1>1. PICK n : n = Cardinality(LegacyPapers)
    OBVIOUS
  <1>2. n \in Nat /\ ExistsBijection(1 .. n, LegacyPapers)
    BY <1>1, PurchasingAssumption, FS_CardinalityType
  <1>3. PICK g \in [1 .. n -> LegacyPapers] : \A i, j \in 1 .. n : g[i] = g[j] => i = j
    BY <1>2 DEF ExistsBijection, Bijection, Injection, IsInjective
  <1>4. IsInjective(g)
    BY <1>3 DEF IsInjective
  <1>5. PICK f : f = SetToSeq(LegacyPapers)
    OBVIOUS
  <1>6. f \in [1 .. n -> LegacyPapers] /\ IsInjective(f)
    BY <1>1, <1>3, <1>4, <1>5 DEF SetToSeq
  <1>7. DOMAIN f = 1 .. n /\ \A i, j \in 1 .. n : f[i] = f[j] => i = j
    BY <1>6 DEF IsInjective
  <1>. QED
    BY <1>1, <1>2, <1>5, <1>6, <1>7

\* What was booked before the cost ledger is in order.
LEMMA BooksInit == PurInit => BooksInv
  <1> SUFFICES ASSUME PurInit PROVE BooksInv
    OBVIOUS
  <1>1. PICK n, f : n = Cardinality(LegacyPapers) /\ f = SetToSeq(LegacyPapers)
    OBVIOUS
  <1>2. /\ n \in Nat /\ f \in [1 .. n -> LegacyPapers]
        /\ \A i, j \in 1 .. n : f[i] = f[j] => i = j
    BY <1>1, LegacyOrder
  <1>3. invoices = [i \in 1 .. n |-> Invoice(f[i], 1, <<"legacy", i>>, LegacyLines(f[i]))]
    BY <1>1 DEF PurInit
  <1>4. returns = <<>>
    BY DEF PurInit
  <1>5. DOMAIN invoices = 1 .. n
    BY <1>3
  <1>6. ASSUME NEW i \in 1 .. n
        PROVE  /\ InvoiceOk(invoices[i]) /\ invoices[i].paper = f[i] /\ f[i] \in LegacyPapers
               /\ invoices[i].key = <<"legacy", i>>
               /\ \A v \in DOMAIN invoices[i].lines : LineOk(invoices[i].lines[v])
    <2>1. PICK p : p = f[i]
      OBVIOUS
    <2>2. p \in LegacyPapers
      BY <1>2, <2>1
    <2>3. PICK ls : ls = LegacyLines(p)
      OBVIOUS
    <2>4. DOMAIN ls \subseteq Variants /\ \A v \in DOMAIN ls : LineOk(ls[v])
      BY <2>2, <2>3, LegacyLinesOk, MergedLines
    <2>5. PICK x : x = invoices[i]
      OBVIOUS
    <2>6. x = [paper |-> p, version |-> 1, key |-> <<"legacy", i>>, lines |-> ls,
               status |-> "posted", reversal |-> NoCommand]
      BY <1>3, <2>1, <2>3, <2>5 DEF Invoice
    <2>7. /\ x.paper = p /\ x.version = 1 /\ x.key = <<"legacy", i>> /\ x.lines = ls
          /\ x.status = "posted" /\ x.reversal = NoCommand
      BY <2>6
    <2>8. InvoiceOk(x)
      BY <2>4, <2>6, <2>7 DEF InvoiceOk
    <2>. QED
      BY <2>1, <2>2, <2>4, <2>5, <2>7, <2>8
  <1>7. IsLog(invoices)
    <2>1. PICK S : S = {invoices[i] : i \in 1 .. n}
      OBVIOUS
    <2>2. invoices \in [1 .. n -> S]
      BY <1>3, <2>1
    <2>3. invoices \in Seq(S)
      BY <1>2, <2>2
    <2>. QED
      BY <2>3 DEF IsLog
  <1>8. InvoicesOk
    BY <1>5, <1>6, <1>7 DEF InvoicesOk
  <1>9. ReturnsOk
    BY <1>4, EmptyLog, LogIs DEF ReturnsOk
  <1>10. CreditsOk
    <2> SUFFICES ASSUME NEW i \in DOMAIN invoices, NEW v \in DOMAIN invoices[i].lines
                 PROVE  CreditOk(invoices[i].lines[v], Back(returns, i, v), Credited(returns, i, v))
      BY DEF CreditsOk
    <2>1. Of(returns, i, v) = {}
      BY <1>4 DEF Of
    <2>2. Back(returns, i, v) = 0 /\ Credited(returns, i, v) = 0
      BY <2>1, NoReturnYet
    <2>3. LineOk(invoices[i].lines[v])
      BY <1>5, <1>6
    <2>. QED
      BY <2>2, <2>3 DEF LineOk, CreditOk
  <1>11. ReceiptBookedOnce
    <2> SUFFICES ASSUME NEW i \in DOMAIN invoices, NEW j \in DOMAIN invoices, i # j
                 PROVE  /\ invoices[i].key # invoices[j].key
                        /\ invoices[i].paper.number # NoNumber
                             => <<invoices[i].paper.supplier, invoices[i].paper.number>>
                                  # <<invoices[j].paper.supplier, invoices[j].paper.number>>
      BY DEF ReceiptBookedOnce
    <2>1. invoices[i].key = <<"legacy", i>> /\ invoices[j].key = <<"legacy", j>>
      BY <1>5, <1>6
    <2>2. PICK p, q : p = invoices[i].paper /\ q = invoices[j].paper
      OBVIOUS
    <2>3. p \in LegacyPapers /\ q \in LegacyPapers /\ p # q
      BY <1>2, <1>5, <1>6, <2>2
    <2>4. p.number # NoNumber => <<p.supplier, p.number>> # <<q.supplier, q.number>>
      BY <2>3, LegacyAssumption
    <2>. QED
      BY <2>1, <2>2, <2>4
  <1>. QED
    BY <1>8, <1>9, <1>10, <1>11 DEF BooksInv

\* What a new receipt is: one more invoice, prepared from a paper of its own.
LEMMA ReceiveAppends ==
  ASSUME NEW p \in Papers, NEW c, Receive(p, c), InvoicesOk
  PROVE  \E x, n :
           /\ n = Len(invoices) + 1 /\ n \in Nat /\ n \notin DOMAIN invoices
           /\ DOMAIN invoices' = DOMAIN invoices \cup {n} /\ IsLog(invoices')
           /\ invoices'[n] = x /\ \A i \in DOMAIN invoices : invoices'[i] = invoices[i]
           /\ InvoiceOk(x) /\ x.paper = p /\ x.lines = Prepared[p].lines
           /\ x.status = "posted"
           /\ \A i \in DOMAIN invoices :
                /\ invoices[i].key # x.key
                /\ p.number # NoNumber => ~(/\ invoices[i].paper.supplier = p.supplier
                                            /\ invoices[i].paper.number = p.number)
  <1>1. PICK x, n, ls : /\ x = Invoice(p, 2, ReceiptKey(p, c), Prepared[p].lines)
                        /\ n = Len(invoices) + 1 /\ ls = Prepared[p].lines
    OBVIOUS
  <1>2. x = [paper |-> p, version |-> 2, key |-> ReceiptKey(p, c), lines |-> ls,
             status |-> "posted", reversal |-> NoCommand]
    BY <1>1 DEF Invoice
  <1>3. /\ x.paper = p /\ x.version = 2 /\ x.key = ReceiptKey(p, c) /\ x.lines = ls
        /\ x.status = "posted" /\ x.reversal = NoCommand
    BY <1>2
  <1>4. Discount(p) <= Subtotal(p)
    <2>1. ReceiptIsValid(p, c)
      BY DEF Receive
    <2>2. Prepared[p].discount <= Prepared[p].subtotal
      BY <2>1 DEF ReceiptIsValid
    <2>. QED
      BY <2>2 DEF Prepared, PreparePurchaseReceipt
  <1>5. DOMAIN ls \subseteq Variants /\ \A v \in DOMAIN ls : LineOk(ls[v])
    <2>1. DOMAIN ls = LineVariants(p) /\ \A v \in DOMAIN ls : LineOk(ls[v])
      BY <1>1, <1>4, PreparedLines
    <2>. QED
      BY <2>1, MergedLines
  <1>6. InvoiceOk(x)
    BY <1>1, <1>2, <1>3, <1>4, <1>5 DEF InvoiceOk
  <1>7. invoices' = Append(invoices, x) /\ IsLog(invoices)
    BY <1>1 DEF Receive, InvoicesOk
  <1>8. /\ n \in Nat /\ DOMAIN invoices = 1 .. n - 1 /\ DOMAIN invoices' = 1 .. n
        /\ IsLog(invoices') /\ invoices'[n] = x
        /\ \A i \in DOMAIN invoices : invoices'[i] = invoices[i]
    BY <1>1, <1>7, LogAppend
  <1>9. \A i \in DOMAIN invoices :
           /\ invoices[i].key # x.key
           /\ p.number # NoNumber => ~(/\ invoices[i].paper.supplier = p.supplier
                                       /\ invoices[i].paper.number = p.number)
    <2>1. Replays(p, c) = {}
      BY DEF Receive
    <2>. QED
      BY <1>3, <2>1 DEF Replays
  <1>10. n \notin DOMAIN invoices /\ DOMAIN invoices' = DOMAIN invoices \cup {n}
    <2>1. n >= 1
      BY <1>1, <1>7, LogIs
    <2>. QED
      BY <1>8, <2>1
  <1>. QED
    BY <1>1, <1>3, <1>6, <1>8, <1>9, <1>10

\* A receipt keeps the papers in order: it is a new one.
LEMMA BooksReceive ==
  ASSUME BooksInv, NEW p \in Papers, NEW c, Receive(p, c)
  PROVE  BooksInv'
  <1>1. InvoicesOk /\ ReturnsOk /\ CreditsOk /\ ReceiptBookedOnce
    BY DEF BooksInv
  <1>2. PICK x, n :
             /\ n = Len(invoices) + 1 /\ n \in Nat /\ n \notin DOMAIN invoices
             /\ DOMAIN invoices' = DOMAIN invoices \cup {n} /\ IsLog(invoices')
             /\ invoices'[n] = x /\ \A i \in DOMAIN invoices : invoices'[i] = invoices[i]
             /\ InvoiceOk(x) /\ x.paper = p /\ x.lines = Prepared[p].lines
             /\ x.status = "posted"
             /\ \A i \in DOMAIN invoices :
                  /\ invoices[i].key # x.key
                  /\ p.number # NoNumber => ~(/\ invoices[i].paper.supplier = p.supplier
                                              /\ invoices[i].paper.number = p.number)
    BY <1>1, ReceiveAppends
  <1>3. returns' = returns
    BY DEF Receive
  <1>4. InvoicesOk'
    BY <1>1, <1>2 DEF InvoicesOk
  <1>5. ReturnsOk'
    <2>1. \A i \in DOMAIN invoices : i \in DOMAIN invoices' /\ invoices'[i].lines = invoices[i].lines
      BY <1>2
    <2>2. ASSUME NEW r \in DOMAIN returns PROVE ReturnOk(returns[r], invoices')
      <3>1. ReturnOk(returns[r], invoices)
        BY <1>1 DEF ReturnsOk
      <3>. QED
        BY <2>1, <3>1, ReturnKept
    <2>. QED
      BY <1>1, <1>3, <2>2 DEF ReturnsOk
  <1>6. CreditsOk'
    <2> SUFFICES ASSUME NEW i \in DOMAIN invoices', NEW v \in DOMAIN invoices'[i].lines
                 PROVE  CreditOk(invoices'[i].lines[v], Back(returns', i, v), Credited(returns', i, v))
      BY DEF CreditsOk
    <2>1. CASE i = n
      <3>1. Of(returns, n, v) = {}
        BY <1>1, <1>2 DEF ReturnsOk, ReturnOk, Of
      <3>2. Back(returns, n, v) = 0 /\ Credited(returns, n, v) = 0
        BY <3>1, NoReturnYet
      <3>3. LineOk(invoices'[i].lines[v])
        BY <1>2, <2>1 DEF InvoiceOk
      <3>. QED
        BY <1>3, <2>1, <3>2, <3>3 DEF LineOk, CreditOk
    <2>2. CASE i # n
      <3>1. i \in DOMAIN invoices /\ invoices'[i] = invoices[i]
        BY <1>2, <2>2
      <3>. QED
        BY <1>1, <1>3, <3>1 DEF CreditsOk
    <2>. QED
      BY <2>1, <2>2
  <1>7. ReceiptBookedOnce'
    <2> SUFFICES ASSUME NEW i \in DOMAIN invoices', NEW j \in DOMAIN invoices', i # j
                 PROVE  /\ invoices'[i].key # invoices'[j].key
                        /\ invoices'[i].paper.number # NoNumber
                             => <<invoices'[i].paper.supplier, invoices'[i].paper.number>>
                                  # <<invoices'[j].paper.supplier, invoices'[j].paper.number>>
      BY DEF ReceiptBookedOnce
    <2>1. CASE i = n
      <3>1. j \in DOMAIN invoices /\ invoices'[j] = invoices[j]
        BY <1>2, <2>1
      <3>. QED
        BY <1>2, <2>1, <3>1
    <2>2. CASE j = n
      <3>1. i \in DOMAIN invoices /\ invoices'[i] = invoices[i]
        BY <1>2, <2>2
      <3>. QED
        BY <1>2, <2>2, <3>1
    <2>3. CASE i # n /\ j # n
      <3>1. /\ i \in DOMAIN invoices /\ invoices'[i] = invoices[i]
            /\ j \in DOMAIN invoices /\ invoices'[j] = invoices[j]
        BY <1>2, <2>3
      <3>. QED
        BY <1>1, <3>1 DEF ReceiptBookedOnce
    <2>. QED
      BY <2>1, <2>2, <2>3
  <1>. QED
    BY <1>4, <1>5, <1>6, <1>7 DEF BooksInv

\* A request names some lines and takes units of each.
LEMMA RequestIs ==
  ASSUME NEW i, NEW q \in Requests(i)
  PROVE  /\ DOMAIN q \subseteq DOMAIN invoices[i].lines /\ DOMAIN q # {}
         /\ \A v \in DOMAIN q : q[v] \in Nat \ {0}
  <1>1. PICK S \in (SUBSET DOMAIN invoices[i].lines) \ {{}} : q \in [S -> 1 .. 2]
    BY DEF Requests
  <1>. QED
    BY <1>1

\* The row a return to the supplier adds.
LEMMA ReturnAppends ==
  ASSUME BooksInv, NEW i \in DOMAIN invoices, NEW q \in Requests(i), NEW c,
         ReturnToSupplier(i, q, c)
  PROVE  \E x : /\ returns' = Append(returns, x) /\ x.invoice = i /\ x.qty = q
                /\ ReturnOk(x, invoices)
                /\ \A v \in DOMAIN q :
                     CreditOk(invoices[i].lines[v], Back(returns, i, v) + q[v],
                              Credited(returns, i, v) + x.credit[v])
  <1>1. InvoicesOk /\ ReturnsOk /\ CreditsOk
    BY DEF BooksInv
  <1>2. /\ DOMAIN q \subseteq DOMAIN invoices[i].lines /\ DOMAIN q # {}
        /\ \A v \in DOMAIN q : q[v] \in Nat \ {0}
    BY RequestIs
  <1>3. PICK k : k = SupplierReturnLines(i, q)
    OBVIOUS
  <1>4. PICK x : x = [invoice |-> i, key |-> c, qty |-> q, credit |-> k]
    OBVIOUS
  <1>5. x.invoice = i /\ x.qty = q /\ x.credit = k /\ returns' = Append(returns, x)
    BY <1>3, <1>4 DEF ReturnToSupplier
  <1>6. ASSUME NEW v \in DOMAIN q
        PROVE  /\ k[v] \in Nat
               /\ CreditOk(invoices[i].lines[v], Back(returns, i, v) + q[v],
                           Credited(returns, i, v) + k[v])
    <2>1. PICK l, b, d : l = invoices[i].lines[v] /\ b = Back(returns, i, v)
                         /\ d = Credited(returns, i, v)
      OBVIOUS
    <2>2. LineOk(l) /\ CreditOk(l, b, d)
      BY <1>1, <1>2, <2>1 DEF InvoicesOk, InvoiceOk, CreditsOk
    <2>3. ReturnedQty(i, v) = b /\ ReturnedCredit(i, v) = d
      BY <2>1 DEF ReturnedQty, ReturnedCredit, Back, Credited, ReturnsOf, Of
    <2>4. k[v] = Credit(l, b, d, q[v])
      BY <1>3, <2>1, <2>3 DEF SupplierReturnLines
    <2>5. q[v] <= l.qty - b
      <3>1. Returnable(i, v, q[v])
        BY DEF ReturnToSupplier
      <3>. QED
        BY <2>1, <2>3, <3>1 DEF Returnable
    <2>6. q[v] \in Nat \ {0}
      BY <1>2
    <2>7. k[v] \in Nat /\ CreditOk(l, b + q[v], d + k[v])
      BY <2>2, <2>4, <2>5, <2>6, CreditStep
    <2>. QED
      BY <2>1, <2>7
  <1>7. ReturnOk(x, invoices)
    BY <1>2, <1>5, <1>6 DEF ReturnOk
  <1>. QED
    BY <1>5, <1>6, <1>7

\* A return to the supplier keeps the papers in order: only its own lines change.
LEMMA BooksReturn ==
  ASSUME BooksInv, NEW i \in DOMAIN invoices, NEW q \in Requests(i), NEW c,
         ReturnToSupplier(i, q, c)
  PROVE  BooksInv'
  <1>1. InvoicesOk /\ ReturnsOk /\ CreditsOk /\ ReceiptBookedOnce
    BY DEF BooksInv
  <1>2. PICK x : /\ returns' = Append(returns, x) /\ x.invoice = i /\ x.qty = q
                 /\ ReturnOk(x, invoices)
                 /\ \A v \in DOMAIN q :
                      CreditOk(invoices[i].lines[v], Back(returns, i, v) + q[v],
                               Credited(returns, i, v) + x.credit[v])
    BY ReturnAppends
  <1>3. invoices' = invoices
    BY DEF ReturnToSupplier
  <1>4. InvoicesOk' /\ ReceiptBookedOnce'
    BY <1>1, <1>3 DEF InvoicesOk, ReceiptBookedOnce
  <1>5. IsLog(returns) /\ \A r \in DOMAIN returns : ReturnOk(returns[r], invoices)
    BY <1>1 DEF ReturnsOk
  <1>6. ReturnsOk'
    <2>1. PICK n : n = Len(returns) + 1
      OBVIOUS
    <2>2. /\ n \in Nat /\ DOMAIN returns = 1 .. n - 1 /\ DOMAIN returns' = 1 .. n
          /\ IsLog(returns') /\ returns'[n] = x
          /\ \A r \in DOMAIN returns : returns'[r] = returns[r]
      BY <1>2, <1>5, <2>1, LogAppend
    <2>3. ASSUME NEW r \in DOMAIN returns' PROVE ReturnOk(returns'[r], invoices)
      <3>1. CASE r = n
        BY <1>2, <2>2, <3>1
      <3>2. CASE r # n
        <4>1. r \in DOMAIN returns
          BY <2>2, <3>2
        <4>. QED
          BY <1>5, <2>2, <4>1
      <3>. QED
        BY <3>1, <3>2
    <2>. QED
      BY <1>3, <2>2, <2>3 DEF ReturnsOk
  <1>7. CreditsOk'
    <2> SUFFICES ASSUME NEW j \in DOMAIN invoices, NEW v \in DOMAIN invoices[j].lines
                 PROVE  CreditOk(invoices[j].lines[v], Back(returns', j, v), Credited(returns', j, v))
      BY <1>3 DEF CreditsOk
    <2>1. CASE x.invoice = j /\ v \in DOMAIN x.qty
      <3>1. /\ Back(returns', j, v) = Back(returns, j, v) + x.qty[v]
            /\ Credited(returns', j, v) = Credited(returns, j, v) + x.credit[v]
        <4>1. ReturnOk(x, invoices) /\ returns' = Append(returns, x)
          BY <1>2
        <4>2. /\ GrowsBy(Back(returns, j, v), Back(Append(returns, x), j, v), x.qty[v])
              /\ GrowsBy(Credited(returns, j, v), Credited(Append(returns, x), j, v), x.credit[v])
          BY <1>5, <2>1, <4>1, OneMoreReturn
        <4>. QED
          BY <4>1, <4>2 DEF GrowsBy
      <3>. QED
        BY <1>2, <2>1, <3>1
    <2>2. CASE ~(x.invoice = j /\ v \in DOMAIN x.qty)
      <3>1. /\ Back(returns', j, v) = Back(returns, j, v)
            /\ Credited(returns', j, v) = Credited(returns, j, v)
        BY <1>2, <1>5, <2>2, OneMoreReturn
      <3>. QED
        BY <1>1, <3>1 DEF CreditsOk
    <2>. QED
      BY <2>1, <2>2
  <1>. QED
    BY <1>4, <1>6, <1>7 DEF BooksInv

\* What a reversal writes of the invoices.
LEMMA ReverseWrites ==
  ASSUME InvoicesOk, NEW i \in DOMAIN invoices, NEW c, ReverseReceipt(i, c)
  PROVE  /\ DOMAIN invoices' = DOMAIN invoices /\ IsLog(invoices') /\ Len(invoices') = Len(invoices)
         /\ \A j \in DOMAIN invoices :
              /\ invoices'[j].paper = invoices[j].paper /\ invoices'[j].key = invoices[j].key
              /\ invoices'[j].lines = invoices[j].lines /\ InvoiceOk(invoices'[j])
              /\ j # i => invoices'[j] = invoices[j]
         /\ invoices'[i].status = "reversed"
  <1>1. PICK x, y : x = invoices[i] /\ y = [x EXCEPT !.status = "reversed", !.reversal = c]
    OBVIOUS
  <1>2. InvoiceOk(x) /\ IsLog(invoices)
    BY <1>1 DEF InvoicesOk
  <1>3. y = [paper |-> x.paper, version |-> x.version, key |-> x.key, lines |-> x.lines,
             status |-> "reversed", reversal |-> c]
    <2>1. x = [paper |-> x.paper, version |-> x.version, key |-> x.key, lines |-> x.lines,
               status |-> x.status, reversal |-> x.reversal]
      BY <1>2 DEF InvoiceOk
    <2>. QED
      BY <1>1, <2>1
  <1>4. /\ y.paper = x.paper /\ y.version = x.version /\ y.key = x.key /\ y.lines = x.lines
        /\ y.status = "reversed" /\ y.reversal = c
    BY <1>3
  <1>5. InvoiceOk(y)
    BY <1>2, <1>3, <1>4 DEF InvoiceOk
  <1>6. invoices' = [invoices EXCEPT ![i] = y]
    BY <1>1 DEF ReverseReceipt
  <1>7. DOMAIN invoices' = DOMAIN invoices /\ invoices'[i] = y
        /\ \A j \in DOMAIN invoices : j # i => invoices'[j] = invoices[j]
    BY <1>6
  <1>8. IsLog(invoices') /\ Len(invoices') = Len(invoices)
    <2>1. PICK S : invoices \in Seq(S)
      BY <1>2 DEF IsLog
    <2>2. PICK T : T = S \cup {y}
      OBVIOUS
    <2>3. invoices \in Seq(T) /\ y \in T
      BY <2>1, <2>2, SeqMonotonic
    <2>4. i \in 1 .. Len(invoices)
      BY <2>1
    <2>5. invoices' \in Seq(T) /\ Len(invoices') = Len(invoices)
      BY <1>6, <2>3, <2>4, ExceptSeq
    <2>. QED
      BY <2>5 DEF IsLog
  <1>9. \A j \in DOMAIN invoices :
           /\ invoices'[j].paper = invoices[j].paper /\ invoices'[j].key = invoices[j].key
           /\ invoices'[j].lines = invoices[j].lines /\ InvoiceOk(invoices'[j])
    <2> SUFFICES ASSUME NEW j \in DOMAIN invoices
                 PROVE  /\ invoices'[j].paper = invoices[j].paper /\ invoices'[j].key = invoices[j].key
                        /\ invoices'[j].lines = invoices[j].lines /\ InvoiceOk(invoices'[j])
      OBVIOUS
    <2>1. CASE j = i
      BY <1>1, <1>4, <1>5, <1>7, <2>1
    <2>2. CASE j # i
      BY <1>7, <2>2 DEF InvoicesOk
    <2>. QED
      BY <2>1, <2>2
  <1>. QED
    BY <1>4, <1>7, <1>8, <1>9

\* A reversal keeps the papers in order: lines and returns stay.
LEMMA BooksReverse ==
  ASSUME BooksInv, NEW i \in DOMAIN invoices, NEW c, ReverseReceipt(i, c)
  PROVE  BooksInv'
  <1>1. InvoicesOk /\ ReturnsOk /\ CreditsOk /\ ReceiptBookedOnce
    BY DEF BooksInv
  <1>2. /\ DOMAIN invoices' = DOMAIN invoices /\ IsLog(invoices')
        /\ \A j \in DOMAIN invoices :
                /\ invoices'[j].paper = invoices[j].paper /\ invoices'[j].key = invoices[j].key
                /\ invoices'[j].lines = invoices[j].lines /\ InvoiceOk(invoices'[j])
    BY <1>1, ReverseWrites
  <1>3. returns' = returns
    BY DEF ReverseReceipt
  <1>4. InvoicesOk'
    BY <1>2 DEF InvoicesOk
  <1>5. ReceiptBookedOnce'
    <2> SUFFICES ASSUME NEW j \in DOMAIN invoices, NEW k \in DOMAIN invoices, j # k
                 PROVE  /\ invoices'[j].key # invoices'[k].key
                        /\ invoices'[j].paper.number # NoNumber
                             => <<invoices'[j].paper.supplier, invoices'[j].paper.number>>
                                  # <<invoices'[k].paper.supplier, invoices'[k].paper.number>>
      BY <1>2 DEF ReceiptBookedOnce
    <2>1. /\ invoices'[j].paper = invoices[j].paper /\ invoices'[j].key = invoices[j].key
          /\ invoices'[k].paper = invoices[k].paper /\ invoices'[k].key = invoices[k].key
      BY <1>2
    <2>. QED
      BY <1>1, <2>1 DEF ReceiptBookedOnce
  <1>6. ReturnsOk'
    <2>1. \A j \in DOMAIN invoices : j \in DOMAIN invoices' /\ invoices'[j].lines = invoices[j].lines
      BY <1>2
    <2>2. ASSUME NEW r \in DOMAIN returns PROVE ReturnOk(returns[r], invoices')
      <3>1. ReturnOk(returns[r], invoices)
        BY <1>1 DEF ReturnsOk
      <3>. QED
        BY <2>1, <3>1, ReturnKept
    <2>. QED
      BY <1>1, <1>3, <2>2 DEF ReturnsOk
  <1>7. CreditsOk'
    <2> SUFFICES ASSUME NEW j \in DOMAIN invoices, NEW v \in DOMAIN invoices'[j].lines
                 PROVE  CreditOk(invoices'[j].lines[v], Back(returns', j, v), Credited(returns', j, v))
      BY <1>2 DEF CreditsOk
    <2>1. invoices'[j].lines = invoices[j].lines
      BY <1>2
    <2>. QED
      BY <1>1, <1>3, <2>1 DEF CreditsOk
  <1>. QED
    BY <1>4, <1>5, <1>6, <1>7 DEF BooksInv

\* Every step of purchasing keeps the papers in order.
LEMMA BooksStep == BooksInv /\ [PurNext]_purVars => BooksInv'
  <1> SUFFICES ASSUME BooksInv, [PurNext]_purVars PROVE BooksInv'
    OBVIOUS
  <1>1. CASE \E p \in Papers, c \in Commands \cup {NoCommand} : Receive(p, c)
    BY <1>1, BooksReceive
  <1>2. CASE \E i \in DOMAIN invoices : \E q \in Requests(i), c \in Commands :
                ReturnToSupplier(i, q, c)
    BY <1>2, BooksReturn
  <1>3. CASE \E i \in DOMAIN invoices, c \in Commands : ReverseReceipt(i, c)
    BY <1>3, BooksReverse
  <1>4. CASE UNCHANGED <<invoices, returns>>
    BY <1>4 DEF BooksInv, InvoicesOk, ReturnsOk, CreditsOk, ReceiptBookedOnce
  <1>5. (\E v \in Variants : Sell(v) \/ CustomerReturn(v) \/ Ship(v)) => UNCHANGED <<invoices, returns>>
    BY DEF Sell, CustomerReturn, Ship
  <1>. QED
    BY <1>1, <1>2, <1>3, <1>4, <1>5, PurSteps

\* The two promises about papers that follow.
LEMMA BooksSafe == BooksInv => ReceiptBookedOnce /\ CentsExact
  <1> SUFFICES ASSUME BooksInv PROVE DiscountAllocated /\ SupplierCreditExact
    BY DEF BooksInv, CentsExact
  <1>1. InvoicesOk /\ ReturnsOk /\ CreditsOk
    BY DEF BooksInv
  <1>2. SupplierCreditExact
    <2> SUFFICES ASSUME NEW r \in DOMAIN returns, NEW v \in DOMAIN returns[r].qty,
                        NEW i, i = returns[r].invoice, NEW l, l = invoices[i].lines[v]
                 PROVE  /\ ReturnedQty(i, v) <= l.qty
                        /\ ReturnedCredit(i, v) \in 0 .. l.net
                        /\ ReturnedQty(i, v) = l.qty => ReturnedCredit(i, v) = l.net
      BY DEF SupplierCreditExact
    <2>1. i \in DOMAIN invoices /\ v \in DOMAIN invoices[i].lines
      BY <1>1 DEF ReturnsOk, ReturnOk
    <2>2. PICK b, d : b = Back(returns, i, v) /\ d = Credited(returns, i, v)
      OBVIOUS
    <2>3. CreditOk(l, b, d) /\ LineOk(l)
      BY <1>1, <2>1, <2>2 DEF CreditsOk, InvoicesOk, InvoiceOk
    <2>4. ReturnedQty(i, v) = b /\ ReturnedCredit(i, v) = d
      BY <2>2 DEF ReturnedQty, ReturnedCredit, Back, Credited, ReturnsOf, Of
    <2>. QED
      BY SMTT(30), <2>3, <2>4 DEF CreditOk, LineOk
  <1>3. ASSUME NEW p \in Papers, Prepared[p].discount \in 0 .. Prepared[p].subtotal
        PROVE  \E c \in Commands : ReceiptIsValid(p, c)
    <2>1. Prepared[p].discount = Discount(p) /\ Prepared[p].subtotal = Subtotal(p)
      BY DEF Prepared, PreparePurchaseReceipt
    <2>2. Discount(p) <= Subtotal(p) /\ Discount(p) >= 0
      BY <1>3, <2>1, MergedLines, DiscountType
    <2>3. PICK ls : ls = Prepared[p].lines
      OBVIOUS
    <2>4. SumOver([v \in DOMAIN ls |-> ls[v].discount]) = Discount(p)
      BY <2>2, <2>3, PreparedLines
    <2>5. PICK c \in Commands : c # NoCommand
      BY PurchasingAssumption
    <2>6. ReceiptIsValid(p, c)
      BY <2>1, <2>2, <2>3, <2>4, <2>5 DEF ReceiptIsValid
    <2>. QED
      BY <2>6
  <1>4. ASSUME NEW i \in DOMAIN invoices, invoices[i].version = 2, NEW ls, NEW s, NEW d,
               ls = invoices[i].lines,
               s = SumOver([v \in DOMAIN ls |-> ls[v].gross]),
               d = SumOver([v \in DOMAIN ls |-> ls[v].discount]),
               NEW v \in DOMAIN ls
        PROVE  /\ ls[v].net \in 0 .. ls[v].gross
               /\ s > 0 => /\ ls[v].discount * s - d * ls[v].gross < s
                           /\ -(ls[v].discount * s - d * ls[v].gross) < s
    <2>1. PICK p : p = invoices[i].paper
      OBVIOUS
    <2>2. p \in Papers /\ Discount(p) <= Subtotal(p) /\ ls = Prepared[p].lines
      BY <1>1, <1>4, <2>1 DEF InvoicesOk, InvoiceOk
    <2>3. /\ LineOk(ls[v]) /\ s = Subtotal(p) /\ d = Discount(p)
          /\ s > 0 => /\ ls[v].discount * s - d * ls[v].gross < s
                      /\ d * ls[v].gross - ls[v].discount * s < s
      BY <1>4, <2>2, PreparedLines
    <2>4. PICK a, b : a = ls[v].discount * s /\ b = d * ls[v].gross
      OBVIOUS
    <2>5. s \in Nat /\ d \in Nat
      BY <2>2, <2>3, MergedLines, DiscountType
    <2>6. a \in Int /\ b \in Int /\ ls[v].net \in 0 .. ls[v].gross
      BY <2>3, <2>4, <2>5 DEF LineOk
    <2>7. s > 0 => a - b < s /\ -(a - b) < s
      BY <2>3, <2>4, <2>5, <2>6
    <2>. QED
      BY <2>4, <2>6, <2>7
  <1>5. DiscountAllocated
    BY <1>3, <1>4 DEF DiscountAllocated
  <1>. QED
    BY <1>2, <1>5

\* The cost ledger of a variant is a chain of sound rows that ends at its cost.
ChainOk(log, c) ==
    /\ IsLog(log)
    /\ \A n \in DOMAIN log : /\ RowOk(log[n])
                             /\ n > 1 => log[n].costBefore = log[n - 1].costAfter
    /\ log # <<>> => log[Len(log)].costAfter = c

\* Its receipts are those of the invoices, one row each, of the line's quantity.
ReceiptKeys(log, v, invs) ==
    /\ \A n \in DOMAIN log, i \in Nat : log[n].key = <<"purchase", i, v>> =>
         /\ i \in DOMAIN invs /\ v \in DOMAIN invs[i].lines
         /\ log[n].delta = invs[i].lines[v].qty
    /\ \A n, m \in DOMAIN log, i \in Nat :
         log[n].key = <<"purchase", i, v>> /\ log[m].key = <<"purchase", i, v>> => n = m

\* A ledger that was only added to.
Prefix(s, t) == \A n \in DOMAIN s : n \in DOMAIN t /\ t[n] = s[n]

\* Nothing added.
LEMMA PrefixSelf == ASSUME NEW s PROVE Prefix(s, s)
  BY DEF Prefix

\* One more row.
LEMMA PrefixAppend ==
  ASSUME NEW s, NEW t, IsLog(t), Prefix(s, t), NEW e
  PROVE  Prefix(s, Append(t, e))
  BY LogAppend DEF Prefix

\* A sound row that starts at the cost makes the chain longer.
LEMMA ChainAppend ==
  ASSUME NEW log, NEW c, ChainOk(log, c), NEW row, RowOk(row), row.costBefore = c
  PROVE  ChainOk(Append(log, row), row.costAfter)
  <1>1. PICK t, n : t = Append(log, row) /\ n = Len(log) + 1
    OBVIOUS
  <1>2. IsLog(log)
    BY DEF ChainOk
  <1>3. /\ n \in Nat /\ n >= 1 /\ DOMAIN log = 1 .. n - 1 /\ DOMAIN t = 1 .. n /\ Len(t) = n
        /\ IsLog(t) /\ t[n] = row /\ \A k \in DOMAIN log : t[k] = log[k]
    BY <1>1, <1>2, LogAppend
  <1>4. ASSUME NEW k \in DOMAIN t
        PROVE  RowOk(t[k]) /\ (k > 1 => t[k].costBefore = t[k - 1].costAfter)
    <2>1. CASE k = n
      <3>1. RowOk(t[k])
        BY <1>3, <2>1
      <3>2. ASSUME k > 1 PROVE t[k].costBefore = t[k - 1].costAfter
        <4>1. k - 1 \in DOMAIN log /\ k - 1 = Len(log) /\ log # <<>>
          BY <1>1, <1>2, <1>3, <2>1, <3>2, LogIs
        <4>2. log[k - 1].costAfter = c
          BY <4>1 DEF ChainOk
        <4>. QED
          BY <1>3, <2>1, <4>1, <4>2
      <3>. QED
        BY <3>1, <3>2
    <2>2. CASE k # n
      <3>1. k \in DOMAIN log /\ t[k] = log[k]
        BY <1>3, <2>2
      <3>2. ASSUME k > 1 PROVE t[k - 1] = log[k - 1]
        BY <1>3, <3>1, <3>2
      <3>. QED
        BY <3>1, <3>2 DEF ChainOk
    <2>. QED
      BY <2>1, <2>2
  <1>. QED
    BY <1>1, <1>3, <1>4 DEF ChainOk

\* The stock a variant had before its first movement, at the cost it had.
LEMMA OpeningRowOk ==
  ASSUME NEW b \in Nat, NEW c \in Nat, NEW key, NEW row,
         row = [type |-> "opening_balance", key |-> key, delta |-> b, before |-> 0,
                after |-> b, costBefore |-> 0, costAfter |-> c, value |-> b * c, rounding |-> 0]
  PROVE  RowOk(row) /\ row.key = key /\ row.costAfter = c
  <1>1. PICK x : x = b * c
    OBVIOUS
  <1>2. x \in Nat
    BY <1>1
  <1>3. /\ row.key = key /\ row.delta = b /\ row.before = 0 /\ row.after = b
        /\ row.costBefore = 0 /\ row.costAfter = c /\ row.value = x /\ row.rounding = 0
    BY <1>1
  <1>4. Positive(b) = b /\ Positive(0) = 0
    BY DEF Positive
  <1>5. 0 = Positive(b) * c - (Positive(0) * 0 + x)
    BY <1>1, <1>2, <1>4
  <1>6. Max({0, b}) = b
    BY MaxOfTwo
  <1>7. 2 * 0 \in -Max({0, b}) .. Max({0, b})
    BY <1>6
  <1>. QED
    BY <1>2, <1>3, <1>5, <1>7 DEF RowOk

\* A row under another key than a receipt's adds no receipt.
LEMMA KeysAppend ==
  ASSUME NEW log, IsLog(log), NEW v, NEW invs, ReceiptKeys(log, v, invs),
         NEW row, NEW k, row.key = k, k[1] # "purchase"
  PROVE  ReceiptKeys(Append(log, row), v, invs)
  <1>1. PICK t, n : t = Append(log, row) /\ n = Len(log) + 1
    OBVIOUS
  <1>2. /\ n \in Nat /\ DOMAIN log = 1 .. n - 1 /\ DOMAIN t = 1 .. n
        /\ t[n] = row /\ \A m \in DOMAIN log : t[m] = log[m]
    BY <1>1, LogAppend
  <1>3. ASSUME NEW m \in DOMAIN t, NEW i \in Nat, t[m].key = <<"purchase", i, v>>
        PROVE  m \in DOMAIN log /\ t[m] = log[m]
    <2>1. <<"purchase", i, v>>[1] = "purchase"
      OBVIOUS
    <2>2. m # n
      BY <1>2, <1>3, <2>1
    <2>. QED
      BY <1>2, <2>2
  <1>4. ASSUME NEW m \in DOMAIN t, NEW i \in Nat, t[m].key = <<"purchase", i, v>>
        PROVE  i \in DOMAIN invs /\ v \in DOMAIN invs[i].lines /\ t[m].delta = invs[i].lines[v].qty
    <2>1. m \in DOMAIN log /\ t[m] = log[m]
      BY <1>3, <1>4
    <2>. QED
      BY <1>4, <2>1 DEF ReceiptKeys
  <1>5. ASSUME NEW m \in DOMAIN t, NEW j \in DOMAIN t, NEW i \in Nat,
               t[m].key = <<"purchase", i, v>>, t[j].key = <<"purchase", i, v>>
        PROVE  m = j
    <2>1. m \in DOMAIN log /\ t[m] = log[m] /\ j \in DOMAIN log /\ t[j] = log[j]
      BY <1>3, <1>5
    <2>. QED
      BY <1>5, <2>1 DEF ReceiptKeys
  <1>. QED
    BY <1>1, <1>4, <1>5 DEF ReceiptKeys

\* A receipt's row: the invoice is new, so no row has its key yet.
LEMMA KeysReceipt ==
  ASSUME NEW log, IsLog(log), NEW v, NEW invs, ReceiptKeys(log, v, invs),
         NEW next, NEW n, n \notin DOMAIN invs, n \in DOMAIN next,
         \A i \in DOMAIN invs : i \in DOMAIN next /\ next[i].lines = invs[i].lines,
         v \in DOMAIN next[n].lines,
         NEW row, row.key = <<"purchase", n, v>>, row.delta = next[n].lines[v].qty
  PROVE  ReceiptKeys(Append(log, row), v, next)
  <1>1. PICK t, k : t = Append(log, row) /\ k = Len(log) + 1
    OBVIOUS
  <1>2. /\ k \in Nat /\ DOMAIN log = 1 .. k - 1 /\ DOMAIN t = 1 .. k
        /\ t[k] = row /\ \A m \in DOMAIN log : t[m] = log[m]
    BY <1>1, LogAppend
  <1>3. ASSUME NEW m \in DOMAIN t, NEW i \in Nat, t[m].key = <<"purchase", i, v>>
        PROVE  \/ m = k /\ i = n
               \/ m \in DOMAIN log /\ t[m] = log[m] /\ i \in DOMAIN invs
                  /\ v \in DOMAIN invs[i].lines /\ t[m].delta = invs[i].lines[v].qty
    <2>1. CASE m = k
      BY <1>2, <1>3, <2>1
    <2>2. CASE m # k
      <3>1. m \in DOMAIN log /\ t[m] = log[m]
        BY <1>2, <2>2
      <3>. QED
        BY <1>3, <3>1 DEF ReceiptKeys
    <2>. QED
      BY <2>1, <2>2
  <1>4. ASSUME NEW m \in DOMAIN t, NEW i \in Nat, t[m].key = <<"purchase", i, v>>
        PROVE  i \in DOMAIN next /\ v \in DOMAIN next[i].lines /\ t[m].delta = next[i].lines[v].qty
    BY <1>2, <1>3, <1>4
  <1>5. ASSUME NEW m \in DOMAIN t, NEW j \in DOMAIN t, NEW i \in Nat,
               t[m].key = <<"purchase", i, v>>, t[j].key = <<"purchase", i, v>>
        PROVE  m = j
    <2>1. \/ m = k /\ i = n
          \/ m \in DOMAIN log /\ t[m] = log[m] /\ i \in DOMAIN invs
      BY <1>3, <1>5
    <2>2. \/ j = k /\ i = n
          \/ j \in DOMAIN log /\ t[j] = log[j] /\ i \in DOMAIN invs
      BY <1>3, <1>5
    <2>3. CASE i = n
      BY <2>1, <2>2, <2>3
    <2>4. CASE i # n
      BY <1>5, <2>1, <2>2, <2>4 DEF ReceiptKeys
    <2>. QED
      BY <2>3, <2>4
  <1>. QED
    BY SMTT(30), <1>1, <1>4, <1>5 DEF ReceiptKeys

\* The receipts in a ledger are still those of the invoices when these keep their lines.
LEMMA KeysKept ==
  ASSUME NEW log, NEW v, NEW invs, ReceiptKeys(log, v, invs), NEW next,
         \A i \in DOMAIN invs : i \in DOMAIN next /\ next[i].lines = invs[i].lines
  PROVE  ReceiptKeys(log, v, next)
  BY DEF ReceiptKeys

\* Stock, cost and the two ledgers of every variant.
LedgerTypes ==
    /\ stock \in [Variants -> Int] /\ elsewhere \in [Variants -> Int]
    /\ cost \in [Variants -> Nat] /\ soldAt \in [Variants -> Seq(Nat)]
    /\ DOMAIN costLog = Variants /\ DOMAIN stockLog = Variants
Ledgers ==
    \A v \in Variants : /\ ChainOk(costLog[v], cost[v])
                        /\ ReceiptKeys(costLog[v], v, invoices)
                        /\ IsLog(stockLog[v]) /\ stockLog[v] # <<>>
\* Where something was sent back, the receipt is no longer the last movement.
SentBack ==
    \A r \in DOMAIN returns : \A v \in DOMAIN returns[r].qty :
        Last(stockLog[v]) # <<"purchase", returns[r].invoice, v>>
LedgerInv == LedgerTypes /\ Ledgers /\ SentBack

\* What a posting leaves of the ledgers of a variant that it moves.
PostedTo(v, type, key, delta, value, next) ==
    \E base : /\ ChainOk(base, cost[v]) /\ ReceiptKeys(base, v, invoices)
              /\ Prefix(costLog[v], base)
              /\ costLog[v] # <<>> => base = costLog[v]
              /\ costLog'[v] = Append(base, Row(type, key, stock[v] + elsewhere[v], delta,
                                                value, cost[v], next))
              /\ stockLog'[v] = Append(stockLog[v], key)
              /\ cost'[v] = next

\* A posting opens the ledger if it must, and adds one row.
LEMMA PostEffect ==
  ASSUME LedgerTypes, Ledgers, NEW type, NEW key, NEW delta, NEW value, NEW next,
         Post(type, key, delta, value, next), NEW v \in DOMAIN delta, v \in Variants
  PROVE  PostedTo(v, type, key[v], delta[v], value[v], next[v])
  <1>1. PICK log, g, c, row :
           /\ log = costLog[v] /\ g = stock[v] + elsewhere[v] /\ c = cost[v]
           /\ row = Row(type, key[v], g, delta[v], value[v], c, next[v])
    OBVIOUS
  <1>2. g \in Int /\ c \in Nat
    BY <1>1 DEF LedgerTypes
  <1>3. ChainOk(log, c) /\ ReceiptKeys(log, v, invoices) /\ IsLog(log)
    BY <1>1 DEF Ledgers, ChainOk
  <1>4. Global(v) = g
    BY <1>1 DEF Global
  <1>5. Movement(v, type, key[v], g, delta[v], value[v], next[v]) = row
    BY <1>1 DEF Movement, Row
  <1>6. /\ costLog'[v] = log \o Opening(v, g) \o <<row>>
        /\ stockLog'[v] = Append(stockLog[v], key[v]) /\ cost'[v] = next[v]
    BY <1>1, <1>4, <1>5 DEF Post
  <1>7. CASE log = <<>> /\ g > 0
    <2>1. PICK o : o = [type |-> "opening_balance", key |-> <<"cost-auto-opening", v>>,
                        delta |-> g, before |-> 0, after |-> g, costBefore |-> 0,
                        costAfter |-> c, value |-> g * c, rounding |-> 0]
      OBVIOUS
    <2>2. Opening(v, g) = <<o>>
      BY <1>1, <1>7, <2>1 DEF Opening, HasLedger
    <2>3. g \in Nat
      BY <1>2, <1>7
    <2>4. RowOk(o) /\ o.key = <<"cost-auto-opening", v>> /\ o.costAfter = c /\ o.costBefore = 0
      <3>1. RowOk(o) /\ o.key = <<"cost-auto-opening", v>> /\ o.costAfter = c
        BY <1>2, <2>1, <2>3, OpeningRowOk
      <3>2. o.costBefore = 0
        BY <2>1
      <3>. QED
        BY <3>1, <3>2
    <2>5. PICK base : base = Append(log, o)
      OBVIOUS
    <2>6. ChainOk(base, c)
      <3>1. ChainOk(log, 0)
        BY <1>3, <1>7 DEF ChainOk
      <3>. QED
        BY <2>4, <2>5, <3>1, ChainAppend
    <2>7. ReceiptKeys(base, v, invoices)
      <3>1. <<"cost-auto-opening", v>>[1] # "purchase"
        OBVIOUS
      <3>. QED
        BY <1>3, <2>4, <2>5, <3>1, KeysAppend
    <2>8. Prefix(log, base)
      BY <1>3, <2>5, PrefixSelf, PrefixAppend
    <2>9. costLog'[v] = Append(base, row)
      BY <1>3, <1>6, <2>2, <2>5, LogConcat
    <2>. QED
      BY <1>1, <1>6, <1>7, <2>6, <2>7, <2>8, <2>9 DEF PostedTo
  <1>8. CASE ~(log = <<>> /\ g > 0)
    <2>1. Opening(v, g) = <<>>
      BY <1>1, <1>8 DEF Opening, HasLedger
    <2>2. costLog'[v] = Append(log, row)
      BY <1>3, <1>6, <2>1, LogConcat
    <2>3. Prefix(log, log)
      BY PrefixSelf
    <2>. QED
      BY <1>1, <1>3, <1>6, <2>2, <2>3 DEF PostedTo
  <1>. QED
    BY <1>7, <1>8

\* A posting of sound rows keeps the chains, and only adds to the ledgers.
LEMMA PostKeeps ==
  ASSUME LedgerTypes, Ledgers, NEW type, NEW key, NEW delta, NEW value, NEW next,
         Post(type, key, delta, value, next), DOMAIN delta \subseteq Variants,
         \A v \in DOMAIN delta :
            /\ delta[v] \in Int /\ value[v] \in Int /\ next[v] \in Nat
            /\ RowOk(Row(type, key[v], stock[v] + elsewhere[v], delta[v], value[v],
                         cost[v], next[v]))
  PROVE  /\ stock' \in [Variants -> Int] /\ cost' \in [Variants -> Nat]
         /\ DOMAIN costLog' = Variants /\ DOMAIN stockLog' = Variants
         /\ \A v \in Variants :
              /\ ChainOk(costLog'[v], cost'[v]) /\ IsLog(stockLog'[v]) /\ stockLog'[v] # <<>>
              /\ Prefix(costLog[v], costLog'[v]) /\ Prefix(stockLog[v], stockLog'[v])
         /\ \A v \in Variants \ DOMAIN delta :
              costLog'[v] = costLog[v] /\ stockLog'[v] = stockLog[v]
  <1>1. /\ DOMAIN costLog' = Variants /\ DOMAIN stockLog' = Variants
        /\ \A v \in Variants \ DOMAIN delta :
             costLog'[v] = costLog[v] /\ stockLog'[v] = stockLog[v] /\ cost'[v] = cost[v]
    BY DEF Post
  <1>2. stock' \in [Variants -> Int]
    <2>1. stock' = [v \in Variants |-> stock[v] + IF v \in DOMAIN delta THEN delta[v] ELSE 0]
      BY DEF Post
    <2>. QED
      BY <2>1 DEF LedgerTypes
  <1>3. cost' \in [Variants -> Nat]
    <2>1. cost' = [v \in Variants |-> IF v \in DOMAIN delta THEN next[v] ELSE cost[v]]
      BY DEF Post
    <2>. QED
      BY <2>1 DEF LedgerTypes
  <1>4. ASSUME NEW v \in Variants
        PROVE  /\ ChainOk(costLog'[v], cost'[v]) /\ IsLog(stockLog'[v]) /\ stockLog'[v] # <<>>
               /\ Prefix(costLog[v], costLog'[v]) /\ Prefix(stockLog[v], stockLog'[v])
    <2>0. ChainOk(costLog[v], cost[v]) /\ IsLog(stockLog[v]) /\ stockLog[v] # <<>>
      BY DEF Ledgers
    <2>1. CASE v \notin DOMAIN delta
      <3>1. costLog'[v] = costLog[v] /\ stockLog'[v] = stockLog[v] /\ cost'[v] = cost[v]
        BY <1>1, <2>1
      <3>. QED
        BY <2>0, <3>1, PrefixSelf
    <2>2. CASE v \in DOMAIN delta
      <3>1. PostedTo(v, type, key[v], delta[v], value[v], next[v])
        BY <2>2, PostEffect
      <3>2. PICK row : row = Row(type, key[v], stock[v] + elsewhere[v], delta[v], value[v],
                                 cost[v], next[v])
        OBVIOUS
      <3>3. PICK base : /\ ChainOk(base, cost[v]) /\ Prefix(costLog[v], base)
                        /\ costLog'[v] = Append(base, row)
                        /\ stockLog'[v] = Append(stockLog[v], key[v])
                        /\ cost'[v] = next[v]
        BY <3>1, <3>2 DEF PostedTo
      <3>4. RowOk(row)
        BY <2>2, <3>2
      <3>5. row.costBefore = cost[v] /\ row.costAfter = next[v]
        <4>1. stock[v] + elsewhere[v] \in Int /\ cost[v] \in Nat
          BY DEF LedgerTypes
        <4>2. delta[v] \in Int /\ value[v] \in Int /\ next[v] \in Nat
          BY <2>2
        <4>. QED
          BY <3>2, <4>1, <4>2, RowFields
      <3>6. ChainOk(costLog'[v], cost'[v])
        BY <3>3, <3>4, <3>5, ChainAppend
      <3>7. IsLog(base)
        BY <3>3 DEF ChainOk
      <3>8. Prefix(costLog[v], costLog'[v])
        BY <3>3, <3>7, PrefixAppend
      <3>9. /\ IsLog(stockLog'[v]) /\ stockLog'[v] # <<>> /\ Prefix(stockLog[v], stockLog'[v])
        <4>1. IsLog(stockLog'[v]) /\ stockLog'[v] # <<>>
          <5>1. IsLog(stockLog[v])
            BY <2>0
          <5>2. IsLog(Append(stockLog[v], key[v])) /\ Append(stockLog[v], key[v]) # <<>>
            BY <5>1, LogAppend
          <5>. QED
            BY <3>3, <5>2
        <4>2. Prefix(stockLog[v], stockLog[v])
          BY PrefixSelf
        <4>. QED
          BY <2>0, <3>3, <4>1, <4>2, PrefixAppend
      <3>. QED
        BY <3>6, <3>8, <3>9
    <2>. QED
      BY <2>1, <2>2
  <1>. QED
    BY <1>1, <1>2, <1>3, <1>4

\* A variant that moves under a key that is no receipt's.
LEMMA KeysPosted ==
  ASSUME LedgerTypes, NEW v \in Variants, NEW type, NEW key, NEW delta \in Int,
         NEW value \in Int, NEW next \in Nat,
         PostedTo(v, type, key, delta, value, next), key[1] # "purchase"
  PROVE  ReceiptKeys(costLog'[v], v, invoices)
  <1>1. PICK row : row = Row(type, key, stock[v] + elsewhere[v], delta, value, cost[v], next)
    OBVIOUS
  <1>2. PICK base : /\ ChainOk(base, cost[v]) /\ ReceiptKeys(base, v, invoices)
                    /\ costLog'[v] = Append(base, row)
    BY <1>1 DEF PostedTo
  <1>3. IsLog(base)
    BY <1>2 DEF ChainOk
  <1>4. row.key = key
    <2>1. stock[v] + elsewhere[v] \in Int /\ cost[v] \in Nat
      BY DEF LedgerTypes
    <2>. QED
      BY <1>1, <2>1, RowFields
  <1>. QED
    BY <1>2, <1>3, <1>4, KeysAppend

\* The ledgers before the first movement.
LEMMA LedgerInit == PurInit => LedgerInv
  <1> SUFFICES ASSUME PurInit PROVE LedgerInv
    OBVIOUS
  <1>1. LedgerTypes
    BY PurchasingAssumption DEF PurInit, LedgerTypes
  <1>2. ASSUME NEW v \in Variants
        PROVE  /\ ChainOk(costLog[v], cost[v]) /\ ReceiptKeys(costLog[v], v, invoices)
               /\ IsLog(stockLog[v]) /\ stockLog[v] # <<>>
    <2>1. costLog[v] = <<>> /\ stockLog[v] = <<<<"opening", v>>>>
      BY DEF PurInit
    <2>2. ChainOk(costLog[v], cost[v]) /\ ReceiptKeys(costLog[v], v, invoices)
      BY <2>1, EmptyLog, LogIs DEF ChainOk, ReceiptKeys
    <2>3. stockLog[v] \in Seq({<<"opening", v>>}) /\ stockLog[v] # <<>>
      BY <2>1
    <2>. QED
      BY <2>2, <2>3 DEF IsLog
  <1>3. SentBack
    BY DEF PurInit, SentBack
  <1>. QED
    BY <1>1, <1>2, <1>3 DEF LedgerInv, Ledgers

\* The ledgers are only added to.
Grown ==
    \A v \in Variants : Prefix(costLog[v], costLog'[v]) /\ Prefix(stockLog[v], stockLog'[v])

\* The variants of a return are variants.
LEMMA ReturnVariants ==
  ASSUME BooksInv, NEW r \in DOMAIN returns, NEW v \in DOMAIN returns[r].qty
  PROVE  v \in Variants /\ returns[r].invoice \in DOMAIN invoices
  BY DEF BooksInv, InvoicesOk, InvoiceOk, ReturnsOk, ReturnOk

\* MovingAverage, of the cost of its variant.
LEMMA AverageIs ==
  ASSUME NEW v, NEW before, NEW delta, NEW value
  PROVE  MovingAverage(v, before, delta, value) = Average(cost[v], before, delta, value)
  BY DEF MovingAverage, Average

\* The keys of other movements are no receipt's.
LEMMA KeyHeads ==
  ASSUME NEW a, NEW b, NEW k
  PROVE  /\ <<k, a, b>>[1] = k /\ <<k, a>>[1] = k
         /\ "purchase-reversal" # "purchase" /\ "supplier-return" # "purchase"
         /\ "customer-return" # "purchase" /\ "sale" # "purchase" /\ "transfer_out" # "purchase"
  OBVIOUS

\* After a movement under a key that is no receipt's, no receipt is the last one.
LEMMA LastIsOther ==
  ASSUME NEW s, IsLog(s), NEW k, k[1] # "purchase", NEW i, NEW v
  PROVE  Last(Append(s, k)) # <<"purchase", i, v>>
  <1>1. Last(Append(s, k)) = k
    BY LogAppend
  <1>2. <<"purchase", i, v>>[1] = "purchase"
    OBVIOUS
  <1>. QED
    BY <1>1, <1>2

\* A receipt keeps the ledgers sound.
LEMMA LedgerReceive ==
  ASSUME BooksInv, LedgerInv, NEW p \in Papers, NEW c, Receive(p, c)
  PROVE  LedgerInv' /\ Grown
  <1>1. LedgerTypes /\ Ledgers /\ SentBack /\ InvoicesOk
    BY DEF LedgerInv, BooksInv
  <1>2. PICK x, n :
             /\ n = Len(invoices) + 1 /\ n \in Nat /\ n \notin DOMAIN invoices
             /\ DOMAIN invoices' = DOMAIN invoices \cup {n}
             /\ invoices'[n] = x /\ \A i \in DOMAIN invoices : invoices'[i] = invoices[i]
             /\ InvoiceOk(x) /\ x.lines = Prepared[p].lines
    BY <1>1, ReceiveAppends
  <1>3. PICK ls : ls = Prepared[p].lines
    OBVIOUS
  <1>4. DOMAIN ls \subseteq Variants /\ \A v \in DOMAIN ls : ls[v].qty \in Nat \ {0} /\ ls[v].net \in Nat
    BY <1>2, <1>3 DEF InvoiceOk, LineOk
  <1>5. PICK key, delta, value, next :
           /\ key = [v \in DOMAIN ls |-> <<"purchase", n, v>>]
           /\ delta = [v \in DOMAIN ls |-> ls[v].qty]
           /\ value = [v \in DOMAIN ls |-> ls[v].net]
           /\ next = [v \in DOMAIN ls |-> MovingAverage(v, Global(v), delta[v], value[v])]
    OBVIOUS
  <1>6. Post("purchase_receipt", key, delta, value, next)
    <2>1. PostReceipt(n, ls)
      BY <1>2, <1>3 DEF Receive
    <2>2. PICK d, w : d = [v \in DOMAIN ls |-> ls[v].qty] /\ w = [v \in DOMAIN ls |-> ls[v].net]
      OBVIOUS
    <2>3. Post("purchase_receipt", [v \in DOMAIN ls |-> <<"purchase", n, v>>], d, w,
               [v \in DOMAIN ls |-> MovingAverage(v, Global(v), d[v], w[v])])
      BY <2>1, <2>2 DEF PostReceipt
    <2>4. d = delta /\ w = value
      BY <1>5, <2>2
    <2>. QED
      BY <1>5, <2>3, <2>4
  <1>7. DOMAIN delta = DOMAIN ls
    BY <1>5
  <1>8. ASSUME NEW v \in DOMAIN ls
        PROVE  /\ v \in Variants /\ key[v] = <<"purchase", n, v>> /\ delta[v] = ls[v].qty
               /\ delta[v] \in Int /\ value[v] \in Int /\ next[v] \in Nat
               /\ RowOk(Row("purchase_receipt", key[v], stock[v] + elsewhere[v], delta[v],
                            value[v], cost[v], next[v]))
    <2>1. PICK g : g = stock[v] + elsewhere[v]
      OBVIOUS
    <2>2. v \in Variants /\ g \in Int /\ cost[v] \in Nat
      BY <1>1, <1>4, <2>1 DEF LedgerTypes
    <2>3. key[v] = <<"purchase", n, v>> /\ delta[v] = ls[v].qty /\ value[v] = ls[v].net
      BY <1>5
    <2>4. delta[v] \in Nat \ {0} /\ value[v] \in Nat
      BY <1>4, <2>3
    <2>5. next[v] = Average(cost[v], g, delta[v], value[v])
      BY <1>5, <2>1, AverageIs DEF Global
    <2>6. /\ next[v] \in Nat
          /\ RowOk(Row("purchase_receipt", key[v], g, delta[v], value[v], cost[v], next[v]))
      BY <2>2, <2>4, <2>5, IncomingRow
    <2>. QED
      BY <2>1, <2>2, <2>3, <2>4, <2>6
  <1>9. /\ stock' \in [Variants -> Int] /\ cost' \in [Variants -> Nat]
        /\ DOMAIN costLog' = Variants /\ DOMAIN stockLog' = Variants
        /\ \A v \in Variants :
             /\ ChainOk(costLog'[v], cost'[v]) /\ IsLog(stockLog'[v]) /\ stockLog'[v] # <<>>
             /\ Prefix(costLog[v], costLog'[v]) /\ Prefix(stockLog[v], stockLog'[v])
        /\ \A v \in Variants \ DOMAIN delta :
             costLog'[v] = costLog[v] /\ stockLog'[v] = stockLog[v]
    BY <1>1, <1>4, <1>6, <1>7, <1>8, PostKeeps
  <1>10. returns' = returns /\ elsewhere' = elsewhere /\ soldAt' = soldAt
    BY DEF Receive
  <1>11. LedgerTypes'
    BY <1>1, <1>9, <1>10 DEF LedgerTypes
  <1>12. \A i \in DOMAIN invoices : i \in DOMAIN invoices' /\ invoices'[i].lines = invoices[i].lines
    BY <1>2
  <1>13. ASSUME NEW v \in DOMAIN ls
         PROVE  PostedTo(v, "purchase_receipt", key[v], delta[v], value[v], next[v])
    BY <1>1, <1>6, <1>7, <1>8, PostEffect
  <1>14. ASSUME NEW v \in Variants PROVE ReceiptKeys(costLog'[v], v, invoices')
    <2>1. CASE v \in DOMAIN ls
      <3>1. PICK row : row = Row("purchase_receipt", key[v], stock[v] + elsewhere[v], delta[v],
                                 value[v], cost[v], next[v])
        OBVIOUS
      <3>2. PICK base : /\ ChainOk(base, cost[v]) /\ ReceiptKeys(base, v, invoices)
                        /\ costLog'[v] = Append(base, row)
        BY <1>13, <2>1, <3>1 DEF PostedTo
      <3>3. IsLog(base)
        BY <3>2 DEF ChainOk
      <3>4. row.key = <<"purchase", n, v>> /\ row.delta = invoices'[n].lines[v].qty
        <4>1. stock[v] + elsewhere[v] \in Int /\ cost[v] \in Nat
          BY <1>1 DEF LedgerTypes
        <4>2. delta[v] \in Int /\ value[v] \in Int /\ next[v] \in Nat
          BY <1>8, <2>1
        <4>3. row.key = key[v] /\ row.delta = delta[v]
          BY <3>1, <4>1, <4>2, RowFields
        <4>. QED
          BY <1>2, <1>3, <1>8, <2>1, <4>3
      <3>5. n \in DOMAIN invoices' /\ v \in DOMAIN invoices'[n].lines
        BY <1>2, <1>3, <2>1
      <3>. QED
        BY <1>2, <1>12, <3>2, <3>3, <3>4, <3>5, KeysReceipt
    <2>2. CASE v \notin DOMAIN ls
      <3>1. costLog'[v] = costLog[v] /\ ReceiptKeys(costLog[v], v, invoices)
        BY <1>1, <1>7, <1>9, <2>2 DEF Ledgers
      <3>. QED
        BY <1>12, <3>1, KeysKept
    <2>. QED
      BY <2>1, <2>2
  <1>15. Ledgers'
    BY <1>9, <1>14 DEF Ledgers
  <1>16. SentBack'
    <2> SUFFICES ASSUME NEW r \in DOMAIN returns, NEW v \in DOMAIN returns[r].qty
                 PROVE  Last(stockLog'[v]) # <<"purchase", returns[r].invoice, v>>
      BY <1>10 DEF SentBack
    <2>1. v \in Variants /\ returns[r].invoice \in DOMAIN invoices
      BY ReturnVariants
    <2>2. CASE v \in DOMAIN ls
      <3>1. stockLog'[v] = Append(stockLog[v], key[v])
        BY <1>13, <2>2 DEF PostedTo
      <3>2. Last(stockLog'[v]) = <<"purchase", n, v>>
        <4>1. IsLog(stockLog[v])
          BY <1>1, <2>1 DEF Ledgers
        <4>2. Last(Append(stockLog[v], key[v])) = key[v]
          BY <4>1, LogAppend
        <4>. QED
          BY <1>8, <2>2, <3>1, <4>2
      <3>3. returns[r].invoice # n
        BY <1>2, <2>1
      <3>. QED
        BY <3>2, <3>3
    <2>3. CASE v \notin DOMAIN ls
      <3>1. stockLog'[v] = stockLog[v]
        BY <1>7, <1>9, <2>1, <2>3
      <3>. QED
        BY <1>1, <3>1 DEF SentBack
    <2>. QED
      BY <2>2, <2>3
  <1>. QED
    BY <1>9, <1>11, <1>15, <1>16 DEF LedgerInv, Grown

\* Any other posting: its keys are no receipt's, and whatever was sent back before
\* or in this step stays covered.
LEMMA OtherPosting ==
  ASSUME BooksInv, LedgerInv, NEW type, NEW key, NEW delta, NEW value, NEW next,
         Post(type, key, delta, value, next), DOMAIN delta \subseteq Variants,
         \A v \in DOMAIN delta :
            /\ delta[v] \in Int /\ value[v] \in Int /\ next[v] \in Nat
            /\ RowOk(Row(type, key[v], stock[v] + elsewhere[v], delta[v], value[v],
                         cost[v], next[v])),
         \A v \in DOMAIN delta : key[v][1] # "purchase",
         elsewhere' = elsewhere, soldAt' \in [Variants -> Seq(Nat)],
         \A i \in DOMAIN invoices : i \in DOMAIN invoices' /\ invoices'[i].lines = invoices[i].lines,
         \A r \in DOMAIN returns' : \A v \in DOMAIN returns'[r].qty :
            v \in DOMAIN delta \/ (r \in DOMAIN returns /\ returns'[r] = returns[r])
  PROVE  LedgerInv' /\ Grown
  <1>1. LedgerTypes /\ Ledgers /\ SentBack
    BY DEF LedgerInv
  <1>2. /\ stock' \in [Variants -> Int] /\ cost' \in [Variants -> Nat]
        /\ DOMAIN costLog' = Variants /\ DOMAIN stockLog' = Variants
        /\ \A v \in Variants :
             /\ ChainOk(costLog'[v], cost'[v]) /\ IsLog(stockLog'[v]) /\ stockLog'[v] # <<>>
             /\ Prefix(costLog[v], costLog'[v]) /\ Prefix(stockLog[v], stockLog'[v])
        /\ \A v \in Variants \ DOMAIN delta :
             costLog'[v] = costLog[v] /\ stockLog'[v] = stockLog[v]
    BY <1>1, PostKeeps
  <1>3. LedgerTypes'
    BY <1>1, <1>2 DEF LedgerTypes
  <1>4. ASSUME NEW v \in DOMAIN delta
        PROVE  PostedTo(v, type, key[v], delta[v], value[v], next[v])
    BY <1>1, PostEffect
  <1>5. ASSUME NEW v \in Variants PROVE ReceiptKeys(costLog'[v], v, invoices')
    <2>1. ReceiptKeys(costLog'[v], v, invoices)
      <3>1. CASE v \in DOMAIN delta
        <4>1. PostedTo(v, type, key[v], delta[v], value[v], next[v])
          BY <1>4, <3>1
        <4>2. delta[v] \in Int /\ value[v] \in Int /\ next[v] \in Nat /\ key[v][1] # "purchase"
          BY <3>1
        <4>. QED
          BY <1>1, <4>1, <4>2, KeysPosted
      <3>2. CASE v \notin DOMAIN delta
        BY <1>1, <1>2, <3>2 DEF Ledgers
      <3>. QED
        BY <3>1, <3>2
    <2>. QED
      BY <2>1, KeysKept
  <1>6. Ledgers'
    BY <1>2, <1>5 DEF Ledgers
  <1>7. SentBack'
    <2> SUFFICES ASSUME NEW r \in DOMAIN returns', NEW v \in DOMAIN returns'[r].qty
                 PROVE  Last(stockLog'[v]) # <<"purchase", returns'[r].invoice, v>>
      BY DEF SentBack
    <2>1. CASE v \in DOMAIN delta
      <3>1. stockLog'[v] = Append(stockLog[v], key[v])
        BY <1>4, <2>1 DEF PostedTo
      <3>2. IsLog(stockLog[v]) /\ key[v][1] # "purchase"
        BY <1>1, <2>1 DEF Ledgers
      <3>. QED
        BY <3>1, <3>2, LastIsOther
    <2>2. CASE v \notin DOMAIN delta
      <3>1. r \in DOMAIN returns /\ returns'[r] = returns[r]
        BY <2>2
      <3>2. v \in Variants
        BY <3>1, ReturnVariants
      <3>3. stockLog'[v] = stockLog[v]
        BY <1>2, <2>2, <3>2
      <3>. QED
        BY <1>1, <3>1, <3>3 DEF SentBack
    <2>. QED
      BY <2>1, <2>2
  <1>. QED
    BY <1>2, <1>3, <1>6, <1>7 DEF LedgerInv, Grown

\* A return to the supplier keeps the ledgers sound, and covers the receipt.
LEMMA LedgerReturn ==
  ASSUME BooksInv, LedgerInv, NEW i \in DOMAIN invoices, NEW q \in Requests(i), NEW c,
         ReturnToSupplier(i, q, c)
  PROVE  LedgerInv' /\ Grown
  <1>1. LedgerTypes /\ InvoicesOk /\ ReturnsOk
    BY DEF LedgerInv, BooksInv
  <1>2. /\ DOMAIN q \subseteq Variants /\ \A v \in DOMAIN q : q[v] \in Nat \ {0}
    BY <1>1, RequestIs DEF InvoicesOk, InvoiceOk
  <1>3. PICK x : returns' = Append(returns, x) /\ x.qty = q
    BY ReturnAppends
  <1>4. PICK key, delta, value, next :
           /\ key = [v \in DOMAIN q |-> <<"supplier-return", Len(returns) + 1, v>>]
           /\ delta = [v \in DOMAIN q |-> -q[v]]
           /\ value = [v \in DOMAIN q |-> -q[v] * cost[v]]
           /\ next = [v \in DOMAIN q |-> cost[v]]
    OBVIOUS
  <1>5. Post("supplier_return", key, delta, value, next)
    BY <1>4 DEF ReturnToSupplier
  <1>6. DOMAIN delta = DOMAIN q
    BY <1>4
  <1>7. ASSUME NEW v \in DOMAIN delta
        PROVE  /\ delta[v] \in Int /\ value[v] \in Int /\ next[v] \in Nat
               /\ RowOk(Row("supplier_return", key[v], stock[v] + elsewhere[v], delta[v],
                            value[v], cost[v], next[v]))
               /\ key[v][1] # "purchase"
    <2>1. PICK g, k, d : g = stock[v] + elsewhere[v] /\ k = q[v] /\ d = cost[v]
      OBVIOUS
    <2>2. g \in Int /\ d \in Nat /\ k \in Nat \ {0}
      BY <1>1, <1>2, <1>6, <2>1 DEF LedgerTypes
    <2>3. /\ key[v] = <<"supplier-return", Len(returns) + 1, v>> /\ delta[v] = -k
          /\ value[v] = -k * d /\ next[v] = d
      BY <1>4, <1>6, <2>1
    <2>4. g - k >= 0
      <3>1. CostFunctionAccepts(v, Global(v), delta[v])
        BY <1>5 DEF Post
      <3>2. delta[v] < 0 => g + delta[v] >= 0
        BY <2>1, <3>1 DEF CostFunctionAccepts, Global
      <3>. QED
        BY <2>2, <2>3, <3>2
    <2>5. RowOk(Row("supplier_return", key[v], g, -k, -k * d, d, d))
      BY <2>2, <2>4, OutgoingRow
    <2>6. -k * d \in Int /\ -k \in Int
      BY <2>2
    <2>7. key[v][1] # "purchase"
      BY <2>3, KeyHeads
    <2>. QED
      BY <2>1, <2>2, <2>3, <2>5, <2>6, <2>7
  <1>8. \A r \in DOMAIN returns' : \A v \in DOMAIN returns'[r].qty :
           v \in DOMAIN delta \/ (r \in DOMAIN returns /\ returns'[r] = returns[r])
    <2>1. PICK n : n = Len(returns) + 1
      OBVIOUS
    <2>2. /\ n \in Nat /\ DOMAIN returns = 1 .. n - 1 /\ DOMAIN returns' = 1 .. n /\ returns'[n] = x
          /\ \A r \in DOMAIN returns : returns'[r] = returns[r]
      BY <1>1, <1>3, <2>1, LogAppend DEF ReturnsOk
    <2> SUFFICES ASSUME NEW r \in DOMAIN returns', NEW v \in DOMAIN returns'[r].qty
                 PROVE  v \in DOMAIN delta \/ (r \in DOMAIN returns /\ returns'[r] = returns[r])
      OBVIOUS
    <2>3. CASE r = n
      BY <1>3, <1>6, <2>2, <2>3
    <2>4. CASE r # n
      BY <2>2, <2>4
    <2>. QED
      BY <2>3, <2>4
  <1>9. /\ elsewhere' = elsewhere /\ soldAt' \in [Variants -> Seq(Nat)]
        /\ \A j \in DOMAIN invoices : j \in DOMAIN invoices' /\ invoices'[j].lines = invoices[j].lines
    BY <1>1 DEF ReturnToSupplier, LedgerTypes
  <1>. QED
    BY <1>2, <1>5, <1>6, <1>7, <1>8, <1>9, OtherPosting

\* A customer's return keeps the ledgers sound.
LEMMA LedgerCustomerReturn ==
  ASSUME BooksInv, LedgerInv, NEW u \in Variants, CustomerReturn(u)
  PROVE  LedgerInv' /\ Grown
  <1>1. LedgerTypes
    BY DEF LedgerInv
  <1>2. PICK y : y = Head(soldAt[u])
    OBVIOUS
  <1>3. y \in Nat /\ soldAt' \in [Variants -> Seq(Nat)]
    <2>1. soldAt[u] \in Seq(Nat) /\ soldAt[u] # <<>>
      BY <1>1 DEF CustomerReturn, LedgerTypes
    <2>2. y \in Nat /\ Tail(soldAt[u]) \in Seq(Nat)
      BY <1>2, <2>1, HeadTailProperties
    <2>3. soldAt' = [soldAt EXCEPT ![u] = Tail(soldAt[u])]
      BY DEF CustomerReturn
    <2>. QED
      BY <1>1, <2>2, <2>3 DEF LedgerTypes
  <1>4. PICK key, delta, value, next :
           /\ key = [w \in {u} |-> <<"customer-return", steps>>]
           /\ delta = [w \in {u} |-> 1] /\ value = [w \in {u} |-> y]
           /\ next = [w \in {u} |-> MovingAverage(u, Global(u), 1, y)]
    OBVIOUS
  <1>5. Post("customer_return", key, delta, value, next)
    BY <1>2, <1>4 DEF CustomerReturn
  <1>6. DOMAIN delta = {u}
    BY <1>4
  <1>7. ASSUME NEW v \in DOMAIN delta
        PROVE  /\ delta[v] \in Int /\ value[v] \in Int /\ next[v] \in Nat
               /\ RowOk(Row("customer_return", key[v], stock[v] + elsewhere[v], delta[v],
                            value[v], cost[v], next[v]))
               /\ key[v][1] # "purchase"
    <2>1. v = u /\ key[v] = <<"customer-return", steps>> /\ delta[v] = 1 /\ value[v] = y
          /\ next[v] = MovingAverage(u, Global(u), 1, y)
      BY <1>4, <1>6
    <2>2. PICK g : g = stock[v] + elsewhere[v]
      OBVIOUS
    <2>3. g \in Int /\ cost[v] \in Nat
      BY <1>1, <2>1, <2>2 DEF LedgerTypes
    <2>4. next[v] = Average(cost[v], g, 1, y)
      BY <2>1, <2>2, AverageIs DEF Global
    <2>5. next[v] \in Nat /\ RowOk(Row("customer_return", key[v], g, 1, y, cost[v], next[v]))
      <3>1. 1 \in Nat \ {0}
        OBVIOUS
      <3>. QED
        BY <1>3, <2>3, <2>4, <3>1, IncomingRow
    <2>6. key[v][1] # "purchase"
      BY <2>1, KeyHeads
    <2>. QED
      BY <1>3, <2>1, <2>2, <2>5, <2>6
  <1>8. /\ elsewhere' = elsewhere /\ returns' = returns /\ invoices' = invoices
    BY DEF CustomerReturn
  <1>9. \A j \in DOMAIN invoices : j \in DOMAIN invoices' /\ invoices'[j].lines = invoices[j].lines
    BY <1>8
  <1>10. \A r \in DOMAIN returns' : \A v \in DOMAIN returns'[r].qty :
           v \in DOMAIN delta \/ (r \in DOMAIN returns /\ returns'[r] = returns[r])
    BY <1>8
  <1>11. DOMAIN delta \subseteq Variants
    BY <1>6
  <1>. QED
    BY <1>3, <1>5, <1>7, <1>8, <1>9, <1>10, <1>11, OtherPosting

\* The row a reversal negates is the last one of the variant's ledger.
LEMMA ReversedRow ==
  ASSUME BooksInv, LedgerInv, NEW i \in DOMAIN invoices, NEW v \in DOMAIN invoices[i].lines,
         NothingDownstream(i, v)
  PROVE  \E row :
         /\ row = costLog[v][ReceiptRow(i, v)]
         /\ v \in Variants /\ invoices[i].lines[v].qty \in Nat \ {0}
         /\ costLog[v] # <<>> /\ row = costLog[v][Len(costLog[v])]
         /\ RowOk(row) /\ row.key = <<"purchase", i, v>>
         /\ row.delta = invoices[i].lines[v].qty
         /\ stock[v] + elsewhere[v] = row.after /\ cost[v] = row.costAfter
  <1>1. InvoicesOk /\ Ledgers
    BY DEF BooksInv, LedgerInv
  <1>2. v \in Variants /\ invoices[i].lines[v].qty \in Nat \ {0} /\ i \in Nat
    <2>1. InvoiceOk(invoices[i]) /\ IsLog(invoices)
      BY <1>1 DEF InvoicesOk
    <2>2. v \in Variants /\ LineOk(invoices[i].lines[v])
      BY <2>1 DEF InvoiceOk
    <2>3. i \in Nat
      BY <2>1, LogIs
    <2>. QED
      BY <2>2, <2>3 DEF LineOk
  <1>3. PICK log : log = costLog[v]
    OBVIOUS
  <1>4. ChainOk(log, cost[v]) /\ ReceiptKeys(log, v, invoices) /\ IsLog(log)
    BY <1>1, <1>2, <1>3 DEF Ledgers, ChainOk
  <1>5. PICK n \in DOMAIN log : /\ log[n].key = <<"purchase", i, v>> /\ n = Len(log)
                                /\ stock[v] + elsewhere[v] = log[n].after
                                /\ cost[v] = log[n].costAfter
    BY <1>3 DEF NothingDownstream, Global
  <1>6. ReceiptRow(i, v) = n
    <2>1. PICK m : m = ReceiptRow(i, v)
      OBVIOUS
    <2>2. m \in DOMAIN log /\ log[m].key = <<"purchase", i, v>>
      BY <1>3, <1>5, <2>1 DEF ReceiptRow
    <2>3. m = n
      BY <1>2, <1>4, <1>5, <2>2 DEF ReceiptKeys
    <2>. QED
      BY <2>1, <2>3
  <1>7. PICK row : row = log[n]
    OBVIOUS
  <1>8. row = costLog[v][ReceiptRow(i, v)]
    BY <1>3, <1>6, <1>7
  <1>9. RowOk(row) /\ row.delta = invoices[i].lines[v].qty
    BY <1>2, <1>4, <1>5, <1>7 DEF ChainOk, ReceiptKeys
  <1>10. log # <<>>
    BY <1>4, <1>5, LogIs
  <1>. QED
    BY <1>2, <1>3, <1>5, <1>7, <1>8, <1>9, <1>10

\* What a reversal posts for a line: its movement undoes the last one, the receipt's.
ReversalLine(i, v, key, delta, value, next) ==
    LET receipt == costLog[v][Len(costLog[v])]
        row == Row("purchase_reversal", key, stock[v] + elsewhere[v], delta, value, cost[v], next)
    IN /\ v \in Variants /\ costLog[v] # <<>>
       /\ key = <<"purchase-reversal", i, v>> /\ receipt.key = <<"purchase", i, v>>
       /\ delta \in Int /\ value \in Int /\ next \in Nat
       /\ RowOk(row) /\ row.key = key
       /\ row.after = receipt.before /\ row.costAfter = receipt.costBefore
       /\ row.rounding = -receipt.rounding

\* What a reversal posts for a line.
LEMMA ReversalLineIs ==
  ASSUME BooksInv, LedgerInv, NEW i \in DOMAIN invoices, NEW v \in DOMAIN invoices[i].lines,
         NothingDownstream(i, v),
         CostFunctionAccepts(v, Global(v), -invoices[i].lines[v].qty)
  PROVE  ReversalLine(i, v, <<"purchase-reversal", i, v>>, -invoices[i].lines[v].qty,
                      -costLog[v][ReceiptRow(i, v)].value,
                      costLog[v][ReceiptRow(i, v)].costBefore)
  <1>1. PICK receipt :
           /\ receipt = costLog[v][ReceiptRow(i, v)]
           /\ v \in Variants /\ invoices[i].lines[v].qty \in Nat \ {0}
           /\ costLog[v] # <<>> /\ receipt = costLog[v][Len(costLog[v])]
           /\ RowOk(receipt) /\ receipt.key = <<"purchase", i, v>>
           /\ receipt.delta = invoices[i].lines[v].qty
           /\ stock[v] + elsewhere[v] = receipt.after /\ cost[v] = receipt.costAfter
    BY ReversedRow
  <1>2. PICK q, key, row : /\ q = invoices[i].lines[v].qty /\ key = <<"purchase-reversal", i, v>>
                           /\ row = Row("purchase_reversal", key, receipt.after, -q,
                                        -receipt.value, receipt.costAfter, receipt.costBefore)
    OBVIOUS
  <1>3. /\ receipt.after \in Int /\ receipt.value \in Int /\ receipt.costBefore \in Nat
        /\ receipt.costAfter \in Nat /\ q \in Nat \ {0} /\ receipt.delta = q
    BY <1>1, <1>2 DEF RowOk
  <1>4. receipt.after - q >= 0
    <2>1. -q < 0 => receipt.after + (-q) >= 0
      BY <1>1, <1>2 DEF CostFunctionAccepts, Global
    <2>. QED
      BY <1>3, <2>1
  <1>5. RowOk(receipt)
    BY <1>1
  <1>6. /\ RowOk(row) /\ row.after = receipt.before /\ row.costAfter = receipt.costBefore
        /\ row.rounding = -receipt.rounding
    <2>1. receipt.delta \in Nat \ {0} /\ receipt.after - receipt.delta >= 0
      BY <1>3, <1>4
    <2>2. Reverses(Row("purchase_reversal", key, receipt.after, -receipt.delta, -receipt.value,
                       receipt.costAfter, receipt.costBefore), receipt)
      BY <1>5, <2>1, ReversalRow
    <2>3. Reverses(row, receipt)
      BY <1>2, <1>3, <2>2
    <2>. QED
      BY <2>3 DEF Reverses
  <1>7. -q \in Int /\ -receipt.value \in Int
    BY <1>3
  <1>8. row.key = key
    BY <1>2, <1>3, <1>7, RowFields
  <1>9. row = Row("purchase_reversal", key, stock[v] + elsewhere[v], -q, -receipt.value,
                  cost[v], receipt.costBefore)
    BY <1>1, <1>2
  <1>10. ReversalLine(i, v, key, -q, -receipt.value, receipt.costBefore)
    BY <1>1, <1>2, <1>3, <1>6, <1>7, <1>8, <1>9 DEF ReversalLine
  <1>. QED
    BY <1>1, <1>2, <1>10

\* What a reversal posts.
LEMMA ReversalPosts ==
  ASSUME BooksInv, LedgerInv, NEW i \in DOMAIN invoices, NEW c, ReverseReceipt(i, c)
  PROVE  \E key, delta, value, next :
           /\ Post("purchase_reversal", key, delta, value, next)
           /\ DOMAIN delta = DOMAIN invoices[i].lines
           /\ \A v \in DOMAIN delta : ReversalLine(i, v, key[v], delta[v], value[v], next[v])
  <1>1. PICK ls, rec : /\ ls = invoices[i].lines
                       /\ rec = [v \in DOMAIN ls |-> costLog[v][ReceiptRow(i, v)]]
    OBVIOUS
  <1>2. PICK key, delta, value, next :
           /\ key = [v \in DOMAIN ls |-> <<"purchase-reversal", i, v>>]
           /\ delta = [v \in DOMAIN ls |-> -ls[v].qty]
           /\ value = [v \in DOMAIN ls |-> -rec[v].value]
           /\ next = [v \in DOMAIN ls |-> rec[v].costBefore]
    OBVIOUS
  <1>3. Post("purchase_reversal", key, delta, value, next)
    <2>1. PostReversal(i, ls)
      BY <1>1 DEF ReverseReceipt
    <2>. QED
      BY <1>1, <1>2, <2>1 DEF PostReversal
  <1>4. DOMAIN delta = DOMAIN ls
    BY <1>2
  <1>5. ASSUME NEW v \in DOMAIN ls
        PROVE  ReversalLine(i, v, key[v], delta[v], value[v], next[v])
    <2>1. NothingDownstream(i, v)
      BY <1>1 DEF ReverseReceipt
    <2>2. /\ key[v] = <<"purchase-reversal", i, v>> /\ delta[v] = -invoices[i].lines[v].qty
          /\ value[v] = -costLog[v][ReceiptRow(i, v)].value
          /\ next[v] = costLog[v][ReceiptRow(i, v)].costBefore
      BY <1>1, <1>2
    <2>3. CostFunctionAccepts(v, Global(v), delta[v])
      BY <1>3, <1>4 DEF Post
    <2>4. CostFunctionAccepts(v, Global(v), -invoices[i].lines[v].qty)
      BY <2>2, <2>3
    <2>5. v \in DOMAIN invoices[i].lines
      BY <1>1
    <2>6. ReversalLine(i, v, <<"purchase-reversal", i, v>>, -invoices[i].lines[v].qty,
                       -costLog[v][ReceiptRow(i, v)].value,
                       costLog[v][ReceiptRow(i, v)].costBefore)
      BY <2>1, <2>4, <2>5, ReversalLineIs
    <2>. QED
      BY <2>2, <2>6
  <1>6. DOMAIN delta = DOMAIN invoices[i].lines
    BY <1>1, <1>4
  <1>. QED
    BY <1>3, <1>4, <1>5, <1>6

\* The receipt of a variant and its reversal, next to each other in both ledgers.
Undone(cl, sl, i, v) ==
    \E n \in DOMAIN cl, m \in DOMAIN sl :
      /\ n > 1 /\ m > 1
      /\ sl[m] = <<"purchase-reversal", i, v>>
      /\ sl[m - 1] = <<"purchase", i, v>>
      /\ cl[n].key = <<"purchase-reversal", i, v>>
      /\ cl[n - 1].key = <<"purchase", i, v>>
      /\ cl[n].after = cl[n - 1].before
      /\ cl[n].costAfter = cl[n - 1].costBefore
      /\ cl[n].rounding = -cl[n - 1].rounding

\* A receipt undone in two ledgers is undone in longer ones.
LEMMA UndoneKept ==
  ASSUME NEW cl, NEW sl, IsLog(cl), IsLog(sl), NEW i, NEW v, Undone(cl, sl, i, v),
         NEW cn, NEW sn, Prefix(cl, cn), Prefix(sl, sn)
  PROVE  Undone(cn, sn, i, v)
  <1>1. PICK n \in DOMAIN cl, m \in DOMAIN sl :
           /\ n > 1 /\ m > 1
           /\ sl[m] = <<"purchase-reversal", i, v>>
           /\ sl[m - 1] = <<"purchase", i, v>>
           /\ cl[n].key = <<"purchase-reversal", i, v>>
           /\ cl[n - 1].key = <<"purchase", i, v>>
           /\ cl[n].after = cl[n - 1].before
           /\ cl[n].costAfter = cl[n - 1].costBefore
           /\ cl[n].rounding = -cl[n - 1].rounding
    BY DEF Undone
  <1>2. n - 1 \in DOMAIN cl /\ m - 1 \in DOMAIN sl
    BY <1>1, LogIs
  <1>3. /\ n \in DOMAIN cn /\ m \in DOMAIN sn /\ cn[n] = cl[n] /\ sn[m] = sl[m]
        /\ cn[n - 1] = cl[n - 1] /\ sn[m - 1] = sl[m - 1]
    BY <1>2 DEF Prefix
  <1>. QED
    BY <1>1, <1>3 DEF Undone

\* ReversalUndoesReceipt, in terms of Undone.
LEMMA ReversalIs ==
  ReversalUndoesReceipt <=>
    \A i \in DOMAIN invoices : invoices[i].status = "reversed" =>
        /\ \A r \in DOMAIN returns : returns[r].invoice # i
        /\ \A v \in DOMAIN invoices[i].lines : Undone(costLog[v], stockLog[v], i, v)
  BY DEF ReversalUndoesReceipt, Undone

\* A reversal keeps the ledgers sound, undoes its receipt line by line, and finds no
\* return of it: one would have been a later movement.
LEMMA LedgerReverse ==
  ASSUME BooksInv, LedgerInv, NEW i \in DOMAIN invoices, NEW c, ReverseReceipt(i, c)
  PROVE  /\ LedgerInv' /\ Grown
         /\ \A v \in DOMAIN invoices[i].lines : Undone(costLog'[v], stockLog'[v], i, v)
         /\ \A r \in DOMAIN returns : returns[r].invoice # i
  <1>1. LedgerTypes /\ Ledgers /\ SentBack /\ InvoicesOk /\ ReturnsOk
    BY DEF LedgerInv, BooksInv
  <1>2. PICK key, delta, value, next :
             /\ Post("purchase_reversal", key, delta, value, next)
             /\ DOMAIN delta = DOMAIN invoices[i].lines
             /\ \A v \in DOMAIN delta : ReversalLine(i, v, key[v], delta[v], value[v], next[v])
    BY ReversalPosts
  <1>3. LedgerInv' /\ Grown
    <2>1. \A v \in DOMAIN delta :
              /\ delta[v] \in Int /\ value[v] \in Int /\ next[v] \in Nat
              /\ RowOk(Row("purchase_reversal", key[v], stock[v] + elsewhere[v], delta[v],
                           value[v], cost[v], next[v]))
              /\ v \in Variants /\ key[v] = <<"purchase-reversal", i, v>>
      BY <1>2 DEF ReversalLine
    <2>2. \A v \in DOMAIN delta : key[v][1] # "purchase"
      BY <2>1, KeyHeads
    <2>3. /\ returns' = returns /\ elsewhere' = elsewhere /\ soldAt' \in [Variants -> Seq(Nat)]
      BY <1>1 DEF ReverseReceipt, LedgerTypes
    <2>4. \A j \in DOMAIN invoices : j \in DOMAIN invoices' /\ invoices'[j].lines = invoices[j].lines
      BY <1>1, ReverseWrites
    <2>5. \A r \in DOMAIN returns' : \A v \in DOMAIN returns'[r].qty :
              v \in DOMAIN delta \/ (r \in DOMAIN returns /\ returns'[r] = returns[r])
      BY <2>3
    <2>6. Post("purchase_reversal", key, delta, value, next) /\ DOMAIN delta \subseteq Variants
      BY <1>2, <2>1
    <2>. QED
      BY <2>1, <2>2, <2>3, <2>4, <2>5, <2>6, OtherPosting
  <1>4. ASSUME NEW v \in DOMAIN invoices[i].lines PROVE Undone(costLog'[v], stockLog'[v], i, v)
    <2>1. PICK log, sl, receipt, row :
             /\ log = costLog[v] /\ sl = stockLog[v] /\ receipt = log[Len(log)]
             /\ row = Row("purchase_reversal", key[v], stock[v] + elsewhere[v], delta[v],
                          value[v], cost[v], next[v])
      OBVIOUS
    <2>2. /\ v \in Variants /\ log # <<>> /\ v \in DOMAIN delta
          /\ key[v] = <<"purchase-reversal", i, v>>
          /\ receipt.key = <<"purchase", i, v>>
          /\ row.key = key[v]
          /\ row.after = receipt.before /\ row.costAfter = receipt.costBefore
          /\ row.rounding = -receipt.rounding
      BY <1>2, <2>1 DEF ReversalLine
    <2>3. PostedTo(v, "purchase_reversal", key[v], delta[v], value[v], next[v])
      BY <1>1, <1>2, <2>2, PostEffect
    <2>4. costLog'[v] = Append(log, row) /\ stockLog'[v] = Append(sl, key[v])
      BY <2>1, <2>2, <2>3 DEF PostedTo
    <2>5. IsLog(log) /\ IsLog(sl) /\ sl # <<>>
      BY <1>1, <2>1, <2>2 DEF Ledgers, ChainOk
    <2>6. PICK n, m : n = Len(log) + 1 /\ m = Len(sl) + 1
      OBVIOUS
    <2>7. /\ n \in DOMAIN costLog'[v] /\ n > 1 /\ costLog'[v][n] = row
          /\ costLog'[v][n - 1] = receipt
      <3>1. /\ Len(log) \in Nat /\ Len(log) # 0 /\ DOMAIN Append(log, row) = 1 .. Len(log) + 1
            /\ \A k \in 1 .. Len(log) : Append(log, row)[k] = log[k]
            /\ Append(log, row)[Len(log) + 1] = row
        BY <2>2, <2>5, LogAppend, LogIs
      <3>. QED
        BY <2>1, <2>4, <2>6, <3>1
    <2>8. /\ m \in DOMAIN stockLog'[v] /\ m > 1 /\ stockLog'[v][m] = key[v]
          /\ stockLog'[v][m - 1] = sl[Len(sl)]
      <3>1. /\ Len(sl) \in Nat /\ Len(sl) # 0 /\ DOMAIN Append(sl, key[v]) = 1 .. Len(sl) + 1
            /\ \A k \in 1 .. Len(sl) : Append(sl, key[v])[k] = sl[k]
            /\ Append(sl, key[v])[Len(sl) + 1] = key[v]
        BY <2>5, LogAppend, LogIs
      <3>. QED
        BY <2>4, <2>6, <3>1
    <2>9. sl[Len(sl)] = <<"purchase", i, v>>
      <3>1. NothingDownstream(i, v)
        BY DEF ReverseReceipt
      <3>. QED
        BY <2>1, <3>1 DEF NothingDownstream, Last
    <2>. QED
      BY <2>2, <2>7, <2>8, <2>9 DEF Undone
  <1>5. ASSUME NEW r \in DOMAIN returns, returns[r].invoice = i PROVE FALSE
    <2>1. PICK v \in DOMAIN returns[r].qty : v \in DOMAIN invoices[i].lines
      BY <1>1, <1>5 DEF ReturnsOk, ReturnOk
    <2>2. NothingDownstream(i, v)
      BY <2>1 DEF ReverseReceipt
    <2>3. Last(stockLog[v]) = <<"purchase", i, v>>
      BY <2>2 DEF NothingDownstream
    <2>. QED
      BY <1>1, <1>5, <2>3 DEF SentBack
  <1>. QED
    BY <1>3, <1>4, <1>5

\* A sale or a shipment: the cost ledger stays, and one movement of another kind is
\* added to the ledger of stock.
LEMMA OtherMovement ==
  ASSUME BooksInv, LedgerInv, NEW u \in Variants, NEW k, k[1] # "purchase",
         stock' \in [Variants -> Int], elsewhere' \in [Variants -> Int],
         soldAt' \in [Variants -> Seq(Nat)],
         stockLog' = [stockLog EXCEPT ![u] = Append(@, k)],
         invoices' = invoices, returns' = returns, cost' = cost, costLog' = costLog
  PROVE  LedgerInv' /\ Grown
  <1>1. LedgerTypes /\ Ledgers /\ SentBack
    BY DEF LedgerInv
  <1>2. /\ DOMAIN stockLog' = Variants /\ stockLog'[u] = Append(stockLog[u], k)
        /\ \A v \in Variants \ {u} : stockLog'[v] = stockLog[v]
    BY <1>1 DEF LedgerTypes
  <1>3. IsLog(stockLog[u])
    BY <1>1 DEF Ledgers
  <1>4. ASSUME NEW v \in Variants
        PROVE  /\ IsLog(stockLog'[v]) /\ stockLog'[v] # <<>> /\ Prefix(stockLog[v], stockLog'[v])
               /\ Prefix(costLog[v], costLog'[v])
    <2>1. CASE v = u
      <3>1. IsLog(stockLog'[v]) /\ stockLog'[v] # <<>>
        <4>1. IsLog(Append(stockLog[u], k)) /\ Append(stockLog[u], k) # <<>>
          BY <1>3, LogAppend
        <4>. QED
          BY <1>2, <2>1, <4>1
      <3>2. Prefix(stockLog[u], stockLog[u])
        BY PrefixSelf
      <3>3. Prefix(stockLog[u], Append(stockLog[u], k))
        BY <1>3, <3>2, PrefixAppend
      <3>. QED
        BY <1>2, <2>1, <3>1, <3>3, PrefixSelf
    <2>2. CASE v # u
      <3>1. stockLog'[v] = stockLog[v] /\ IsLog(stockLog[v]) /\ stockLog[v] # <<>>
        BY <1>1, <1>2, <2>2 DEF Ledgers
      <3>. QED
        BY <3>1, PrefixSelf
    <2>. QED
      BY <2>1, <2>2
  <1>5. LedgerTypes'
    BY <1>1, <1>2 DEF LedgerTypes
  <1>6. Ledgers'
    BY <1>1, <1>4 DEF Ledgers
  <1>7. SentBack'
    <2> SUFFICES ASSUME NEW r \in DOMAIN returns, NEW v \in DOMAIN returns[r].qty
                 PROVE  Last(stockLog'[v]) # <<"purchase", returns[r].invoice, v>>
      BY DEF SentBack
    <2>1. v \in Variants
      BY ReturnVariants
    <2>2. CASE v = u
      BY <1>2, <1>3, <2>2, LastIsOther
    <2>3. CASE v # u
      BY <1>1, <1>2, <2>1, <2>3 DEF SentBack
    <2>. QED
      BY <2>2, <2>3
  <1>. QED
    BY <1>4, <1>5, <1>6, <1>7 DEF LedgerInv, Grown

\* A sale keeps the ledgers sound.
LEMMA LedgerSell ==
  ASSUME BooksInv, LedgerInv, NEW u \in Variants, Sell(u)
  PROVE  LedgerInv' /\ Grown
  <1>1. LedgerTypes
    BY DEF LedgerInv
  <1>2. PICK k : k = <<"sale", steps>>
    OBVIOUS
  <1>3. k[1] # "purchase"
    BY <1>2, KeyHeads
  <1>4. /\ stock' = [stock EXCEPT ![u] = @ - 1] /\ elsewhere' = elsewhere
        /\ stockLog' = [stockLog EXCEPT ![u] = Append(@, k)]
        /\ soldAt' = [soldAt EXCEPT ![u] = Append(@, cost[u])]
        /\ invoices' = invoices /\ returns' = returns /\ cost' = cost /\ costLog' = costLog
    BY <1>2 DEF Sell
  <1>5. stock' \in [Variants -> Int] /\ elsewhere' \in [Variants -> Int]
    BY <1>1, <1>4 DEF LedgerTypes
  <1>6. soldAt' \in [Variants -> Seq(Nat)]
    BY <1>1, <1>4 DEF LedgerTypes
  <1>. QED
    BY <1>3, <1>4, <1>5, <1>6, OtherMovement

\* A shipment keeps the ledgers sound.
LEMMA LedgerShip ==
  ASSUME BooksInv, LedgerInv, NEW u \in Variants, Ship(u)
  PROVE  LedgerInv' /\ Grown
  <1>1. LedgerTypes
    BY DEF LedgerInv
  <1>2. PICK k : k = <<"transfer_out", steps>>
    OBVIOUS
  <1>3. k[1] # "purchase"
    BY <1>2, KeyHeads
  <1>4. /\ stock' = [stock EXCEPT ![u] = @ - 1] /\ elsewhere' = [elsewhere EXCEPT ![u] = @ + 1]
        /\ stockLog' = [stockLog EXCEPT ![u] = Append(@, k)] /\ soldAt' = soldAt
        /\ invoices' = invoices /\ returns' = returns /\ cost' = cost /\ costLog' = costLog
    BY <1>2 DEF Ship
  <1>5. stock' \in [Variants -> Int] /\ elsewhere' \in [Variants -> Int]
    BY <1>1, <1>4 DEF LedgerTypes
  <1>6. soldAt' \in [Variants -> Seq(Nat)]
    BY <1>1, <1>4 DEF LedgerTypes
  <1>. QED
    BY <1>3, <1>4, <1>5, <1>6, OtherMovement

\* Every step keeps the ledgers sound, and only adds to them.
LEMMA LedgerStep ==
  ASSUME BooksInv, LedgerInv, [PurNext]_purVars
  PROVE  LedgerInv' /\ Grown
  <1>1. CASE \E p \in Papers, c \in Commands \cup {NoCommand} : Receive(p, c)
    BY <1>1, LedgerReceive
  <1>2. CASE \E i \in DOMAIN invoices : \E q \in Requests(i), c \in Commands :
                ReturnToSupplier(i, q, c)
    BY <1>2, LedgerReturn
  <1>3. CASE \E i \in DOMAIN invoices, c \in Commands : ReverseReceipt(i, c)
    BY <1>3, LedgerReverse
  <1>4. CASE \E v \in Variants : Sell(v) \/ CustomerReturn(v) \/ Ship(v)
    BY <1>4, LedgerSell, LedgerCustomerReturn, LedgerShip
  <1>5. CASE UNCHANGED <<invoices, returns, stock, elsewhere, cost, costLog, stockLog, soldAt>>
    <2>1. LedgerInv'
      BY <1>5 DEF LedgerInv, LedgerTypes, Ledgers, SentBack
    <2>2. Grown
      BY <1>5, PrefixSelf DEF Grown
    <2>. QED
      BY <2>1, <2>2
  <1>. QED
    BY <1>1, <1>2, <1>3, <1>4, <1>5, PurSteps

\* What was reversed stays undone while the ledgers only grow.
LEMMA ReversedKept ==
  ASSUME BooksInv, LedgerInv, Grown, NEW i \in DOMAIN invoices,
         \A v \in DOMAIN invoices[i].lines : Undone(costLog[v], stockLog[v], i, v)
  PROVE  \A v \in DOMAIN invoices[i].lines : Undone(costLog'[v], stockLog'[v], i, v)
  <1> SUFFICES ASSUME NEW v \in DOMAIN invoices[i].lines
               PROVE  Undone(costLog'[v], stockLog'[v], i, v)
    OBVIOUS
  <1>1. v \in Variants
    BY DEF BooksInv, InvoicesOk, InvoiceOk
  <1>2. IsLog(costLog[v]) /\ IsLog(stockLog[v])
    BY <1>1 DEF LedgerInv, Ledgers, ChainOk
  <1>3. Prefix(costLog[v], costLog'[v]) /\ Prefix(stockLog[v], stockLog'[v])
    BY <1>1 DEF Grown
  <1>4. Undone(costLog[v], stockLog[v], i, v)
    OBVIOUS
  <1>. QED
    BY <1>2, <1>3, <1>4, UndoneKept

\* The same invoices, and no return of one that is reversed: what was undone stays.
LEMMA ReversalsKept ==
  ASSUME BooksInv, LedgerInv, Grown, ReversalUndoesReceipt,
         \A i \in DOMAIN invoices' : invoices'[i].status = "reversed" =>
            /\ i \in DOMAIN invoices /\ invoices'[i].lines = invoices[i].lines
            /\ \/ invoices[i].status = "reversed"
               \/ /\ \A r \in DOMAIN returns : returns[r].invoice # i
                  /\ \A v \in DOMAIN invoices[i].lines : Undone(costLog'[v], stockLog'[v], i, v),
         \A r \in DOMAIN returns' :
            \/ r \in DOMAIN returns /\ returns'[r] = returns[r]
            \/ invoices'[returns'[r].invoice].status # "reversed"
  PROVE  ReversalUndoesReceipt'
  <1>1. ASSUME NEW i \in DOMAIN invoices', invoices'[i].status = "reversed"
        PROVE  /\ \A r \in DOMAIN returns' : returns'[r].invoice # i
               /\ \A v \in DOMAIN invoices'[i].lines : Undone(costLog'[v], stockLog'[v], i, v)
    <2>1. i \in DOMAIN invoices /\ invoices'[i].lines = invoices[i].lines
      BY <1>1
    <2>2. /\ \A r \in DOMAIN returns : returns[r].invoice # i
          /\ \A v \in DOMAIN invoices[i].lines : Undone(costLog'[v], stockLog'[v], i, v)
      <3>1. CASE invoices[i].status = "reversed"
        <4>1. /\ \A r \in DOMAIN returns : returns[r].invoice # i
              /\ \A v \in DOMAIN invoices[i].lines : Undone(costLog[v], stockLog[v], i, v)
          BY <2>1, <3>1, ReversalIs
        <4>. QED
          BY <2>1, <4>1, ReversedKept
      <3>2. CASE invoices[i].status # "reversed"
        BY <1>1, <3>2
      <3>. QED
        BY <3>1, <3>2
    <2>3. \A r \in DOMAIN returns' : returns'[r].invoice # i
      BY <1>1, <2>2
    <2>. QED
      BY <2>1, <2>2, <2>3
  <1>. QED
    BY <1>1 DEF ReversalUndoesReceipt, Undone

\* Every step keeps reversed receipts undone.
LEMMA ReversalStep ==
  ASSUME BooksInv, LedgerInv, ReversalUndoesReceipt, [PurNext]_purVars
  PROVE  ReversalUndoesReceipt'
  <1>1. Grown
    BY LedgerStep
  <1>2. InvoicesOk /\ ReturnsOk
    BY DEF BooksInv
  <1>3. ASSUME NEW p \in Papers, NEW c, Receive(p, c) PROVE ReversalUndoesReceipt'
    <2>1. PICK x, n :
             /\ n \notin DOMAIN invoices /\ DOMAIN invoices' = DOMAIN invoices \cup {n}
             /\ invoices'[n] = x /\ \A i \in DOMAIN invoices : invoices'[i] = invoices[i]
             /\ x.status = "posted"
      BY ZenonT(30), <1>2, <1>3, ReceiveAppends
    <2>2. returns' = returns
      BY <1>3 DEF Receive
    <2>3. \A i \in DOMAIN invoices' : invoices'[i].status = "reversed" =>
             /\ i \in DOMAIN invoices /\ invoices'[i].lines = invoices[i].lines
             /\ invoices[i].status = "reversed"
      BY <2>1
    <2>. QED
      BY <1>1, <2>2, <2>3, ReversalsKept
  <1>4. ASSUME NEW i \in DOMAIN invoices, NEW q \in Requests(i), NEW c, ReturnToSupplier(i, q, c)
        PROVE  ReversalUndoesReceipt'
    <2>1. PICK x : returns' = Append(returns, x) /\ x.invoice = i
      BY <1>4, ReturnAppends
    <2>2. invoices' = invoices /\ invoices[i].status = "posted"
      BY <1>4 DEF ReturnToSupplier, SupplierReturnAccepted
    <2>3. \A r \in DOMAIN returns' :
              \/ r \in DOMAIN returns /\ returns'[r] = returns[r]
              \/ invoices'[returns'[r].invoice].status # "reversed"
      <3>1. PICK n : n = Len(returns) + 1
        OBVIOUS
      <3>2. /\ n \in Nat /\ DOMAIN returns = 1 .. n - 1 /\ DOMAIN returns' = 1 .. n
            /\ returns'[n] = x /\ \A r \in DOMAIN returns : returns'[r] = returns[r]
        BY <1>2, <2>1, <3>1, LogAppend DEF ReturnsOk
      <3>3. invoices'[returns'[n].invoice].status # "reversed"
        BY <2>1, <2>2, <3>2
      <3>. QED
        BY <3>2, <3>3
    <2>4. \A j \in DOMAIN invoices' : invoices'[j].status = "reversed" =>
             /\ j \in DOMAIN invoices /\ invoices'[j].lines = invoices[j].lines
             /\ invoices[j].status = "reversed"
      BY <2>2
    <2>. QED
      BY <1>1, <2>3, <2>4, ReversalsKept
  <1>5. ASSUME NEW i \in DOMAIN invoices, NEW c, ReverseReceipt(i, c) PROVE ReversalUndoesReceipt'
    <2>1. /\ \A v \in DOMAIN invoices[i].lines : Undone(costLog'[v], stockLog'[v], i, v)
          /\ \A r \in DOMAIN returns : returns[r].invoice # i
      BY <1>5, LedgerReverse
    <2>2. /\ DOMAIN invoices' = DOMAIN invoices
          /\ \A j \in DOMAIN invoices : /\ invoices'[j].lines = invoices[j].lines
                                        /\ j # i => invoices'[j] = invoices[j]
      BY <1>2, <1>5, ReverseWrites
    <2>3. returns' = returns
      BY <1>5 DEF ReverseReceipt
    <2>4. \A j \in DOMAIN invoices' : invoices'[j].status = "reversed" =>
              /\ j \in DOMAIN invoices /\ invoices'[j].lines = invoices[j].lines
              /\ \/ invoices[j].status = "reversed"
                 \/ /\ \A r \in DOMAIN returns : returns[r].invoice # j
                    /\ \A v \in DOMAIN invoices[j].lines : Undone(costLog'[v], stockLog'[v], j, v)
      BY <2>1, <2>2
    <2>5. \A r \in DOMAIN returns' :
              \/ r \in DOMAIN returns /\ returns'[r] = returns[r]
              \/ invoices'[returns'[r].invoice].status # "reversed"
      BY <2>3
    <2>. QED
      BY <1>1, <2>4, <2>5, ReversalsKept
  <1>6. ASSUME invoices' = invoices, returns' = returns PROVE ReversalUndoesReceipt'
    BY <1>1, <1>6, ReversalsKept
  <1>7. CASE \E v \in Variants : Sell(v) \/ CustomerReturn(v) \/ Ship(v)
    <2>1. invoices' = invoices /\ returns' = returns
      BY <1>7 DEF Sell, CustomerReturn, Ship
    <2>. QED
      BY <1>6, <2>1
  <1>8. CASE UNCHANGED <<invoices, returns, stock, elsewhere, cost, costLog, stockLog, soldAt>>
    BY <1>6, <1>8
  <1>. QED
    BY <1>3, <1>4, <1>5, <1>7, <1>8, PurSteps

\* Sound ledgers are what CostLedgerSound asks for.
LEMMA LedgerSafe == LedgerInv => CostLedgerSound
  <1> SUFFICES ASSUME LedgerInv, NEW v \in Variants
               PROVE  /\ HasLedger(v) => Reconciled(v)
                      /\ \A n \in DOMAIN costLog[v] :
                           /\ n > 1 => costLog[v][n].costBefore = costLog[v][n - 1].costAfter
                           /\ costLog[v][n].costAfter >= 0
                           /\ costLog[v][n].before >= 0 /\ costLog[v][n].after >= 0 =>
                                2 * costLog[v][n].rounding
                                  \in -Max({costLog[v][n].before, costLog[v][n].after})
                                        .. Max({costLog[v][n].before, costLog[v][n].after})
    BY DEF CostLedgerSound
  <1>1. ChainOk(costLog[v], cost[v])
    BY DEF LedgerInv, Ledgers
  <1>2. HasLedger(v) => Reconciled(v)
    BY <1>1 DEF ChainOk, HasLedger, Reconciled, Latest
  <1>3. ASSUME NEW n \in DOMAIN costLog[v]
        PROVE  /\ n > 1 => costLog[v][n].costBefore = costLog[v][n - 1].costAfter
               /\ RowOk(costLog[v][n])
    BY <1>1 DEF ChainOk
  <1>4. ASSUME NEW n \in DOMAIN costLog[v]
        PROVE  /\ costLog[v][n].costAfter >= 0
               /\ costLog[v][n].before >= 0 /\ costLog[v][n].after >= 0 =>
                    2 * costLog[v][n].rounding
                      \in -Max({costLog[v][n].before, costLog[v][n].after})
                            .. Max({costLog[v][n].before, costLog[v][n].after})
    <2>1. PICK row : row = costLog[v][n]
      OBVIOUS
    <2>2. RowOk(row)
      BY <1>3, <2>1
    <2>3. /\ row.costAfter >= 0
          /\ row.before >= 0 /\ row.after >= 0 =>
               2 * row.rounding \in -Max({row.before, row.after}) .. Max({row.before, row.after})
      BY <2>2 DEF RowOk
    <2>. QED
      BY <2>1, <2>3
  <1>. QED
    BY <1>2, <1>3, <1>4

\* Nothing is reversed before the first step.
LEMMA ReversalInit == PurInit => ReversalUndoesReceipt
  <1> SUFFICES ASSUME PurInit, NEW i \in DOMAIN invoices
               PROVE  invoices[i].status # "reversed"
    BY DEF ReversalUndoesReceipt
  <1>1. invoices[i].status = "posted"
    BY DEF PurInit, Invoice
  <1>. QED
    BY <1>1

\* Along every behaviour of purchasing a receipt is booked once, the cents add up, a
\* reversal undoes its receipt and the cost ledger is sound.
THEOREM PurSafe ==
  PurSpec => []((ReceiptBookedOnce /\ CentsExact) /\ (ReversalUndoesReceipt /\ CostLedgerSound))
  <1> DEFINE PurInv == BooksInv /\ LedgerInv /\ ReversalUndoesReceipt
  <1>1. PurInit => PurInv
    BY BooksInit, LedgerInit, ReversalInit
  <1>2. PurInv /\ [PurNext]_purVars => PurInv'
    BY BooksStep, LedgerStep, ReversalStep
  <1>3. PurInv => (ReceiptBookedOnce /\ CentsExact) /\ (ReversalUndoesReceipt /\ CostLedgerSound)
    BY BooksSafe, LedgerSafe
  <1>. QED
    BY <1>1, <1>2, <1>3, PTL DEF PurSpec

(***************************************************************************)
(* The arithmetic of a quote: Quotes.                                      *)
(***************************************************************************)

\* The quotes on their own.
QtSpec == QtInit /\ [][QtNext]_qtVars

\* The levels in the order quote walks them, and the place of each.
LEMMA LevelRanks ==
  /\ \A i \in 1 .. 5 : ScopePriority[i] \in Levels /\ Rank(ScopePriority[i]) = i
  /\ \A l \in Levels : Rank(l) \in 1 .. 5 /\ ScopePriority[Rank(l)] = l
  /\ Len(ScopePriority) = 5
  <1>1. /\ ScopePriority[1] = "variant" /\ ScopePriority[2] = "product"
        /\ ScopePriority[3] = "brand" /\ ScopePriority[4] = "category"
        /\ ScopePriority[5] = "global" /\ Len(ScopePriority) = 5
    BY DEF ScopePriority
  <1>2. \A i \in 1 .. 5 : i = 1 \/ i = 2 \/ i = 3 \/ i = 4 \/ i = 5
    OBVIOUS
  <1>3. \A i, j \in 1 .. 5 : ScopePriority[i] = ScopePriority[j] => i = j
    BY <1>1, <1>2
  <1>4. \A l \in Levels : \E i \in 1 .. 5 : ScopePriority[i] = l
    BY <1>1 DEF Levels
  <1>5. \A i \in 1 .. 5 : ScopePriority[i] \in Levels
    BY <1>1, <1>2 DEF Levels
  <1>6. \A l \in Levels : Rank(l) \in 1 .. 5 /\ ScopePriority[Rank(l)] = l
    BY <1>4 DEF Rank
  <1>7. \A i \in 1 .. 5 : Rank(ScopePriority[i]) = i
    BY <1>3, <1>5, <1>6
  <1>. QED
    BY <1>1, <1>5, <1>6, <1>7

\* What QuoteIsBest says of one set of entries.
IsBest(es, levels, qty) ==
    LET fits == {e \in es : e.level \in levels /\ e.minQty <= qty}
    IN Winner(es, levels, qty) = {e \in fits : ~\E f \in fits : Beats(f, e)}

\* The walk of quote over the levels ends at an entry that no other beats.
LEMMA WinnerIsBest ==
  ASSUME NEW es, \A e \in es : e.level \in Levels /\ e.minQty \in Int,
         NEW levels, NEW qty \in Int
  PROVE  IsBest(es, levels, qty)
  <1> DEFINE fits == {e \in es : e.level \in levels /\ e.minQty <= qty}
             best == {e \in fits : ~\E f \in fits : Beats(f, e)}
             C(i) == Candidates(es, levels, qty, ScopePriority[i])
             I == {i \in 1 .. 5 : C(i) # {}}
  <1>1. Winner(es, levels, qty) = IF I = {} THEN {} ELSE Tightest(C(Min(I)))
    <2>1. SelectInSeq(ScopePriority, LAMBDA l : Candidates(es, levels, qty, l) # {})
            = IF I # {} THEN Min(I) ELSE 0
      BY LevelRanks DEF SelectInSeq
    <2>2. I # {} => Min(I) \in 1 .. 5
      <3>1. I \in SUBSET (1 .. 5) /\ 5 \in Nat
        OBVIOUS
      <3> HIDE DEF I
      <3>. QED
        BY <3>1, FirstPosition
    <2> HIDE DEF I
    <2>. QED
      BY <2>1, <2>2 DEF Winner
  <1>2. \A e \in fits : Rank(e.level) \in 1 .. 5 /\ e \in C(Rank(e.level))
    BY LevelRanks DEF Candidates
  <1>3. \A i \in 1 .. 5 : \A e \in C(i) : e \in fits /\ Rank(e.level) = i /\ e.level = ScopePriority[i]
    BY LevelRanks DEF Candidates
  <1>4. \A i \in 1 .. 5 : C(i) # {} => i \in I
    OBVIOUS
  <1>5. I \in SUBSET (1 .. 5) /\ \A i \in I : C(i) # {}
    OBVIOUS
  <1>6. \A e \in fits : e.minQty \in Int /\ e.level \in Levels
    OBVIOUS
  <1> HIDE DEF C, I
  <1>7. CASE I = {}
    <2>1. fits = {}
      BY <1>2, <1>4, <1>7
    <2>2. Winner(es, levels, qty) = best
      BY <1>1, <1>7, <2>1
    <2>. QED
      BY <2>2 DEF IsBest, best, fits
  <1>8. CASE I # {}
    <2>1. PICK h : h = Min(I)
      OBVIOUS
    <2>2. h \in I /\ \A y \in I : h <= y
      <3>1. 5 \in Nat
        OBVIOUS
      <3>. QED
        BY <1>5, <1>8, <2>1, <3>1, FirstPosition
    <2>3. h \in 1 .. 5 /\ C(h) # {}
      BY <1>5, <2>2
    <2>4. \A e \in fits : h <= Rank(e.level)
      BY <1>2, <1>4, <2>2
    <2> HIDE DEF fits
    <2>5. ASSUME NEW e \in Tightest(C(h)) PROVE e \in best
      <3>1. e \in C(h) /\ \A f \in C(h) : f.minQty <= e.minQty
        BY <2>5 DEF Tightest
      <3>2. e \in fits /\ Rank(e.level) = h /\ e.level = ScopePriority[h]
        BY <1>3, <2>3, <3>1
      <3>3. ASSUME NEW f \in fits, Beats(f, e) PROVE FALSE
        <4>1. Rank(f.level) \in 1 .. 5 /\ h <= Rank(f.level)
          BY <1>2, <2>4
        <4>2. ~(Rank(f.level) < Rank(e.level))
          BY <2>3, <3>2, <4>1
        <4>3. f.level = e.level /\ f.minQty > e.minQty
          BY <3>3, <4>2 DEF Beats
        <4>4. f \in C(h)
          BY <1>2, <3>2, <4>3
        <4>5. f.minQty <= e.minQty
          BY <3>1, <4>4
        <4>. QED
          BY <1>6, <3>2, <4>3, <4>5
      <3>. QED
        BY <3>2, <3>3
    <2>6. ASSUME NEW e \in best PROVE e \in Tightest(C(h))
      <3>1. e \in fits /\ ~\E f \in fits : Beats(f, e)
        OBVIOUS
      <3>2. PICK c \in C(h) : TRUE
        BY <2>3
      <3>3. c \in fits /\ Rank(c.level) = h
        BY <1>3, <2>3
      <3>4. ~(h < Rank(e.level))
        BY <3>1, <3>3 DEF Beats
      <3>5. Rank(e.level) = h
        BY <1>2, <2>3, <2>4, <3>1, <3>4
      <3>6. e \in C(h)
        BY <1>2, <3>1, <3>5
      <3>7. ASSUME NEW f \in C(h) PROVE f.minQty <= e.minQty
        <4>1. f \in fits /\ f.level = ScopePriority[h] /\ e.level = ScopePriority[h]
          BY <1>3, <2>3, <3>6
        <4>2. ~(f.minQty > e.minQty)
          BY <3>1, <4>1 DEF Beats
        <4>. QED
          BY <1>6, <3>1, <4>1, <4>2
      <3>. QED
        BY <3>6, <3>7 DEF Tightest
    <2>7. Tightest(C(h)) = best
      <3> HIDE DEF best
      <3>. QED
        BY <2>5, <2>6
    <2>8. Winner(es, levels, qty) = Tightest(C(h))
      BY <1>1, <1>8, <2>1
    <2> HIDE DEF best
    <2>9. Winner(es, levels, qty) = best
      BY <2>7, <2>8
    <2>. QED
      BY <2>9 DEF IsBest, best, fits
  <1>. QED
    BY <1>7, <1>8

\* evaluate shows the first eligible promotion.
LEMMA FirstEligible ==
  ASSUME NEW ordered, Len(ordered) \in Nat, NEW line
  PROVE  LET fit == {i \in 1 .. Len(ordered) : Eligible(ordered[i], line)} IN
         Evaluate(ordered, line, FALSE)
            = {ordered[i] : i \in {x \in fit : \A y \in fit : x <= y}}
  <1> DEFINE fit == {i \in 1 .. Len(ordered) : Eligible(ordered[i], line)}
  <1>1. SelectInSeq(ordered, LAMBDA p : Eligible(p, line)) = IF fit # {} THEN Min(fit) ELSE 0
    BY DEF SelectInSeq
  <1>2. fit \in SUBSET (1 .. Len(ordered))
    OBVIOUS
  <1>3. \A x \in fit : x \in Nat \ {0}
    OBVIOUS
  <1> HIDE DEF fit
  <1>4. CASE fit = {}
    <2>1. Evaluate(ordered, line, FALSE) = {}
      BY <1>1, <1>4 DEF Evaluate
    <2>2. {ordered[i] : i \in {x \in fit : \A y \in fit : x <= y}} = {}
      BY <1>4
    <2>. QED
      BY <2>1, <2>2 DEF fit
  <1>5. CASE fit # {}
    <2>1. PICK m : m = Min(fit)
      OBVIOUS
    <2>2. m \in fit /\ \A y \in fit : m <= y
      BY <1>2, <1>5, <2>1, FirstPosition
    <2>3. {x \in fit : \A y \in fit : x <= y} = {m}
      <3>1. \A x \in fit : (\A y \in fit : x <= y) => x = m
        BY <1>3, <2>2
      <3>. QED
        BY <2>2, <3>1
    <2>4. Evaluate(ordered, line, FALSE) = {ordered[m]}
      BY <1>1, <1>3, <1>5, <2>1, <2>2 DEF Evaluate
    <2>5. {ordered[i] : i \in {x \in fit : \A y \in fit : x <= y}} = {ordered[m]}
      BY <2>3
    <2>. QED
      BY <2>4, <2>5 DEF fit
  <1>. QED
    BY <1>4, <1>5 DEF fit

\* money rounds to the nearest cent.
LEMMA CentsIs ==
  ASSUME NEW a \in Nat, NEW b \in Nat \ {0}
  PROVE  \E q \in Nat : /\ q = Cents(a, b)
                        /\ 2 * (b * q - a) <= b
                        /\ -b <= 2 * (b * q - a)
  <1>1. PICK m, n : m = 2 * a + b /\ n = 2 * b
    OBVIOUS
  <1>2. m \in Nat /\ n \in Nat \ {0}
    BY <1>1
  <1>3. PICK q \in Nat, r \in Nat : q = m \div n /\ r < n /\ m = n * q + r
    BY <1>2, DivMod
  <1>4. q = Cents(a, b)
    BY <1>1, <1>3 DEF Cents
  <1>5. PICK x \in Nat : x = b * q
    OBVIOUS
  <1>6. n * q = 2 * x
    BY <1>1, <1>5
  <1>7. 2 * a + b = 2 * x + r /\ r < 2 * b
    BY <1>1, <1>3, <1>6
  <1>8. 2 * (x - a) <= b /\ -b <= 2 * (x - a)
    BY <1>7
  <1>. QED
    BY <1>4, <1>5, <1>8

\* Twice a distance is bounded when the difference is, either way.
LEMMA AbsIs ==
  ASSUME NEW n \in Int, NEW m \in Int, 2 * n <= m, -m <= 2 * n
  PROVE  2 * Abs(n) <= m
  BY DEF Abs

\* The fields of a split.
SplitIs(t, net, tax, rate, exempt) ==
    /\ t.net = net /\ t.tax = tax /\ t.gross = net + tax
    /\ t.rate = rate /\ t.exempt = exempt

\* What TaxExact says of one amount, rate and mode.
SplitExact(a, r, mode, exempt) ==
    LET t == TaxSplit(a, r, mode, exempt)
        full == TaxSplit(a, r, mode, FALSE) IN
    /\ t.gross = t.net + t.tax /\ t.net = full.net
    /\ exempt => t.gross = full.gross - full.tax
    /\ ~exempt =>
          /\ mode = "inclusive" =>
                /\ t.gross = a
                /\ 2 * Abs(t.tax * (100 + r) - a * r) <= 100 + r
          /\ mode = "exclusive" => 2 * Abs(t.tax * 100 - a * r) <= 100
    /\ ~Recordable(t) => 2 * a * r <= 100 + r

\* A tax that is contained in the price.
LEMMA InclusiveExact ==
  ASSUME NEW a \in Nat, NEW r \in Nat, NEW exempt \in BOOLEAN
  PROVE  SplitExact(a, r, "inclusive", exempt)
  <1>1. PICK d : d = 100 + r
    OBVIOUS
  <1>2. PICK c : c = a * 100
    OBVIOUS
  <1>3. d \in Nat \ {0} /\ c \in Nat
    BY <1>1, <1>2
  <1>4. PICK q \in Nat : /\ q = Cents(c, d) /\ 2 * (d * q - c) <= d /\ -d <= 2 * (d * q - c)
    BY <1>3, CentsIs
  <1>5. q = InclusiveNet(a, r)
    BY <1>1, <1>2, <1>4 DEF InclusiveNet
  <1>6. /\ SplitIs(TaxSplit(a, r, "inclusive", FALSE), q, a - q, r, FALSE)
        /\ SplitIs(TaxSplit(a, r, "inclusive", TRUE), q, 0, 0, TRUE)
    <2>1. SplitIs(TaxSplit(a, r, "inclusive", FALSE), InclusiveNet(a, r),
                  a - InclusiveNet(a, r), r, FALSE)
      BY DEF TaxSplit, SplitIs
    <2>2. SplitIs(TaxSplit(a, r, "inclusive", TRUE), InclusiveNet(a, r), 0, 0, TRUE)
      BY DEF TaxSplit, SplitIs
    <2>. QED
      BY <1>5, <2>1, <2>2
  <1>7. PICK x \in Int : x = d * q
    BY <1>3
  <1>8. PICK y \in Nat : y = a * r
    OBVIOUS
  <1>9. (a - q) * (100 + r) - a * r = c - x
    BY <1>1, <1>2, <1>7
  <1>10. 2 * Abs((a - q) * (100 + r) - a * r) <= 100 + r
    <2>1. c - x \in Int /\ 2 * (c - x) <= d /\ -d <= 2 * (c - x)
      BY <1>3, <1>4, <1>7
    <2>2. 2 * Abs(c - x) <= d
      BY <1>3, <2>1, AbsIs
    <2>. QED
      BY <1>1, <1>9, <2>2
  <1>11. a - q = 0 => 2 * a * r <= 100 + r
    <2>1. c + y = d * a
      BY <1>1, <1>2, <1>8
    <2>2. a - q = 0 => x = c + y
      BY <1>7, <2>1
    <2>3. 2 * a * r = 2 * y
      BY <1>8
    <2>. QED
      BY <1>1, <1>3, <1>4, <1>7, <2>2, <2>3
  <1>12. CASE exempt = TRUE
    <2>1. PICK t : t = TaxSplit(a, r, "inclusive", TRUE)
      OBVIOUS
    <2>2. PICK full : full = TaxSplit(a, r, "inclusive", FALSE)
      OBVIOUS
    <2>3. /\ t.net = q /\ t.tax = 0 /\ t.gross = q + 0
          /\ full.net = q /\ full.tax = a - q /\ full.gross = q + (a - q)
      BY <1>6, <2>1, <2>2 DEF SplitIs
    <2>4. Recordable(t)
      <3>1. t.exempt = TRUE
        BY <1>6, <2>1 DEF SplitIs
      <3>. QED
        BY <3>1 DEF Recordable
    <2>5. t.gross = t.net + t.tax /\ t.net = full.net /\ t.gross = full.gross - full.tax
      BY <2>3
    <2>. QED
      BY <1>12, <2>1, <2>2, <2>4, <2>5 DEF SplitExact
  <1>13. CASE exempt = FALSE
    <2>1. PICK t : t = TaxSplit(a, r, "inclusive", FALSE)
      OBVIOUS
    <2>2. t.net = q /\ t.tax = a - q /\ t.gross = a
      <3>1. t.net = q /\ t.tax = a - q /\ t.gross = q + (a - q)
        BY <1>6, <2>1 DEF SplitIs
      <3>2. q + (a - q) = a
        OBVIOUS
      <3>. QED
        BY <3>1, <3>2
    <2>3. t.gross = t.net + t.tax
      BY <2>2
    <2>4. 2 * Abs(t.tax * (100 + r) - a * r) <= 100 + r
      BY <1>10, <2>2
    <2>5. ~Recordable(t) => 2 * a * r <= 100 + r
      BY <1>11, <2>2 DEF Recordable
    <2>. QED
      BY <1>13, <2>1, <2>2, <2>3, <2>4, <2>5 DEF SplitExact
  <1>. QED
    BY <1>12, <1>13

\* A tax that comes on top of the price.
LEMMA ExclusiveExact ==
  ASSUME NEW a \in Nat, NEW r \in Nat, NEW exempt \in BOOLEAN
  PROVE  SplitExact(a, r, "exclusive", exempt)
  <1>1. PICK y \in Nat : y = a * r
    OBVIOUS
  <1>2. PICK q \in Nat : /\ q = Cents(y, 100) /\ 2 * (100 * q - y) <= 100
                         /\ -100 <= 2 * (100 * q - y)
    <2>1. 100 \in Nat \ {0}
      OBVIOUS
    <2>. QED
      BY <2>1, CentsIs
  <1>3. /\ SplitIs(TaxSplit(a, r, "exclusive", FALSE), a, q, r, FALSE)
        /\ SplitIs(TaxSplit(a, r, "exclusive", TRUE), a, 0, 0, TRUE)
    BY <1>1, <1>2 DEF TaxSplit, SplitIs
  <1>4. 2 * Abs(q * 100 - a * r) <= 100
    <2>1. q * 100 - y \in Int /\ 2 * (q * 100 - y) <= 100 /\ -100 <= 2 * (q * 100 - y)
      BY <1>2
    <2>. QED
      BY <1>1, <2>1, AbsIs
  <1>5. q = 0 => 2 * a * r <= 100 + r
    <2>1. 2 * a * r = 2 * y
      BY <1>1
    <2>. QED
      BY <1>2, <2>1
  <1>6. CASE exempt = TRUE
    <2>1. PICK t : t = TaxSplit(a, r, "exclusive", TRUE)
      OBVIOUS
    <2>2. PICK full : full = TaxSplit(a, r, "exclusive", FALSE)
      OBVIOUS
    <2>3. /\ t.net = a /\ t.tax = 0 /\ t.gross = a + 0
          /\ full.net = a /\ full.tax = q /\ full.gross = a + q
      BY <1>3, <2>1, <2>2 DEF SplitIs
    <2>4. Recordable(t)
      <3>1. t.exempt = TRUE
        BY <1>3, <2>1 DEF SplitIs
      <3>. QED
        BY <3>1 DEF Recordable
    <2>5. t.gross = t.net + t.tax /\ t.net = full.net /\ t.gross = full.gross - full.tax
      BY <2>3
    <2>. QED
      BY <1>6, <2>1, <2>2, <2>4, <2>5 DEF SplitExact
  <1>7. CASE exempt = FALSE
    <2>1. PICK t : t = TaxSplit(a, r, "exclusive", FALSE)
      OBVIOUS
    <2>2. t.net = a /\ t.tax = q /\ t.gross = a + q
      BY <1>3, <2>1 DEF SplitIs
    <2>3. t.gross = t.net + t.tax
      BY <2>2
    <2>4. 2 * Abs(t.tax * 100 - a * r) <= 100
      BY <1>4, <2>2
    <2>5. ~Recordable(t) => 2 * a * r <= 100 + r
      BY <1>5, <2>2 DEF Recordable
    <2>. QED
      BY <1>7, <2>1, <2>3, <2>4, <2>5 DEF SplitExact
  <1>. QED
    BY <1>6, <1>7

\* A cap a promotion may have: none, or at least one.
Caps == (Nat \ {0}) \cup {Nothing}

\* A capped number is no more than the number, nor than the cap.
LEMMA AtMostIs ==
  ASSUME NEW n \in Nat, NEW cap \in Caps
  PROVE  /\ AtMost(n, cap) \in Nat /\ AtMost(n, cap) <= n
         /\ cap # Nothing => AtMost(n, cap) <= cap
  BY DEF AtMost, Caps, Nothing

\* A benefit is no more units than the line has, and no more than its cap.
LEMMA UnitsWithinLine ==
  ASSUME NEW p \in Benefits, NEW qty \in Nat \ {0}
  PROVE  /\ DiscountedUnits(p, qty) \in Nat /\ DiscountedUnits(p, qty) <= qty
         /\ p.maxUnits # Nothing => DiscountedUnits(p, qty) <= p.maxUnits
  <1>1. p.buy \in Nat /\ p.get \in Nat /\ p.maxUnits \in Caps
    BY QuotesAssumption DEF Caps
  <1>2. CASE p.type # "bogo"
    <2>1. DiscountedUnits(p, qty) = AtMost(qty, p.maxUnits)
      BY <1>2 DEF DiscountedUnits
    <2>2. qty \in Nat
      OBVIOUS
    <2>. QED
      BY <1>1, <2>1, <2>2, AtMostIs
  <1>3. CASE p.type = "bogo" /\ (p.buy <= 0 \/ p.get <= 0)
    <2>1. DiscountedUnits(p, qty) = 0
      BY <1>3 DEF DiscountedUnits
    <2>. QED
      BY <1>1, <2>1 DEF Caps, Nothing
  <1>4. CASE p.type = "bogo" /\ ~(p.buy <= 0 \/ p.get <= 0)
    <2>1. PICK b, g : b = p.buy /\ g = p.get
      OBVIOUS
    <2>2. PICK s : s = b + g
      OBVIOUS
    <2>3. b \in Nat /\ g \in Nat /\ s \in Nat \ {0} /\ g <= s
      BY <1>1, <1>4, <2>1, <2>2
    <2>4. PICK k \in Nat, r \in Nat : k = qty \div s /\ qty = s * k + r
      BY <2>3, DivMod
    <2>5. PICK x \in Nat : x = k * g
      BY <2>3
    <2>6. PICK y \in Nat : y = k * b
      BY <2>3
    <2>7. s * k = x + y
      <3>1. s * k = (b + g) * k
        BY <2>2
      <3>2. (b + g) * k = b * k + g * k
        BY <2>3
      <3>3. b * k = k * b /\ g * k = k * g
        BY <2>3
      <3>4. s * k = k * b + k * g
        BY <3>1, <3>2, <3>3
      <3>. QED
        BY <2>5, <2>6, <3>4
    <2>8. x <= qty
      BY <2>4, <2>5, <2>6, <2>7
    <2>9. DiscountedUnits(p, qty) = AtMost(x, p.maxUnits)
      BY <1>4, <2>1, <2>2, <2>4, <2>5 DEF DiscountedUnits
    <2>10. PICK u : u = AtMost(x, p.maxUnits)
      OBVIOUS
    <2>11. u \in Nat /\ u <= x /\ (p.maxUnits # Nothing => u <= p.maxUnits)
      BY <1>1, <2>10, AtMostIs
    <2>. QED
      BY <2>8, <2>9, <2>10, <2>11
  <1>. QED
    BY <1>2, <1>3, <1>4

\* A discount before its cap is an amount of money.
LEMMA RawDiscountIs ==
  ASSUME NEW p \in Benefits, NEW unit \in Nat, NEW qty \in Nat \ {0}
  PROVE  RawDiscount(p, unit, qty) \in Nat
  <1>1. p.value \in Nat /\ p.type \in {"percentage", "bogo", "fixed_amount", "fixed_price"}
    BY QuotesAssumption
  <1>2. PICK n \in Nat : n = DiscountedUnits(p, qty)
    BY UnitsWithinLine
  <1>3. CASE p.type \in {"percentage", "bogo"}
    <2>1. RawDiscount(p, unit, qty) = Cents(unit * n * p.value, 100)
      BY <1>2, <1>3 DEF RawDiscount
    <2>2. PICK c \in Nat : c = unit * n * p.value
      BY <1>1
    <2>3. 100 \in Nat \ {0}
      OBVIOUS
    <2>4. Cents(c, 100) \in Nat
      BY <2>3, CentsIs
    <2>. QED
      BY <2>1, <2>2, <2>4
  <1>4. CASE p.type = "fixed_amount"
    <2>1. RawDiscount(p, unit, qty) = p.value * n
      BY <1>2, <1>4 DEF RawDiscount
    <2>. QED
      BY <1>1, <2>1
  <1>5. CASE p.type = "fixed_price"
    <2>1. RawDiscount(p, unit, qty) = IF p.value >= unit THEN 0 ELSE (unit - p.value) * n
      BY <1>2, <1>5 DEF RawDiscount
    <2>2. PICK v \in Nat : v = p.value
      BY <1>1
    <2>3. ~(v >= unit) => unit - v \in Nat
      OBVIOUS
    <2>4. ~(v >= unit) => (unit - v) * n \in Nat
      BY <2>3
    <2>. QED
      BY <2>1, <2>2, <2>4
  <1>. QED
    BY <1>1, <1>3, <1>4, <1>5

\* An amount of either sign rounded to the nearest cent.
LEMMA CentsSignedIs ==
  ASSUME NEW a \in Int, NEW b \in Nat \ {0}
  PROVE  \E q \in Int : /\ q = CentsSigned(a, b)
                        /\ 2 * (b * q - a) <= b
                        /\ -b <= 2 * (b * q - a)
                        /\ a >= 0 => q >= 0
  <1>1. CASE a >= 0
    <2>1. PICK q \in Nat : q = Cents(a, b) /\ 2 * (b * q - a) <= b /\ -b <= 2 * (b * q - a)
      BY <1>1, CentsIs
    <2>2. q = CentsSigned(a, b)
      BY <1>1, <2>1 DEF CentsSigned
    <2>. QED
      BY <2>1, <2>2
  <1>2. CASE a < 0
    <2>1. PICK m \in Nat : m = -a
      BY <1>2
    <2>2. PICK q \in Nat : q = Cents(m, b) /\ 2 * (b * q - m) <= b /\ -b <= 2 * (b * q - m)
      BY CentsIs
    <2>3. -q = CentsSigned(a, b)
      BY <1>2, <2>1, <2>2 DEF CentsSigned
    <2>4. PICK x \in Int : x = b * q
      OBVIOUS
    <2>5. b * (-q) = -x
      BY <2>4
    <2>6. 2 * (-x - a) <= b /\ -b <= 2 * (-x - a)
      BY <2>1, <2>2, <2>4
    <2>7. -q \in Int
      OBVIOUS
    <2>. QED
      BY <1>2, <2>3, <2>5, <2>6, <2>7
  <1>. QED
    BY <1>1, <1>2

\* Bounds may be multiplied by what is not negative.
LEMMA TimesKeepsOrder ==
  ASSUME NEW x \in Int, NEW y \in Int, NEW k \in Nat, x <= y
  PROVE  x * k <= y * k
  <1>1. PICK d \in Nat : y = x + d
    <2>1. y - x \in Nat /\ y = x + (y - x)
      OBVIOUS
    <2>. QED
      BY <2>1
  <1>2. y * k = x * k + d * k /\ d * k \in Nat
    BY <1>1
  <1>3. PICK u \in Int, v \in Nat : u = x * k /\ v = d * k
    BY <1>2
  <1>. QED
    BY <1>2, <1>3

\* The net of a price that contains the tax is an amount.
LEMMA InclusiveNetIs ==
  ASSUME NEW a \in Nat, NEW r \in Nat
  PROVE  InclusiveNet(a, r) \in Nat
  <1>1. PICK d \in Nat \ {0}, c \in Nat : d = 100 + r /\ c = a * 100
    OBVIOUS
  <1>2. Cents(c, d) \in Nat
    BY CentsIs
  <1>. QED
    BY <1>1, <1>2 DEF InclusiveNet

\* What is left to pay where the price a contains the tax: all is the line's net
\* before the discount, gross what is asked for it after.
InclusiveFits(a, r, qty, off, all, gross) ==
    /\ off <= all => gross >= 0
    /\ 200 * Abs(gross - (a * qty - off)) <= (300 + r) * qty

LEMMA InclusiveLeft ==
  ASSUME NEW a \in Nat, NEW r \in Nat, NEW qty \in Nat \ {0}, NEW off \in Nat,
         NEW u, u = InclusiveNet(a, r), NEW all, all = u * qty,
         NEW gross, gross = UnitGross(u, off, qty, r) * qty
  PROVE  u \in Nat /\ InclusiveFits(a, r, qty, off, all, gross)
  <1>1. PICK d, c : d = 100 + r /\ c = a * 100
    OBVIOUS
  <1>2. d \in Nat \ {0} /\ c \in Nat
    BY <1>1
  <1>3. u \in Nat /\ 2 * (d * u - c) <= d /\ -d <= 2 * (d * u - c)
    <2>1. PICK q \in Nat : q = Cents(c, d) /\ 2 * (d * q - c) <= d /\ -d <= 2 * (d * q - c)
      BY <1>2, CentsIs
    <2>. QED
      BY <1>1, <2>1 DEF InclusiveNet
  <1>4. PICK x \in Nat : x = d * u
    BY <1>2, <1>3
  <1>5. x = u * (100 + r)
    BY <1>1, <1>3, <1>4
  <1>6. PICK o \in Nat : o = Cents(x, 100) /\ 2 * (100 * o - x) <= 100 /\ -100 <= 2 * (100 * o - x)
    <2>1. 100 \in Nat \ {0}
      OBVIOUS
    <2>. QED
      BY <2>1, CentsIs
  <1>7. PICK z \in Nat : z = o * qty
    OBVIOUS
  <1>8. PICK g \in Int : /\ g = CentsSigned(z - off, qty)
                         /\ 2 * (qty * g - (z - off)) <= qty
                         /\ -qty <= 2 * (qty * g - (z - off))
                         /\ z - off >= 0 => g >= 0
    <2>1. z - off \in Int
      OBVIOUS
    <2>. QED
      BY <2>1, CentsSignedIs
  <1>9. g = UnitGross(u, off, qty, r)
    BY <1>5, <1>6, <1>7, <1>8 DEF UnitGross
  <1>10. PICK w \in Int : w = qty * g /\ w = g * qty
    OBVIOUS
  <1>11. off <= u * qty => w >= 0
    <2>1. PICK y \in Nat : y = u * r
      BY <1>3
    <2>2. x = 100 * u + y
      BY <1>3, <1>5, <2>1
    <2>3. u <= o
      BY <1>3, <1>6, <2>2
    <2>4. u * qty <= o * qty
      BY <1>3, <2>3, TimesKeepsOrder
    <2>5. off <= u * qty => z - off >= 0
      <3>1. PICK v \in Nat : v = u * qty
        BY <1>3
      <3>. QED
        BY <1>7, <2>4, <3>1
    <2>6. g >= 0 => g * qty >= 0
      OBVIOUS
    <2>. QED
      BY <1>8, <1>10, <2>5, <2>6
  <1>12. PICK p \in Nat : p = a * qty
    OBVIOUS
  <1>13. PICK k \in Nat : k = (200 + r) * qty
    OBVIOUS
  <1>14. 200 * z - 200 * p <= k /\ -k <= 200 * z - 200 * p
    <2>1. 200 * (o - a) <= 200 + r /\ -(200 + r) <= 200 * (o - a)
      BY <1>1, <1>3, <1>4, <1>6
    <2>2. (200 * (o - a)) * qty = 200 * z - 200 * p /\ (-(200 + r)) * qty = -k
      BY <1>7, <1>12, <1>13
    <2>3. 200 * (o - a) \in Int /\ 200 + r \in Int /\ -(200 + r) \in Int /\ qty \in Nat
      OBVIOUS
    <2>4. (200 * (o - a)) * qty <= (200 + r) * qty
      BY <2>1, <2>3, TimesKeepsOrder
    <2>5. (-(200 + r)) * qty <= (200 * (o - a)) * qty
      BY <2>1, <2>3, TimesKeepsOrder
    <2>. QED
      BY <1>13, <2>2, <2>4, <2>5
  <1>15. (300 + r) * qty = k + 100 * qty
    BY <1>13
  <1>16. 200 * Abs(w - (p - off)) <= k + 100 * qty
    <2>1. 200 * (w - (p - off)) <= k + 100 * qty /\ -(k + 100 * qty) <= 200 * (w - (p - off))
      BY <1>8, <1>10, <1>14
    <2>. QED
      BY <2>1 DEF Abs
  <1>17. gross = w
    BY <1>9, <1>10
  <1>18. (off <= all => gross >= 0) /\ 200 * Abs(gross - (a * qty - off)) <= (300 + r) * qty
    BY <1>11, <1>12, <1>15, <1>16, <1>17
  <1>. QED
    BY <1>3, <1>18 DEF InclusiveFits

\* What is left to pay where the tax comes on top of the unit price u: n is the
\* discounted net of the line.
ExclusiveFits(u, r, qty, off, all, n, t) ==
    /\ 2 * Abs(100 * (n + t) - (100 + r) * n) <= 100 + r * qty
    /\ off <= all => 2 * ((n + t) - (u + Cents(u * r, 100)) * qty) <= qty + 1 - 2 * off

LEMMA ExclusiveLeft ==
  ASSUME NEW u \in Nat, NEW r \in Nat, NEW qty \in Nat \ {0}, NEW off \in Nat,
         NEW all \in Nat, all = u * qty,
         NEW n \in Nat, n <= all, off <= all => n = all - off,
         NEW t, t = Cents(Cents(n, qty) * r * qty, 100)
  PROVE  t \in Nat /\ ExclusiveFits(u, r, qty, off, all, n, t)
  <1>1. PICK c \in Nat : c = Cents(n, qty) /\ 2 * (qty * c - n) <= qty /\ -qty <= 2 * (qty * c - n)
    BY CentsIs
  <1>2. PICK x \in Nat : x = qty * c
    OBVIOUS
  <1>3. PICK y \in Nat : y = c * r * qty
    OBVIOUS
  <1>4. y = x * r
    BY <1>2, <1>3
  <1>5. t \in Nat /\ 2 * (100 * t - y) <= 100 /\ -100 <= 2 * (100 * t - y)
    <2>1. PICK q \in Nat : q = Cents(y, 100) /\ 2 * (100 * q - y) <= 100 /\ -100 <= 2 * (100 * q - y)
      <3>1. 100 \in Nat \ {0}
        OBVIOUS
      <3>. QED
        BY <3>1, CentsIs
    <2>. QED
      BY <1>1, <1>3, <2>1
  <1>6. PICK m \in Nat, k \in Nat : m = n * r /\ k = r * qty
    OBVIOUS
  <1>7. 2 * (y - m) <= k /\ -k <= 2 * (y - m)
    <2>1. 2 * (x - n) \in Int /\ -qty \in Int /\ qty \in Int /\ 2 * (x - n) <= qty /\ -qty <= 2 * (x - n)
      BY <1>1, <1>2
    <2>2. (2 * (x - n)) * r <= qty * r /\ (-qty) * r <= (2 * (x - n)) * r
      BY <2>1, TimesKeepsOrder
    <2>3. (2 * (x - n)) * r = 2 * (y - m) /\ (-qty) * r = -k /\ qty * r = k
      BY <1>4, <1>6
    <2>. QED
      BY <2>2, <2>3
  <1>8. 2 * Abs(100 * (n + t) - (100 + r) * n) <= 100 + k
    <2>1. 100 * (n + t) - (100 + r) * n = 100 * t - m
      BY <1>5, <1>6
    <2>2. 2 * (100 * t - m) <= 100 + k /\ -(100 + k) <= 2 * (100 * t - m)
      BY <1>5, <1>7
    <2>. QED
      BY <1>5, <2>1, <2>2 DEF Abs
  <1>9. ASSUME off <= u * qty
        PROVE  2 * ((n + t) - (u + Cents(u * r, 100)) * qty) <= qty + 1 - 2 * off
    <2>1. PICK v \in Nat, z \in Nat : v = u * qty /\ z = u * r
      OBVIOUS
    <2>2. PICK s \in Nat : s = Cents(z, 100) /\ 2 * (100 * s - z) <= 100 /\ -100 <= 2 * (100 * s - z)
      <3>1. 100 \in Nat \ {0}
        OBVIOUS
      <3>. QED
        BY <3>1, CentsIs
    <2>3. c <= u
      <3>1. SUFFICES ASSUME u + 1 <= c PROVE FALSE
        OBVIOUS
      <3>2. (u + 1) * qty <= c * qty
        BY <3>1, TimesKeepsOrder
      <3>3. (u + 1) * qty = v + qty /\ c * qty = x
        BY <1>2, <2>1
      <3>. QED
        BY <1>1, <1>2, <2>1, <3>2, <3>3
    <2>4. PICK e \in Nat, f \in Nat : e = z * qty /\ f = s * qty
      OBVIOUS
    <2>5. y <= e
      <3>1. c * k <= u * k
        BY <2>3, TimesKeepsOrder
      <3>2. c * k = y /\ u * k = e
        BY <1>3, <1>6, <2>1, <2>4
      <3>. QED
        BY <3>1, <3>2
    <2>6. 2 * e - 100 * qty <= 200 * f
      <3>1. 2 * z - 100 \in Int /\ 200 * s \in Int /\ 2 * z - 100 <= 200 * s
        BY <2>2
      <3>2. (2 * z - 100) * qty <= (200 * s) * qty
        BY <3>1, TimesKeepsOrder
      <3>3. (2 * z - 100) * qty = 2 * e - 100 * qty /\ (200 * s) * qty = 200 * f
        BY <2>4
      <3>. QED
        BY <3>2, <3>3
    <2>7. n = v - off
      BY <1>9, <2>1
    <2>8. 2 * ((n + t) - (v + f)) <= qty + 1 - 2 * off
      BY <1>5, <2>5, <2>6, <2>7
    <2>9. (u + Cents(u * r, 100)) * qty = v + f
      BY <2>1, <2>2, <2>4
    <2>. QED
      BY <2>8, <2>9
  <1>10. /\ 2 * Abs(100 * (n + t) - (100 + r) * n) <= 100 + r * qty
         /\ off <= all => 2 * ((n + t) - (u + Cents(u * r, 100)) * qty) <= qty + 1 - 2 * off
    BY <1>6, <1>8, <1>9
  <1>. QED
    BY <1>5, <1>10 DEF ExclusiveFits

\* What BenefitWithinLine says of one benefit b of promotion p, on qty of what
\* shelf has split; and of promotion p on qty of a price a.
BenefitWithin(p, shelf, b, qty, rate, mode) ==
    b.applied =>
        /\ b.units <= qty
        /\ p.maxUnits # Nothing => b.units <= p.maxUnits
        /\ p.maxOff # Nothing => b.off <= p.maxOff
        /\ b.off <= shelf.net * qty => b.gross >= 0
        /\ mode = "inclusive" =>
              200 * Abs(b.gross - (shelf.gross * qty - b.off)) <= (300 + rate) * qty
        /\ mode = "exclusive" =>
              /\ 2 * Abs(100 * b.gross - (100 + rate) * b.net) <= 100 + rate * qty
              /\ b.off <= shelf.net * qty =>
                    2 * (b.gross - shelf.gross * qty) <= qty + 1 - 2 * b.off

WithinLine(p, a, qty, rate, mode) ==
    LET shelf == TaxSplit(a, rate, mode, FALSE)
    IN BenefitWithin(p, shelf, ComputeBenefit(p, shelf.net, qty, rate, mode), qty, rate, mode)

\* What is left to pay on a line is what the discount leaves, to the rounding.
LEMMA BenefitIsWithin ==
  ASSUME NEW p \in Benefits, NEW a \in Nat, NEW qty \in Nat \ {0}, NEW rate \in Nat,
         NEW mode \in Modes
  PROVE  WithinLine(p, a, qty, rate, mode)
  <1>1. PICK shelf : shelf = TaxSplit(a, rate, mode, FALSE)
    OBVIOUS
  <1>2. /\ mode = "inclusive" => shelf.net = InclusiveNet(a, rate) /\ shelf.net + (a - shelf.net) = shelf.gross
        /\ mode = "exclusive" => shelf.net = a /\ shelf.gross = a + Cents(a * rate, 100)
    BY <1>1 DEF TaxSplit
  <1>3. PICK unit \in Nat : unit = shelf.net
    <2>1. CASE mode = "inclusive"
      <3>1. 0 \in Nat
        OBVIOUS
      <3>. QED
        BY <1>2, <2>1, <3>1, InclusiveNetIs
    <2>. QED
      BY <1>2, <2>1 DEF Modes
  <1>4. PICK raw \in Nat : raw = RawDiscount(p, unit, qty)
    BY RawDiscountIs
  <1>5. p.maxOff \in Caps
    BY QuotesAssumption DEF Caps
  <1>6. PICK off \in Nat : off = AtMost(raw, p.maxOff)
    BY <1>5, AtMostIs
  <1>7. p.maxOff # Nothing => off <= p.maxOff
    BY <1>5, <1>6, AtMostIs
  <1>8. PICK all \in Nat : all = unit * qty
    OBVIOUS
  <1>9. PICK net : net = Clamp(all - off, 0, all)
    OBVIOUS
  <1>10. net \in Nat /\ net <= all /\ (off <= all => net = all - off)
    BY <1>9 DEF Clamp
  <1>11. PICK units \in Nat : units = DiscountedUnits(p, qty)
    BY UnitsWithinLine
  <1>12. units <= qty /\ (p.maxUnits # Nothing => units <= p.maxUnits)
    BY <1>11, UnitsWithinLine
  <1>13. PICK tax : tax = Cents(Cents(net, qty) * rate * qty, 100)
    OBVIOUS
  <1>14. PICK gross : gross = UnitGross(unit, off, qty, rate) * qty
    OBVIOUS
  <1>15. PICK b : b = ComputeBenefit(p, unit, qty, rate, mode)
    OBVIOUS
  <1>16. CASE off <= 0
    <2>1. b = [applied |-> FALSE]
      BY <1>4, <1>6, <1>15, <1>16 DEF ComputeBenefit
    <2>2. b.applied = FALSE
      BY <2>1
    <2>. QED
      BY <1>1, <1>3, <1>15, <2>2 DEF WithinLine, BenefitWithin
  <1>17. CASE ~(off <= 0)
    <2>1. b.net = net /\ b.off = off /\ b.units = units
      BY <1>4, <1>6, <1>8, <1>9, <1>11, <1>15, <1>17 DEF ComputeBenefit
    <2>2. b.gross = IF mode = "exclusive" THEN net + tax ELSE gross
      BY <1>4, <1>6, <1>8, <1>9, <1>13, <1>14, <1>15, <1>17 DEF ComputeBenefit
    <2>3. CASE mode = "inclusive"
      <3>1. b.gross = gross /\ unit = InclusiveNet(a, rate) /\ mode # "exclusive"
        BY <1>2, <1>3, <2>2, <2>3
      <3>2. InclusiveFits(a, rate, qty, off, all, gross)
        BY <1>8, <1>14, <3>1, InclusiveLeft
      <3>3. shelf.gross = a
        BY <1>2, <1>3, <2>3
      <3>4. b = ComputeBenefit(p, shelf.net, qty, rate, mode) /\ shelf.net = unit
        BY <1>3, <1>15
      <3>5. /\ b.units <= qty /\ (p.maxUnits # Nothing => b.units <= p.maxUnits)
            /\ (p.maxOff # Nothing => b.off <= p.maxOff)
            /\ (b.off <= shelf.net * qty => b.gross >= 0)
            /\ 200 * Abs(b.gross - (shelf.gross * qty - b.off)) <= (300 + rate) * qty
        BY <1>7, <1>8, <1>12, <2>1, <3>1, <3>2, <3>3, <3>4 DEF InclusiveFits
      <3>6. BenefitWithin(p, shelf, b, qty, rate, mode)
        BY <2>3, <3>1, <3>5 DEF BenefitWithin
      <3>. QED
        BY <1>1, <3>4, <3>6 DEF WithinLine
    <2>4. CASE mode = "exclusive"
      <3>1. b.gross = net + tax /\ unit = a /\ shelf.gross = a + Cents(a * rate, 100)
            /\ mode # "inclusive"
        BY <1>2, <1>3, <2>2, <2>4
      <3>2. tax \in Nat /\ ExclusiveFits(unit, rate, qty, off, all, net, tax)
        BY <1>8, <1>10, <1>13, ExclusiveLeft
      <3>3. net + tax >= 0
        BY <1>10, <3>2
      <3>4. b = ComputeBenefit(p, shelf.net, qty, rate, mode) /\ shelf.net = unit
        BY <1>3, <1>15
      <3>5. /\ b.units <= qty /\ (p.maxUnits # Nothing => b.units <= p.maxUnits)
            /\ (p.maxOff # Nothing => b.off <= p.maxOff) /\ b.gross >= 0
        BY <1>7, <1>12, <2>1, <3>1, <3>3
      <3>6. 2 * Abs(100 * b.gross - (100 + rate) * b.net) <= 100 + rate * qty
        BY <2>1, <3>1, <3>2 DEF ExclusiveFits
      <3>7. b.off <= shelf.net * qty => 2 * (b.gross - shelf.gross * qty) <= qty + 1 - 2 * b.off
        BY <1>8, <2>1, <3>1, <3>2, <3>4 DEF ExclusiveFits
      <3>8. BenefitWithin(p, shelf, b, qty, rate, mode)
        BY <2>4, <3>1, <3>5, <3>6, <3>7 DEF BenefitWithin
      <3>. QED
        BY <1>1, <3>4, <3>8 DEF WithinLine
    <2>. QED
      BY <2>3, <2>4 DEF Modes
  <1>. QED
    BY <1>6, <1>16, <1>17

\* What allocatePrice and the check of a bundle add up is a sum over the positions.
LEMMA SumSeqIs ==
  ASSUME NEW s
  PROVE  SumSeq(s) = SumOf(s, DOMAIN s)
  BY DEF SumSeq, FoldSeq, FoldFunction, FoldFunctionOnSet, SumOf, MapThenSumSet, MapThenFoldSet

\* How the parts come about: the rounded shares c, and the rest on the last.
SharedOut(price, s, n, all) ==
    \E c : /\ c = [i \in 1 .. n |-> Share(price, s[i], all)]
           /\ AllocatePrice(price, s) = [c EXCEPT ![n] = c[n] + (price - SumOf(c, 1 .. n))]

\* That is what allocatePrice does.
LEMMA PartsAre ==
  ASSUME NEW n \in Nat \ {0}, NEW s \in [1 .. n -> Nat], NEW price \in Nat
  PROVE  SharedOut(price, s, n, SumOf(s, 1 .. n))
  <1>1. DOMAIN s = 1 .. n
    OBVIOUS
  <1>2. PICK all : all = SumOf(s, 1 .. n)
    OBVIOUS
  <1>3. PICK c : c = [i \in 1 .. n |-> Share(price, s[i], all)]
    OBVIOUS
  <1>4. DOMAIN c = 1 .. n
    BY <1>3
  <1>5. SumSeq(c) = SumOf(c, 1 .. n)
    BY <1>4, SumSeqIs
  <1>6. Len(c) = n
    BY <1>3
  <1>7. AllocatePrice(price, s) = [c EXCEPT ![Len(c)] = @ + (price - SumSeq(c))]
    <2>1. SumSeq(s) = all
      BY <1>1, <1>2, SumSeqIs
    <2>. QED
      BY <1>1, <1>3, <2>1 DEF AllocatePrice
  <1>8. AllocatePrice(price, s) = [c EXCEPT ![n] = @ + (price - SumOf(c, 1 .. n))]
    BY <1>5, <1>6, <1>7
  <1>. QED
    BY <1>2, <1>3, <1>8 DEF SharedOut

\* A rounded share is off by half a cent at most.
LEMMA ShareIs ==
  ASSUME NEW price \in Nat, NEW own \in Nat, NEW all \in Nat \ {0}
  PROVE  /\ Share(price, own, all) \in Nat
         /\ Off(Share(price, own, all), all, price, own) \in Int
         /\ 2 * Off(Share(price, own, all), all, price, own) <= all
         /\ -all <= 2 * Off(Share(price, own, all), all, price, own)
  <1>1. PICK w \in Nat : w = price * own
    OBVIOUS
  <1>2. PICK q \in Nat : q = Cents(w, all) /\ 2 * (all * q - w) <= all /\ -all <= 2 * (all * q - w)
    BY CentsIs
  <1>3. q = Share(price, own, all)
    BY <1>1, <1>2 DEF Share
  <1>4. Off(q, all, price, own) = all * q - w
    BY <1>1 DEF Off
  <1>5. all * q - w \in Int
    OBVIOUS
  <1>. QED
    BY <1>2, <1>3, <1>4, <1>5

\* What BundleAddsUp says of one bundle.
AddsUp(price, s) ==
    LET all == SumSeq(s)
        parts == AllocatePrice(price, s)
        error(i) == Abs(parts[i] * all - price * s[i]) IN
    /\ SumSeq(parts) = price
    /\ \A i \in 1 .. Len(s) - 1 : 2 * error(i) <= all
    /\ 2 * error(Len(s)) <= (Len(s) - 1) * all

\* The parts of a bundle add up, and the last one bears the errors of the others.
LEMMA PartsAddUp ==
  ASSUME NEW n \in Nat \ {0}, NEW s \in [1 .. n -> Nat], NEW price \in Nat,
         SumSeq(s) > 0
  PROVE  AddsUp(price, s)
  <1>1. PICK D : D = 1 .. n
    OBVIOUS
  <1>2. /\ IsFiniteSet(D) /\ IsFiniteSet(D \ {n}) /\ n \in D /\ Cardinality(D) = n
    <2>1. IsFiniteSet(1 .. n) /\ Cardinality(1 .. n) = n
      <3>1. 1 \in Int /\ n \in Int
        OBVIOUS
      <3>2. IsFiniteSet(1 .. n) /\ Cardinality(1 .. n) = IF 1 > n THEN 0 ELSE n - 1 + 1
        BY <3>1, FS_Interval
      <3>. QED
        BY <3>2
    <2>2. IsFiniteSet(D) /\ Cardinality(D) = n /\ n \in D
      BY <1>1, <2>1
    <2>3. IsFiniteSet(D \ {n})
      BY <2>2, FS_Subset
    <2>. QED
      BY <2>2, <2>3
  <1>3. DOMAIN s = D /\ Len(s) = n
    BY <1>1
  <1>4. PICK all : all = SumOf(s, D)
    OBVIOUS
  <1>5. SumSeq(s) = all
    BY <1>3, <1>4, SumSeqIs
  <1>6. all \in Nat \ {0}
    <2>1. \A i \in D : s[i] \in Int
      BY <1>1
    <2>2. all \in Int
      BY <1>2, <1>4, <2>1, SumType
    <2>. QED
      BY <1>5, <2>2
  <1>7. PICK c : /\ c = [i \in D |-> Share(price, s[i], all)]
                 /\ AllocatePrice(price, s) = [c EXCEPT ![n] = c[n] + (price - SumOf(c, D))]
    <2>1. SumOf(s, 1 .. n) = all
      BY <1>1, <1>4
    <2>2. SharedOut(price, s, n, all)
      BY <2>1, PartsAre
    <2>. QED
      BY <1>1, <2>2 DEF SharedOut
  <1>8. PICK p : p = AllocatePrice(price, s)
    OBVIOUS
  <1>9. PICK e : e = [i \in D |-> Off(c[i], all, price, s[i])]
    OBVIOUS
  <1>10. \A i \in D : /\ c[i] \in Nat /\ e[i] \in Int /\ 2 * e[i] <= all /\ -all <= 2 * e[i]
    <2>1. \A i \in D : s[i] \in Nat /\ c[i] = Share(price, s[i], all)
                       /\ e[i] = Off(c[i], all, price, s[i])
      BY <1>1, <1>7, <1>9
    <2>. QED
      BY <1>6, <2>1, ShareIs
  <1>11. c \in [D -> Nat] /\ s \in [D -> Nat]
    BY <1>1, <1>7, <1>10
  <1>12. PICK t \in Int : t = SumOf(c, D)
    <2>1. \A i \in D : c[i] \in Int
      BY <1>10
    <2>. QED
      BY <1>2, <2>1, SumType
  <1>13. /\ DOMAIN p = D
         /\ p[n] = c[n] + (price - t)
         /\ \A i \in D \ {n} : p[i] = c[i]
    BY <1>1, <1>2, <1>7, <1>8, <1>12
  <1>14. SumSeq(p) = price
    <2>1. \A i \in D : c[i] \in Int /\ p[i] \in Int
      BY <1>2, <1>10, <1>13
    <2>2. \A i \in D \ {n} : c[i] = p[i]
      BY <1>13
    <2>3. /\ SumOf(p, D) = p[n] + SumOf(p, D \ {n})
          /\ SumOf(c, D) = c[n] + SumOf(c, D \ {n})
      <3>1. \A i \in D : p[i] \in Int
        BY <2>1
      <3>2. \A i \in D : c[i] \in Int
        BY <2>1
      <3>3. TakenOut(p, D, n)
        BY <1>2, <3>1, SumTakesOut
      <3>4. TakenOut(c, D, n)
        BY <1>2, <3>2, SumTakesOut
      <3>. QED
        BY <3>3, <3>4 DEF TakenOut
    <2>4. SumOf(p, D) = price
      <3>1. PICK x \in Int : x = c[n]
        BY <1>2, <2>1
      <3>2. PICK y \in Int : y = SumOf(c, D \ {n})
        BY <1>2, <2>1, SumType
      <3>3. SumOf(p, D \ {n}) = y
        BY <1>2, <2>1, <2>2, <3>2, SumSame
      <3>4. SumOf(p, D) = (x + (price - t)) + y /\ t = x + y
        BY <1>12, <1>13, <2>3, <3>1, <3>2, <3>3
      <3>. QED
        BY <3>4
    <2>. QED
      BY <1>13, <2>4, SumSeqIs
  <1>15. ASSUME NEW i \in 1 .. n - 1
         PROVE  2 * Abs(p[i] * all - price * s[i]) <= all
    <2>1. i \in D \ {n}
      BY <1>1
    <2>2. e[i] = p[i] * all - price * s[i]
      BY <1>9, <1>13, <2>1 DEF Off
    <2>3. e[i] \in Int /\ 2 * e[i] <= all /\ -all <= 2 * e[i] /\ all \in Int
      BY <1>6, <1>10, <2>1
    <2>4. 2 * Abs(e[i]) <= all
      BY <2>3, AbsIs
    <2>. QED
      BY <2>2, <2>4
  <1>16. PICK r \in Int : r = SumOf(e, D \ {n})
    BY <1>2, <1>10, SumType
  <1>17. p[n] * all - price * s[n] = -r
    <2>1. SumOf(e, D) = e[n] + SumOf(e, D \ {n})
      <3>1. \A i \in D : e[i] \in Int
        BY <1>10
      <3>2. TakenOut(e, D, n)
        BY <1>2, <3>1, SumTakesOut
      <3>. QED
        BY <3>2 DEF TakenOut
    <2>2. SumOf(e, D) = all * SumOf(c, D) - price * all
      <3>1. all \in Int /\ \A i \in D : e[i] = Off(c[i], all, price, s[i])
        BY <1>6, <1>9
      <3>2. Balanced(e, c, s, D, all, price)
        BY <1>2, <1>11, <3>1, ErrorsAddUp
      <3>. QED
        BY <1>4, <3>2 DEF Balanced
    <2>3. PICK x \in Int, o \in Int : x = c[n] /\ o = s[n]
      BY <1>2, <1>10, <1>11
    <2>4. e[n] = x * all - price * o
      BY <1>2, <1>9, <2>3 DEF Off
    <2>5. PICK y \in Int, z \in Int, v \in Int, w \in Int :
            y = x * all /\ z = price * o /\ v = all * t /\ w = price * all
      BY <1>6
    <2>6. v - w = (y - z) + r
      BY <1>12, <1>16, <2>1, <2>2, <2>4, <2>5
    <2>7. (x + (price - t)) * all = y + w - v
      BY <1>6, <2>5
    <2>8. p[n] * all - price * s[n] = (y + w - v) - z
      BY <1>13, <2>3, <2>5, <2>7
    <2>. QED
      BY <2>6, <2>8
  <1>18. 2 * Abs(p[n] * all - price * s[n]) <= (n - 1) * all
    <2>1. Cardinality(D \ {n}) = n - 1
      BY <1>2, FS_RemoveElement
    <2>2. \A i \in D \ {n} : e[i] \in Int /\ 2 * e[i] <= all /\ -all <= 2 * e[i]
      BY <1>10
    <2>3. /\ 2 * SumOf(e, D \ {n}) <= Cardinality(D \ {n}) * all
          /\ -(Cardinality(D \ {n}) * all) <= 2 * SumOf(e, D \ {n})
      BY <1>2, <1>6, <2>2, SumHalves
    <2>4. PICK b \in Int : b = (n - 1) * all
      BY <1>6
    <2>5. 2 * r <= b /\ -b <= 2 * r
      BY <1>16, <2>1, <2>3, <2>4
    <2>6. -r \in Int /\ 2 * (-r) <= b /\ -b <= 2 * (-r)
      BY <2>5
    <2>7. 2 * Abs(-r) <= b
      BY <2>6, AbsIs
    <2>. QED
      BY <1>17, <2>4, <2>7
  <1>. QED
    BY <1>3, <1>5, <1>8, <1>14, <1>15, <1>18 DEF AddsUp

\* A row without a field is the same whatever that field held.
LEMMA QuoteHidesCost ==
  ASSUME NEW e, NEW r, NEW own, NEW other
  PROVE  ProjectQuote(QuoteRow(e, r, own)) = ProjectQuote(QuoteRow(e, r, other))
  <1>1. PICK q : q = QuoteRow(e, r, own)
    OBVIOUS
  <1>2. PICK o : o = QuoteRow(e, r, other)
    OBVIOUS
  <1>3. /\ DOMAIN q = {"net_price", "selling_price", "tax_amount", "min_allowed_price",
                       "floor_is_cost_derived", "source"}
        /\ DOMAIN o = DOMAIN q
    BY <1>1, <1>2 DEF QuoteRow
  <1>4. /\ q.net_price = o.net_price /\ q.selling_price = o.selling_price
        /\ q.tax_amount = o.tax_amount
    BY <1>1, <1>2 DEF QuoteRow
  <1>5. PICK F : F = {"net_price", "selling_price", "tax_amount"}
    OBVIOUS
  <1>6. /\ DOMAIN q \ {"min_allowed_price", "floor_is_cost_derived", "source"} = F
        /\ DOMAIN o \ {"min_allowed_price", "floor_is_cost_derived", "source"} = F
    BY <1>3, <1>5
  <1>7. \A f \in F : q[f] = o[f]
    BY <1>4, <1>5
  <1>8. [f \in F |-> q[f]] = [f \in F |-> o[f]]
    BY <1>7
  <1>. QED
    BY <1>1, <1>2, <1>6, <1>8 DEF ProjectQuote, Without

\* A suggestion that is clamped, or not, shows no more than that.
LEMMA SuggestionHidesCost ==
  ASSUME NEW price \in Nat, NEW own \in Nat, NEW other \in Nat
  PROVE  LET mine == SuggestionRow(price, own)
             theirs == SuggestionRow(price, other)
             clamped(r) == r.suggested_price = r.min_allowed_price
         IN clamped(mine) = clamped(theirs) => StripSuggestion(mine) = StripSuggestion(theirs)
  <1>1. PICK mine : mine = SuggestionRow(price, own)
    OBVIOUS
  <1>2. PICK theirs : theirs = SuggestionRow(price, other)
    OBVIOUS
  <1>3. PICK cut : cut = Cents(price * 90, 100)
    OBVIOUS
  <1>4. /\ DOMAIN mine = {"current", "min_allowed_price", "suggested_price"}
        /\ DOMAIN theirs = {"current", "min_allowed_price", "suggested_price"}
        /\ mine.current = theirs.current
    BY <1>1, <1>2 DEF SuggestionRow
  <1>5. /\ mine.min_allowed_price = own /\ mine.suggested_price = (IF own > cut THEN own ELSE cut)
        /\ theirs.min_allowed_price = other
        /\ theirs.suggested_price = (IF other > cut THEN other ELSE cut)
    BY <1>1, <1>2, <1>3 DEF SuggestionRow
  <1>6. CASE /\ mine.suggested_price = mine.min_allowed_price
             /\ theirs.suggested_price = theirs.min_allowed_price
    <2>1. PICK F : F = {"current"}
      OBVIOUS
    <2>2. /\ DOMAIN mine \ ({"min_allowed_price"} \cup {"suggested_price"}) = F
          /\ DOMAIN theirs \ ({"min_allowed_price"} \cup {"suggested_price"}) = F
      BY <1>4, <2>1
    <2>3. [f \in F |-> mine[f]] = [f \in F |-> theirs[f]]
      BY <1>4, <2>1
    <2>4. StripSuggestion(mine) = StripSuggestion(theirs)
      BY <1>6, <2>2, <2>3 DEF StripSuggestion, Without
    <2>. QED
      BY <1>1, <1>2, <2>4
  <1>7. CASE /\ mine.suggested_price # mine.min_allowed_price
             /\ theirs.suggested_price # theirs.min_allowed_price
    <2>1. PICK F : F = {"current", "suggested_price"}
      OBVIOUS
    <2>2. /\ DOMAIN mine \ ({"min_allowed_price"} \cup {}) = F
          /\ DOMAIN theirs \ ({"min_allowed_price"} \cup {}) = F
      BY <1>4, <2>1
    <2>3. mine.suggested_price = theirs.suggested_price
      BY <1>5, <1>7
    <2>4. [f \in F |-> mine[f]] = [f \in F |-> theirs[f]]
      BY <1>4, <2>1, <2>3
    <2>5. StripSuggestion(mine) = StripSuggestion(theirs)
      BY <1>7, <2>2, <2>4 DEF StripSuggestion, Without
    <2>. QED
      BY <1>1, <1>2, <2>5
  <1>. QED
    BY <1>1, <1>2, <1>6, <1>7

\* What the run checks of a quote.
QuotesOK == QuoteIsBest /\ TaxExact /\ BenefitWithinLine /\ BundleAddsUp /\ CostHidden

\* A question asks for one thing only.
LEMMA OtherQuestions ==
  /\ asked'.of # "price" => QuoteIsBest'
  /\ asked'.of # "tax" => TaxExact'
  /\ asked'.of # "benefit" /\ asked'.of # "promotion" => BenefitWithinLine'
  /\ asked'.of # "bundle" => BundleAddsUp'
  /\ asked'.of # "masked" => CostHidden'
  BY DEF QuoteIsBest, TaxExact, BenefitWithinLine, BundleAddsUp, CostHidden

\* A price: the best entry.
LEMMA AskPriceSound == AskPrice => QuotesOK'
  <1> SUFFICES ASSUME AskPrice PROVE QuotesOK'
    OBVIOUS
  <1>1. PICK es \in SUBSET EntryPool, q \in Quantities, levels \in SUBSET Levels :
            asked' = [of |-> "price", entries |-> es, qty |-> q, levels |-> levels]
    BY DEF AskPrice, Levels
  <1>2. /\ asked'.of = "price" /\ asked'.entries = es /\ asked'.qty = q
        /\ asked'.levels = levels
    BY <1>1
  <1>3. q \in Int /\ \A e \in es : e.level \in Levels /\ e.minQty \in Int
    BY QuotesAssumption
  <1>4. IsBest(es, levels, q)
    BY <1>3, WinnerIsBest
  <1>5. IsBest(asked'.entries, asked'.levels, asked'.qty)
    BY <1>2, <1>4
  <1>6. QuoteIsBest'
    BY <1>5 DEF QuoteIsBest, IsBest
  <1>. QED
    BY <1>2, <1>6, OtherQuestions DEF QuotesOK

\* A tax split: exact.
LEMMA AskTaxSound == AskTax => QuotesOK'
  <1> SUFFICES ASSUME AskTax PROVE QuotesOK'
    OBVIOUS
  <1>1. PICK a \in Amounts, r \in TaxRates, m \in Modes, x \in BOOLEAN :
            asked' = [of |-> "tax", amount |-> a, rate |-> r, mode |-> m, exempt |-> x]
    BY DEF AskTax
  <1>2. /\ asked'.of = "tax" /\ asked'.amount = a /\ asked'.rate = r /\ asked'.mode = m
        /\ asked'.exempt = x
    BY <1>1
  <1>3. a \in Nat /\ r \in Nat /\ m \in {"inclusive", "exclusive"}
    BY QuotesAssumption DEF Modes
  <1>4. SplitExact(a, r, m, x)
    BY <1>3, InclusiveExact, ExclusiveExact
  <1>5. SplitExact(asked'.amount, asked'.rate, asked'.mode, asked'.exempt)
    BY <1>2, <1>4
  <1>6. TaxExact'
    BY <1>5 DEF TaxExact, SplitExact
  <1>. QED
    BY <1>2, <1>6, OtherQuestions DEF QuotesOK

\* A benefit: what the discount leaves.
LEMMA AskBenefitSound == AskBenefit => QuotesOK'
  <1> SUFFICES ASSUME AskBenefit PROVE QuotesOK'
    OBVIOUS
  <1>1. PICK p \in Benefits, a \in Amounts, q \in Quantities, r \in TaxRates, m \in Modes :
            asked' = [of |-> "benefit", promo |-> p, amount |-> a, qty |-> q, rate |-> r,
                      mode |-> m]
    BY DEF AskBenefit
  <1>2. /\ asked'.of = "benefit" /\ asked'.promo = p /\ asked'.amount = a /\ asked'.qty = q
        /\ asked'.rate = r /\ asked'.mode = m
    BY <1>1
  <1>3. a \in Nat /\ q \in Nat \ {0} /\ r \in Nat
    BY QuotesAssumption
  <1>4. WithinLine(p, a, q, r, m)
    BY <1>3, BenefitIsWithin
  <1>5. WithinLine(asked'.promo, asked'.amount, asked'.qty, asked'.rate, asked'.mode)
    BY <1>2, <1>4
  <1>6. asked'.of # "promotion"
    BY <1>2
  <1>7. BenefitWithinLine'
    BY <1>5, <1>6 DEF BenefitWithinLine, WithinLine, BenefitWithin
  <1>. QED
    BY <1>2, <1>7, OtherQuestions DEF QuotesOK

\* A promotion: the first that is eligible.
LEMMA AskPromotionSound == AskPromotion => QuotesOK'
  <1> SUFFICES ASSUME AskPromotion PROVE QuotesOK'
    OBVIOUS
  <1>1. PICK l \in Lines : asked' = [of |-> "promotion", line |-> l]
    BY DEF AskPromotion
  <1>2. asked'.of = "promotion" /\ asked'.line = l
    BY <1>1
  <1>3. Len(Running) \in Nat
    BY QuotesAssumption
  <1>4. LET fit == {i \in 1 .. Len(Running) : Eligible(Running[i], l)} IN
        Evaluate(Running, l, FALSE)
            = {Running[i] : i \in {x \in fit : \A y \in fit : x <= y}}
    BY <1>3, FirstEligible
  <1>5. BenefitWithinLine'
    BY <1>2, <1>4 DEF BenefitWithinLine
  <1>. QED
    BY <1>2, <1>5, OtherQuestions DEF QuotesOK

\* A bundle: its parts add up.
LEMMA AskBundleSound == AskBundle => QuotesOK'
  <1> SUFFICES ASSUME AskBundle PROVE QuotesOK'
    OBVIOUS
  <1>1. PICK b \in BundlePrices, n \in BundleSizes : \E s \in [1 .. n -> Standalone] :
            SumSeq(s) > 0 /\ asked' = [of |-> "bundle", price |-> b, standalone |-> s]
    BY DEF AskBundle
  <1>2. PICK s \in [1 .. n -> Standalone] :
            SumSeq(s) > 0 /\ asked' = [of |-> "bundle", price |-> b, standalone |-> s]
    BY <1>1
  <1>3. asked'.of = "bundle" /\ asked'.price = b /\ asked'.standalone = s
    BY <1>2
  <1>4. b \in Nat /\ n \in Nat \ {0} /\ s \in [1 .. n -> Nat]
    BY QuotesAssumption
  <1>5. AddsUp(b, s)
    BY <1>2, <1>4, PartsAddUp
  <1>6. AddsUp(asked'.price, asked'.standalone)
    BY <1>3, <1>5
  <1>7. BundleAddsUp'
    BY <1>6 DEF BundleAddsUp, AddsUp
  <1>. QED
    BY <1>3, <1>7, OtherQuestions DEF QuotesOK

\* A masked row: no cost in it.
LEMMA AskMaskedSound == AskMasked => QuotesOK'
  <1> SUFFICES ASSUME AskMasked PROVE QuotesOK'
    OBVIOUS
  <1>1. PICK p \in Amounts, c \in Amounts : asked' = [of |-> "masked", price |-> p, cost |-> c]
    BY DEF AskMasked
  <1>2. asked'.of = "masked" /\ asked'.price = p /\ asked'.cost = c
    BY <1>1
  <1>3. Amounts \subseteq Nat
    BY QuotesAssumption
  <1>4. ASSUME NEW other \in Amounts
        PROVE  LET mine == SuggestionRow(p, c)
                   theirs == SuggestionRow(p, other)
                   clamped(r) == r.suggested_price = r.min_allowed_price
               IN clamped(mine) = clamped(theirs)
                     => StripSuggestion(mine) = StripSuggestion(theirs)
    <2>1. p \in Nat /\ c \in Nat /\ other \in Nat
      BY <1>3
    <2>. QED
      BY <2>1, SuggestionHidesCost
  <1>5. \A other \in Amounts : \A e \in EntryPool, r \in TaxRates :
            ProjectQuote(QuoteRow(e, r, c)) = ProjectQuote(QuoteRow(e, r, other))
    BY QuoteHidesCost
  <1>6. CostHidden'
    BY <1>2, <1>4, <1>5 DEF CostHidden
  <1>. QED
    BY <1>2, <1>6, OtherQuestions DEF QuotesOK

\* Every quote is right to the cent, for any entries, amounts, rates, benefits,
\* promotions and bundles: the best entry, the exact tax, the benefit within the
\* line, the parts that add up, the cost that stays hidden.
THEOREM QtSafe == QtSpec => []QuotesOK
  <1>1. QtInit => QuotesOK
    <2>1. QtInit => asked.of = "nothing"
      BY DEF QtInit
    <2>. QED
      BY <2>1 DEF QuotesOK, QuoteIsBest, TaxExact, BenefitWithinLine, BundleAddsUp, CostHidden
  <1>2. QuotesOK /\ [QtNext]_qtVars => QuotesOK'
    <2>1. QtNext => QuotesOK'
      BY AskPriceSound, AskTaxSound, AskBenefitSound, AskPromotionSound, AskBundleSound,
         AskMaskedSound DEF QtNext
    <2>2. ASSUME QuotesOK, UNCHANGED qtVars PROVE QuotesOK'
      <3>1. asked' = asked
        BY <2>2 DEF qtVars
      <3>2. QuoteIsBest'
        BY <2>2, <3>1 DEF QuotesOK, QuoteIsBest
      <3>3. TaxExact'
        BY <2>2, <3>1 DEF QuotesOK, TaxExact
      <3>4. BenefitWithinLine'
        BY <2>2, <3>1 DEF QuotesOK, BenefitWithinLine
      <3>5. BundleAddsUp'
        BY <2>2, <3>1 DEF QuotesOK, BundleAddsUp
      <3>6. CostHidden'
        BY <2>2, <3>1 DEF QuotesOK, CostHidden
      <3>. QED
        BY <3>2, <3>3, <3>4, <3>5, <3>6 DEF QuotesOK
    <2>. QED
      BY <2>1, <2>2
  <1>. QED
    BY <1>1, <1>2, PTL DEF QtSpec

(***************************************************************************)
(* Price books and tax codes implement MakerChecker.                        *)
(***************************************************************************)

\* A row of the abstract lifecycle, and what its actions make of one.
Versioned(st, au, su, ap, ov, co, fi) ==
    [stage |-> st, author |-> au, submitter |-> su, approver |-> ap, overtook |-> ov,
     content |-> co, fills |-> fi]

Staged(v, stage) == [v EXCEPT !.stage = stage]
Edited(v, c) == [v EXCEPT !.content = c]
SubmittedAs(v, p) == [v EXCEPT !.stage = "submitted", !.submitter = p]
ApprovedAs(v, p, seen) == [v EXCEPT !.stage = "approved", !.approver = p, !.overtook = seen]
RetiredAs(v) == [v EXCEPT !.stage = "retired", !.fills = {}]

\* What each action makes of a row.
LEMMA StagedIs ==
  ASSUME NEW st, NEW au, NEW su, NEW ap, NEW ov, NEW co, NEW fi, NEW x
  PROVE  Staged(Versioned(st, au, su, ap, ov, co, fi), x) = Versioned(x, au, su, ap, ov, co, fi)
  BY DEF Versioned, Staged

\* An edit changes what a row says.
LEMMA EditedIs ==
  ASSUME NEW st, NEW au, NEW su, NEW ap, NEW ov, NEW co, NEW fi, NEW c
  PROVE  Edited(Versioned(st, au, su, ap, ov, co, fi), c) = Versioned(st, au, su, ap, ov, c, fi)
  BY DEF Versioned, Edited

\* A submission moves a row on and names who submitted it.
LEMMA SubmittedIs ==
  ASSUME NEW st, NEW au, NEW su, NEW ap, NEW ov, NEW co, NEW fi, NEW p
  PROVE  SubmittedAs(Versioned(st, au, su, ap, ov, co, fi), p)
            = Versioned("submitted", au, p, ap, ov, co, fi)
  <1> DEFINE moved == [Versioned(st, au, su, ap, ov, co, fi) EXCEPT !.stage = "submitted"]
  <1>1. moved = Versioned("submitted", au, su, ap, ov, co, fi)
    BY DEF Versioned
  <1> HIDE DEF moved
  <1>2. [moved EXCEPT !.submitter = p] = Versioned("submitted", au, p, ap, ov, co, fi)
    BY <1>1 DEF Versioned
  <1>. QED
    BY <1>2 DEF moved, SubmittedAs

\* A row that is retired fills nothing.
LEMMA RetiredIs ==
  ASSUME NEW st, NEW au, NEW su, NEW ap, NEW ov, NEW co, NEW fi
  PROVE  RetiredAs(Versioned(st, au, su, ap, ov, co, fi)) = Versioned("retired", au, su, ap, ov, co, {})
  <1> DEFINE moved == [Versioned(st, au, su, ap, ov, co, fi) EXCEPT !.stage = "retired"]
  <1>1. moved = Versioned("retired", au, su, ap, ov, co, fi)
    BY DEF Versioned
  <1> HIDE DEF moved
  <1>2. [moved EXCEPT !.fills = {}] = Versioned("retired", au, su, ap, ov, co, {})
    BY <1>1 DEF Versioned
  <1>. QED
    BY <1>2 DEF moved, RetiredAs

\* An approval moves a row on, names its approver and marks whether it overtook.
LEMMA ApprovedIs ==
  ASSUME NEW st, NEW au, NEW su, NEW ap, NEW ov, NEW co, NEW fi, NEW p, NEW seen
  PROVE  ApprovedAs(Versioned(st, au, su, ap, ov, co, fi), p, seen)
            = Versioned("approved", au, su, p, seen, co, fi)
  <1> DEFINE moved == [Versioned(st, au, su, ap, ov, co, fi) EXCEPT !.stage = "approved"]
             named == [moved EXCEPT !.approver = p]
  <1>1. moved = Versioned("approved", au, su, ap, ov, co, fi)
    BY DEF Versioned
  <1> HIDE DEF moved
  <1>2. named = Versioned("approved", au, su, p, ov, co, fi)
    BY <1>1 DEF Versioned
  <1> HIDE DEF named
  <1>3. [named EXCEPT !.overtook = seen] = Versioned("approved", au, su, p, seen, co, fi)
    BY <1>2 DEF Versioned
  <1>. QED
    BY <1>3 DEF moved, named, ApprovedAs

\* A book as a row of the lifecycle.
BookStage(status) == IF status = "ended" THEN "retired" ELSE status
BookFills(row) == IF row.isDefault THEN {row.scope} ELSE {}
BookAsRow(row) ==
    Versioned(BookStage(row.status), row.createdBy, row.submittedBy, row.approvedBy,
              row.sawDraft, row.scope, BookFills(row))

\* The fields a book is mapped to.
LEMMA BookAsRowIs ==
  ASSUME NEW row
  PROVE  BookAsRow(row) = Versioned(BookStage(row.status), row.createdBy, row.submittedBy,
                                    row.approvedBy, row.sawDraft, row.scope, BookFills(row))
  BY DEF BookAsRow

\* The mapped row of a book, before and after a step.
LEMMA BookRowIs ==
  ASSUME NEW b
  PROVE  /\ BookRow(b) = BookAsRow(books[b])
         /\ BookRow(b)' = BookAsRow(books'[b])
  BY Zenon DEF BookRow, BookAsRow, BookStage, BookFills, Versioned

\* A step that leaves the books alone leaves the rows alone.
LEMMA BookRowsKept ==
  ASSUME UNCHANGED books
  PROVE  UNCHANGED [b \in DOMAIN books |-> BookRow(b)]
  BY DEF BookRow

\* The rows after one of the books has changed.
LEMMA OneBookRow ==
  ASSUME PbInv, NEW b \in DOMAIN books, NEW r, books' = [books EXCEPT ![b] = r]
  PROVE  /\ DOMAIN books' = DOMAIN books
         /\ BookRow(b) = BookAsRow(books[b]) /\ BookRow(b)' = BookAsRow(r)
         /\ \A x \in DOMAIN books : x # b => BookRow(x)' = BookRow(x)
  <1>1. /\ DOMAIN books' = DOMAIN books /\ books'[b] = r
        /\ \A x \in DOMAIN books : x # b => books'[x] = books[x]
    BY DEF PbInv, BooksOK
  <1>. QED
    BY <1>1, BookRowIs

\* create drafts a row of its clerk.
LEMMA CreateDrafts ==
  ASSUME NEW b \in Books, NEW k \in Clerks, NEW s \in BookScopes, NEW d \in BOOLEAN,
         CreateBook(b, k, s, d)
  PROVE  BookVersions!Next
  <1> DEFINE fills == IF d THEN {s} ELSE {}
  <1>1. b \notin DOMAIN books /\ DOMAIN books' = DOMAIN books \cup {b}
    BY DEF CreateBook
  <1>2. \A x \in DOMAIN books : BookRow(x)' = BookRow(x)
    BY <1>1 DEF CreateBook, BookRow
  <1>3. BookRow(b)' = [stage |-> "draft", author |-> k, submitter |-> Nobody, approver |-> Nobody,
                       overtook |-> FALSE, content |-> s, fills |-> fills]
    BY <1>1 DEF CreateBook, BookRow
  <1>4. BookVersions!Draft(b, k, s, fills)
    BY <1>1, <1>2, <1>3 DEF BookVersions!Draft
  <1>5. fills \in SUBSET BookScopes
    OBVIOUS
  <1>. QED
    BY <1>4, <1>5 DEF BookVersions!Next

\* submit is the submission of the lifecycle.
LEMMA SubmitSubmits ==
  ASSUME PbInv, NEW b \in Books, NEW k \in Clerks, SubmitBook(b, k)
  PROVE  BookVersions!Next
  <1> DEFINE r == [books[b] EXCEPT !.status = "submitted", !.submittedBy = k]
  <1>1. b \in DOMAIN books /\ books[b].status = "draft" /\ books[b] \in BookRecords
    BY DEF SubmitBook, Moves, PbInv, BooksOK
  <1>2. books' = [books EXCEPT ![b] = r]
    BY <1>1 DEF SubmitBook
  <1>3. BookAsRow(r) = SubmittedAs(BookAsRow(books[b]), k)
    <2>1. BookAsRow(r) = Versioned("submitted", books[b].createdBy, k, books[b].approvedBy,
                                   books[b].sawDraft, books[b].scope, BookFills(books[b]))
      BY <1>1 DEF BookRecords, BookAsRow, BookStage, BookFills
    <2> HIDE DEF r
    <2>. QED
      BY <2>1, SubmittedIs, BookAsRowIs
  <1> HIDE DEF r
  <1>4. BookVersions!In(b, {"draft"})
    BY <1>1 DEF BookVersions!In, BookRow
  <1>5. BookVersions!Submit(b, k)
    BY <1>1, <1>2, <1>3, <1>4, OneBookRow DEF BookVersions!Submit, SubmittedAs
  <1>. QED
    BY <1>1, <1>5 DEF BookVersions!Next

\* What the clerk of an approval has read is enough for the step that writes it.
LEMMA ApproveApproves ==
  ASSUME PbInv, NEW c \in BookCalls, ApproveWrite(c)
  PROVE  BookVersions!Next \/ UNCHANGED books
  <1>0. PICK b, p, seen : /\ b = pbCalls[c].book /\ p = pbCalls[c].by
                          /\ seen = pbCalls[c].sawDraft
    OBVIOUS
  <1> DEFINE r == [books[b] EXCEPT !.status = "approved", !.approvedBy = p, !.sawDraft = seen]
  <1>1. CASE ~Moves(b, "submitted", "approved")
    BY <1>0, <1>1 DEF ApproveWrite, PbRefuse
  <1>2. CASE Moves(b, "submitted", "approved")
    <2>1. b \in DOMAIN books /\ books[b].status = "submitted" /\ books[b] \in BookRecords
      BY <1>2 DEF Moves, PbInv, BooksOK
    <2>2. books' = [books EXCEPT ![b] = r]
      BY <1>0, <1>2, <2>1 DEF ApproveWrite
    <2>3. /\ p \in Clerks /\ seen \in BOOLEAN /\ p # books[b].createdBy
          /\ p = books[b].submittedBy => seen
      BY <1>0, <2>1 DEF ApproveWrite, PbInv, CallsOK, ApprovalsOK
    <2>4. BookAsRow(r) = ApprovedAs(BookAsRow(books[b]), p, seen)
      <3>1. BookAsRow(r) = Versioned("approved", books[b].createdBy, books[b].submittedBy, p,
                                     seen, books[b].scope, BookFills(books[b]))
        BY <2>1 DEF BookRecords, BookAsRow, BookStage, BookFills
      <3> HIDE DEF r
      <3>. QED
        BY <3>1, ApprovedIs, BookAsRowIs
    <2> HIDE DEF r
    <2>5. /\ BookVersions!In(b, {"submitted"})
          /\ BookRow(b).author = books[b].createdBy /\ BookRow(b).submitter = books[b].submittedBy
      BY <2>1 DEF BookVersions!In, BookRow
    <2>6. /\ DOMAIN books' = DOMAIN books
          /\ \A x \in DOMAIN books :
                BookRow(x)' = IF x = b THEN ApprovedAs(BookRow(x), p, seen) ELSE BookRow(x)
      BY <2>1, <2>2, <2>4, OneBookRow
    <2> DEFINE found == [x \in DOMAIN books |-> BookRow(x)]
    <2>7. [x \in DOMAIN books' |-> BookRow(x)'] = [found EXCEPT ![b] = ApprovedAs(found[b], p, seen)]
      BY <2>1, <2>6
    <2>8. p # found[b].author /\ (p = found[b].submitter => seen)
      BY <2>1, <2>3, <2>5
    <2>9. BookVersions!Approve(b, p, seen)
      BY <2>5, <2>7, <2>8, Zenon DEF BookVersions!Approve, ApprovedAs
    <2>. QED
      BY <2>1, <2>3, <2>9 DEF BookVersions!Next
  <1>. QED
    BY <1>1, <1>2

\* schedule is its scheduling.
LEMMA ScheduleSchedules ==
  ASSUME PbInv, NEW b \in Books, ScheduleBook(b)
  PROVE  BookVersions!Next
  <1> DEFINE r == [books[b] EXCEPT !.status = "scheduled"]
  <1>1. b \in DOMAIN books /\ books[b].status = "approved" /\ books[b] \in BookRecords
    BY DEF ScheduleBook, Moves, PbInv, BooksOK
  <1>2. books' = [books EXCEPT ![b] = r]
    BY <1>1 DEF ScheduleBook
  <1>3. BookAsRow(r) = Staged(BookAsRow(books[b]), "scheduled")
    <2>1. BookAsRow(r) = Versioned("scheduled", books[b].createdBy, books[b].submittedBy,
                                   books[b].approvedBy, books[b].sawDraft, books[b].scope,
                                   BookFills(books[b]))
      BY <1>1 DEF BookRecords, BookAsRow, BookStage, BookFills
    <2> HIDE DEF r
    <2>. QED
      BY <2>1, StagedIs, BookAsRowIs
  <1> HIDE DEF r
  <1>4. BookVersions!In(b, {"approved"})
    BY <1>1 DEF BookVersions!In, BookRow
  <1>5. BookVersions!Schedule(b)
    BY <1>1, <1>2, <1>3, <1>4, OneBookRow DEF BookVersions!Schedule, Staged
  <1>. QED
    BY <1>1, <1>5 DEF BookVersions!Next

\* A book that is ended, by hand or by its successor.
LEMMA EndedRow ==
  ASSUME NEW row \in BookRecords
  PROVE  BookAsRow([row EXCEPT !.status = "ended", !.isDefault = FALSE])
            = RetiredAs(BookAsRow(row))
  <1> DEFINE r == [row EXCEPT !.status = "ended", !.isDefault = FALSE]
  <1>1. BookAsRow(r) = Versioned("retired", row.createdBy, row.submittedBy, row.approvedBy,
                                 row.sawDraft, row.scope, {})
    BY DEF BookRecords, BookAsRow, BookStage, BookFills
  <1> HIDE DEF r
  <1>2. BookAsRow(r) = RetiredAs(BookAsRow(row))
    BY <1>1, RetiredIs, BookAsRowIs
  <1>. QED
    BY <1>2 DEF r

\* end retires a row without a successor.
LEMMA EndRetires ==
  ASSUME PbInv, NEW b \in Books, EndBook(b)
  PROVE  BookVersions!Next
  <1> DEFINE r == [books[b] EXCEPT !.status = "ended", !.isDefault = FALSE]
  <1>1. b \in DOMAIN books /\ books[b].status = "active" /\ books[b] \in BookRecords
    BY DEF EndBook, Moves, PbInv, BooksOK
  <1>2. books' = [books EXCEPT ![b] = r]
    BY <1>1 DEF EndBook
  <1>3. BookAsRow(r) = RetiredAs(BookAsRow(books[b]))
    BY <1>1, EndedRow
  <1> HIDE DEF r
  <1>4. BookVersions!In(b, {"active"})
    BY <1>1 DEF BookVersions!In, BookRow
  <1>5. BookVersions!Retire(b)
    BY <1>1, <1>2, <1>3, <1>4, OneBookRow DEF BookVersions!Retire, RetiredAs
  <1>. QED
    BY <1>1, <1>5 DEF BookVersions!Next

\* A new name changes nothing that was approved.
LEMMA RenameStutters ==
  ASSUME PbInv, NEW c \in BookCalls, RenameWrite(c)
  PROVE  UNCHANGED [b \in DOMAIN books |-> BookRow(b)]
  <1> DEFINE b == pbCalls[c].book
             r == [books[b] EXCEPT !.name = "second"]
  <1>1. b \in DOMAIN books /\ books[b] \in BookRecords
    BY DEF RenameWrite, PbInv, BooksOK, CallsOK
  <1>2. books' = [books EXCEPT ![b] = r]
    BY <1>1 DEF RenameWrite
  <1> HIDE DEF b
  <1>3. BookAsRow(r) = BookAsRow(books[b])
    BY <1>1 DEF BookRecords, BookAsRow, BookFills
  <1> HIDE DEF r
  <1>4. DOMAIN books' = DOMAIN books /\ \A x \in DOMAIN books : BookRow(x)' = BookRow(x)
    BY <1>1, <1>2, <1>3, OneBookRow
  <1>. QED
    BY <1>4

\* The rivals of a book about to be active are the defaults of its scope it found
\* that nobody has ended meanwhile: the index lets in no other.
LEMMA BookRivals ==
  ASSUME PbInv, NEW b \in DOMAIN books, NEW previous,
         books[b].isDefault => ActiveDefaults(books[b].scope) \subseteq previous \cup {b},
         \A x \in previous :
            /\ x \in DOMAIN books /\ books[x].scope = books[b].scope /\ books[b].isDefault
            /\ books[x].isDefault <=> books[x].status = "active",
         NEW x \in DOMAIN books, x # b
  PROVE  x \in BookVersions!Rivals(b) <=> x \in previous /\ books[x].status = "active"
  <1>1. x \in BookVersions!Rivals(b) <=>
           BookRow(x).stage = "active" /\ BookRow(x).fills \cap BookRow(b).fills # {}
    BY DEF BookVersions!Rivals
  <1>2. BookRow(x).stage = "active" <=> books[x].status = "active"
    BY DEF BookRow
  <1>3. BookRow(x).fills = BookFills(books[x]) /\ BookRow(b).fills = BookFills(books[b])
    BY DEF BookRow, BookFills
  <1>4. BookRow(x).fills \cap BookRow(b).fills # {} <=>
           books[x].isDefault /\ books[b].isDefault /\ books[x].scope = books[b].scope
    BY <1>3 DEF BookFills
  <1>. QED
    BY <1>1, <1>2, <1>4 DEF ActiveDefaults

\* The replacement ends exactly the rivals.
LEMMA HandOverActivates ==
  ASSUME PbInv, NEW c \in BookCalls, ActivateWrite(c)
  PROVE  BookVersions!Next \/ UNCHANGED books
  <1>0. PICK b, previous : b = pbCalls[c].book /\ previous = pbCalls[c].previous
    OBVIOUS
  <1>1. CASE ~(Moves(b, "scheduled", "active") /\ DefaultIndexAllows(b, previous))
    BY <1>0, <1>1 DEF ActivateWrite, PbRefuse
  <1>2. CASE Moves(b, "scheduled", "active") /\ DefaultIndexAllows(b, previous)
    <2>1. /\ b \in DOMAIN books /\ books[b].status = "scheduled"
          /\ books' = HandOver(b, previous)
          /\ books[b].isDefault => ActiveDefaults(books[b].scope) \subseteq previous \cup {b}
      BY <1>0, <1>2 DEF ActivateWrite, Moves, DefaultIndexAllows
    <2>2. \A x \in previous :
             /\ x \in DOMAIN books /\ books[x].scope = books[b].scope
             /\ books[x].status \in {"active", "ended"} /\ books[b].isDefault
             /\ books[x].isDefault <=> books[x].status = "active"
      BY <1>0, <2>1 DEF ActivateWrite, PbInv, CallsOK, HandOversOK
    <2>3. \A x \in DOMAIN books : books[x] \in BookRecords
      BY DEF PbInv, BooksOK
    <2>4. /\ DOMAIN books' = DOMAIN books /\ b \notin previous
          /\ books'[b] = [books[b] EXCEPT !.status = "active"]
      BY <2>1, <2>2 DEF HandOver
    <2>5. BookRow(b)' = Staged(BookRow(b), "active")
      <3> DEFINE r == [books[b] EXCEPT !.status = "active"]
      <3>1. books[b] \in BookRecords
        BY <2>1, <2>3
      <3>2. BookAsRow(r) = Versioned("active", books[b].createdBy, books[b].submittedBy,
                                     books[b].approvedBy, books[b].sawDraft, books[b].scope,
                                     BookFills(books[b]))
        BY <3>1 DEF BookRecords, BookAsRow, BookStage, BookFills
      <3> HIDE DEF r
      <3>3. BookAsRow(r) = Staged(BookAsRow(books[b]), "active")
        BY <3>2, StagedIs, BookAsRowIs
      <3> HIDE DEF r
      <3>4. books'[b] = r
        BY <2>4 DEF r
      <3>. QED
        BY <3>3, <3>4, BookRowIs
    <2>6. ASSUME NEW x \in previous
          PROVE  BookRow(x)' = RetiredAs(BookRow(x))
      <3> DEFINE r == [books[x] EXCEPT !.status = "ended", !.isDefault = FALSE]
      <3>1. books'[x] = r
        BY <2>1, <2>2, <2>4, <2>6 DEF HandOver
      <3>2. BookAsRow(r) = RetiredAs(BookAsRow(books[x]))
        BY <2>2, <2>3, EndedRow
      <3> HIDE DEF r
      <3>. QED
        BY <3>1, <3>2, BookRowIs
    <2>7. ASSUME NEW x \in DOMAIN books, x # b, x \notin previous
          PROVE  BookRow(x)' = BookRow(x)
      <3>1. books'[x] = books[x]
        BY <2>1, <2>7 DEF HandOver
      <3>. QED
        BY <3>1, BookRowIs
    <2>8. ASSUME NEW x \in previous, books[x].status # "active"
          PROVE  BookRow(x)' = BookRow(x)
      <3>1. books[x].status = "ended" /\ ~books[x].isDefault
        BY <2>2, <2>8
      <3>2. BookRow(x) = Versioned("retired", books[x].createdBy, books[x].submittedBy,
                                   books[x].approvedBy, books[x].sawDraft, books[x].scope, {})
        BY <3>1, BookRowIs DEF BookAsRow, BookStage, BookFills
      <3>. QED
        BY <2>6, <2>8, <3>2, RetiredIs
    <2>9. ASSUME NEW x \in DOMAIN books, x # b
          PROVE  x \in BookVersions!Rivals(b) <=> x \in previous /\ books[x].status = "active"
      BY <2>1, <2>2, <2>9, BookRivals
    <2>10. ASSUME NEW x \in DOMAIN books
           PROVE  BookRow(x)' =
                     IF x = b THEN Staged(BookRow(x), "active")
                     ELSE IF x \in BookVersions!Rivals(b)
                          THEN RetiredAs(BookRow(x))
                          ELSE BookRow(x)
      <3>1. CASE x = b
        BY <2>5, <3>1
      <3>2. CASE x # b /\ x \in BookVersions!Rivals(b)
        BY <2>6, <2>9, <3>2
      <3>3. CASE x # b /\ x \notin BookVersions!Rivals(b)
        BY <2>7, <2>8, <2>9, <3>3
      <3>. QED
        BY <3>1, <3>2, <3>3
    <2>11. BookVersions!In(b, {"scheduled"})
      BY <2>1 DEF BookVersions!In, BookRow
    <2>12. BookVersions!Activate(b)
      BY <2>1, <2>4, <2>10, <2>11 DEF BookVersions!Activate, Staged, RetiredAs
    <2>. QED
      BY <2>1, <2>12 DEF BookVersions!Next
  <1>. QED
    BY <1>1, <1>2

\* The price books implement the lifecycle under maker and checker.
LEMMA BooksLifecycle == PbSpec => BookVersions!Spec
  <1>1. PbInit => BookVersions!Init
    BY DEF PbInit, BookVersions!Init
  <1>2. ASSUME PbInv, [PbNext]_pbVars
        PROVE  [BookVersions!Next]_[b \in DOMAIN books |-> BookRow(b)]
    <2>1. CASE UNCHANGED books
      BY <2>1, BookRowsKept
    <2>2. CASE PbNext
      <3>1. ASSUME NEW c \in BookCalls, NEW b \in Books, NEW k \in Clerks,
                   RenameRead(c, b) \/ ActivateRead(c, b) \/ ApproveRead(c, b, k)
            PROVE  UNCHANGED books
        BY <3>1 DEF RenameRead, ActivateRead, ApproveRead, PbOpen
      <3>2. ASSUME NEW c \in BookCalls, ActivateFind(c) PROVE UNCHANGED books
        BY <3>2 DEF ActivateFind
      <3>3. ASSUME NEW c \in BookCalls, NEW b \in Books, RenameRead(c, b) \/ ActivateRead(c, b)
            PROVE  UNCHANGED books
        BY <3>3 DEF RenameRead, ActivateRead, PbOpen
      <3>. QED
        BY <1>2, <2>1, <2>2, <3>1, <3>2, <3>3, CreateDrafts, SubmitSubmits, ApproveApproves,
           ScheduleSchedules, EndRetires, RenameStutters, HandOverActivates DEF PbNext
    <2>. QED
      BY <1>2, <2>1, <2>2 DEF pbVars
  <1>3. PbInv /\ UNCHANGED pbVars => PbInv'
    BY DEF pbVars, PbInv, BooksOK, CallsOK, ApprovalsOK, HandOversOK, HeldOK, ActiveDefaults,
           IndependentApproval
  <1>4. ASSUME PbInv, [PbNext]_pbVars
        PROVE  [BookVersions!Change]_[b \in DOMAIN books |-> BookRow(b)]
    BY <1>2, <1>4 DEF BookVersions!Change
  <1>. QED
    BY <1>1, <1>3, <1>4, PbInitOK, PbStep, PTL DEF PbSpec, BookVersions!Spec

\* A code as a row of the lifecycle.
CodeStage(status) == IF status = "superseded" THEN "retired" ELSE status
CodeFills(status) == IF status = "superseded" THEN {} ELSE {"category"}
CodeAsRow(row) ==
    Versioned(CodeStage(row.status), row.createdBy, row.submittedBy, row.approvedBy, row.sawDraft,
              row.rate, CodeFills(row.status))

\* The fields a code is mapped to.
LEMMA CodeAsRowIs ==
  ASSUME NEW row
  PROVE  CodeAsRow(row) = Versioned(CodeStage(row.status), row.createdBy, row.submittedBy,
                                    row.approvedBy, row.sawDraft, row.rate,
                                    CodeFills(row.status))
  BY DEF CodeAsRow

\* The mapped row of a code, before and after a step.
LEMMA CodeRowIs ==
  ASSUME NEW x
  PROVE  /\ CodeRow(x) = CodeAsRow(codes[x])
         /\ CodeRow(x)' = CodeAsRow(codes'[x])
  BY Zenon DEF CodeRow, CodeAsRow, CodeStage, CodeFills, Versioned

\* A step that leaves the codes alone leaves the rows alone.
LEMMA CodeRowsKept ==
  ASSUME UNCHANGED codes
  PROVE  UNCHANGED [x \in DOMAIN codes |-> CodeRow(x)]
  BY DEF CodeRow

\* The rows after one of the codes has changed.
LEMMA OneCodeRow ==
  ASSUME TaxInv, NEW x \in DOMAIN codes, NEW r, codes' = [codes EXCEPT ![x] = r]
  PROVE  /\ DOMAIN codes' = DOMAIN codes
         /\ CodeRow(x) = CodeAsRow(codes[x]) /\ CodeRow(x)' = CodeAsRow(r)
         /\ \A y \in DOMAIN codes : y # x => CodeRow(y)' = CodeRow(y)
  <1>1. /\ DOMAIN codes' = DOMAIN codes /\ codes'[x] = r
        /\ \A y \in DOMAIN codes : y # x => codes'[y] = codes[y]
    BY DEF TaxInv, CodesTyped
  <1>. QED
    BY <1>1, CodeRowIs

\* A first version, or the next one of a code.
LEMMA RowDrafts ==
  ASSUME RoomForRow, NEW code, NEW v, NEW rate \in Rates, NEW prev,
         NEW clerk \in TaxClerks,
         codes' = With(codes, NewId, DraftRow(code, v, rate, prev, clerk))
  PROVE  CodeVersions!Next
  <1>0. PICK x \in CodeIds : x = NewId /\ x \notin DOMAIN codes
    BY DEF RoomForRow, NewId
  <1> DEFINE d == DraftRow(code, v, rate, prev, clerk)
  <1>1. /\ DOMAIN codes' = DOMAIN codes \cup {x} /\ codes'[x] = d
        /\ \A y \in DOMAIN codes : codes'[y] = codes[y]
    BY <1>0 DEF With
  <1>2. \A y \in DOMAIN codes : CodeRow(y)' = CodeRow(y)
    BY <1>1, CodeRowIs
  <1>3. /\ d.status = "draft" /\ d.submittedBy = NoOne /\ d.approvedBy = NoOne
        /\ d.sawDraft = FALSE /\ d.rate = rate /\ d.createdBy = clerk
    BY DEF DraftRow
  <1> HIDE DEF d
  <1>4. CodeRow(x)' = [stage |-> "draft", author |-> clerk, submitter |-> NoOne,
                       approver |-> NoOne, overtook |-> FALSE, content |-> rate,
                       fills |-> {"category"}]
    BY <1>1, <1>3 DEF CodeRow
  <1>5. CodeVersions!Draft(x, clerk, rate, {"category"})
    BY <1>0, <1>1, <1>2, <1>4 DEF CodeVersions!Draft
  <1>. QED
    BY <1>5 DEF CodeVersions!Next

\* updateDraft edits, for its predicate asks for a draft.
LEMMA EditEdits ==
  ASSUME TaxInv, NEW x \in CodeIds, NEW rate \in Rates, EditDraft(x, rate)
  PROVE  CodeVersions!Next
  <1> DEFINE r == [codes[x] EXCEPT !.rate = rate]
  <1>1. x \in DOMAIN codes /\ codes[x].status = "draft" /\ codes[x] \in CodeRecords
    BY DEF EditDraft, Editable, TaxInv, CodesTyped
  <1>2. codes' = [codes EXCEPT ![x] = r]
    BY <1>1 DEF EditDraft
  <1>3. CodeAsRow(r) = Edited(CodeAsRow(codes[x]), rate)
    <2>1. CodeAsRow(r) = Versioned(CodeStage(codes[x].status), codes[x].createdBy, codes[x].submittedBy,
                                   codes[x].approvedBy, codes[x].sawDraft, rate,
                                   CodeFills(codes[x].status))
      BY <1>1 DEF CodeRecords, CodeAsRow
    <2> HIDE DEF r
    <2>. QED
      BY <2>1, EditedIs, CodeAsRowIs
  <1> HIDE DEF r
  <1>4. CodeVersions!In(x, {"draft"})
    BY <1>1 DEF CodeVersions!In, CodeRow
  <1>5. CodeVersions!Edit(x, rate)
    BY <1>1, <1>2, <1>3, <1>4, OneCodeRow DEF CodeVersions!Edit, Edited
  <1>. QED
    BY <1>1, <1>5 DEF CodeVersions!Next

\* submit is the submission of the lifecycle.
LEMMA SubmitCodeSubmits ==
  ASSUME TaxInv, NEW x \in CodeIds, NEW k \in TaxClerks, SubmitCode(x, k)
  PROVE  CodeVersions!Next
  <1> DEFINE r == [codes[x] EXCEPT !.status = "submitted", !.submittedBy = k,
                                   !.submittedRate = codes[x].rate]
  <1>1. x \in DOMAIN codes /\ codes[x].status = "draft" /\ codes[x] \in CodeRecords
    BY DEF SubmitCode, TaxInv, CodesTyped
  <1>2. codes' = [codes EXCEPT ![x] = r]
    BY <1>1 DEF SubmitCode
  <1>3. CodeAsRow(r) = SubmittedAs(CodeAsRow(codes[x]), k)
    <2>1. CodeAsRow(r) = Versioned("submitted", codes[x].createdBy, k, codes[x].approvedBy,
                                   codes[x].sawDraft, codes[x].rate, CodeFills(codes[x].status))
      BY <1>1 DEF CodeRecords, CodeAsRow, CodeStage, CodeFills
    <2> HIDE DEF r
    <2>. QED
      BY <2>1, SubmittedIs, CodeAsRowIs
  <1> HIDE DEF r
  <1>4. CodeVersions!In(x, {"draft"})
    BY <1>1 DEF CodeVersions!In, CodeRow
  <1>5. CodeVersions!Submit(x, k)
    BY <1>1, <1>2, <1>3, <1>4, OneCodeRow DEF CodeVersions!Submit, SubmittedAs
  <1>. QED
    BY <1>1, <1>5 DEF CodeVersions!Next

\* schedule is its scheduling.
LEMMA ScheduleCodeSchedules ==
  ASSUME TaxInv, NEW x \in CodeIds, ScheduleCode(x)
  PROVE  CodeVersions!Next
  <1> DEFINE r == [codes[x] EXCEPT !.status = "scheduled"]
  <1>1. x \in DOMAIN codes /\ codes[x].status = "approved" /\ codes[x] \in CodeRecords
    BY DEF ScheduleCode, TaxInv, CodesTyped
  <1>2. codes' = [codes EXCEPT ![x] = r]
    BY <1>1 DEF ScheduleCode
  <1>3. CodeAsRow(r) = Staged(CodeAsRow(codes[x]), "scheduled")
    <2>1. CodeAsRow(r) = Versioned("scheduled", codes[x].createdBy, codes[x].submittedBy,
                                   codes[x].approvedBy, codes[x].sawDraft, codes[x].rate,
                                   CodeFills(codes[x].status))
      BY <1>1 DEF CodeRecords, CodeAsRow, CodeStage, CodeFills
    <2> HIDE DEF r
    <2>. QED
      BY <2>1, StagedIs, CodeAsRowIs
  <1> HIDE DEF r
  <1>4. CodeVersions!In(x, {"approved"})
    BY <1>1 DEF CodeVersions!In, CodeRow
  <1>5. CodeVersions!Schedule(x)
    BY <1>1, <1>2, <1>3, <1>4, OneCodeRow DEF CodeVersions!Schedule, Staged
  <1>. QED
    BY <1>1, <1>5 DEF CodeVersions!Next

\* What the clerk of an approval has read is enough for the step that writes it.
LEMMA ApproveCodeApproves ==
  ASSUME TaxInv, NEW c \in TaxCalls, ApproveCodeWrite(c)
  PROVE  CodeVersions!Next \/ UNCHANGED codes
  <1>0. PICK x, p, seen : /\ x = taxCalls[c].id /\ p = taxCalls[c].by
                          /\ seen = taxCalls[c].sawDraft
    OBVIOUS
  <1> DEFINE r == [codes[x] EXCEPT !.status = "approved", !.approvedBy = p, !.sawDraft = seen]
  <1>1. CASE codes[x].status # "submitted"
    BY <1>0, <1>1 DEF ApproveCodeWrite
  <1>2. CASE codes[x].status = "submitted"
    <2>1. /\ x \in DOMAIN codes /\ p \in TaxClerks /\ seen \in BOOLEAN
          /\ p = codes[x].submittedBy => seen
      BY <1>0, <1>2 DEF ApproveCodeWrite, TaxInv, TaxCallsOK
    <2>2. codes[x] \in CodeRecords
      BY <2>1 DEF TaxInv, CodesTyped
    <2>3. codes' = [codes EXCEPT ![x] = r]
      BY <1>0, <1>2, <2>1 DEF ApproveCodeWrite
    <2>4. CodeAsRow(r) = ApprovedAs(CodeAsRow(codes[x]), p, seen)
      <3>1. CodeAsRow(r) = Versioned("approved", codes[x].createdBy, codes[x].submittedBy, p, seen,
                                     codes[x].rate, CodeFills(codes[x].status))
        BY <1>2, <2>1, <2>2 DEF CodeRecords, CodeAsRow, CodeStage, CodeFills
      <3> HIDE DEF r
      <3>. QED
        BY <3>1, ApprovedIs, CodeAsRowIs
    <2> HIDE DEF r
    <2>5. /\ CodeVersions!In(x, {"submitted"})
          /\ CodeRow(x).submitter = codes[x].submittedBy
      BY <1>2, <2>1 DEF CodeVersions!In, CodeRow
    <2>6. /\ DOMAIN codes' = DOMAIN codes
          /\ \A y \in DOMAIN codes :
                CodeRow(y)' = IF y = x THEN ApprovedAs(CodeRow(y), p, seen) ELSE CodeRow(y)
      BY <2>1, <2>3, <2>4, OneCodeRow
    <2> DEFINE found == [y \in DOMAIN codes |-> CodeRow(y)]
    <2>7. [y \in DOMAIN codes' |-> CodeRow(y)'] = [found EXCEPT ![x] = ApprovedAs(found[x], p, seen)]
      BY <2>1, <2>6
    <2>8. p = found[x].submitter => seen
      BY <2>1, <2>5
    <2>9. CodeVersions!Approve(x, p, seen)
      BY <2>5, <2>7, <2>8, Zenon DEF CodeVersions!Approve, ApprovedAs
    <2>. QED
      BY <2>1, <2>9 DEF CodeVersions!Next
  <1>. QED
    BY <1>1, <1>2

\* The codes in force are the rivals of any other: they all fill the category.
LEMMA CodeRivals ==
  ASSUME NEW x \in DOMAIN codes, codes[x].status \in {"approved", "scheduled"}
  PROVE  CodeVersions!Rivals(x) = ActiveCodes
  <1>1. CodeRow(x).fills = {"category"}
    BY DEF CodeRow
  <1>2. ASSUME NEW y \in DOMAIN codes
        PROVE  /\ CodeRow(y).stage = "active" <=> y \in ActiveCodes
               /\ y \in ActiveCodes => CodeRow(y).fills = {"category"} /\ y # x
    BY DEF CodeRow, ActiveCodes
  <1>3. \A y : y \in CodeVersions!Rivals(x) <=>
           /\ y \in DOMAIN codes /\ y # x /\ CodeRow(y).stage = "active"
           /\ CodeRow(y).fills \cap CodeRow(x).fills # {}
    BY DEF CodeVersions!Rivals
  <1>4. ActiveCodes \subseteq DOMAIN codes
    BY DEF ActiveCodes
  <1>. QED
    BY <1>1, <1>2, <1>3, <1>4

\* The promotion supersedes exactly the rivals, or writes nothing.
LEMMA PromoteActivates ==
  ASSUME TaxInv, NEW c \in TaxCalls, PromoteWrite(c)
  PROVE  CodeVersions!Next \/ UNCHANGED codes
  <1>0. PICK x, incumbent : x = taxCalls[c].id /\ incumbent = taxCalls[c].incumbent
    OBVIOUS
  <1>1. CASE x \in incumbent \/ ~PromotionGoes(x, incumbent)
    BY <1>0, <1>1 DEF PromoteWrite
  <1>2. CASE ~(x \in incumbent \/ ~PromotionGoes(x, incumbent))
    <2>1. /\ x \in DOMAIN codes /\ x \notin incumbent /\ incumbent = ActiveCodes
          /\ codes[x].status \in {"approved", "scheduled"} /\ codes' = PromoteOver(x, incumbent)
      BY <1>0, <1>2 DEF PromoteWrite, PromotionGoes, Activatable, TaxInv, TaxCallsOK
    <2>2. \A y \in DOMAIN codes : codes[y] \in CodeRecords
      BY DEF TaxInv, CodesTyped
    <2>3. DOMAIN codes' = DOMAIN codes
      BY <2>1 DEF PromoteOver
    <2>4. CodeRow(x)' = Staged(CodeRow(x), "active")
      <3> DEFINE prev == IF incumbent = {} THEN codes[x].supersedes
                         ELSE CHOOSE i \in incumbent : TRUE
                 r == [codes[x] EXCEPT !.status = "active", !.supersedes = prev]
      <3>1. codes'[x] = r
        BY <2>1 DEF PromoteOver
      <3> HIDE DEF prev
      <3>2. CodeAsRow(r) = Versioned("active", codes[x].createdBy, codes[x].submittedBy, codes[x].approvedBy,
                                     codes[x].sawDraft, codes[x].rate, CodeFills(codes[x].status))
        BY <2>1, <2>2 DEF CodeRecords, CodeAsRow, CodeStage, CodeFills
      <3> HIDE DEF r
      <3>3. CodeAsRow(r) = Staged(CodeAsRow(codes[x]), "active")
        BY <3>2, StagedIs, CodeAsRowIs
      <3>. QED
        BY <3>1, <3>3, CodeRowIs
    <2>5. ASSUME NEW y \in incumbent PROVE CodeRow(y)' = RetiredAs(CodeRow(y))
      <3> DEFINE r == [codes[y] EXCEPT !.status = "superseded", !.supersededBy = x]
      <3>1. y \in DOMAIN codes
        BY <2>1, <2>5 DEF ActiveCodes
      <3>2. codes'[y] = r
        BY <2>1, <2>5, <3>1 DEF PromoteOver
      <3>3. CodeAsRow(r) = Versioned("retired", codes[y].createdBy, codes[y].submittedBy, codes[y].approvedBy,
                                     codes[y].sawDraft, codes[y].rate, {})
        BY <2>2, <3>1 DEF CodeRecords, CodeAsRow, CodeStage, CodeFills
      <3> HIDE DEF r
      <3>4. CodeAsRow(r) = RetiredAs(CodeAsRow(codes[y]))
        BY <3>3, RetiredIs, CodeAsRowIs
      <3>. QED
        BY <3>2, <3>4, CodeRowIs
    <2>6. ASSUME NEW y \in DOMAIN codes, y # x, y \notin incumbent
          PROVE  CodeRow(y)' = CodeRow(y)
      <3>1. codes'[y] = codes[y]
        BY <2>1, <2>6 DEF PromoteOver
      <3>. QED
        BY <3>1, CodeRowIs
    <2>7. CodeVersions!Rivals(x) = incumbent
      BY <2>1, CodeRivals
    <2>8. ASSUME NEW y \in DOMAIN codes
          PROVE  CodeRow(y)' =
                    IF y = x THEN Staged(CodeRow(y), "active")
                    ELSE IF y \in CodeVersions!Rivals(x) THEN RetiredAs(CodeRow(y))
                         ELSE CodeRow(y)
      <3>1. CASE y = x
        BY <2>4, <3>1
      <3>2. CASE y # x /\ y \in incumbent
        BY <2>5, <2>7, <3>2
      <3>3. CASE y # x /\ y \notin incumbent
        BY <2>6, <2>7, <3>3
      <3>. QED
        BY <3>1, <3>2, <3>3
    <2>9. CodeVersions!In(x, {"approved", "scheduled"})
      BY <2>1 DEF CodeVersions!In, CodeRow
    <2>10. CodeVersions!Activate(x)
      BY <2>1, <2>3, <2>8, <2>9 DEF CodeVersions!Activate, Staged, RetiredAs
    <2>. QED
      BY <2>1, <2>10 DEF CodeVersions!Next
  <1>. QED
    BY <1>1, <1>2

\* The tax codes implement the lifecycle under maker and checker.
LEMMA CodesLifecycle == TaxSpec => CodeVersions!Spec
  <1>1. TaxInit => CodeVersions!Init
    BY DEF TaxInit, CodeVersions!Init
  <1>2. ASSUME TaxInv, [TaxNext]_taxVars
        PROVE  [CodeVersions!Next]_[x \in DOMAIN codes |-> CodeRow(x)]
    <2>1. CASE UNCHANGED codes
      BY <2>1, CodeRowsKept
    <2>2. CASE TaxNext
      <3>1. ASSUME NEW n \in CodeNames, NEW r \in Rates, NEW k \in TaxClerks, CreateCode(n, r, k)
            PROVE  CodeVersions!Next
        BY <3>1, RowDrafts DEF CreateCode
      <3>2. ASSUME NEW c \in TaxCalls, NextVersionWrite(c)
            PROVE  CodeVersions!Next \/ UNCHANGED codes
        <4> DEFINE x == taxCalls[c].id
                   v == codes[x].version + 1
                   rate == taxCalls[c].rate
                   k == taxCalls[c].by
        <4>1. rate \in Rates /\ k \in TaxClerks
          BY <1>2, <3>2 DEF NextVersionWrite, TaxInv, TaxCallsOK
        <4>2. \/ RoomForRow /\ codes' = With(codes, NewId, DraftRow(codes[x].code, v, rate, x, k))
              \/ UNCHANGED codes
          BY <3>2 DEF NextVersionWrite
        <4> HIDE DEF v, x, rate, k
        <4>. QED
          BY <4>1, <4>2, RowDrafts
      <3>3. ASSUME NEW c \in TaxCalls, NEW x \in CodeIds, NEW k \in TaxClerks,
                   ApproveCodeRead(c, x, k)
            PROVE  UNCHANGED codes
        BY <3>3 DEF ApproveCodeRead, TaxOpen
      <3>4. ASSUME NEW c \in TaxCalls, NEW x \in CodeIds, NEW r \in Rates,
                   NEW k \in TaxClerks, NextVersionRead(c, x, r, k)
            PROVE  UNCHANGED codes
        BY <3>4 DEF NextVersionRead, TaxOpen
      <3>5. ASSUME NEW c \in TaxCalls, NEW x \in CodeIds, ActivateCodeRead(c, x)
            PROVE  UNCHANGED codes
        BY <3>5 DEF ActivateCodeRead, TaxOpen
      <3>6. ASSUME NEW c \in TaxCalls, FindIncumbent(c) PROVE UNCHANGED codes
        BY <3>6 DEF FindIncumbent
      <3>. QED
        BY <1>2, <2>1, <2>2, <3>1, <3>2, <3>3, <3>4, <3>5, <3>6, EditEdits, SubmitCodeSubmits,
           ScheduleCodeSchedules, ApproveCodeApproves, PromoteActivates DEF TaxNext
    <2>. QED
      BY <1>2, <2>1, <2>2 DEF taxVars
  <1>3. TaxInv /\ UNCHANGED taxVars => TaxInv'
    BY CodesKept DEF taxVars, TaxInv, TaxCallsOK
  <1>4. ASSUME TaxInv, [TaxNext]_taxVars
        PROVE  [CodeVersions!Change]_[x \in DOMAIN codes |-> CodeRow(x)]
    BY <1>2, <1>4 DEF CodeVersions!Change
  <1>. QED
    BY <1>1, <1>3, <1>4, TaxInitOK, TaxStep, PTL DEF TaxSpec, CodeVersions!Spec

(***************************************************************************)
(* The composition: MCCommerce.                                            *)
(***************************************************************************)

\* A step of the whole is a step of each part, or leaves it alone.
LEMMA PartSteps ==
  ASSUME [Next]_comVars
  PROVE  /\ [PbNext]_pbVars /\ [TaxNext]_taxVars /\ [EntNext]_entVars
         /\ [ExcNext]_excVars /\ [PrmNext]_prmVars /\ [CpnNext]_cpnVars
         /\ [CatNext]_catVars /\ [LstNext]_lstVars /\ [PurNext]_purVars /\ [QtNext]_qtVars
  BY DEF Next, comVars

\* A behaviour of the whole is one of each part.
LEMMA PartSpecs ==
  Spec => PbSpec /\ TaxSpec /\ EntSpec /\ ExcSpec /\ PrmSpec /\ CpnSpec /\ CatSpec /\ LstSpec
          /\ PurSpec /\ QtSpec
  <1>1. Init => /\ PbInit /\ TaxInit /\ EntInit /\ ExcInit /\ PrmInit /\ CpnInit /\ CatInit
                /\ LstInit /\ PurInit /\ QtInit
    BY DEF Init
  <1>. QED
    BY <1>1, PartSteps, PTL DEF Spec, PbSpec, TaxSpec, EntSpec, ExcSpec, PrmSpec, CpnSpec,
       CatSpec, LstSpec, PurSpec, QtSpec

\* Who submitted a price book or a tax code did not approve it, nor who created
\* the book, but for an approval that read the row before it was submitted (the
\* approve methods of the price book and tax code services read first and write
\* later; that of tax codes does not ask who drafted the code).
THEOREM ApproverIsAnother == Spec => []ApprovedByAnother
  <1>1. IndependentApproval /\ TaxApprovedByAnother => ApprovedByAnother
    BY DEF ApprovedByAnother
  <1>. QED
    BY <1>1, PbSafe, TaxSafe, PartSpecs, PTL

\* One price and one rate are in force, each with its history, however the
\* activations, supersessions and promotions of two clerks interleave.
THEOREM OnePriceInForce == Spec => []OneInForce
  <1>1. OneDefaultPerScope /\ EntryHistory /\ RateTraceable => OneInForce
    BY DEF OneInForce
  <1>. QED
    BY <1>1, PbSafe, EntSafe, TaxSafe, PartSpecs, PTL

\* An override or exemption once recorded keeps its evidence, gets its approver
\* once and from somebody else, and is never taken back to an earlier status.
THEOREM EvidenceIsKept == Spec => EvidenceKept
  BY ExcSafe, PartSpecs, PTL

\* A live promotion or bundle is complete, but for one whose activation read it
\* as a draft.
THEOREM OffersStayComplete == Spec => []LiveOffersComplete
  BY PrmSafe, PartSpecs, PTL

\* The uses of a coupon are the redemptions that took one, none beyond the
\* capacity it found, however often a key is sent again and wherever a request
\* dies.
THEOREM CouponSpentOnce == Spec => []CouponCounted
  BY CpnSafe, PartSpecs, PTL

\* However requests interleave, a unit conversion has one factor in force and an
\* unbroken history, a key one row, a suggestion one audited verdict, and a
\* variant with history the type it was last checked for.
THEOREM CatalogueStaysSound == Spec => []CatalogueSound
  BY CatSafe, PartSpecs, PTL

\* The total of a list counts every row answered before the list was asked for,
\* and none of another tenant, whichever count it shares.
THEOREM TotalsStayFresh == Spec => []TotalsFresh
  BY LstSafe, PartSpecs, PTL

\* A receipt is booked once: whatever is sent again under its command or under the
\* supplier's number (findReplay of purchasing.service.ts) finds the first one.
THEOREM ReceiptsBookedOnce == Spec => []ReceiptBookedOnce
  BY PurSafe, PartSpecs, PTL

\* preparePurchaseReceipt shares a discount out to the cent, its own check refuses no
\* receipt, and a supplier credits no more than a line cost and exactly that once
\* all of it went back.
THEOREM CentsStayExact == Spec => []CentsExact
  BY PurSafe, PartSpecs, PTL

\* A reversed receipt leaves nothing behind in stock, cost or rounding, and nothing of
\* it was sold, shipped or sent back before (reverse of purchasing.service.ts).
THEOREM ReversalsUndoReceipts == Spec => []ReversalUndoesReceipt
  BY PurSafe, PartSpecs, PTL

\* The cost ledger is a chain that ends at cost_price, and its rounding stays within
\* half a cent per unit (record_inventory_cost_movement).
THEOREM CostLedgerStaysSound == Spec => []CostLedgerSound
  BY PurSafe, PartSpecs, PTL

\* A quote is right to the cent, whatever entries, rates, benefits and bundles a
\* tenant has: quote takes the best entry, calculate splits the tax exactly,
\* computeBenefit stays within the line, allocatePrice's parts add up, and what
\* cost-visibility.service.ts leaves of a row does not tell two costs apart.
THEOREM QuotesStaySound == Spec => []QuoteSound
  <1>1. QuotesOK => QuoteSound
    BY DEF QuotesOK, QuoteSound
  <1>. QED
    BY <1>1, QtSafe, PartSpecs, PTL

\* Price books and tax codes implement one lifecycle (price-book.service.ts and
\* tax-code.service.ts): nothing but a draft is edited, an approval follows a
\* submission and is by another unless it overtook it, and what is put in force
\* retires what was in force in its place, in one step.
THEOREM VersionsShareLifecycle == Spec => OneLifecycle
  BY BooksLifecycle, CodesLifecycle, PartSpecs, PTL DEF OneLifecycle
=============================================================================
