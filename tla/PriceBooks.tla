------------------------------ MODULE PriceBooks ------------------------------
(***************************************************************************)
(* Price books: the maker-checker lifecycle                                 *)
(*   draft -> submitted -> approved -> scheduled -> active -> ended          *)
(* A request of the service reads the row, decides, and writes in a later    *)
(* statement: `pbCalls` holds the requests that are between the two.  One    *)
(* clerk may have two requests open (two tabs), so the requests are not tied  *)
(* to the clerks.                                                            *)
(***************************************************************************)
EXTENDS Naturals, FiniteSets

CONSTANTS
    Books,          \* identifiers of price books
    BookScopes,     \* (currency, scope, scope_ref_id) a book can be the default of
    Clerks,         \* identities that work on price books
    BookCalls,      \* requests that can be open at the same time
    MaxEdits        \* bound: requests that read before they write

ASSUME PriceBooksAssumption == MaxEdits \in Nat

VARIABLES
    books,      \* PriceBook rows: a function on the books created so far
    pbCalls,    \* open requests: what each has read
    pbEdits,    \* requests started
    pbHeld      \* scopes that got an active default no one ended by hand

pbVars == <<books, pbCalls, pbEdits, pbHeld>>

Nobody == "nobody"
BookStatus == {"draft", "submitted", "approved", "scheduled", "active", "ended"}

PbIdle == [op |-> "idle"]
PbInit ==
    /\ books = <<>>
    /\ pbCalls = [c \in BookCalls |-> PbIdle]
    /\ pbEdits = 0
    /\ pbHeld = {}

ActiveDefaults(scope) ==
    {b \in DOMAIN books : books[b].scope = scope /\ books[b].isDefault
                          /\ books[b].status = "active"}

-----------------------------------------------------------------------------
(* Single statements. *)

\* create: a draft in the tenant's own currency, whatever the default flag.
CreateBook(b, clerk, scope, isDefault) ==
    /\ b \notin DOMAIN books
    /\ books' = [x \in DOMAIN books \cup {b} |->
                    IF x # b THEN books[x]
                    ELSE [status |-> "draft", isDefault |-> isDefault, scope |-> scope,
                          createdBy |-> clerk, submittedBy |-> Nobody,
                          approvedBy |-> Nobody, sawDraft |-> FALSE, name |-> "first"]]
    /\ UNCHANGED <<pbCalls, pbEdits, pbHeld>>

\* transition: the status read is part of the statement's predicate.
Moves(b, from, to) == b \in DOMAIN books /\ books[b].status = from
                      /\ to \in BookStatus

SubmitBook(b, clerk) ==
    /\ Moves(b, "draft", "submitted")
    /\ books' = [books EXCEPT ![b].status = "submitted", ![b].submittedBy = clerk]
    /\ UNCHANGED <<pbCalls, pbEdits, pbHeld>>

ScheduleBook(b) ==
    /\ Moves(b, "approved", "scheduled")
    /\ books' = [books EXCEPT ![b].status = "scheduled"]
    /\ UNCHANGED <<pbCalls, pbEdits, pbHeld>>

EndBook(b) ==
    /\ Moves(b, "active", "ended")
    /\ books' = [books EXCEPT ![b].status = "ended", ![b].isDefault = FALSE]
    /\ pbHeld' = IF books[b].isDefault THEN pbHeld \ {books[b].scope} ELSE pbHeld
    /\ UNCHANGED <<pbCalls, pbEdits>>

-----------------------------------------------------------------------------
(* Requests that read first. *)

PbOpen(c, call) ==
    /\ pbCalls[c] = PbIdle /\ pbEdits < MaxEdits
    /\ pbEdits' = pbEdits + 1
    /\ pbCalls' = [pbCalls EXCEPT ![c] = call]
    /\ UNCHANGED <<books, pbHeld>>
PbClose(c) == pbCalls' = [pbCalls EXCEPT ![c] = PbIdle]

\* The request fails, and nothing it wrote stays.
PbRefuse(c) == PbClose(c) /\ UNCHANGED <<books, pbEdits, pbHeld>>

RenameRead(c, b) ==
    /\ b \in DOMAIN books /\ books[b].status = "draft"
    /\ PbOpen(c, [op |-> "rename", book |-> b])
\* updateDraftName has no status in its predicate.
RenameWrite(c) ==
    /\ pbCalls[c].op = "rename"
    /\ books' = [books EXCEPT ![pbCalls[c].book].name = "second"]
    /\ PbClose(c) /\ UNCHANGED <<pbEdits, pbHeld>>

\* Neither who created the book nor who submitted it may approve it.
MayApprove(row, clerk) == row.createdBy # clerk /\ row.submittedBy # clerk
ApproveRead(c, b, clerk) ==
    /\ b \in DOMAIN books /\ MayApprove(books[b], clerk)
    /\ PbOpen(c, [op |-> "approve", book |-> b, by |-> clerk,
                  sawDraft |-> books[b].status = "draft"])
\* A mutant: the statement does not ask for the status.
ApproveWhatever(c) ==
    /\ pbCalls[c].op = "approve"
    /\ books' = [books EXCEPT ![pbCalls[c].book].status = "approved",
                    ![pbCalls[c].book].approvedBy = pbCalls[c].by,
                    ![pbCalls[c].book].sawDraft = pbCalls[c].sawDraft]
    /\ PbClose(c) /\ UNCHANGED <<pbEdits, pbHeld>>
ApproveWrite(c) ==
    /\ pbCalls[c].op = "approve"
    /\ LET call == pbCalls[c]  b == call.book IN
       IF Moves(b, "submitted", "approved")
       THEN /\ books' = [books EXCEPT ![b].status = "approved",
                            ![b].approvedBy = call.by, ![b].sawDraft = call.sawDraft]
            /\ PbClose(c) /\ UNCHANGED <<pbEdits, pbHeld>>
       ELSE PbRefuse(c)

ActivateRead(c, b) ==
    /\ b \in DOMAIN books /\ books[b].status = "scheduled"
    /\ PbOpen(c, [op |-> "activate", book |-> b])
\* First statement of the transaction: the default it will replace.
ActivateFind(c) ==
    /\ pbCalls[c].op = "activate"
    /\ LET b == pbCalls[c].book IN
       pbCalls' = [pbCalls EXCEPT ![c] =
                     [op |-> "replace", book |-> b,
                      previous |-> IF books[b].isDefault
                                   THEN ActiveDefaults(books[b].scope) \ {b} ELSE {}]]
    /\ UNCHANGED <<books, pbEdits, pbHeld>>
\* What the transaction writes: previous ended, this book active.
HandOver(b, previous) ==
    [x \in DOMAIN books |->
        CASE x = b -> [books[x] EXCEPT !.status = "active"]
          [] x \in previous -> [books[x] EXCEPT !.status = "ended", !.isDefault = FALSE]
          [] OTHER -> books[x]]
\* PriceBook_one_default_per_scope, in the database schema.
DefaultIndexAllows(b, previous) ==
    books[b].isDefault => ActiveDefaults(books[b].scope) \subseteq previous \cup {b}
ActivateWrite(c) ==
    /\ pbCalls[c].op = "replace"
    /\ LET call == pbCalls[c]  b == call.book IN
       IF Moves(b, "scheduled", "active") /\ DefaultIndexAllows(b, call.previous)
       THEN /\ books' = HandOver(b, call.previous)
            /\ pbHeld' = IF books[b].isDefault THEN pbHeld \cup {books[b].scope} ELSE pbHeld
            /\ PbClose(c) /\ UNCHANGED <<pbEdits>>
       ELSE PbRefuse(c)

PbNext ==
    \/ \E b \in Books, k \in Clerks, s \in BookScopes, d \in BOOLEAN : CreateBook(b, k, s, d)
    \/ \E b \in Books :
          \/ \E k \in Clerks : SubmitBook(b, k)
          \/ ScheduleBook(b) \/ EndBook(b)
    \/ \E c \in BookCalls :
          \/ \E b \in Books :
                \/ RenameRead(c, b) \/ ActivateRead(c, b)
                \/ \E k \in Clerks : ApproveRead(c, b, k)
          \/ RenameWrite(c) \/ ApproveWrite(c) \/ ActivateFind(c) \/ ActivateWrite(c)

-----------------------------------------------------------------------------
(* Separation of duties: an approved book was not approved by who created   *)
(* it, and not by who submitted it unless the approval had read the row      *)
(* before the submission.  That window is the only way around the check.     *)
IndependentApproval ==
    \A b \in DOMAIN books : books[b].approvedBy # Nobody =>
        /\ books[b].approvedBy # books[b].createdBy
        /\ books[b].approvedBy = books[b].submittedBy => books[b].sawDraft

(* Activating a default ends the one before it in the same transaction: a   *)
(* scope that got a default keeps exactly one, however activations overlap, *)
(* until someone ends it by hand.                                           *)
OneDefaultPerScope ==
    \A s \in BookScopes : Cardinality(ActiveDefaults(s)) = IF s \in pbHeld THEN 1 ELSE 0

-----------------------------------------------------------------------------
(* The books implement the abstract lifecycle.  A book's slot is its scope,  *)
(* as long as it is a default; its name is not part of what is approved.     *)
BookRow(b) ==
    [stage |-> IF books[b].status = "ended" THEN "retired" ELSE books[b].status,
     author |-> books[b].createdBy, submitter |-> books[b].submittedBy,
     approver |-> books[b].approvedBy, overtook |-> books[b].sawDraft,
     content |-> books[b].scope,
     fills |-> IF books[b].isDefault THEN {books[b].scope} ELSE {}]
BookVersions ==
    INSTANCE MakerChecker
        WITH Ids <- Books, People <- Clerks, AuthorBarred <- TRUE, Contents <- BookScopes,
             Slots <- BookScopes, Ready <- {"scheduled"}, Retirable <- TRUE, None <- Nobody,
             row <- [b \in DOMAIN books |-> BookRow(b)]

=============================================================================
