----------------------------- MODULE MakerChecker -----------------------------
(***************************************************************************)
(* What a versioned row under maker and checker promises, without requests,  *)
(* statements and what was read between them: it is edited while a draft,     *)
(* submitted by one person, approved by another, and put in force in the step *)
(* that retires whatever was in force in its slots.  Whether its author may   *)
(* approve it too is for the implementation to say.                           *)
(***************************************************************************)
CONSTANTS
    Ids,          \* identifiers of rows
    People,       \* who drafts, submits and approves
    AuthorBarred, \* whether who drafted a row is refused as its approver
    Contents,     \* what a row says
    Slots,        \* places where one row is in force at a time
    Ready,        \* stages from which a row may be put in force
    Retirable,    \* whether a row can be retired without a successor
    None          \* no person

VARIABLE row      \* a function on the rows drafted so far

Init == row = <<>>

In(x, stages) == x \in DOMAIN row /\ row[x].stage \in stages

\* Rows in force that fill a slot of x.
Rivals(x) ==
    {y \in DOMAIN row \ {x} : row[y].stage = "active" /\ row[y].fills \cap row[x].fills # {}}

Draft(x, who, c, fills) ==
    /\ x \notin DOMAIN row
    /\ row' = [y \in DOMAIN row \cup {x} |->
                  IF y # x THEN row[y]
                  ELSE [stage |-> "draft", author |-> who, submitter |-> None,
                        approver |-> None, overtook |-> FALSE, content |-> c, fills |-> fills]]

Edit(x, c) ==
    /\ In(x, {"draft"})
    /\ row' = [row EXCEPT ![x].content = c]

Submit(x, p) ==
    /\ In(x, {"draft"})
    /\ row' = [row EXCEPT ![x] = [@ EXCEPT !.stage = "submitted", !.submitter = p]]

\* The one approval by the submitter that may pass is marked: it was asked for
\* before the submission that it overtook.
Approve(x, p, overtook) ==
    /\ In(x, {"submitted"})
    /\ AuthorBarred => p # row[x].author
    /\ p = row[x].submitter => overtook
    /\ row' = [row EXCEPT ![x] = [@ EXCEPT !.stage = "approved", !.approver = p,
                                             !.overtook = overtook]]

Schedule(x) ==
    /\ In(x, {"approved"})
    /\ row' = [row EXCEPT ![x].stage = "scheduled"]

Activate(x) ==
    /\ In(x, Ready)
    /\ row' = [y \in DOMAIN row |->
                  IF y = x THEN [row[y] EXCEPT !.stage = "active"]
                  ELSE IF y \in Rivals(x) THEN [row[y] EXCEPT !.stage = "retired", !.fills = {}]
                  ELSE row[y]]

Retire(x) ==
    /\ Retirable /\ In(x, {"active"})
    /\ row' = [row EXCEPT ![x] = [@ EXCEPT !.stage = "retired", !.fills = {}]]

Next ==
    \/ \E x \in Ids, who \in People, c \in Contents, fills \in SUBSET Slots : Draft(x, who, c, fills)
    \/ \E x \in DOMAIN row :
          \/ \E c \in Contents : Edit(x, c)
          \/ \E p \in People : Submit(x, p) \/ \E overtook \in BOOLEAN : Approve(x, p, overtook)
          \/ Schedule(x) \/ Activate(x) \/ Retire(x)

\* Most steps of an implementation leave every row alone, which is seen first.
Change == row' # row /\ Next

Spec == Init /\ [][Change]_row
=============================================================================
