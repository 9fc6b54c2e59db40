--------------------------- MODULE OperationsScreen ---------------------------
(***************************************************************************)
(* The operations screen of the till: two lists of the server's, each turned  *)
(* page by page, and the form that takes goods back.  Answers come in any    *)
(* order, and the screen keeps one flag per list and one for the form.       *)
(***************************************************************************)
EXTENDS Naturals, Sequences, FiniteSets, SequencesExt, Bags

CONSTANTS
    Pages,        \* pages either list has
    Units,        \* units of the invoice that may still be returned at first
    MaxLoads,     \* bound: loads of each list under way
    MaxOpenings,  \* bound: openings of the return dialog
    MaxReturns    \* bound: returns on their way

ASSUME OperationsAssumption == Pages \in Nat \ {0} /\ Units \in Nat

Tabs == {"sales", "returns"}
NoOpening == 0

VARIABLES
    list,      \* per tab: the page its label names, the page its rows are of,
               \* the loading flag and whether an error is shown
    loads,     \* per tab: the loads under way, and the return they belong to
    lookups,   \* requests for what an invoice still allows to return
    form,    \* the return dialog: its opening (or NoOpening) and what it allows
    opened,    \* openings so far
    busy,      \* the form's flag
    requests,  \* returns sent: the opening, the quantity, how far
    settling,  \* openings whose return is booked and whose lists still load
    left,      \* the server: units of the invoice not yet returned
    freed      \* history: openings whose flag another opening's return cleared

dialogVars == <<lookups, form, opened, busy, requests, settling, left, freed>>
opsVars == <<list, loads, dialogVars>>

Closed == [opening |-> NoOpening, left |-> 0]

\* The effect that loads page 1 of both when the screen appears.
OpsInit ==
    /\ list = [t \in Tabs |-> [label |-> 1, rows |-> 1, loading |-> TRUE, error |-> FALSE]]
    /\ loads = [t \in Tabs |-> SetToBag({[page |-> 1, by |-> NoOpening]})]
    /\ lookups = 0 /\ form = Closed /\ opened = 0 /\ busy = FALSE
    /\ requests = <<>> /\ settling = {} /\ left = Units /\ freed = {}

-----------------------------------------------------------------------------
Room(t) == BagCardinality(loads[t]) < MaxLoads[t]

\* loadSales, loadReturns: up to the request.
Loading(l) == [l EXCEPT !.loading = TRUE, !.error = FALSE]
Asked(t, page, by) == loads[t] (+) SetToBag({[page |-> page, by |-> by]})

\* pageWindow: the page the label shows stays within what there is.
Within(page) == IF page < 1 THEN 1 ELSE IF page > Pages THEN Pages ELSE page

\* OperationsPagination, which is there when nothing loads.
TurnPage(t, page) ==
    /\ ~list[t].loading /\ Room(t)
    /\ page \in {list[t].label - 1, list[t].label + 1} /\ page = Within(page)
    /\ list' = [list EXCEPT ![t] = Loading([@ EXCEPT !.label = page])]
    /\ loads' = [loads EXCEPT ![t] = Asked(t, page, NoOpening)]
    /\ UNCHANGED dialogVars

\* runSearch.
RunSearch ==
    /\ \A t \in Tabs : Room(t)
    /\ list' = [t \in Tabs |-> Loading([list[t] EXCEPT !.label = 1])]
    /\ loads' = [t \in Tabs |-> Asked(t, 1, NoOpening)]
    /\ UNCHANGED dialogVars

\* refreshAll.
RefreshAll ==
    /\ \A t \in Tabs : Room(t)
    /\ list' = [t \in Tabs |-> Loading(list[t])]
    /\ loads' = [t \in Tabs |-> Asked(t, list[t].label, NoOpening)]
    /\ UNCHANGED dialogVars

\* A mutant: the answer does not bring the label along.
ShownLabelKept(l, page) == [l EXCEPT !.rows = page, !.loading = FALSE]

\* The rows, their page and the end of loading, whatever was asked since.
Shown(l, page) == [l EXCEPT !.rows = page, !.label = page, !.loading = FALSE]

\* The end of a return's refresh clears the form's flag (finally in submit).
Settled(t, load) ==
    LET last == /\ loads[t][load] = 1
                /\ \A u \in Tabs : \A other \in BagToSet(loads[u]) :
                      other.by = load.by => u = t /\ other = load
        over == load.by # NoOpening /\ last
    IN /\ settling' = IF over THEN settling \ {load.by} ELSE settling
       /\ busy' = IF over THEN FALSE ELSE busy
       /\ freed' = IF over /\ form.opening # NoOpening THEN freed \cup {form.opening} ELSE freed
       /\ UNCHANGED <<lookups, form, opened, requests, left>>

ListAnswered(t, load) ==
    /\ list' = [list EXCEPT ![t] = Shown(@, load.page)]
    /\ loads' = [loads EXCEPT ![t] = @ (-) SetToBag({load})]
    /\ Settled(t, load)

ListFailed(t, load) ==
    /\ list' = [list EXCEPT ![t] = [@ EXCEPT !.error = TRUE, !.loading = FALSE]]
    /\ loads' = [loads EXCEPT ![t] = @ (-) SetToBag({load})]
    /\ Settled(t, load)

-----------------------------------------------------------------------------
HasReturnableItems == left > 0

\* InvoiceModal.onReturn and beginReturn; no form is in the way meanwhile.
BeginReturn ==
    /\ form = Closed /\ HasReturnableItems /\ opened + lookups < MaxOpenings
    /\ lookups' = lookups + 1
    /\ UNCHANGED <<list, loads, form, opened, busy, requests, settling, left, freed>>

\* findReturnableInvoice: the lines with what completed returns have left of them.
FindReturnableInvoice == [opening |-> opened + 1, left |-> left]

\* The answer opens the form, or replaces what is in it; the effect on the
\* invoice empties the form and clears the flag.
LookupAnswered ==
    /\ lookups > 0
    /\ lookups' = lookups - 1
    /\ opened' = opened + 1
    /\ form' = FindReturnableInvoice
    /\ busy' = FALSE
    /\ UNCHANGED <<list, loads, requests, settling, left, freed>>

LookupFailed ==
    /\ lookups > 0
    /\ lookups' = lookups - 1
    /\ UNCHANGED <<list, loads, form, opened, busy, requests, settling, left, freed>>

CloseDialog ==
    /\ form # Closed /\ ~busy
    /\ form' = Closed
    /\ UNCHANGED <<list, loads, lookups, opened, busy, requests, settling, left, freed>>

InFlight(o) == {i \in DOMAIN requests : requests[i].opening = o}

\* What is sent, with the page of the sales that onCompleted will ask for again.
Request(qty) ==
    [opening |-> form.opening, qty |-> qty, page |-> list["sales"].label, step |-> "sent"]

\* The buttons and the field for the quantity stay within what the lookup said.
Choosable == 1..form.left

\* submit: one return at a time, by the flag.
Submit(qty) ==
    /\ form # Closed /\ ~busy /\ qty \in Choosable
    /\ Len(requests) < MaxReturns
    /\ busy' = TRUE
    /\ requests' = Append(requests, Request(qty))
    /\ UNCHANGED <<list, loads, lookups, form, opened, settling, left, freed>>

\* POST /pos/return, as far as this invoice is concerned (ShiftDrawer has it).
ReturnBooked(i) ==
    /\ requests[i].step = "sent"
    /\ IF requests[i].qty <= left
       THEN /\ left' = left - requests[i].qty
            /\ requests' = [requests EXCEPT ![i].step = "booked"]
       ELSE /\ requests' = [requests EXCEPT ![i].step = "refused"]
            /\ UNCHANGED left
    /\ UNCHANGED <<list, loads, lookups, form, opened, busy, settling, freed>>

\* onCompleted: the form that is open closes, the returns go to page 1, and
\* submit waits for the lists before it clears the flag.
ReturnCompleted(i) ==
    /\ requests[i].step = "booked" /\ \A t \in Tabs : Room(t)
    /\ LET o == requests[i].opening
           at == [sales |-> requests[i].page, returns |-> 1]
       IN /\ list' = [t \in Tabs |-> Loading(IF t = "returns" THEN [list[t] EXCEPT !.label = 1]
                                              ELSE list[t])]
          /\ loads' = [t \in Tabs |-> Asked(t, at[t], o)]
          /\ settling' = settling \cup {o}
    /\ form' = Closed
    /\ requests' = RemoveAt(requests, i)
    /\ UNCHANGED <<lookups, opened, busy, left, freed>>

\* Refused, or no answer although it may be booked: the message, and the button
\* works again.
ReturnRejected(i) ==
    /\ requests' = RemoveAt(requests, i)
    /\ busy' = FALSE
    /\ freed' = IF form.opening \in {NoOpening, requests[i].opening} THEN freed
                ELSE freed \cup {form.opening}
    /\ UNCHANGED <<list, loads, lookups, form, opened, settling, left>>

OpsNext ==
    \/ RunSearch \/ RefreshAll
    \/ \E t \in Tabs : (\E p \in 1..Pages : TurnPage(t, p))
                       \/ (\E l \in BagToSet(loads[t]) : ListAnswered(t, l) \/ ListFailed(t, l))
    \/ BeginReturn \/ LookupAnswered \/ LookupFailed \/ CloseDialog
    \/ \E q \in 1..Units : Submit(q)
    \/ \E i \in DOMAIN requests : ReturnBooked(i) \/ ReturnCompleted(i) \/ ReturnRejected(i)

-----------------------------------------------------------------------------
\* Whatever order pages are turned, searches run and answers come in, a label over
\* rows of another page is over a list that is loading or under an error message
\* (loadSales, loadReturns); and two returns of one opening of the form are under
\* way only where the end of an earlier return cleared the flag (submit).
PagesAndReturnsHonest ==
    /\ \A t \in Tabs : list[t].label # list[t].rows => list[t].loading \/ list[t].error
    /\ \A o \in 1..opened : Cardinality(InFlight(o)) > 1 => o \in freed
=============================================================================
