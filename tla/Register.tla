------------------------------- MODULE Register -------------------------------
(***************************************************************************)
(* The register screen of the till: the cart, the drafts put aside, the        *)
(* payment dialog, and the button that closes the shift.  Every call to the    *)
(* main process is answered later, and the screen works on while it waits.     *)
(* The payment dialog keeps the pointer off the rest of the screen, but not     *)
(* the keys: F2 to F10 work under it, and Tab walks the focus out of it (Modal  *)
(* does not hold it).                                                          *)
(***************************************************************************)
EXTENDS Naturals, Sequences, FiniteSets, SequencesExt

CONSTANTS
    Goods,        \* the variants of the till's catalogue
    OnShelf,      \* OnShelf[v]: units of v in the till's stock table
    MaxHeld,      \* drafts a cashier may keep in a shift (50 in the code)
    MaxScans,     \* bound: searches under way at once
    MaxInFlight,  \* bound: answers of one other kind under way at once
    MaxPayments,  \* bound: payments under way at once
    MaxTaken,     \* bound: sales of a behaviour
    MaxCarts      \* bound: carts of a behaviour

VARIABLES
    cart,      \* the lines on the screen, in order
    cartNo,    \* which cart this is: one more whenever the lines are replaced
    scans,     \* searches under way, each with the cart its closure saw
    drafts,    \* the table held_sales of this cashier and shift, oldest first
    holding,   \* answers of pos:hold_sale not yet received
    resuming,  \* carts that pos:resume_held_sale took out of the table
    dialog,    \* the payment dialog is open
    locked,    \* paymentLock, set before the first await
    paying,    \* payments under way: the cart, its lines, how far, what left them
    shelf,     \* the till's stock table
    soldAs,    \* history: the cart of every sale saved
    settled,   \* App's syncState shows a success and nothing pending
    closing,   \* requests to close the shift that wait for held_sales(): whether
               \* each was made under the payment dialog
    counting,  \* closingShift: the close-shift screen is shown
    signedIn   \* App has a session

screen == <<cart, cartNo, scans, holding, resuming, dialog, locked, paying>>
app == <<closing, counting, signedIn>>
regVars == <<screen, drafts, shelf, soldAs, settled, app>>

Line(v, n, a) == [v |-> v, qty |-> n, available |-> a]
LinesOf(lines, v) == {i \in DOMAIN lines : lines[i].v = v}

\* validateHeldSaleItems: there is a line, and no variant is on two.
NoDoubles(lines) == lines # <<>> /\ \A v \in Goods : Cardinality(LinesOf(lines, v)) <= 1

\* hydrateHeldSale: the quantities are there.
InStock(lines) == \A i \in DOMAIN lines : lines[i].qty <= shelf[lines[i].v]

\* validateLocalSaleInput and pos:sale ask for the same of a sale.
Acceptable(lines) == NoDoubles(lines) /\ InStock(lines)

RegInit ==
    /\ cart = <<>> /\ cartNo = 0 /\ scans = <<>> /\ drafts = <<>> /\ holding = 0
    /\ resuming = <<>> /\ dialog = FALSE /\ locked = FALSE /\ paying = <<>>
    /\ shelf = OnShelf /\ soldAs = <<>> /\ settled = FALSE
    /\ closing = <<>> /\ counting = FALSE /\ signedIn = TRUE

NewCart(lines) == cart' = lines /\ cartNo' = cartNo + 1
Mounted == signedIn /\ ~counting
AtRegister == Mounted /\ cartNo < MaxCarts

-----------------------------------------------------------------------------
\* Enter in the search field: runSearch awaits the local search and goes on with
\* the cart of the render in which the key was pressed.
Scan(v) ==
    /\ AtRegister /\ Len(scans) < MaxScans
    /\ scans' = Append(scans, [v |-> v, seen |-> cart])
    /\ UNCHANGED <<cart, cartNo, holding, resuming, dialog, locked, paying, drafts, shelf,
                   soldAs, settled, app>>

\* addProduct: whether the variant has a line already, and whether another unit is
\* there, is decided on the cart that was seen; the update applies to today's.
AddProduct(lines, scan) ==
    LET seen == LinesOf(scan.seen, scan.v)
    IN IF \E i \in seen : scan.seen[i].qty >= shelf[scan.v] THEN lines
       ELSE IF seen = {} /\ shelf[scan.v] <= 0 THEN lines
       ELSE IF seen # {}
       THEN [i \in DOMAIN lines |-> IF lines[i].v = scan.v
                                    THEN [lines[i] EXCEPT !.qty = @ + 1] ELSE lines[i]]
       ELSE Append(lines, Line(scan.v, 1, shelf[scan.v]))

ScanAnswered ==
    /\ scans # <<>>
    /\ cart' = AddProduct(cart, Head(scans))
    /\ scans' = Tail(scans)
    /\ UNCHANGED <<cartNo, holding, resuming, dialog, locked, paying, drafts, shelf,
                   soldAs, settled, app>>

\* changeQty: nothing or less removes the line, more than the line's own snapshot
\* of the stock is refused.
ChangeQty(v, n) ==
    /\ AtRegister /\ LinesOf(cart, v) # {}
    /\ LET keep(l) == l.v # v \/ n > 0
           set(l) == IF l.v = v /\ n <= l.available THEN [l EXCEPT !.qty = n] ELSE l
           kept == SelectSeq(cart, keep)
       IN cart' = [i \in DOMAIN kept |-> set(kept[i])]
    /\ cart' # cart
    /\ UNCHANGED <<cartNo, scans, holding, resuming, dialog, locked, paying, drafts,
                   shelf, soldAs, settled, app>>

ClearCart ==
    /\ AtRegister /\ cart # <<>>
    /\ NewCart(<<>>)
    /\ UNCHANGED <<scans, holding, resuming, dialog, locked, paying, drafts, shelf,
                   soldAs, settled, app>>

-----------------------------------------------------------------------------
\* pos:hold_sale: the new draft, and the oldest beyond the limit thrown away.
Held(table, lines) ==
    LET all == Append(table, lines)
        extra == IF Len(all) > MaxHeld THEN Len(all) - MaxHeld ELSE 0
    IN SubSeq(all, extra + 1, Len(all))

\* F4.
HoldSale ==
    /\ AtRegister /\ Acceptable(cart) /\ holding < MaxInFlight
    /\ drafts' = Held(drafts, cart)
    /\ holding' = holding + 1
    /\ UNCHANGED <<cart, cartNo, scans, resuming, dialog, locked, paying, shelf, soldAs,
                   settled, app>>

HoldAnswered ==
    /\ holding > 0
    /\ holding' = holding - 1
    /\ NewCart(<<>>)
    /\ UNCHANGED <<scans, resuming, dialog, locked, paying, drafts, shelf, soldAs,
                   settled, app>>

\* The cart must be empty when the button is pressed; the answer replaces whatever
\* is in it by then.  A draft that no longer fits the stock stays in the table.
ResumeHeldSale(i) ==
    /\ AtRegister /\ cart = <<>> /\ Len(resuming) < MaxInFlight
    /\ Acceptable(drafts[i])
    /\ drafts' = RemoveAt(drafts, i)
    /\ resuming' = Append(resuming, drafts[i])
    /\ UNCHANGED <<cart, cartNo, scans, holding, dialog, locked, paying, shelf, soldAs,
                   settled, app>>

ResumeAnswered ==
    /\ resuming # <<>>
    /\ resuming' = Tail(resuming)
    /\ NewCart(Head(resuming))
    /\ UNCHANGED <<scans, holding, dialog, locked, paying, drafts, shelf, soldAs, settled,
                   app>>

DeleteHeldSale(i) ==
    /\ AtRegister
    /\ drafts' = RemoveAt(drafts, i)
    /\ UNCHANGED <<screen, shelf, soldAs, settled, app>>

-----------------------------------------------------------------------------
OpenCheckout ==
    /\ AtRegister /\ ~dialog /\ cart # <<>>
    /\ dialog' = TRUE /\ locked' = FALSE
    /\ UNCHANGED <<cart, cartNo, scans, holding, resuming, paying, drafts, shelf, soldAs,
                   settled, app>>

\* A payment remembers whether a close asked for before it was on its way.
Payment == [cart |-> cartNo, lines |-> cart, step |-> "saving", left |-> "no",
            asked |-> \E k \in DOMAIN closing : ~closing[k]]
OnScreen(p) == p.left = "no"

\* A mutant: the dialog without its lock.
ConfirmUnlocked ==
    /\ dialog /\ Len(paying) < MaxPayments /\ Len(soldAs) < MaxTaken
    /\ locked' = TRUE
    /\ paying' = Append(paying, Payment)
    /\ UNCHANGED <<cart, cartNo, scans, holding, resuming, dialog, drafts, shelf, soldAs,
                   settled, app>>

\* confirm: one payment at a time, however often the button is pressed.
Confirm ==
    /\ dialog /\ ~locked /\ Len(paying) < MaxPayments /\ Len(soldAs) < MaxTaken
    /\ locked' = TRUE
    /\ paying' = Append(paying, Payment)
    /\ UNCHANGED <<cart, cartNo, scans, holding, resuming, dialog, drafts, shelf, soldAs,
                   settled, app>>

\* A mutant: the dialog may be dismissed while it pays.
DismissCheckout ==
    /\ dialog
    /\ dialog' = FALSE
    /\ UNCHANGED <<cart, cartNo, scans, holding, resuming, locked, paying, drafts, shelf,
                   soldAs, settled, app>>

\* The dialog does not close while a payment is under way.
CloseCheckout ==
    /\ dialog /\ ~locked
    /\ dialog' = FALSE
    /\ UNCHANGED <<cart, cartNo, scans, holding, resuming, locked, paying, drafts, shelf,
                   soldAs, settled, app>>

\* pos:sale saves the sale, and the receipt goes to the printer, whether or not
\* the dialog still stands.
PaymentSaved(i) ==
    /\ paying[i].step = "saving" /\ Acceptable(paying[i].lines)
    /\ paying' = [paying EXCEPT ![i].step = "printing"]
    /\ soldAs' = Append(soldAs, paying[i].cart)
    /\ shelf' = [v \in Goods |->
                   LET at == LinesOf(paying[i].lines, v)
                   IN IF at = {} THEN shelf[v]
                      ELSE shelf[v] - paying[i].lines[CHOOSE k \in at : TRUE].qty]
    /\ UNCHANGED <<cart, cartNo, scans, holding, resuming, dialog, locked, drafts,
                   settled, app>>

\* pos:sale refuses, for its lines, its authorisation or a failed write: the lock
\* of the dialog is released.
PaymentRefused(i) ==
    /\ paying[i].step = "saving"
    /\ paying' = RemoveAt(paying, i)
    /\ locked' = (locked /\ ~OnScreen(paying[i]))
    /\ UNCHANGED <<cart, cartNo, scans, holding, resuming, dialog, drafts, shelf, soldAs,
                   settled, app>>

\* The printer answered, with success or not: onCompleted empties the cart of the
\* screen the payment was made on, if it is still there.
ReceiptPrinted(i) ==
    /\ paying[i].step = "printing"
    /\ paying' = RemoveAt(paying, i)
    /\ IF OnScreen(paying[i]) THEN dialog' = FALSE /\ NewCart(<<>>)
       ELSE UNCHANGED <<dialog, cart, cartNo>>
    /\ UNCHANGED <<scans, holding, resuming, locked, drafts, shelf, soldAs, settled, app>>

-----------------------------------------------------------------------------
\* What unmounting the screen forgets: the cart and every answer it waited for.  A
\* payment goes on in the main process, with nobody to see how it ends.
Unmounted(why) ==
    /\ NewCart(<<>>)
    /\ scans' = <<>> /\ holding' = 0 /\ resuming' = <<>> /\ dialog' = FALSE /\ locked' = FALSE
    /\ paying' = [i \in DOMAIN paying |->
                    IF OnScreen(paying[i]) THEN [paying[i] EXCEPT !.left = why] ELSE paying[i]]
    /\ UNCHANGED <<drafts, shelf, soldAs, settled>>

\* onSales: the other screen takes the place of the register.
GoToSales ==
    /\ AtRegister
    /\ Unmounted(IF dialog THEN "tab" ELSE "sales")
    /\ UNCHANGED app

\* requestShiftClose: no draft, nothing pending and a sync that succeeded, the
\* last two as the screen knew them when the button was pressed.
CloseAllowed == drafts = <<>> /\ settled

RequestShiftClose ==
    /\ AtRegister /\ CloseAllowed /\ Len(closing) < MaxInFlight
    /\ closing' = Append(closing, dialog)
    /\ UNCHANGED <<screen, drafts, shelf, soldAs, settled, counting, signedIn>>

\* held_sales() answered: the counting of the drawer takes the register's place,
\* whatever the cashier has begun meanwhile.
CloseAnswered ==
    /\ closing # <<>>
    /\ closing' = Tail(closing)
    /\ counting' = TRUE
    /\ Unmounted(IF Head(closing) THEN "tab" ELSE "count")
    /\ UNCHANGED signedIn

\* The session expires (any request may find out), the terminal is revoked, or
\* the logout asked for is answered.
SessionEnds ==
    /\ signedIn /\ cartNo < MaxCarts
    /\ signedIn' = FALSE
    /\ Unmounted("session")
    /\ UNCHANGED <<closing, counting>>

\* The cashier signs in again and the shift is found open.
SignIn ==
    /\ ~signedIn
    /\ signedIn' = TRUE
    /\ UNCHANGED <<screen, drafts, shelf, soldAs, settled, closing, counting>>

CancelClose ==
    /\ signedIn /\ counting
    /\ counting' = FALSE
    /\ UNCHANGED <<screen, drafts, shelf, soldAs, settled, closing, signedIn>>

-----------------------------------------------------------------------------
\* A round of the sync reports how it ended and what the outbox held then.  It may
\* have sent what was saved before, or not have seen what was saved since (TillSync
\* has the rounds): either report may come at any time.
SyncReports ==
    /\ settled' = ~settled
    /\ UNCHANGED <<screen, drafts, shelf, soldAs, app>>

RegNext ==
    \/ \E v \in Goods : Scan(v) \/ \E n \in 0..2 : ChangeQty(v, n)
    \/ ScanAnswered \/ ClearCart \/ HoldSale \/ HoldAnswered \/ ResumeAnswered
    \/ \E i \in DOMAIN drafts : ResumeHeldSale(i) \/ DeleteHeldSale(i)
    \/ OpenCheckout \/ Confirm \/ CloseCheckout
    \/ \E i \in DOMAIN paying : PaymentSaved(i) \/ PaymentRefused(i) \/ ReceiptPrinted(i)
    \/ GoToSales \/ RequestShiftClose \/ CloseAnswered \/ CancelClose
    \/ SessionEnds \/ SignIn
    \/ SyncReports

-----------------------------------------------------------------------------
\* However often the cashier presses the button, and whatever the printer and the
\* main process do in between, a cart becomes at most one sale (confirm and its
\* paymentLock).
OneSalePerCart == \A i, j \in DOMAIN soldAs : soldAs[i] = soldAs[j] => i = j

\* While a payment is under way its dialog stands over the register, locked, until
\* the receipt is printed.  What takes the register away under it is the end of the
\* session, a close of the shift that was asked for before the payment was
\* confirmed and answered after (requestShiftClose looks at nothing once the drafts
\* are there), or a button reached with Tab: nothing the pointer can do once the
\* payment is confirmed (CheckoutModal).
PaymentsWatched ==
    \A i \in DOMAIN paying :
        LET p == paying[i]
        IN /\ OnScreen(p) => dialog /\ locked /\ Mounted
           /\ p.left # "sales"
           /\ p.left = "count" => p.asked
=============================================================================
