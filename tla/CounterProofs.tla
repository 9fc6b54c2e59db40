----------------------------- MODULE CounterProofs -----------------------------
(***************************************************************************)
(* Proofs about the till as the cashier meets it, for any cashiers, tills,  *)
(* shifts, goods, pages, releases and legacy directories.  Each part has    *)
(* its inductive invariant and its proof; the last section carries the      *)
(* results over to the composition MCCounter, whose behaviours follow one   *)
(* part each.                                                               *)
(***************************************************************************)
EXTENDS MCCounter, FiniteSetTheorems, TLAPS

(***************************************************************************)
(* The register: Register.                                                 *)
(***************************************************************************)

\* The register on its own: MCCounter's Spec restricted to the register's
\* variables.
RegSpec == RegInit /\ [][RegNext]_regVars

\* A payment under way: a cart no newer than the newest, being saved or printed.
IsPayment(p, newest) ==
    /\ p = [cart |-> p.cart, lines |-> p.lines, step |-> p.step, left |-> p.left,
            asked |-> p.asked]
    /\ p.cart \in 0..newest /\ p.step \in {"saving", "printing"}

\* The payments are a sequence of such.
PaymentsOK ==
    /\ Len(paying) \in Nat /\ paying = [i \in 1..Len(paying) |-> paying[i]]
    /\ \A i \in 1..Len(paying) : IsPayment(paying[i], cartNo)

\* Every payment has a cart of its own, one on the screen at most; one that was
\* left has an older cart than the one in hand.
CartsApart ==
    \A i \in 1..Len(paying) :
        /\ ~OnScreen(paying[i]) => paying[i].cart < cartNo
        /\ \A j \in 1..Len(paying) :
              paying[i].cart = paying[j].cart \/ (OnScreen(paying[i]) /\ OnScreen(paying[j]))
                 => i = j

\* A cart that has been sold is older than the one in hand, unless its receipt is
\* still printing under the locked dialog.
SoldIsOlder ==
    \A k \in 1..Len(soldAs) :
        /\ soldAs[k] <= cartNo
        /\ soldAs[k] = cartNo =>
              /\ dialog /\ locked
              /\ \A i \in 1..Len(paying) : OnScreen(paying[i]) => paying[i].step = "printing"

\* A sale still being saved has not been sold yet.
NotSoldYet ==
    \A i \in 1..Len(paying) : paying[i].step = "saving" =>
        \A k \in 1..Len(soldAs) : soldAs[k] # paying[i].cart

\* A close that was asked for outside the dialog is known to every payment on the
\* screen.
ClosesKnown ==
    \A i \in 1..Len(paying) : OnScreen(paying[i]) /\ ~paying[i].asked =>
        \A k \in 1..Len(closing) : closing[k]

\* The inductive invariant of the register.  Without CartsApart and NotSoldYet, the
\* save of a payment whose dialog was left could be the second sale of its cart;
\* without ClosesKnown a close could take the register from a payment that was
\* confirmed before it was asked for.
RegInv ==
    /\ cartNo \in Nat /\ soldAs \in Seq(Nat) /\ closing \in Seq(BOOLEAN) /\ dialog \in BOOLEAN
    /\ PaymentsOK /\ CartsApart /\ SoldIsOlder /\ NotSoldYet /\ ClosesKnown
    /\ dialog => Mounted
    /\ PaymentsWatched
    /\ OneSalePerCart

\* The register starts with an empty cart that nobody has sold.
LEMMA RegInitOK == RegInit => RegInv
  <1> SUFFICES ASSUME RegInit PROVE RegInv
    OBVIOUS
  <1>1. /\ paying = <<>> /\ soldAs = <<>> /\ closing = <<>> /\ cartNo = 0 /\ dialog = FALSE
        /\ Len(paying) = 0 /\ Len(soldAs) = 0
    BY DEF RegInit
  <1>2. PaymentsOK
    BY <1>1 DEF PaymentsOK
  <1>3. CartsApart /\ SoldIsOlder /\ NotSoldYet /\ ClosesKnown
    BY <1>1 DEF CartsApart, SoldIsOlder, NotSoldYet, ClosesKnown
  <1>4. cartNo \in Nat /\ soldAs \in Seq(Nat) /\ closing \in Seq(BOOLEAN) /\ dialog \in BOOLEAN
    <2>1. \A S : <<>> \in Seq(S)
      OBVIOUS
    <2>. QED
      BY <1>1, <2>1
  <1>5. DOMAIN paying = {} /\ DOMAIN soldAs = {}
    BY <1>1
  <1>6. PaymentsWatched
    BY <1>5 DEF PaymentsWatched
  <1>7. OneSalePerCart
    BY <1>5 DEF OneSalePerCart
  <1>. QED
    BY <1>1, <1>2, <1>3, <1>4, <1>6, <1>7 DEF RegInv

\* A step that touches neither the cart's number nor a payment keeps the
\* invariant.
LEMMA RegQuiet ==
  ASSUME RegInv, UNCHANGED <<cartNo, soldAs, paying, dialog, locked, app>>
  PROVE  RegInv'
  <1>1. UNCHANGED <<cartNo, soldAs, paying, dialog, locked, closing, counting, signedIn>>
    BY DEF app
  <1>2. PaymentsOK' /\ CartsApart'
    BY <1>1 DEF RegInv, PaymentsOK, IsPayment, CartsApart
  <1>3. SoldIsOlder' /\ NotSoldYet' /\ ClosesKnown'
    BY <1>1 DEF RegInv, SoldIsOlder, NotSoldYet, ClosesKnown
  <1>4. PaymentsWatched' /\ OneSalePerCart' /\ (dialog => Mounted)'
    BY <1>1 DEF RegInv, PaymentsWatched, OneSalePerCart, Mounted
  <1>. QED
    BY <1>1, <1>2, <1>3, <1>4 DEF RegInv

\* A step that hands the cashier a fresh cart (clearing, holding, resuming) keeps
\* it.
LEMMA RegFresh ==
  ASSUME RegInv, cartNo' = cartNo + 1, UNCHANGED <<soldAs, paying, dialog, locked, app>>
  PROVE  RegInv'
  <1>1. UNCHANGED <<soldAs, paying, dialog, locked, closing, counting, signedIn>>
    BY DEF app
  <1>2. PaymentsOK'
    BY <1>1 DEF RegInv, PaymentsOK, IsPayment
  <1>3. CartsApart'
    BY <1>1 DEF RegInv, PaymentsOK, IsPayment, CartsApart
  <1>4. SoldIsOlder'
    BY <1>1 DEF RegInv, SoldIsOlder
  <1>5. NotSoldYet' /\ ClosesKnown'
    BY <1>1 DEF RegInv, NotSoldYet, ClosesKnown
  <1>6. PaymentsWatched' /\ OneSalePerCart' /\ (dialog => Mounted)'
    BY <1>1 DEF RegInv, PaymentsWatched, OneSalePerCart, Mounted
  <1>. QED
    BY <1>1, <1>2, <1>3, <1>4, <1>5, <1>6 DEF RegInv

\* A step that takes the register off the screen keeps it, if what it writes on the
\* payments it leaves behind is true of them.
LEMMA RegUnmounted ==
  ASSUME RegInv, NEW why, why # "no", Unmounted(why), closing' \in Seq(BOOLEAN),
         \A i \in 1..Len(paying) : OnScreen(paying[i]) =>
            why # "sales" /\ (why = "count" => paying[i].asked)
  PROVE  RegInv'
  <1>1. /\ cartNo' = cartNo + 1 /\ soldAs' = soldAs /\ dialog' = FALSE
        /\ paying' = [i \in 1..Len(paying) |->
                        IF OnScreen(paying[i]) THEN [paying[i] EXCEPT !.left = why] ELSE paying[i]]
    BY DEF Unmounted, NewCart, RegInv, PaymentsOK
  <1>2. Len(paying) \in Nat /\ cartNo \in Nat /\ Len(paying') = Len(paying)
    BY <1>1 DEF RegInv, PaymentsOK
  <1>3. ASSUME NEW i \in 1..Len(paying)
        PROVE  /\ IsPayment(paying'[i], cartNo') /\ ~OnScreen(paying'[i]) /\ paying'[i].cart = paying[i].cart
               /\ paying'[i].step = paying[i].step /\ paying'[i].cart < cartNo'
               /\ paying'[i].left # "sales" /\ (paying'[i].left = "count" => paying'[i].asked)
    <2>1. IsPayment(paying[i], cartNo)
      BY DEF RegInv, PaymentsOK
    <2>2. paying[i].left # "sales" /\ (paying[i].left = "count" => paying[i].asked)
      BY <1>2 DEF RegInv, PaymentsWatched, PaymentsOK
    <2>3. CASE OnScreen(paying[i])
      <3>1. paying'[i] = [paying[i] EXCEPT !.left = why]
        BY <1>1, <2>3
      <3>2. paying'[i] = [cart |-> paying[i].cart, lines |-> paying[i].lines,
                          step |-> paying[i].step, left |-> why, asked |-> paying[i].asked]
        BY <2>1, <3>1 DEF IsPayment
      <3>. QED
        BY <1>1, <1>2, <2>1, <2>3, <3>2 DEF IsPayment, OnScreen
    <2>4. CASE ~OnScreen(paying[i])
      <3>1. paying'[i] = paying[i]
        BY <1>1, <2>4
      <3>. QED
        BY <1>1, <1>2, <2>1, <2>2, <2>4, <3>1 DEF IsPayment, OnScreen
    <2>. QED
      BY <2>3, <2>4
  <1>4. PaymentsOK'
    BY <1>1, <1>2, <1>3 DEF PaymentsOK
  <1>5. CartsApart'
    BY <1>2, <1>3 DEF RegInv, CartsApart
  <1>6. SoldIsOlder'
    BY <1>1, <1>2 DEF RegInv, SoldIsOlder
  <1>7. NotSoldYet' /\ ClosesKnown'
    BY <1>1, <1>2, <1>3 DEF RegInv, NotSoldYet, ClosesKnown
  <1>8. PaymentsWatched'
    BY <1>2, <1>3, <1>4 DEF PaymentsWatched, PaymentsOK
  <1>9. OneSalePerCart'
    BY <1>1 DEF RegInv, OneSalePerCart
  <1>10. soldAs' \in Seq(Nat) /\ cartNo' \in Nat
    BY <1>1, <1>2 DEF RegInv
  <1>. QED
    BY <1>1, <1>4, <1>5, <1>6, <1>7, <1>8, <1>9, <1>10 DEF RegInv

\* What a sequence is after an element is put at its end.
LEMMA Appended ==
  ASSUME NEW s, NEW x, Len(s) \in Nat, s = [i \in 1..Len(s) |-> s[i]]
  PROVE  LET t == Append(s, x)
         IN /\ Len(t) = Len(s) + 1 /\ t[Len(s) + 1] = x
            /\ \A i \in 1..Len(s) : t[i] = s[i]
            /\ t = [i \in 1..Len(s) + 1 |-> t[i]]
  <1> DEFINE S == {s[i] : i \in 1..Len(s)} \cup {x}
             t == Append(s, x)
  <1>1. s \in Seq(S) /\ x \in S
    OBVIOUS
  <1> HIDE DEF S
  <1>2. t \in Seq(S) /\ Len(t) = Len(s) + 1 /\ t[Len(s) + 1] = x
    BY <1>1
  <1>3. \A i \in 1..Len(s) : t[i] = s[i]
    BY <1>1
  <1> HIDE DEF t
  <1>4. t = [i \in 1..Len(s) + 1 |-> t[i]]
    BY <1>2
  <1>. QED
    BY <1>2, <1>3, <1>4 DEF t

\* The two halves of CartsApart.
LEMMA Apart ==
  ASSUME CartsApart, NEW i \in 1..Len(paying), NEW j \in 1..Len(paying)
  PROVE  /\ paying[i].cart = paying[j].cart => i = j
         /\ OnScreen(paying[i]) /\ OnScreen(paying[j]) => i = j
  BY DEF CartsApart

\* Confirming starts the only payment on the screen, on a cart not sold before.
LEMMA RegConfirm ==
  ASSUME RegInv, Confirm
  PROVE  RegInv'
  <1>1. /\ dialog /\ ~locked /\ locked' = TRUE /\ paying' = Append(paying, Payment)
        /\ UNCHANGED <<cartNo, dialog, soldAs, closing, counting, signedIn>>
    BY DEF Confirm, app
  <1>2. Len(paying) \in Nat /\ cartNo \in Nat
    BY DEF RegInv, PaymentsOK
  <1>3. \A i \in 1..Len(paying) : ~OnScreen(paying[i]) /\ paying[i].cart < cartNo
    BY <1>1, <1>2 DEF RegInv, PaymentsWatched, PaymentsOK, CartsApart
  <1>4. PICK n : n = Len(paying) + 1
    OBVIOUS
  <1>5. /\ Len(paying') = n /\ n \in Nat /\ paying'[n] = Payment
        /\ \A i \in 1..Len(paying) : paying'[i] = paying[i]
        /\ paying' = [i \in 1..n |-> paying'[i]]
    <2>1. paying = [i \in 1..Len(paying) |-> paying[i]]
      BY DEF RegInv, PaymentsOK
    <2>2. paying' = Append(paying, Payment)
      BY <1>1
    <2>3. n = Len(paying) + 1 /\ n \in Nat
      BY <1>2, <1>4
    <2>. QED
      BY <1>2, <2>1, <2>2, <2>3, Appended
  <1>6. \A i \in 1..n : i = n \/ i \in 1..Len(paying)
    BY <1>2, <1>4
  <1>7. /\ IsPayment(Payment, cartNo') /\ OnScreen(Payment) /\ Payment.cart = cartNo /\ Payment.left = "no"
        /\ Payment.asked = (\E k \in DOMAIN closing : ~closing[k])
    <2>1. IsPayment(Payment, cartNo)
      BY <1>2 DEF IsPayment, Payment
    <2>2. IsPayment(paying'[n], cartNo')
      BY <1>1, <1>5, <2>1 DEF IsPayment
    <2>. QED
      BY <1>1, <1>2 DEF IsPayment, Payment, OnScreen
  <1>8. PaymentsOK'
    <2>1. \A i \in 1..Len(paying) : IsPayment(paying[i], cartNo')
      BY <1>1 DEF RegInv, PaymentsOK, IsPayment
    <2>2. IsPayment(paying'[n], cartNo')
      BY <1>5, <1>7
    <2>3. \A i \in 1..n : IsPayment(paying'[i], cartNo')
      BY <1>5, <1>6, <2>1, <2>2
    <2>. QED
      BY <1>5, <2>3 DEF PaymentsOK
  <1>9. CartsApart'
    BY <1>1, <1>2, <1>3, <1>5, <1>6, <1>7 DEF RegInv, CartsApart
  <1>10. \A k \in 1..Len(soldAs) : soldAs[k] # cartNo
    BY <1>1 DEF RegInv, SoldIsOlder
  <1>11. SoldIsOlder' /\ NotSoldYet'
    BY <1>1, <1>5, <1>6, <1>7, <1>10 DEF RegInv, SoldIsOlder, NotSoldYet
  <1>12. ClosesKnown'
    <2>1. DOMAIN closing = 1..Len(closing)
      BY DEF RegInv
    <2>. QED
      BY <1>1, <1>3, <1>5, <1>6, <1>7, <2>1 DEF ClosesKnown
  <1>13. PaymentsWatched'
    <2>1. Mounted' /\ dialog' /\ locked'
      BY <1>1 DEF RegInv, Mounted
    <2>2. DOMAIN paying' = 1..n /\ DOMAIN paying = 1..Len(paying)
      BY <1>5 DEF RegInv, PaymentsOK
    <2>. QED
      BY <1>3, <1>5, <1>6, <1>7, <2>1, <2>2 DEF RegInv, PaymentsWatched
  <1>14. OneSalePerCart' /\ (dialog => Mounted)'
    BY <1>1 DEF RegInv, OneSalePerCart, Mounted
  <1>. QED
    BY <1>1, <1>8, <1>9, <1>11, <1>12, <1>13, <1>14 DEF RegInv

\* The main process's answer to a sale appends the cart to what was sold.
LEMMA RegSaved ==
  ASSUME RegInv, NEW n \in DOMAIN paying, PaymentSaved(n)
  PROVE  RegInv'
  <1>1. /\ paying[n].step = "saving" /\ paying' = [paying EXCEPT ![n].step = "printing"]
        /\ soldAs' = Append(soldAs, paying[n].cart)
        /\ UNCHANGED <<cartNo, dialog, locked, closing, counting, signedIn>>
    BY DEF PaymentSaved, app
  <1>2. /\ Len(paying) \in Nat /\ cartNo \in Nat /\ n \in 1..Len(paying) /\ IsPayment(paying[n], cartNo)
        /\ DOMAIN paying = 1..Len(paying)
    BY DEF RegInv, PaymentsOK
  <1>3. PICK c : c = paying[n].cart
    OBVIOUS
  <1>4. /\ Len(paying') = Len(paying) /\ paying' = [i \in 1..Len(paying) |-> paying'[i]]
        /\ paying'[n] = [cart |-> c, lines |-> paying[n].lines, step |-> "printing",
                         left |-> paying[n].left, asked |-> paying[n].asked]
        /\ \A i \in 1..Len(paying) : i # n => paying'[i] = paying[i]
    <2>1. paying'[n] = [paying[n] EXCEPT !.step = "printing"]
      BY <1>1, <1>2
    <2>2. /\ DOMAIN paying' = 1..Len(paying)
          /\ \A i \in 1..Len(paying) : i # n => paying'[i] = paying[i]
      BY <1>1, <1>2
    <2>3. paying' = [i \in 1..Len(paying) |-> paying'[i]]
      BY <1>1, <1>2
    <2>4. Len(paying') = Len(paying)
      BY <1>2, <2>3
    <2>5. paying'[n] = [cart |-> c, lines |-> paying[n].lines, step |-> "printing",
                        left |-> paying[n].left, asked |-> paying[n].asked]
      BY <1>2, <1>3, <2>1 DEF IsPayment
    <2>. QED
      BY <2>2, <2>3, <2>4, <2>5
  <1>5. \A i \in 1..Len(paying) : /\ paying'[i].cart = paying[i].cart
                                  /\ OnScreen(paying'[i]) <=> OnScreen(paying[i])
                                  /\ paying'[i].left = paying[i].left
                                  /\ paying'[i].asked = paying[i].asked
                                  /\ i # n => paying'[i].step = paying[i].step
                                  /\ paying'[n].step = "printing"
    BY <1>2, <1>3, <1>4 DEF OnScreen
  <1>6. PaymentsOK'
    <2>1. \A i \in 1..Len(paying) : IsPayment(paying[i], cartNo)
      BY DEF RegInv, PaymentsOK
    <2>2. \A i \in 1..Len(paying) : IsPayment(paying'[i], cartNo')
      BY <1>1, <1>2, <1>3, <1>4, <2>1 DEF IsPayment
    <2>. QED
      BY <1>2, <1>4, <2>2 DEF PaymentsOK
  <1>7. CartsApart'
    <2>1. CartsApart
      BY DEF RegInv
    <2>2. \A i \in 1..Len(paying) : ~OnScreen(paying'[i]) => paying'[i].cart < cartNo'
      BY <1>1, <1>5, <2>1 DEF CartsApart
    <2>3. \A i, j \in 1..Len(paying) :
             paying'[i].cart = paying'[j].cart \/ (OnScreen(paying'[i]) /\ OnScreen(paying'[j]))
               => i = j
      BY <1>5, <2>1, Apart
    <2>. QED
      BY <1>4, <2>2, <2>3 DEF CartsApart
  <1>8. PICK m : m = Len(soldAs) + 1
    OBVIOUS
  <1>9. /\ soldAs \in Seq(Nat) /\ c \in Nat /\ soldAs' \in Seq(Nat) /\ Len(soldAs') = m
        /\ soldAs'[m] = c /\ \A k \in 1..Len(soldAs) : soldAs'[k] = soldAs[k]
        /\ \A k \in 1..m : k = m \/ k \in 1..Len(soldAs)
    BY <1>1, <1>2, <1>3, <1>8 DEF RegInv, IsPayment
  <1>10. c <= cartNo /\ (c = cartNo => OnScreen(paying[n]))
    BY <1>2, <1>3 DEF RegInv, IsPayment, CartsApart
  <1>11. OnScreen(paying[n]) =>
            /\ dialog /\ locked
            /\ \A i \in 1..Len(paying) : OnScreen(paying[i]) => i = n
    BY <1>2 DEF RegInv, PaymentsWatched, CartsApart
  <1>12. SoldIsOlder'
    <2>1. ASSUME NEW k \in 1..m
          PROVE  /\ soldAs'[k] <= cartNo
                 /\ soldAs'[k] = cartNo =>
                       /\ dialog /\ locked
                       /\ \A i \in 1..Len(paying) :
                             OnScreen(paying'[i]) => paying'[i].step = "printing"
      <3>1. CASE k = m
        BY <1>5, <1>9, <1>10, <1>11, <3>1
      <3>2. CASE k \in 1..Len(soldAs)
        BY <1>5, <1>9, <3>2 DEF RegInv, SoldIsOlder
      <3>. QED
        BY <1>9, <3>1, <3>2
    <2>. QED
      BY <1>1, <1>4, <1>9, <2>1 DEF SoldIsOlder
  <1>13. NotSoldYet'
    <2>1. ASSUME NEW i \in 1..Len(paying), paying'[i].step = "saving", NEW k \in 1..m
          PROVE  soldAs'[k] # paying'[i].cart
      <3>1. i # n /\ paying[i].step = "saving" /\ paying'[i].cart = paying[i].cart
        BY <1>2, <1>5, <2>1
      <3>2. paying[i].cart # c
        BY <1>2, <1>3, <3>1 DEF RegInv, CartsApart
      <3>3. \A l \in 1..Len(soldAs) : soldAs[l] # paying[i].cart
        BY <3>1 DEF RegInv, NotSoldYet
      <3>. QED
        BY <1>9, <3>1, <3>2, <3>3
    <2>. QED
      BY <1>4, <1>9, <2>1 DEF NotSoldYet
  <1>14. ClosesKnown'
    BY <1>1, <1>4, <1>5 DEF RegInv, ClosesKnown
  <1>15. PaymentsWatched'
    <2>1. DOMAIN paying' = 1..Len(paying)
      BY <1>4
    <2>2. \A i \in 1..Len(paying) : /\ OnScreen(paying[i]) => dialog /\ locked /\ Mounted
                                    /\ paying[i].left # "sales"
                                    /\ paying[i].left = "count" => paying[i].asked
      BY <1>2 DEF RegInv, PaymentsWatched
    <2>3. dialog' = dialog /\ locked' = locked /\ Mounted' = Mounted
      BY <1>1 DEF Mounted
    <2>4. ASSUME NEW i \in 1..Len(paying)
          PROVE  /\ OnScreen(paying'[i]) => (dialog /\ locked /\ Mounted)'
                 /\ paying'[i].left # "sales"
                 /\ paying'[i].left = "count" => paying'[i].asked
      <3>1. /\ OnScreen(paying'[i]) <=> OnScreen(paying[i])
            /\ paying'[i].left = paying[i].left /\ paying'[i].asked = paying[i].asked
        BY <1>5
      <3>2. OnScreen(paying'[i]) => (dialog /\ locked /\ Mounted)'
        BY <2>2, <2>3, <3>1
      <3>3. paying'[i].left # "sales" /\ (paying'[i].left = "count" => paying'[i].asked)
        BY <2>2, <3>1
      <3>. QED
        BY <3>2, <3>3
    <2>. QED
      BY <2>1, <2>4 DEF PaymentsWatched
  <1>16. OneSalePerCart'
    <2>1. \A k \in 1..Len(soldAs) : soldAs[k] # c
      BY <1>1, <1>2, <1>3 DEF RegInv, NotSoldYet
    <2>2. DOMAIN soldAs' = 1..m /\ DOMAIN soldAs = 1..Len(soldAs)
      BY <1>9
    <2>. QED
      BY <1>9, <2>1, <2>2 DEF RegInv, OneSalePerCart
  <1>17. (dialog => Mounted)'
    BY <1>1 DEF RegInv, Mounted
  <1>. QED
    BY <1>1, <1>6, <1>7, <1>9, <1>12, <1>13, <1>14, <1>15, <1>16, <1>17 DEF RegInv

\* What is left of a sequence when one element is taken out of it.
LEMMA Removed ==
  ASSUME NEW S, NEW s \in Seq(S), NEW i \in DOMAIN s
  PROVE  LET t == RemoveAt(s, i)
         IN /\ t \in Seq(S) /\ Len(t) = Len(s) - 1
            /\ \A j \in DOMAIN t : t[j] = s[IF j < i THEN j ELSE j + 1]
  <1> DEFINE l == SubSeq(s, 1, i - 1)
             r == SubSeq(s, i + 1, Len(s))
  <1>1. l \in Seq(S) /\ Len(l) = i - 1 /\ \A j \in 1..i-1 : l[j] = s[j]
    OBVIOUS
  <1>2. r \in Seq(S) /\ Len(r) = Len(s) - i /\ \A j \in 1..Len(s) - i : r[j] = s[j + i]
    OBVIOUS
  <1>3. RemoveAt(s, i) = l \o r
    BY DEF RemoveAt
  <1> HIDE DEF l, r
  <1>4. l \o r \in Seq(S) /\ Len(l \o r) = Len(s) - 1
    BY <1>1, <1>2
  <1>5. ASSUME NEW j \in 1..Len(s) - 1 PROVE (l \o r)[j] = s[IF j < i THEN j ELSE j + 1]
    <2>1. CASE j < i
      BY <1>1, <1>2, <2>1
    <2>2. CASE j >= i
      <3>1. (l \o r)[j] = r[j - (i - 1)]
        BY <1>1, <1>2, <2>2
      <3>2. j - (i - 1) \in 1..Len(s) - i
        BY <2>2
      <3>. QED
        BY <1>2, <2>2, <3>1, <3>2
    <2>3. i \in Nat /\ j \in Nat
      OBVIOUS
    <2>4. j < i \/ j >= i
      BY <2>3
    <2>. QED
      BY <2>1, <2>2, <2>4
  <1>6. DOMAIN (l \o r) = 1..Len(s) - 1
    BY <1>4
  <1>. QED
    BY <1>3, <1>4, <1>5, <1>6

\* A payment that is over keeps it: with the dialog locked as before if it was left,
\* and otherwise with the lock free and nothing sold, or with a fresh cart.
LEMMA RegOver ==
  ASSUME RegInv, NEW n \in DOMAIN paying, paying' = RemoveAt(paying, n),
         UNCHANGED <<soldAs, closing, counting, signedIn>>, dialog' \in BOOLEAN,
         \/ ~OnScreen(paying[n]) /\ UNCHANGED <<cartNo, dialog>> /\ (locked => locked')
         \/ OnScreen(paying[n]) /\ UNCHANGED <<cartNo, dialog>> /\ paying[n].step = "saving"
         \/ OnScreen(paying[n]) /\ cartNo' = cartNo + 1 /\ dialog' = FALSE
  PROVE  RegInv'
  <1>1. /\ Len(paying) \in Nat /\ cartNo \in Nat /\ n \in 1..Len(paying)
        /\ DOMAIN paying = 1..Len(paying) /\ paying = [i \in 1..Len(paying) |-> paying[i]]
        /\ \A i \in 1..Len(paying) : IsPayment(paying[i], cartNo)
    BY DEF RegInv, PaymentsOK
  <1>2. cartNo' \in Nat /\ cartNo <= cartNo'
    BY <1>1
  <1> DEFINE from(j) == IF j < n THEN j ELSE j + 1
  <1>3. /\ Len(paying') \in Nat /\ paying' = [i \in 1..Len(paying') |-> paying'[i]]
        /\ DOMAIN paying' = 1..Len(paying')
        /\ \A j \in 1..Len(paying') : paying'[j] = paying[from(j)]
        /\ Len(paying') = Len(paying) - 1
    <2> DEFINE S == {paying[i] : i \in 1..Len(paying)}
    <2>1. paying \in Seq(S)
      BY <1>1
    <2> HIDE DEF S
    <2>2. /\ paying' \in Seq(S) /\ Len(paying') = Len(paying) - 1
          /\ \A j \in DOMAIN paying' : paying'[j] = paying[IF j < n THEN j ELSE j + 1]
      BY <2>1, Removed
    <2>3. /\ Len(paying') \in Nat /\ DOMAIN paying' = 1..Len(paying')
          /\ paying' = [i \in 1..Len(paying') |-> paying'[i]]
      BY <2>2
    <2>. QED
      BY <2>2, <2>3
  <1>4. /\ \A j \in 1..Len(paying') : from(j) \in 1..Len(paying) /\ from(j) # n
        /\ \A j, k \in 1..Len(paying') : from(j) = from(k) => j = k
    BY <1>1, <1>3
  <1> HIDE DEF from
  <1>5. PaymentsOK'
    <2>1. \A j \in 1..Len(paying') : IsPayment(paying'[j], cartNo')
      BY <1>1, <1>2, <1>3, <1>4 DEF IsPayment
    <2>. QED
      BY <1>3, <2>1 DEF PaymentsOK
  <1>6. CartsApart'
    <2>1. \A j \in 1..Len(paying') : ~OnScreen(paying'[j]) => paying'[j].cart < cartNo'
      <3>1. ASSUME NEW j \in 1..Len(paying'), ~OnScreen(paying'[j]) PROVE paying'[j].cart < cartNo'
        <4>1. PICK i \in 1..Len(paying) : i = from(j)
          BY <1>4
        <4>2. paying'[j] = paying[i]
          BY <1>3, <4>1
        <4>3. paying[i].cart < cartNo
          BY <3>1, <4>2 DEF RegInv, CartsApart
        <4>4. paying[i].cart \in Nat
          BY <1>1 DEF IsPayment
        <4>. QED
          BY <1>1, <1>2, <4>2, <4>3, <4>4
      <3>. QED
        BY <3>1
    <2>2. \A j, k \in 1..Len(paying') :
             paying'[j].cart = paying'[k].cart \/ (OnScreen(paying'[j]) /\ OnScreen(paying'[k]))
               => j = k
      <3>1. CartsApart
        BY DEF RegInv
      <3>2. \A j, k \in 1..Len(paying') :
               \/ paying[from(j)].cart = paying[from(k)].cart
               \/ OnScreen(paying[from(j)]) /\ OnScreen(paying[from(k)])
               => from(j) = from(k)
        BY <1>4, <3>1, Apart
      <3>. QED
        BY <1>3, <1>4, <3>2
    <2>. QED
      BY <2>1, <2>2 DEF CartsApart
  <1>7. OnScreen(paying[n]) => \A j \in 1..Len(paying') : ~OnScreen(paying'[j])
    <2>1. CartsApart
      BY DEF RegInv
    <2>2. \A j \in 1..Len(paying') : OnScreen(paying[n]) /\ OnScreen(paying[from(j)]) => from(j) = n
      BY <1>1, <1>4, <2>1, Apart
    <2>. QED
      BY <1>3, <1>4, <2>2
  <1>8. NotSoldYet' /\ ClosesKnown'
    <2>1. NotSoldYet'
      BY <1>3, <1>4 DEF RegInv, NotSoldYet
    <2>2. ClosesKnown'
      BY <1>3, <1>4 DEF RegInv, ClosesKnown
    <2>. QED
      BY <2>1, <2>2
  <1>9. SoldIsOlder'
    <2>1. ASSUME NEW k \in 1..Len(soldAs)
          PROVE  /\ soldAs[k] <= cartNo'
                 /\ soldAs[k] = cartNo' =>
                       /\ dialog' /\ locked'
                       /\ \A j \in 1..Len(paying') :
                             OnScreen(paying'[j]) => paying'[j].step = "printing"
      <3>1. /\ soldAs[k] <= cartNo /\ soldAs[k] \in Nat
            /\ soldAs[k] = cartNo =>
                  /\ dialog /\ locked
                  /\ \A i \in 1..Len(paying) : OnScreen(paying[i]) => paying[i].step = "printing"
        BY DEF RegInv, SoldIsOlder
      <3>2. CASE ~OnScreen(paying[n]) /\ UNCHANGED <<cartNo, dialog>> /\ (locked => locked')
        BY <1>3, <1>4, <3>1, <3>2
      <3>3. CASE OnScreen(paying[n]) /\ UNCHANGED <<cartNo, dialog>> /\ paying[n].step = "saving"
        BY <1>1, <3>1, <3>3
      <3>4. CASE OnScreen(paying[n]) /\ cartNo' = cartNo + 1 /\ dialog' = FALSE
        BY <1>1, <3>1, <3>4
      <3>. QED
        BY <3>2, <3>3, <3>4
    <2>. QED
      BY <2>1 DEF SoldIsOlder
  <1>10. PaymentsWatched'
    <2>1. ASSUME NEW j \in 1..Len(paying')
          PROVE  /\ OnScreen(paying'[j]) => (dialog /\ locked /\ Mounted)'
                 /\ paying'[j].left # "sales"
                 /\ paying'[j].left = "count" => paying'[j].asked
      <3>1. /\ OnScreen(paying'[j]) => dialog /\ locked /\ Mounted
            /\ paying'[j].left # "sales"
            /\ paying'[j].left = "count" => paying'[j].asked
        BY <1>1, <1>3, <1>4 DEF RegInv, PaymentsWatched
      <3>. QED
        BY <1>7, <3>1 DEF Mounted
    <2>. QED
      BY <1>3, <2>1 DEF PaymentsWatched
  <1>11. OneSalePerCart' /\ (dialog => Mounted)'
    BY DEF RegInv, OneSalePerCart, Mounted
  <1>. QED
    BY <1>2, <1>5, <1>6, <1>8, <1>9, <1>10, <1>11 DEF RegInv

\* A refusal, and a printed receipt, each end one payment.
LEMMA RegEnded ==
  ASSUME RegInv, NEW n \in DOMAIN paying, PaymentRefused(n) \/ ReceiptPrinted(n)
  PROVE  RegInv'
  <1>1. CASE PaymentRefused(n)
    <2>1. /\ paying' = RemoveAt(paying, n) /\ paying[n].step = "saving"
          /\ UNCHANGED <<cartNo, dialog, soldAs, closing, counting, signedIn>>
          /\ ~OnScreen(paying[n]) => (locked => locked')
      BY <1>1 DEF PaymentRefused, app
    <2>2. dialog' \in BOOLEAN
      BY <2>1 DEF RegInv
    <2>. QED
      BY <2>1, <2>2, RegOver
  <1>2. CASE ReceiptPrinted(n)
    <2>1. /\ paying' = RemoveAt(paying, n)
          /\ UNCHANGED <<locked, soldAs, closing, counting, signedIn>>
      BY <1>2 DEF ReceiptPrinted, app
    <2>2. CASE OnScreen(paying[n])
      <3>1. dialog' = FALSE /\ cartNo' = cartNo + 1 /\ dialog' \in BOOLEAN
        BY <1>2, <2>2 DEF ReceiptPrinted, NewCart
      <3>. QED
        BY <2>1, <2>2, <3>1, RegOver
    <2>3. CASE ~OnScreen(paying[n])
      <3>1. UNCHANGED <<cartNo, dialog>>
        BY <1>2, <2>3 DEF ReceiptPrinted
      <3>2. dialog' \in BOOLEAN
        BY <3>1 DEF RegInv
      <3>. QED
        BY <2>1, <2>3, <3>1, <3>2, RegOver
    <2>. QED
      BY <2>2, <2>3
  <1>. QED
    BY <1>1, <1>2

\* The dialog opens with its lock free, and closes only then: no payment is on the
\* screen either time.
LEMMA RegDialog ==
  ASSUME RegInv, OpenCheckout \/ CloseCheckout
  PROVE  RegInv'
  <1>1. /\ ~dialog \/ ~locked
        /\ UNCHANGED <<cartNo, paying, soldAs, closing, counting, signedIn>>
        /\ dialog' \in BOOLEAN /\ (dialog' => Mounted)
    BY DEF OpenCheckout, CloseCheckout, AtRegister, app
  <1>2. \A i \in 1..Len(paying) : ~OnScreen(paying[i])
    BY <1>1 DEF RegInv, PaymentsWatched, PaymentsOK
  <1>3. PaymentsOK' /\ CartsApart'
    BY <1>1 DEF RegInv, PaymentsOK, IsPayment, CartsApart
  <1>4. SoldIsOlder' /\ NotSoldYet' /\ ClosesKnown'
    BY <1>1 DEF RegInv, SoldIsOlder, NotSoldYet, ClosesKnown
  <1>5. PaymentsWatched'
    <2>1. DOMAIN paying = 1..Len(paying)
      BY DEF RegInv, PaymentsOK
    <2>. QED
      BY <1>1, <1>2, <2>1 DEF RegInv, PaymentsWatched
  <1>6. OneSalePerCart' /\ (dialog => Mounted)'
    BY <1>1 DEF RegInv, OneSalePerCart, Mounted
  <1>. QED
    BY <1>1, <1>3, <1>4, <1>5, <1>6 DEF RegInv

\* A request to close is noted as made under the dialog or not: a payment on the
\* screen has its dialog.
LEMMA RegAsksToClose ==
  ASSUME RegInv, RequestShiftClose
  PROVE  RegInv'
  <1>1. /\ closing' = Append(closing, dialog)
        /\ UNCHANGED <<cartNo, soldAs, paying, dialog, locked, counting, signedIn>>
    BY DEF RequestShiftClose, screen
  <1>2. PICK m : m = Len(closing) + 1
    OBVIOUS
  <1>3. /\ closing' \in Seq(BOOLEAN) /\ Len(closing') = m /\ closing'[m] = dialog
        /\ \A k \in 1..Len(closing) : closing'[k] = closing[k]
        /\ \A k \in 1..m : k = m \/ k \in 1..Len(closing)
    BY <1>1, <1>2 DEF RegInv
  <1>4. \A i \in 1..Len(paying) : OnScreen(paying[i]) => dialog
    BY DEF RegInv, PaymentsOK, PaymentsWatched
  <1>5. ClosesKnown'
    <2>1. ASSUME NEW i \in 1..Len(paying), OnScreen(paying[i]), ~paying[i].asked, NEW k \in 1..m
          PROVE  closing'[k]
      BY <1>3, <1>4, <2>1 DEF RegInv, ClosesKnown
    <2>. QED
      BY <1>1, <1>3, <2>1 DEF ClosesKnown
  <1>6. PaymentsOK' /\ CartsApart'
    BY <1>1 DEF RegInv, PaymentsOK, IsPayment, CartsApart
  <1>7. SoldIsOlder' /\ NotSoldYet'
    BY <1>1 DEF RegInv, SoldIsOlder, NotSoldYet
  <1>8. PaymentsWatched' /\ OneSalePerCart' /\ (dialog => Mounted)'
    BY <1>1 DEF RegInv, PaymentsWatched, OneSalePerCart, Mounted
  <1>. QED
    BY <1>1, <1>3, <1>5, <1>6, <1>7, <1>8 DEF RegInv

\* Going to the operations screen, the answer to a close and the end of a session
\* take the register away.
LEMMA RegTakenAway ==
  ASSUME RegInv, GoToSales \/ CloseAnswered \/ SessionEnds
  PROVE  RegInv'
  <1>1. closing \in Seq(BOOLEAN) /\ Len(paying) \in Nat /\ DOMAIN paying = 1..Len(paying)
    BY DEF RegInv, PaymentsOK
  <1>2. CASE GoToSales
    <2>1. PICK why \in {"tab", "sales"} : Unmounted(why) /\ (why = "sales" => ~dialog)
      BY <1>2 DEF GoToSales
    <2>2. closing' \in Seq(BOOLEAN)
      BY <1>1, <1>2 DEF GoToSales, app
    <2>3. \A i \in 1..Len(paying) : OnScreen(paying[i]) =>
             why # "sales" /\ (why = "count" => paying[i].asked)
      BY <1>1, <2>1 DEF RegInv, PaymentsWatched
    <2>. QED
      BY <2>1, <2>2, <2>3, RegUnmounted
  <1>3. CASE CloseAnswered
    <2>1. PICK why \in {"tab", "count"} : Unmounted(why) /\ (why = "count" => ~Head(closing))
      BY <1>3 DEF CloseAnswered
    <2>2. closing # <<>> /\ closing' = Tail(closing)
      BY <1>3 DEF CloseAnswered
    <2>3. closing' \in Seq(BOOLEAN)
      BY <1>1, <2>2
    <2>4. Head(closing) = closing[1] /\ 1 \in 1..Len(closing)
      BY <1>1, <2>2
    <2>5. \A i \in 1..Len(paying) : OnScreen(paying[i]) =>
             why # "sales" /\ (why = "count" => paying[i].asked)
      BY <2>1, <2>4 DEF RegInv, ClosesKnown
    <2>. QED
      BY <2>1, <2>3, <2>5, RegUnmounted
  <1>4. CASE SessionEnds
    <2>1. Unmounted("session") /\ closing' = closing
      BY <1>4 DEF SessionEnds
    <2>. QED
      BY <1>1, <2>1, RegUnmounted
  <1>. QED
    BY <1>2, <1>3, <1>4

\* Coming back to the register shows no payment that was left.
LEMMA RegBack ==
  ASSUME RegInv, CancelClose \/ SignIn
  PROVE  RegInv'
  <1>1. /\ UNCHANGED <<cartNo, soldAs, paying, dialog, locked, closing>>
        /\ ~Mounted
    BY DEF CancelClose, SignIn, screen, Mounted
  <1>2. ~dialog /\ \A i \in 1..Len(paying) : ~OnScreen(paying[i])
    BY <1>1 DEF RegInv, PaymentsWatched, PaymentsOK
  <1>3. PaymentsOK' /\ CartsApart'
    BY <1>1 DEF RegInv, PaymentsOK, IsPayment, CartsApart
  <1>4. SoldIsOlder' /\ NotSoldYet' /\ ClosesKnown'
    BY <1>1 DEF RegInv, SoldIsOlder, NotSoldYet, ClosesKnown
  <1>5. PaymentsWatched' /\ OneSalePerCart' /\ (dialog => Mounted)'
    <2>1. DOMAIN paying = 1..Len(paying)
      BY DEF RegInv, PaymentsOK
    <2>. QED
      BY <1>1, <1>2, <2>1 DEF RegInv, PaymentsWatched, OneSalePerCart
  <1>. QED
    BY <1>1, <1>3, <1>4, <1>5 DEF RegInv

\* Every step of the register keeps the invariant.
LEMMA RegStep ==
  ASSUME RegInv, RegNext
  PROVE  RegInv'
  <1>1. ASSUME NEW v \in Goods, Scan(v) \/ \E n \in 0..2 : ChangeQty(v, n)
        PROVE  RegInv'
    BY <1>1, RegQuiet DEF Scan, ChangeQty
  <1>2. CASE ScanAnswered \/ HoldSale \/ SyncReports
    BY <1>2, RegQuiet DEF ScanAnswered, HoldSale, SyncReports, screen
  <1>3. CASE ClearCart \/ HoldAnswered \/ ResumeAnswered
    BY <1>3, RegFresh DEF ClearCart, HoldAnswered, ResumeAnswered, NewCart
  <1>4. ASSUME NEW i \in DOMAIN drafts, ResumeHeldSale(i) \/ DeleteHeldSale(i)
        PROVE  RegInv'
    BY <1>4, RegQuiet DEF ResumeHeldSale, DeleteHeldSale, screen
  <1>5. CASE OpenCheckout \/ CloseCheckout
    BY <1>5, RegDialog
  <1>6. CASE Confirm
    BY <1>6, RegConfirm
  <1>7. ASSUME NEW i \in DOMAIN paying, PaymentSaved(i) \/ PaymentRefused(i) \/ ReceiptPrinted(i)
        PROVE  RegInv'
    BY <1>7, RegSaved, RegEnded
  <1>8. CASE GoToSales \/ CloseAnswered \/ SessionEnds
    BY <1>8, RegTakenAway
  <1>9. CASE RequestShiftClose
    BY <1>9, RegAsksToClose
  <1>10. CASE CancelClose \/ SignIn
    BY <1>10, RegBack
  <1>. QED
    BY <1>1, <1>2, <1>3, <1>4, <1>5, <1>6, <1>7, <1>8, <1>9, <1>10 DEF RegNext

\* Along every behaviour of the register no cart is sold twice and a payment
\* under way has its dialog on the screen, unless something took the register away.
THEOREM RegSafe == RegSpec => [](OneSalePerCart /\ PaymentsWatched)
  <1>1. RegInv /\ UNCHANGED regVars => RegInv'
    BY RegQuiet DEF regVars, screen
  <1>2. RegInv => OneSalePerCart /\ PaymentsWatched
    BY DEF RegInv
  <1>. QED
    BY <1>1, <1>2, RegInitOK, RegStep, PTL DEF RegSpec

(***************************************************************************)
(* The session and its accounting context: TillSession.                    *)
(***************************************************************************)

\* The session on its own.
SesSpec == SesInit /\ [][SesNext]_sesVars

\* The values of each field of the stored, remembered and displayed session.
CashierOr == Cashiers \cup {Nobody}
TillOr == Tills \cup {Nobody}
ShiftOr == Shifts \cup {Nobody}
Contexts == [user : Cashiers, till : Tills, shift : Shifts]
ContextOr == Contexts \cup {Nobody}

\* What the secure store, the main process and the screen hold, and the calls in
\* flight: an issue always names the shift it is for.
StoreRecords == [device : TillOr, auth : CashierOr, accounting : ContextOr, verifier : CashierOr]
MemRecords == [device : TillOr, session : CashierOr, accounting : ContextOr]
UiRecords == [device : TillOr, session : CashierOr, shift : ShiftOr, accounting : ContextOr,
              checking : BOOLEAN, closing : BOOLEAN]
RequestRecords ==
    [op : {"current"}, who : CashierOr, till : TillOr, shift : ShiftOr,
     step : {"sent", "waiting", "failed"}, retried : BOOLEAN]
    \cup
    [op : {"issue"}, who : CashierOr, till : TillOr, shift : Shifts,
     step : {"sent", "waiting", "failed"}, retried : BOOLEAN]

\* Type correctness of the session.
SesTypeOK ==
    /\ store \in StoreRecords /\ mem \in MemRecords /\ ui \in UiRecords
    /\ kept \in ShiftOr /\ shiftOpen \in ShiftOr /\ refreshing \in CashierOr
    /\ inFlight \in SUBSET RequestRecords

\* The main process and the screen name the same till and cashier, the device in
\* use is the one on disk, and the context the main process holds is that
\* cashier's at that till. ContextOwned is not inductive without it: RefreshTimer
\* shows the main process's context under the screen's cashier.
CopiesAgree ==
    /\ mem.device = ui.device /\ mem.session = ui.session
    /\ mem.device # Nobody => store.device = mem.device
    /\ mem.device = Nobody => mem.session = Nobody
    /\ mem.accounting # Nobody =>
          mem.session = mem.accounting.user /\ mem.device = mem.accounting.till

\* The inductive invariant of the session.
SesInv == SesTypeOK /\ CopiesAgree /\ ContextOwned

\* A till that has not been enrolled has no session and no context.
LEMMA SesInitOK == SesInit => SesInv
  BY SessionAssumption
     DEF SesInit, SesInv, SesTypeOK, CopiesAgree, ContextOwned, Blank, BlankUi, CashierOr,
         TillOr, ShiftOr, ContextOr, StoreRecords, MemRecords, UiRecords

\* A call to the backend carries the till and cashier of the store.
LEMMA CallTyped ==
  ASSUME SesTypeOK
  PROVE  /\ Call("current", Nobody) \in RequestRecords
         /\ \A s \in Shifts : Call("issue", s) \in RequestRecords
  BY DEF SesTypeOK, StoreRecords, Call, RequestRecords, ShiftOr

\* What OfflineContextFor hands the screen is the main process's context, and
\* belongs to the cashier and till on the screen.
LEMMA ContextForScreen ==
  ASSUME SesInv, NEW s
  PROVE  LET c == OfflineContextFor(mem, s)
         IN /\ c \in ContextOr
            /\ c # Nobody => c = mem.accounting /\ ui.session = c.user /\ ui.device = c.till
  BY DEF SesInv, SesTypeOK, CopiesAgree, MemRecords, ContextOr, OfflineContextFor

\* A step that changes the screen's shift or context, leaves its till and
\* cashier, and ends with a context that is theirs.
ScreenKept ==
    /\ ui' \in UiRecords /\ ui'.device = ui.device /\ ui'.session = ui.session
    /\ ui'.accounting # Nobody =>
          ui'.session = ui'.accounting.user /\ ui'.device = ui'.accounting.till

\* Installing a shift shows a context of the cashier on the screen, or asks for
\* one.
LEMMA Installed ==
  ASSUME SesInv, NEW s \in Shifts, NEW others \in SUBSET RequestRecords, Install(s, others)
  PROVE  ScreenKept /\ kept' \in ShiftOr /\ inFlight' \in SUBSET RequestRecords
  <1> DEFINE c == OfflineContextFor(mem, s)
  <1>1. c \in ContextOr /\ (c # Nobody => ui.session = c.user /\ ui.device = c.till)
    BY ContextForScreen
  <1>2. ui \in UiRecords /\ (ui.accounting # Nobody =>
           ui.session = ui.accounting.user /\ ui.device = ui.accounting.till)
    BY DEF SesInv, SesTypeOK, ContextOwned
  <1>3. \/ /\ ui' = [ui EXCEPT !.shift = s, !.accounting = c, !.checking = FALSE, !.closing = FALSE]
           /\ inFlight' = others
        \/ /\ ui' = [ui EXCEPT !.shift = s, !.closing = FALSE]
           /\ inFlight' = others \cup {Call("issue", s)}
    BY DEF Install
  <1> HIDE DEF c
  <1>4. ScreenKept
    BY <1>1, <1>2, <1>3 DEF ScreenKept, UiRecords, ShiftOr
  <1>5. Call("issue", s) \in RequestRecords
    BY CallTyped DEF SesInv
  <1>. QED
    BY <1>3, <1>4, <1>5 DEF Install, ShiftOr

\* Forgetting the shift clears the context everywhere it is kept.
LEMMA Forgotten ==
  ASSUME SesInv, NEW u \in UiRecords, u.device = ui.device, u.session = ui.session,
         ShiftForgotten(u)
  PROVE  /\ store' \in StoreRecords /\ mem' \in MemRecords /\ ui' \in UiRecords
         /\ kept' \in ShiftOr /\ CopiesAgree' /\ ContextOwned'
  BY DEF SesInv, SesTypeOK, CopiesAgree, ContextOwned, ShiftForgotten, StoreRecords, MemRecords,
         UiRecords, ShiftOr, ContextOr

\* A rejected refresh signs the cashier out when a current call was waiting for
\* it, and otherwise only fails the calls.
LEMMA DeniedOK ==
  ASSUME SesInv, NEW rs \in SUBSET inFlight, Denied(rs),
         shiftOpen' \in ShiftOr, refreshing' \in CashierOr
  PROVE  SesInv'
  <1>1. inFlight' \in SUBSET RequestRecords
    <2>1. \A r \in RequestRecords : [r EXCEPT !.step = "failed"] \in RequestRecords
      BY DEF RequestRecords
    <2>. QED
      BY <2>1 DEF Denied, SesInv, SesTypeOK
  <1>2. CASE \E r \in rs : r.op = "current"
    <2>1. /\ store' = SessionCleared(store) /\ kept' = Nobody
          /\ mem' = [mem EXCEPT !.session = Nobody, !.accounting = Nobody]
          /\ ui' = [SignedOut(ui) EXCEPT !.checking = FALSE]
      BY <1>2 DEF Denied
    <2>2. store' \in StoreRecords /\ store'.accounting = Nobody /\ store'.device = store.device
      BY <2>1 DEF SesInv, SesTypeOK, StoreRecords, SessionCleared, CashierOr, ContextOr
    <2>3. mem' \in MemRecords /\ mem'.session = Nobody /\ mem'.accounting = Nobody
          /\ mem'.device = mem.device
      BY <2>1 DEF SesInv, SesTypeOK, MemRecords, CashierOr, ContextOr
    <2>4. ui' \in UiRecords /\ ui'.session = Nobody /\ ui'.accounting = Nobody
          /\ ui'.device = ui.device
      BY <2>1 DEF SesInv, SesTypeOK, UiRecords, SignedOut, CashierOr, ContextOr, ShiftOr
    <2>. QED
      BY <1>1, <2>1, <2>2, <2>3, <2>4 DEF SesInv, SesTypeOK, CopiesAgree, ContextOwned, ShiftOr
  <1>3. CASE ~ \E r \in rs : r.op = "current"
    BY <1>1, <1>3 DEF Denied, SesInv, SesTypeOK, CopiesAgree, ContextOwned
  <1>. QED
    BY <1>2, <1>3

\* Starting, signing out, losing the terminal's credential and enrolling keep the
\* invariant.
LEMMA SessionStarts ==
  ASSUME SesInv, StartApp \/ Logout \/ TerminalInvalid \/ SyncUnauthorised
                 \/ \E t \in Tills : Enroll(t)
  PROVE  SesInv'
  <1> USE SessionAssumption
      DEF SesInv, SesTypeOK, CopiesAgree, ContextOwned, StoreRecords, MemRecords, UiRecords,
          CashierOr, TillOr, ShiftOr, ContextOr, SessionCleared, SignedOut
  <1>1. CASE StartApp
    BY <1>1 DEF StartApp, Blank, BlankUi
  <1>2. CASE Logout
    BY ZenonT(30), <1>2 DEF Logout
  <1>3. CASE TerminalInvalid
    <2>1. store' \in StoreRecords /\ ContextOwned'
      BY <1>3 DEF TerminalInvalid, DeviceCleared
    <2>. QED
      BY ZenonT(30), <1>3, <2>1 DEF TerminalInvalid, Blank
  <1>4. CASE SyncUnauthorised
    BY ZenonT(30), <1>4 DEF SyncUnauthorised, Expired
  <1>5. ASSUME NEW t \in Tills, Enroll(t) PROVE SesInv'
    <2>1. CASE store.device = t
      <3>1. store' = [store EXCEPT !.device = t]
        BY <1>5, <2>1 DEF Enroll, Enrolled
      <3>. QED
        BY ZenonT(30), <2>1, <3>1, <1>5 DEF Enroll
    <2>2. CASE store.device # t
      <3>1. store' = [SessionCleared(store) EXCEPT !.device = t]
        BY <1>5, <2>2 DEF Enroll, Enrolled
      <3>2. store' \in StoreRecords /\ store'.accounting = Nobody /\ store'.device = t
        BY <3>1
      <3>3. mem' \in MemRecords /\ mem'.device = t /\ mem'.session = Nobody /\ mem'.accounting = Nobody
        BY <1>5 DEF Enroll
      <3>4. ui' \in UiRecords /\ ui'.device = t /\ ui'.session = Nobody /\ ui'.accounting = Nobody
        BY ZenonT(30), <1>5 DEF Enroll
      <3>. QED
        BY <3>2, <3>3, <3>4, <1>5 DEF Enroll
    <2>. QED
      BY <2>1, <2>2
  <1>. QED
    BY <1>1, <1>2, <1>3, <1>4, <1>5

\* A login keeps it; an offline login takes the context only if it is the
\* cashier's at this till.
LEMMA SigningIn ==
  ASSUME SesInv, NEW c \in Cashiers, Login(c) \/ OfflineLogin(c)
  PROVE  SesInv'
  <1> USE SessionAssumption
      DEF SesInv, SesTypeOK, CopiesAgree, ContextOwned, StoreRecords, MemRecords, UiRecords,
          CashierOr, TillOr, ShiftOr, ContextOr, SignedIn
  <1>1. CASE Login(c)
    <2>1. [Call("current", Nobody) EXCEPT !.who = c] \in RequestRecords
      BY DEF Call, RequestRecords
    <2>. QED
      BY ZenonT(30), <1>1, <2>1 DEF Login
  <1>2. CASE OfflineLogin(c)
    <2>1. Call("current", Nobody) \in RequestRecords
      BY CallTyped
    <2>2. inFlight' \in SUBSET RequestRecords
      BY <1>2, <2>1 DEF OfflineLogin
    <2>3. store.auth # Nobody /\ store.device # Nobody /\ store.auth \in Cashiers
          /\ store.accounting = Context(store.auth, store.device, store.accounting.shift)
      BY <1>2 DEF OfflineLogin, Matches
    <2>4. mem' = [mem EXCEPT !.session = store.auth, !.accounting = store.accounting]
          /\ ui' = [ui EXCEPT !.session = store.auth, !.accounting = Nobody, !.checking = TRUE]
      BY <1>2 DEF OfflineLogin
    <2>5. mem' \in MemRecords /\ mem'.device = mem.device /\ mem'.session = store.auth
          /\ mem'.accounting = store.accounting
      BY <2>3, <2>4
    <2>6. ui' \in UiRecords /\ ui'.device = ui.device /\ ui'.session = store.auth
          /\ ui'.accounting = Nobody
      BY <2>3, <2>4
    <2>7. ui.device # Nobody /\ ui.device = store.device
      BY <1>2 DEF OfflineLogin
    <2>. QED
      BY <1>2, <2>2, <2>3, <2>5, <2>6, <2>7 DEF OfflineLogin, Context
  <1>. QED
    BY <1>1, <1>2

\* Opening and closing a shift, here or at another till, and the refresh timer
\* keep it.
LEMMA ShiftsOK ==
  ASSUME SesInv,
         \/ \E s \in Shifts \cup {Nobody} : OtherShift(s)
         \/ \E s \in Shifts : OpenShift(s)
         \/ CloseShift \/ RefreshTimer
  PROVE  SesInv'
  <1>1. ASSUME NEW s \in Shifts \cup {Nobody}, OtherShift(s) PROVE SesInv'
    BY <1>1 DEF OtherShift, SesInv, SesTypeOK, CopiesAgree, ContextOwned, ShiftOr
  <1>2. ASSUME NEW s \in Shifts, OpenShift(s) PROVE SesInv'
    <2>1. ScreenKept /\ kept' \in ShiftOr /\ inFlight' \in SUBSET RequestRecords
      BY <1>2, Installed DEF OpenShift, SesInv, SesTypeOK
    <2>. QED
      BY <1>2, <2>1 DEF OpenShift, ScreenKept, SesInv, SesTypeOK, CopiesAgree, ContextOwned, ShiftOr
  <1>3. CASE CloseShift
    <2>1. [ui EXCEPT !.closing = TRUE] \in UiRecords
          /\ [ui EXCEPT !.closing = TRUE].device = ui.device
          /\ [ui EXCEPT !.closing = TRUE].session = ui.session
      BY DEF SesInv, SesTypeOK, UiRecords
    <2>2. /\ store' \in StoreRecords /\ mem' \in MemRecords /\ ui' \in UiRecords
          /\ kept' \in ShiftOr /\ CopiesAgree' /\ ContextOwned'
      BY <1>3, <2>1, Forgotten DEF CloseShift
    <2>. QED
      BY <1>3, <2>2 DEF CloseShift, SesInv, SesTypeOK, ShiftOr
  <1>4. CASE RefreshTimer
    <2>1. CASE OfflineContextFor(mem, ui.shift) # Nobody
      <3>1. ui' = [ui EXCEPT !.accounting = mem.accounting] /\ mem.accounting \in ContextOr
            /\ ui.session = mem.accounting.user /\ ui.device = mem.accounting.till
        BY <1>4, <2>1, ContextForScreen DEF RefreshTimer
      <3>2. ScreenKept
        BY <3>1 DEF ScreenKept, SesInv, SesTypeOK, UiRecords
      <3>. QED
        BY <1>4, <2>1, <3>2 DEF RefreshTimer, ScreenKept, SesInv, SesTypeOK, CopiesAgree, ContextOwned
    <2>2. CASE OfflineContextFor(mem, ui.shift) = Nobody
      <3>1. ui.shift \in Shifts
        BY <1>4 DEF RefreshTimer, SesInv, SesTypeOK, UiRecords, ShiftOr
      <3>2. Call("issue", ui.shift) \in RequestRecords
        BY <3>1, CallTyped DEF SesInv
      <3>. QED
        BY <1>4, <2>2, <3>2 DEF RefreshTimer, SesInv, SesTypeOK, CopiesAgree, ContextOwned
    <2>. QED
      BY <2>1, <2>2
  <1>. QED
    BY <1>1, <1>2, <1>3, <1>4

\* The three ends of a token refresh keep it.
LEMMA RefreshOK ==
  ASSUME SesInv, Refreshed \/ RefreshUnreachable \/ RefreshRejected
  PROVE  SesInv'
  <1>1. CASE Refreshed
    <2>1. \A r \in inFlight : [r EXCEPT !.step = "sent", !.who = refreshing, !.till = store.device,
                                        !.retried = TRUE] \in RequestRecords
      BY DEF SesInv, SesTypeOK, RequestRecords, StoreRecords
    <2>2. inFlight' \in SUBSET RequestRecords
      BY <1>1, <2>1 DEF Refreshed, SesInv, SesTypeOK
    <2>3. store' \in StoreRecords /\ store'.device = store.device /\ store'.auth # Nobody
          /\ store'.accounting = store.accounting
      BY <1>1 DEF Refreshed, SesInv, SesTypeOK, StoreRecords
    <2>. QED
      BY <1>1, <2>2, <2>3 DEF Refreshed, SesInv, SesTypeOK, CopiesAgree, ContextOwned, CashierOr
  <1>2. CASE RefreshUnreachable
    <2>1. \A r \in inFlight : [r EXCEPT !.step = "failed"] \in RequestRecords
      BY DEF SesInv, SesTypeOK, RequestRecords
    <2>2. inFlight' \in SUBSET RequestRecords
      BY <1>2, <2>1 DEF RefreshUnreachable, SesInv, SesTypeOK
    <2>. QED
      BY <1>2, <2>2 DEF RefreshUnreachable, SesInv, SesTypeOK, CopiesAgree, ContextOwned, CashierOr
  <1>3. CASE RefreshRejected
    BY <1>3, DeniedOK DEF RefreshRejected, SesInv, SesTypeOK, CashierOr
  <1>. QED
    BY <1>1, <1>2, <1>3

\* Both answers to a current call keep it, however late they come.
LEMMA CurrentOK ==
  ASSUME SesInv, NEW r \in inFlight, CurrentAnswered(r) \/ CurrentUnreachable(r)
  PROVE  SesInv'
  <1>1. inFlight \ {r} \in SUBSET RequestRecords
    BY DEF SesInv, SesTypeOK
  <1>2. CASE CurrentAnswered(r) /\ shiftOpen # Nobody
    <2>1. ScreenKept /\ kept' \in ShiftOr /\ inFlight' \in SUBSET RequestRecords
      BY <1>1, <1>2, Installed DEF CurrentAnswered, SesInv, SesTypeOK, ShiftOr
    <2>. QED
      BY <1>2, <2>1 DEF CurrentAnswered, ScreenKept, SesInv, SesTypeOK, CopiesAgree, ContextOwned
  <1>3. CASE CurrentUnreachable(r) /\ kept # Nobody
    <2>1. ui' = [ui EXCEPT !.shift = kept, !.accounting = OfflineContextFor(mem, kept),
                           !.checking = FALSE]
      BY <1>3 DEF CurrentUnreachable
    <2>2. ScreenKept
      BY <2>1, ContextForScreen DEF ScreenKept, SesInv, SesTypeOK, UiRecords
    <2>. QED
      BY <1>1, <1>3, <2>2 DEF CurrentUnreachable, ScreenKept, SesInv, SesTypeOK, CopiesAgree,
                              ContextOwned
  <1>4. CASE \/ CurrentAnswered(r) /\ shiftOpen = Nobody
             \/ CurrentUnreachable(r) /\ kept = Nobody
    <2>1. ShiftForgotten(ui) /\ inFlight' = inFlight \ {r} /\ UNCHANGED <<shiftOpen, refreshing>>
      BY <1>4 DEF CurrentAnswered, CurrentUnreachable
    <2>2. /\ store' \in StoreRecords /\ mem' \in MemRecords /\ ui' \in UiRecords
          /\ kept' \in ShiftOr /\ CopiesAgree' /\ ContextOwned'
      BY <2>1, Forgotten DEF SesInv, SesTypeOK
    <2>. QED
      BY <1>1, <2>1, <2>2 DEF SesInv, SesTypeOK
  <1>. QED
    BY <1>2, <1>3, <1>4

\* An issued context is stored only if it is for the cashier and till now signed
\* in, so a late answer cannot hand one cashier the other's context.
LEMMA IssueOK ==
  ASSUME SesInv, NEW r \in inFlight, IssueAnswered(r) \/ IssueUnreachable(r)
  PROVE  SesInv'
  <1>1. inFlight' \in SUBSET RequestRecords
    BY DEF SesInv, SesTypeOK, IssueAnswered, IssueUnreachable
  <1>2. CASE IssueUnreachable(r)
    <2>1. ui' = [ui EXCEPT !.accounting = OfflineContextFor(mem, r.shift), !.checking = FALSE]
      BY <1>2 DEF IssueUnreachable
    <2>2. ScreenKept
      BY <2>1, ContextForScreen DEF ScreenKept, SesInv, SesTypeOK, UiRecords
    <2>. QED
      BY <1>1, <1>2, <2>2 DEF IssueUnreachable, ScreenKept, SesInv, SesTypeOK, CopiesAgree,
                              ContextOwned
  <1>3. CASE IssueAnswered(r)
    <2> DEFINE c == Context(r.who, r.till, r.shift)
               stored == shiftOpen = r.shift /\ Storable(c)
               taken == stored /\ Matches(c, mem.session, mem.device, r.shift)
               result == IF taken THEN c ELSE OfflineContextFor(mem, r.shift)
    <2>1. /\ store' = IF stored THEN [store EXCEPT !.accounting = c] ELSE store
          /\ mem' = IF taken THEN [mem EXCEPT !.accounting = c] ELSE mem
          /\ ui' = [ui EXCEPT !.accounting = result, !.checking = FALSE]
          /\ UNCHANGED <<kept, shiftOpen, refreshing, badWrites>>
          /\ r.who # Nobody /\ r.till # Nobody /\ r.op = "issue"
      BY <1>3 DEF IssueAnswered
    <2>2. c \in Contexts /\ c.user = r.who /\ c.till = r.till
      BY <2>1 DEF SesInv, SesTypeOK, RequestRecords, CashierOr, TillOr, Contexts, Context
    <2>3. stored => store.auth = c.user /\ store.device = c.till /\ store.auth # Nobody
      BY DEF Storable, Matches, Context
    <2>4. taken => mem.session = c.user /\ mem.device = c.till
      BY DEF Matches, Context
    <2>5. /\ result \in ContextOr
          /\ result # Nobody => ui.session = result.user /\ ui.device = result.till
      BY <2>2, <2>4, ContextForScreen DEF SesInv, CopiesAgree, ContextOr
    <2> HIDE DEF stored, taken, result, c
    <2>6. store' \in StoreRecords /\ store'.device = store.device /\ store'.auth = store.auth
          /\ (store'.accounting # Nobody =>
                store'.auth # Nobody /\ store'.device = store'.accounting.till)
      BY <2>1, <2>2, <2>3 DEF SesInv, SesTypeOK, ContextOwned, StoreRecords, ContextOr
    <2>7. mem' \in MemRecords /\ mem'.device = mem.device /\ mem'.session = mem.session
          /\ (mem'.accounting # Nobody =>
                mem'.session = mem'.accounting.user /\ mem'.device = mem'.accounting.till)
      BY <2>1, <2>2, <2>4 DEF SesInv, SesTypeOK, CopiesAgree, MemRecords, ContextOr
    <2>8. ScreenKept
      BY <2>1, <2>5 DEF ScreenKept, SesInv, SesTypeOK, UiRecords
    <2>. QED
      BY <1>1, <2>1, <2>6, <2>7, <2>8 DEF ScreenKept, SesInv, SesTypeOK, CopiesAgree, ContextOwned
  <1>. QED
    BY <1>2, <1>3

\* A call that meets an expired token, or is denied, keeps it.
LEMMA UnauthorisedOK ==
  ASSUME SesInv, NEW r \in inFlight, Unauthorised(r) \/ RequestDenied(r)
  PROVE  SesInv'
  <1>1. CASE Unauthorised(r)
    <2>1. [r EXCEPT !.step = "waiting"] \in RequestRecords
      BY DEF SesInv, SesTypeOK, RequestRecords
    <2>2. inFlight' \in SUBSET RequestRecords
      BY <1>1, <2>1 DEF Unauthorised, SesInv, SesTypeOK
    <2>3. refreshing' \in CashierOr
      BY <1>1 DEF Unauthorised, SesInv, SesTypeOK, StoreRecords
    <2>. QED
      BY <1>1, <2>2, <2>3 DEF Unauthorised, SesInv, SesTypeOK, CopiesAgree, ContextOwned
  <1>2. CASE RequestDenied(r)
    BY <1>2, DeniedOK DEF RequestDenied, SesInv, SesTypeOK
  <1>. QED
    BY <1>1, <1>2

\* Every step of the session keeps the invariant.
LEMMA SesStep ==
  ASSUME SesInv, SesNext
  PROVE  SesInv'
  BY SessionStarts, SigningIn, ShiftsOK, RefreshOK, CurrentOK, IssueOK, UnauthorisedOK DEF SesNext

\* Along every behaviour of the session, the context kept on disk and the one on
\* the screen belong to the cashier and the till they are shown with.
THEOREM SesSafe == SesSpec => []ContextOwned
  <1>1. SesInv /\ UNCHANGED sesVars => SesInv'
    BY DEF sesVars, SesInv, SesTypeOK, CopiesAgree, ContextOwned
  <1>2. SesInv => ContextOwned
    BY DEF SesInv
  <1>. QED
    BY <1>1, <1>2, SesInitOK, SesStep, PTL DEF SesSpec

(***************************************************************************)
(* The operations screen: OperationsScreen.                                *)
(***************************************************************************)

\* The operations screen on its own.
OpsSpec == OpsInit /\ [][OpsNext]_opsVars

\* What a list shows, a load asks for, and a return sends.
ListRecords == [label : 1..Pages, rows : 1..Pages, loading : BOOLEAN, error : BOOLEAN]
LoadRecords == [page : 1..Pages, by : Nat]
ReturnRecords == [opening : Nat, qty : Nat, page : 1..Pages,
                  step : {"sent", "booked", "refused"}]

\* Type correctness of the two lists and their loads.
ListsOK ==
    /\ list \in [Tabs -> ListRecords]
    /\ loads = [t \in Tabs |-> loads[t]]
    /\ \A t \in Tabs : BagToSet(loads[t]) \subseteq LoadRecords

\* The first half of PagesAndReturnsHonest: rows of another page than the label's
\* are marked as loading or failed.
LabelsHonest ==
    \A t \in Tabs : list[t].label # list[t].rows => list[t].loading \/ list[t].error

\* Type correctness of the return dialog and of its requests.
FormOK ==
    /\ opened \in Nat /\ form \in [opening : 0..opened, left : Nat] /\ busy \in BOOLEAN
    /\ form.opening = NoOpening => form = Closed
    /\ requests \in Seq(ReturnRecords) /\ left \in Nat
    /\ \A i \in DOMAIN requests : requests[i].opening \in 1..opened

\* The second half of PagesAndReturnsHonest, in the form that is inductive: two
\* requests of one opening were sent with the button freed between them, and an
\* idle open dialog has nothing of its own in flight unless it was freed.
OneReturnEach ==
    /\ \A i, j \in DOMAIN requests :
          i # j /\ requests[i].opening = requests[j].opening => requests[i].opening \in freed
    /\ form # Closed /\ ~busy =>
          \A i \in DOMAIN requests :
              requests[i].opening = form.opening => form.opening \in freed

\* The inductive invariant of the operations screen.
OpsInv == ListsOK /\ LabelsHonest /\ FormOK /\ OneReturnEach

\* Asking for a page adds a load for a page that exists.
LEMMA AskedTyped ==
  ASSUME ListsOK, NEW t \in Tabs, NEW page \in 1..Pages, NEW by \in Nat
  PROVE  BagToSet(Asked(t, page, by)) \subseteq LoadRecords
  BY DEF ListsOK, Asked, BagToSet, SetToBag, (+), LoadRecords

\* Taking a load off the bag adds none.
LEMMA TakenTyped ==
  ASSUME NEW bag, NEW x
  PROVE  BagToSet(bag (-) SetToBag({x})) \subseteq BagToSet(bag)
  BY DEF BagToSet, SetToBag, (-)

\* A list that starts loading says so.
LEMMA LoadingTyped ==
  ASSUME NEW l \in ListRecords
  PROVE  Loading(l) \in ListRecords /\ Loading(l).loading
  BY DEF ListRecords, Loading

\* A list shown with a page's rows carries that page's label; a failed one says
\* that it failed.
LEMMA RelabelTyped ==
  ASSUME NEW l \in ListRecords, NEW page \in 1..Pages
  PROVE  /\ [l EXCEPT !.label = page] \in ListRecords
         /\ Shown(l, page) \in ListRecords
         /\ Shown(l, page).label = Shown(l, page).rows
         /\ [l EXCEPT !.error = TRUE, !.loading = FALSE] \in ListRecords
         /\ [l EXCEPT !.error = TRUE, !.loading = FALSE].error
  BY DEF ListRecords, Shown

\* The screen opens with both lists loading and no dialog.
LEMMA OpsInitOK == OpsInit => OpsInv
  <1> SUFFICES ASSUME OpsInit PROVE OpsInv
    OBVIOUS
  <1>1. 1 \in 1..Pages
    BY OperationsAssumption
  <1>2. \A t \in Tabs : BagToSet(loads[t]) \subseteq LoadRecords
    BY <1>1 DEF OpsInit, LoadRecords, BagToSet, SetToBag, NoOpening
  <1>3. ListsOK /\ LabelsHonest
    BY <1>1, <1>2 DEF OpsInit, ListsOK, LabelsHonest, ListRecords
  <1>4. FormOK /\ OneReturnEach
    <2>1. form \in [opening : 0..opened, left : Nat]
      BY DEF OpsInit, Closed, NoOpening
    <2>2. requests \in Seq(ReturnRecords) /\ DOMAIN requests = {}
      BY DEF OpsInit
    <2>. QED
      BY <2>1, <2>2, OperationsAssumption DEF OpsInit, FormOK, OneReturnEach, Closed, NoOpening
  <1>. QED
    BY <1>3, <1>4 DEF OpsInv

\* The steps of the lists.
ListsStep ==
    \/ RunSearch \/ RefreshAll
    \/ \E t \in Tabs : \E p \in 1..Pages : TurnPage(t, p)
    \/ \E t \in Tabs : \E l \in BagToSet(loads[t]) : ListAnswered(t, l) \/ ListFailed(t, l)

\* Every step of the lists, and the reload after a return, leaves labels honest.
LEMMA ListStep ==
  ASSUME ListsOK, LabelsHonest, FormOK,
         ListsStep \/ \E i \in DOMAIN requests : ReturnCompleted(i)
  PROVE  ListsOK' /\ LabelsHonest'
  <1>0. 1 \in 1..Pages /\ \A t \in Tabs : list[t] \in ListRecords /\ list[t].label \in 1..Pages
    BY OperationsAssumption DEF ListsOK, ListRecords
  <1>1. CASE RunSearch
    <2>1. \A t \in Tabs : list'[t] \in ListRecords /\ list'[t].loading
      BY <1>0, <1>1, RelabelTyped, LoadingTyped DEF RunSearch
    <2>2. \A t \in Tabs : BagToSet(loads'[t]) \subseteq LoadRecords
      BY <1>0, <1>1, AskedTyped DEF RunSearch, NoOpening
    <2>. QED
      BY <1>1, <2>1, <2>2 DEF RunSearch, ListsOK, LabelsHonest
  <1>2. CASE RefreshAll
    <2>1. \A t \in Tabs : list'[t] \in ListRecords /\ list'[t].loading
      BY <1>0, <1>2, LoadingTyped DEF RefreshAll
    <2>2. \A t \in Tabs : BagToSet(loads'[t]) \subseteq LoadRecords
      BY <1>0, <1>2, AskedTyped DEF RefreshAll, NoOpening
    <2>. QED
      BY <1>2, <2>1, <2>2 DEF RefreshAll, ListsOK, LabelsHonest
  <1>3. ASSUME NEW t \in Tabs, NEW p \in 1..Pages, TurnPage(t, p)
        PROVE  ListsOK' /\ LabelsHonest'
    <2>1. Loading([list[t] EXCEPT !.label = p]) \in ListRecords
          /\ Loading([list[t] EXCEPT !.label = p]).loading
      BY <1>0, RelabelTyped, LoadingTyped
    <2>2. BagToSet(Asked(t, p, NoOpening)) \subseteq LoadRecords
      BY AskedTyped DEF NoOpening
    <2>. QED
      BY <1>3, <2>1, <2>2 DEF TurnPage, ListsOK, LabelsHonest
  <1>4. ASSUME NEW t \in Tabs, NEW l \in BagToSet(loads[t]), ListAnswered(t, l) \/ ListFailed(t, l)
        PROVE  ListsOK' /\ LabelsHonest'
    <2>1. l.page \in 1..Pages
      BY DEF ListsOK, LoadRecords
    <2>2. BagToSet(loads[t] (-) SetToBag({l})) \subseteq LoadRecords
      BY TakenTyped DEF ListsOK
    <2>3. CASE ListAnswered(t, l)
      <3>1. Shown(list[t], l.page) \in ListRecords
            /\ Shown(list[t], l.page).label = Shown(list[t], l.page).rows
        BY <1>0, <2>1, RelabelTyped
      <3>. QED
        BY <2>2, <2>3, <3>1 DEF ListAnswered, ListsOK, LabelsHonest
    <2>4. CASE ListFailed(t, l)
      <3> DEFINE f == [list[t] EXCEPT !.error = TRUE, !.loading = FALSE]
      <3>1. f \in ListRecords /\ f.error
        BY <1>0, <2>1, RelabelTyped
      <3>2. list' = [list EXCEPT ![t] = f] /\ loads' = [loads EXCEPT ![t] = @ (-) SetToBag({l})]
        BY <2>4 DEF ListFailed
      <3> HIDE DEF f
      <3>. QED
        BY <2>2, <3>1, <3>2 DEF ListsOK, LabelsHonest
    <2>. QED
      BY <1>4, <2>3, <2>4
  <1>5. ASSUME NEW i \in DOMAIN requests, ReturnCompleted(i)
        PROVE  ListsOK' /\ LabelsHonest'
    <2> DEFINE o == requests[i].opening
               wanted == [sales |-> requests[i].page, returns |-> 1]
    <2>1. o \in Nat /\ \A t \in Tabs : wanted[t] \in 1..Pages
      <3>1. requests[i] \in ReturnRecords
        BY DEF FormOK
      <3>. QED
        BY <1>0, <3>1 DEF ReturnRecords, Tabs
    <2>2. \A t \in Tabs : list'[t] \in ListRecords /\ list'[t].loading
      BY <1>0, <1>5, RelabelTyped, LoadingTyped DEF ReturnCompleted
    <2>3. loads' = [t \in Tabs |-> Asked(t, wanted[t], o)]
      BY <1>5 DEF ReturnCompleted
    <2> HIDE DEF o, wanted
    <2>4. \A t \in Tabs : BagToSet(loads'[t]) \subseteq LoadRecords
      BY <2>1, <2>3, AskedTyped
    <2>5. list' = [t \in Tabs |-> list'[t]] /\ loads' = [t \in Tabs |-> loads'[t]]
      BY <1>5, <2>3 DEF ReturnCompleted
    <2>. QED
      BY <2>2, <2>4, <2>5 DEF ListsOK, LabelsHonest
  <1>. QED
    BY <1>1, <1>2, <1>3, <1>4, <1>5 DEF ListsStep

\* Taking a request off the list keeps what OneReturnEach says of the others.
LEMMA Fewer ==
  ASSUME FormOK, OneReturnEach, NEW i \in DOMAIN requests, requests' = RemoveAt(requests, i),
         freed \subseteq freed', opened' = opened
  PROVE  /\ requests' \in Seq(ReturnRecords)
         /\ \A j \in DOMAIN requests' : requests'[j].opening \in 1..opened'
         /\ \A j, k \in DOMAIN requests' :
               j # k /\ requests'[j].opening = requests'[k].opening =>
                   requests'[j].opening \in freed'
  <1> DEFINE place(j) == IF j < i THEN j ELSE j + 1
  <1>1. /\ requests' \in Seq(ReturnRecords) /\ Len(requests') = Len(requests) - 1
        /\ \A j \in DOMAIN requests' : requests'[j] = requests[place(j)]
    BY Removed DEF FormOK
  <1>2. i \in 1..Len(requests) /\ DOMAIN requests' = 1..Len(requests) - 1
    BY <1>1 DEF FormOK
  <1>3. \A j \in DOMAIN requests' : place(j) \in DOMAIN requests
    BY <1>2 DEF FormOK
  <1>4. \A j, k \in DOMAIN requests' : j # k => place(j) # place(k)
    BY <1>2
  <1> HIDE DEF place
  <1>. QED
    BY <1>1, <1>3, <1>4 DEF FormOK, OneReturnEach

\* A settled load frees the button of the dialog that caused it, which is
\* recorded.
LEMMA SettledOK ==
  ASSUME FormOK, OneReturnEach, NEW t, NEW load, Settled(t, load)
  PROVE  FormOK' /\ OneReturnEach'
  <1>1. UNCHANGED <<form, opened, requests, left>>
    BY DEF Settled
  <1>2. \/ busy' = busy /\ freed' = freed
        \/ /\ busy' = FALSE
           /\ freed' = IF form.opening # NoOpening THEN freed \cup {form.opening} ELSE freed
    BY DEF Settled
  <1>. QED
    BY <1>1, <1>2 DEF FormOK, OneReturnEach

\* Opening, looking up and closing the dialog keep the invariant: an opening is
\* new each time.
LEMMA DialogStep ==
  ASSUME FormOK, OneReturnEach, BeginReturn \/ LookupAnswered \/ LookupFailed \/ CloseDialog
  PROVE  FormOK' /\ OneReturnEach'
  <1>1. CASE BeginReturn \/ LookupFailed
    BY <1>1 DEF BeginReturn, LookupFailed, FormOK, OneReturnEach
  <1>2. CASE CloseDialog
    BY <1>2 DEF CloseDialog, FormOK, OneReturnEach, Closed, NoOpening
  <1>3. CASE LookupAnswered
    <2>1. form' = [opening |-> opened + 1, left |-> left] /\ opened' = opened + 1 /\ busy' = FALSE
          /\ UNCHANGED <<requests, left, freed>>
      BY <1>3 DEF LookupAnswered, FindReturnableInvoice
    <2>2. \A i \in DOMAIN requests : requests[i].opening # form'.opening
      BY <2>1 DEF FormOK
    <2>3. form' \in [opening : 0..opened', left : Nat] /\ form'.opening # NoOpening
      BY <2>1 DEF FormOK, NoOpening
    <2>6. opened' \in Nat /\ \A i \in DOMAIN requests : requests[i].opening \in 1..opened'
      BY <2>1 DEF FormOK
    <2>7. busy' \in BOOLEAN /\ requests' \in Seq(ReturnRecords) /\ left' \in Nat
      BY <2>1 DEF FormOK
    <2>4. FormOK'
      BY <2>1, <2>3, <2>6, <2>7 DEF FormOK
    <2>5. OneReturnEach'
      BY <2>1, <2>2 DEF OneReturnEach
    <2>. QED
      BY <2>4, <2>5
  <1>. QED
    BY <1>1, <1>2, <1>3

\* Submitting sends a request only from a dialog that is not busy.
LEMMA SubmitStep ==
  ASSUME ListsOK, FormOK, OneReturnEach, NEW qty \in 1..Units, Submit(qty)
  PROVE  FormOK' /\ OneReturnEach'
  <1>1. /\ form # Closed /\ ~busy /\ busy' = TRUE
        /\ requests' = Append(requests, Request(qty))
        /\ UNCHANGED <<form, opened, left, freed>>
    BY DEF Submit
  <1>2. list["sales"].label \in 1..Pages
    BY DEF ListsOK, ListRecords, Tabs
  <1>3. Request(qty) \in ReturnRecords /\ Request(qty).opening = form.opening
    BY <1>2, OperationsAssumption DEF Request, ReturnRecords, FormOK
  <1>4. form.opening \in 1..opened
    BY <1>1 DEF FormOK, NoOpening
  <1> DEFINE n == Len(requests)
  <1>5. /\ n \in Nat /\ DOMAIN requests = 1..n /\ DOMAIN requests' = 1..n + 1
        /\ requests' \in Seq(ReturnRecords)
        /\ requests'[n + 1] = Request(qty) /\ \A i \in 1..n : requests'[i] = requests[i]
    BY <1>1, <1>3 DEF FormOK
  <1> HIDE DEF n
  <1>6. FormOK'
    BY <1>1, <1>3, <1>4, <1>5 DEF FormOK
  <1>7. OneReturnEach'
    BY <1>1, <1>3, <1>5 DEF OneReturnEach
  <1>. QED
    BY <1>6, <1>7

\* The booking, the completion and the rejection of a return keep it.
LEMMA AnswerStep ==
  ASSUME FormOK, OneReturnEach, NEW i \in DOMAIN requests,
         ReturnBooked(i) \/ ReturnCompleted(i) \/ ReturnRejected(i)
  PROVE  FormOK' /\ OneReturnEach'
  <1>1. CASE ReturnBooked(i)
    <2>1. PICK word \in {"booked", "refused"} : requests' = [requests EXCEPT ![i].step = word]
      BY <1>1 DEF ReturnBooked
    <2>2. requests[i] \in ReturnRecords
      BY DEF FormOK
    <2> DEFINE answered == [requests[i] EXCEPT !.step = word]
    <2>5. answered \in ReturnRecords /\ answered.opening = requests[i].opening
      BY <2>2 DEF ReturnRecords
    <2>6. requests' = [requests EXCEPT ![i] = answered]
      BY <2>1
    <2> HIDE DEF answered
    <2>3. /\ requests' \in Seq(ReturnRecords) /\ DOMAIN requests' = DOMAIN requests
          /\ \A j \in DOMAIN requests : requests'[j].opening = requests[j].opening
      BY <2>5, <2>6 DEF FormOK
    <2>4. left' \in Nat /\ UNCHANGED <<form, opened, busy, freed>>
      BY SMTT(30), <1>1, <2>2 DEF ReturnBooked, FormOK, ReturnRecords
    <2>. QED
      BY <2>3, <2>4 DEF FormOK, OneReturnEach
  <1>2. CASE ReturnCompleted(i)
    <2>1. form' = Closed /\ requests' = RemoveAt(requests, i) /\ UNCHANGED <<opened, busy, left, freed>>
      BY <1>2 DEF ReturnCompleted
    <2>2. form' \in [opening : 0..opened', left : Nat]
      BY <2>1 DEF Closed, NoOpening, FormOK
    <2>. QED
      BY <2>1, <2>2, Fewer DEF FormOK, OneReturnEach
  <1>3. CASE ReturnRejected(i)
    <2>1. /\ requests' = RemoveAt(requests, i) /\ busy' = FALSE
          /\ freed' = IF form.opening \in {NoOpening, requests[i].opening} THEN freed
                      ELSE freed \cup {form.opening}
          /\ UNCHANGED <<form, opened, left>>
      BY <1>3 DEF ReturnRejected
    <2>2. FormOK' /\ \A j, k \in DOMAIN requests' :
             j # k /\ requests'[j].opening = requests'[k].opening => requests'[j].opening \in freed'
      BY <2>1, Fewer DEF FormOK
    <2>3. ASSUME form # Closed, NEW j \in DOMAIN requests', requests'[j].opening = form.opening
          PROVE  form.opening \in freed'
      <3>1. CASE form.opening # requests[i].opening
        BY <2>1, <2>3, <3>1 DEF FormOK
      <3>2. CASE form.opening = requests[i].opening
        <4> DEFINE k == IF j < i THEN j ELSE j + 1
        <4>1. requests'[j] = requests[k] /\ Len(requests') = Len(requests) - 1
          BY <2>1, Removed DEF FormOK
        <4>2. k \in DOMAIN requests /\ k # i
          BY <2>2, <4>1 DEF FormOK
        <4>. QED
          BY <2>1, <2>3, <3>2, <4>1, <4>2 DEF OneReturnEach
      <3>. QED
        BY <3>1, <3>2
    <2>. QED
      BY <2>1, <2>2, <2>3 DEF OneReturnEach
  <1>. QED
    BY <1>1, <1>2, <1>3

\* Every step of the operations screen keeps the invariant.
LEMMA OpsStep ==
  ASSUME OpsInv, OpsNext
  PROVE  OpsInv'
  <1>1. CASE RunSearch \/ RefreshAll \/ \E t \in Tabs : \E p \in 1..Pages : TurnPage(t, p)
    <2>1. UNCHANGED dialogVars /\ ListsStep
      BY <1>1 DEF RunSearch, RefreshAll, TurnPage, ListsStep
    <2>2. FormOK' /\ OneReturnEach'
      BY <2>1 DEF dialogVars, OpsInv, FormOK, OneReturnEach
    <2>. QED
      BY <2>1, <2>2, ListStep DEF OpsInv
  <1>2. ASSUME NEW t \in Tabs, NEW l \in BagToSet(loads[t]), ListAnswered(t, l) \/ ListFailed(t, l)
        PROVE  OpsInv'
    <2>1. Settled(t, l) /\ ListsStep
      BY <1>2 DEF ListAnswered, ListFailed, ListsStep
    <2>. QED
      BY <2>1, ListStep, SettledOK DEF OpsInv
  <1>3. CASE BeginReturn \/ LookupAnswered \/ LookupFailed \/ CloseDialog
    <2>1. UNCHANGED <<list, loads>>
      BY <1>3 DEF BeginReturn, LookupAnswered, LookupFailed, CloseDialog
    <2>. QED
      BY <1>3, <2>1, DialogStep DEF OpsInv, ListsOK, LabelsHonest
  <1>4. ASSUME NEW q \in 1..Units, Submit(q) PROVE OpsInv'
    <2>1. UNCHANGED <<list, loads>>
      BY <1>4 DEF Submit
    <2>. QED
      BY <1>4, <2>1, SubmitStep DEF OpsInv, ListsOK, LabelsHonest
  <1>5. ASSUME NEW i \in DOMAIN requests, ReturnBooked(i) \/ ReturnRejected(i) PROVE OpsInv'
    <2>1. UNCHANGED <<list, loads>>
      BY <1>5 DEF ReturnBooked, ReturnRejected
    <2>. QED
      BY <1>5, <2>1, AnswerStep DEF OpsInv, ListsOK, LabelsHonest
  <1>6. ASSUME NEW i \in DOMAIN requests, ReturnCompleted(i) PROVE OpsInv'
    BY <1>6, AnswerStep, ListStep DEF OpsInv
  <1>. QED
    BY <1>1, <1>2, <1>3, <1>4, <1>5, <1>6 DEF OpsNext

\* Two requests of one opening are two different requests.
LEMMA TwoInFlight ==
  ASSUME FormOK, NEW o, Cardinality(InFlight(o)) > 1
  PROVE  \E i, j \in InFlight(o) : i # j
  <1> SUFFICES ASSUME \A i, j \in InFlight(o) : i = j
               PROVE  FALSE
    OBVIOUS
  <1>1. CASE InFlight(o) = {}
    BY <1>1, FS_EmptySet
  <1>2. CASE InFlight(o) # {}
    <2>1. PICK i \in InFlight(o) : InFlight(o) = {i}
      BY <1>2
    <2>. QED
      BY <2>1, FS_Singleton
  <1>. QED
    BY <1>1, <1>2

\* Along every behaviour of the operations screen, rows shown under another
\* page's label are marked, and one opening of the return dialog has a second
\* return in flight only if its button was freed.
THEOREM OpsSafe == OpsSpec => []PagesAndReturnsHonest
  <1>1. OpsInv /\ UNCHANGED opsVars => OpsInv'
    BY DEF opsVars, dialogVars, OpsInv, ListsOK, LabelsHonest, FormOK, OneReturnEach
  <1>2. OpsInv => PagesAndReturnsHonest
    <2> SUFFICES ASSUME OpsInv, NEW o \in 1..opened, Cardinality(InFlight(o)) > 1
                 PROVE  o \in freed
      BY DEF PagesAndReturnsHonest, OpsInv, LabelsHonest
    <2>1. PICK i, j \in InFlight(o) : i # j
      BY TwoInFlight DEF OpsInv
    <2>. QED
      BY <2>1 DEF OpsInv, OneReturnEach, InFlight
  <1>. QED
    BY <1>1, <1>2, OpsInitOK, OpsStep, PTL DEF OpsSpec

(***************************************************************************)
(* The updater: TillUpdate.                                                *)
(***************************************************************************)

\* The updater on its own.
UpdSpec == UpdInit /\ [][UpdNext]_updVars

\* Versions as TillUpdate's CompareVersions reads them.
Identifiers == [numeric : BOOLEAN, rank : Int]
Versions3 == [core : [1..3 -> Int], prerelease : Seq(Identifiers)]
\* The releases are listed oldest first in CompareVersions's own order. It is the
\* hypothesis of the update theorem, and says of the constant what its comment
\* says: which of two releases is newer is for the comparison to decide.
InOrder ==
    /\ Releases \in Seq(Versions3)
    /\ Releases # <<>>
    /\ \A a, b \in Release : a < b => ~Newer(a, b)

\* Lists without a difference compare equal.
LEMMA NoDifference ==
  ASSUME NEW n \in Nat, NEW diff, \A i \in 1..n : diff[i] = 0
  PROVE  FirstDifference(diff, 1..n) = 0
  BY DEF FirstDifference

\* A version compares equal to itself.
LEMMA SameVersion ==
  ASSUME NEW v \in Versions3
  PROVE  CompareVersions(v, v) = 0
  <1>1. FirstDifference([i \in 1..3 |-> v.core[i] - v.core[i]], 1..3) = 0
    <2>1. \A i \in 1..3 : [j \in 1..3 |-> v.core[j] - v.core[j]][i] = 0
      BY DEF Versions3
    <2>. QED
      BY <2>1, NoDifference
  <1>2. ComparePrerelease(v.prerelease, v.prerelease) = 0
    <2> DEFINE l == v.prerelease
    <2>1. l \in Seq(Identifiers)
      BY DEF Versions3
    <2>2. \A i \in 1..Len(l) : CompareIdentifier(l[i], l[i]) = 0
      <3>1. \A i \in 1..Len(l) : l[i] \in Identifiers
        BY <2>1
      <3>2. \A x \in Identifiers : x.rank - x.rank = 0
        BY DEF Identifiers
      <3>. QED
        BY <3>1, <3>2 DEF CompareIdentifier
    <2> DEFINE diff == [i \in 1..Len(l) |-> IF i > Len(l) THEN -1 ELSE IF i > Len(l) THEN 1
                                            ELSE CompareIdentifier(l[i], l[i])]
    <2>3. \A i \in 1..Len(l) : diff[i] = 0
      BY <2>1, <2>2
    <2>4. Len(l) \in Nat
      BY <2>1
    <2>5. FirstDifference(diff, 1..Len(l)) = 0
      BY <2>3, <2>4, NoDifference
    <2>. QED
      BY <2>5 DEF ComparePrerelease
  <1>. QED
    BY <1>1, <1>2 DEF CompareVersions

\* A release CompareVersions calls newer comes later in the list.
LEMMA NewerIsLater ==
  ASSUME InOrder, NEW a \in Release, NEW b \in Release, Newer(a, b)
  PROVE  a > b
  <1>1. CASE a = b
    <2>1. Releases[a] \in Versions3
      BY DEF InOrder, Release
    <2>2. CompareVersions(Releases[a], Releases[b]) = 0
      BY <1>1, <2>1, SameVersion
    <2>. QED
      BY <2>2 DEF Newer
  <1>2. CASE a < b
    BY <1>2 DEF InOrder
  <1>. QED
    BY <1>1, <1>2 DEF Release

\* The releases the till can be told of: those ever published, and the one of the
\* older endpoint.
KnownReleases == everOut \cup ({Legacy} \ {None})

\* Type correctness of the updater.
UpdTypeOK ==
    /\ everOut \in SUBSET Release /\ published \in everOut \cup {None}
    /\ cached \in [release : everOut \cup {None}, age : Nat]
    /\ version \in Release
    /\ step \in {"idle", "asking", "offered", "downloading", "unsent", "install", "opening"}
    /\ outbox \in Nat /\ clicked \in BOOLEAN /\ since \in Nat /\ during \in Nat

\* From the offer to the installer, the manifest in hand is a known release newer
\* than the one that runs.
OfferHeld ==
    step \in {"offered", "downloading", "unsent", "install", "opening"} =>
        manifest \in KnownReleases /\ Newer(manifest, version)

\* From the dialog that asks to install to the quit, nothing is unsent but a sale
\* that was being saved when the dialog opened and those made after it was answered.
NothingUnsaved ==
    /\ step \in {"install", "opening"} => outbox <= since + during /\ since <= 1
    /\ step = "install" => during = 0 /\ (clicked => since = 0)

\* The inductive invariant of the updater.
UpdInv == UpdTypeOK /\ OfferHeld /\ NothingUnsaved

\* The till starts idle on the oldest release.
LEMMA UpdInitOK == ASSUME InOrder PROVE UpdInit => UpdInv
  <1>1. 1 \in Release
    BY DEF InOrder, Release
  <1>. SUFFICES ASSUME UpdInit PROVE UpdInv
    OBVIOUS
  <1>2. everOut \in SUBSET Release /\ published \in everOut \cup {None}
    BY <1>1 DEF UpdInit, None
  <1>3. cached \in [release : everOut \cup {None}, age : Nat]
    BY UpdateAssumption DEF UpdInit, NoCache
  <1>. QED
    BY <1>1, <1>2, <1>3 DEF UpdInit, UpdInv, UpdTypeOK, OfferHeld, NothingUnsaved

\* An answer to the check is an offer only if it is newer.
LEMMA ToldKeepsOffer ==
  ASSUME UpdInv, NEW m \in KnownReleases \cup {None}, Told(m), UNCHANGED <<everOut, salesVars>>
  PROVE  /\ OfferHeld' /\ NothingUnsaved' /\ version' = version
         /\ step' \in {"idle", "asking", "offered", "downloading", "unsent", "install", "opening"}
  <1>1. CASE step # "asking"
    BY <1>1 DEF Told, updater, UpdInv, UpdTypeOK, OfferHeld, NothingUnsaved, KnownReleases, Newer, salesVars
  <1>2. CASE step = "asking" /\ Selected(m)
    BY <1>2 DEF Told, Selected, OfferHeld, NothingUnsaved, KnownReleases, Newer
  <1>3. CASE step = "asking" /\ ~Selected(m)
    BY <1>3 DEF Told, OfferHeld, NothingUnsaved
  <1>. QED
    BY <1>1, <1>2, <1>3

\* Giving up goes back to idle.
LEMMA GivesUpOK ==
  ASSUME UpdInv, GivesUp, UNCHANGED <<releaseVars, cached, salesVars>>
  PROVE  UpdInv'
  BY DEF GivesUp, updater, UpdInv, UpdTypeOK, OfferHeld, NothingUnsaved, KnownReleases, Newer,
         releaseVars, salesVars

\* Every step of the updater keeps the invariant.
LEMMA UpdStep ==
  ASSUME InOrder, UpdInv, UpdNext
  PROVE  UpdInv'
  <1> USE DEF UpdInv, UpdTypeOK, OfferHeld, NothingUnsaved, KnownReleases, Newer, releaseVars,
              cacheVars, updater, salesVars
  <1>1. ASSUME NEW r \in Release \cup {None}, Publish(r) PROVE UpdInv'
    BY <1>1 DEF Publish
  <1>2. ASSUME NEW r \in Release, RaiseMinimum(r) PROVE UpdInv'
    BY <1>2 DEF RaiseMinimum
  <1>3. CASE Tick
    BY <1>3 DEF Tick
  <1>4. CASE Check
    BY <1>4 DEF Check
  <1>5. CASE ResolvedFromCache
    <2>1. cached.release \in KnownReleases \cup {None}
      OBVIOUS
    <2>. HIDE DEF UpdInv, OfferHeld, NothingUnsaved
    <2>. QED
      BY <1>5, <2>1, ToldKeepsOffer DEF ResolvedFromCache, UpdInv
  <1>6. CASE FetchStarts
    BY <1>6 DEF FetchStarts
  <1>7. CASE FetchRemote
    <2>1. published \in KnownReleases \cup {None}
      OBVIOUS
    <2>. HIDE DEF UpdInv, OfferHeld, NothingUnsaved
    <2>. QED
      BY <1>7, <2>1, ToldKeepsOffer DEF FetchRemote, UpdInv
  <1>8. CASE FetchFails
    <2>1. cached.release \in KnownReleases \cup {None}
      OBVIOUS
    <2>2. Legacy \in KnownReleases \cup {None}
      OBVIOUS
    <2>. HIDE DEF UpdInv, OfferHeld, NothingUnsaved
    <2>3. ASSUME NEW m \in KnownReleases \cup {None}, Told(m) PROVE UpdInv'
      BY <1>8, <2>3, ToldKeepsOffer DEF FetchFails, UpdInv
    <2>4. CASE GivesUp
      BY <1>8, <2>4, GivesUpOK DEF FetchFails
    <2>5. CASE UNCHANGED updater
      BY <1>8, <2>5 DEF FetchFails, UpdInv, OfferHeld, NothingUnsaved
    <2>. QED
      BY <1>8, <2>1, <2>2, <2>3, <2>4, <2>5 DEF FetchFails
  <1>9. CASE NoAnswer \/ DownloadFails \/ OpenFails
    BY <1>9, GivesUpOK DEF NoAnswer, DownloadFails, OpenFails
  <1>10. CASE Later
    BY <1>10 DEF Later, Concluded
  <1>11. CASE AcceptOffer
    BY <1>11 DEF AcceptOffer
  <1>12. CASE Downloaded \/ InstallNow
    BY <1>12 DEF Downloaded, Installable, InstallNow
  <1>13. CASE RunInstaller
    <2>1. Legacy # None => Legacy \in Release
      BY ONLY UpdateAssumption, InOrder DEF InOrder, Release, None
    <2>2. version' \in everOut \cup ({Legacy} \ {None})
      BY <1>13 DEF RunInstaller
    <2>3. version' \in Release
      BY <2>1, <2>2
    <2>. QED
      BY <1>13, <2>3 DEF RunInstaller
  <1>14. CASE RestartApp
    BY <1>14 DEF RestartApp
  <1>15. CASE Pay
    BY <1>15 DEF Pay, InDialog
  <1>16. CASE SaleSaved
    <2>1. outbox' \in Nat /\ since' \in Nat /\ during' \in Nat /\ clicked' = FALSE
      BY <1>16 DEF SaleSaved
    <2>2. NothingUnsaved'
      BY <1>16 DEF SaleSaved
    <2>3. OfferHeld'
      BY <1>16 DEF SaleSaved
    <2>. QED
      BY <1>16, <2>1, <2>2, <2>3 DEF SaleSaved
  <1>17. CASE Upload
    BY <1>17 DEF Upload
  <1>. HIDE DEF UpdInv
  <1>. QED
    BY <1>1, <1>2, <1>3, <1>4, <1>5, <1>6, <1>7, <1>8, <1>9, <1>10, <1>11, <1>12, <1>13, <1>14,
       <1>15, <1>16, <1>17 DEF UpdNext

\* What UpdateSafe says of a step.
Forward ==
    version' # version =>
          /\ version' > version
          /\ version' \in everOut \cup {Legacy}
          /\ outbox <= since + during /\ since <= 1

\* Only RunInstaller changes the version, and it moves forward.
LEMMA OnlyInstallerUpdates ==
  ASSUME InOrder, UpdInv, [UpdNext]_updVars
  PROVE  Forward
  <1>1. CASE RunInstaller
    <2>1. version' = manifest /\ manifest \in KnownReleases /\ Newer(manifest, version)
      BY <1>1 DEF RunInstaller, UpdInv, OfferHeld
    <2>2. manifest \in Release
      BY <2>1, UpdateAssumption DEF KnownReleases, Release, None, UpdInv, UpdTypeOK
    <2>3. manifest > version
      BY <2>1, <2>2, NewerIsLater DEF UpdInv, UpdTypeOK
    <2>. QED
      BY <1>1, <2>1, <2>3 DEF RunInstaller, UpdInv, NothingUnsaved, KnownReleases, Forward
  <1>2. CASE ~RunInstaller
    <2>1. version' = version
      BY <1>2 DEF UpdNext, updVars, updater, Publish, RaiseMinimum, Tick, Check, ResolvedFromCache,
         FetchStarts, FetchRemote, FetchFails, NoAnswer, Later, AcceptOffer, Downloaded,
         DownloadFails, InstallNow, OpenFails, RestartApp, Pay, SaleSaved, Upload, Told, GivesUp, Concluded
    <2>. QED
      BY <2>1 DEF Forward
  <1>. QED
    BY <1>1, <1>2

\* Every step of the updater that changes the version moves forward to a known
\* release with nothing unsent from before the installer was offered.
THEOREM UpdSafe == ASSUME InOrder PROVE UpdSpec => UpdateSafe
  <1>1. UpdInv /\ UNCHANGED updVars => UpdInv'
    BY DEF UpdInv, UpdTypeOK, OfferHeld, NothingUnsaved, KnownReleases, Newer, updVars, releaseVars,
           cacheVars, updater, salesVars
  <1>2. UpdInit => UpdInv
    BY UpdInitOK
  <1>3. UpdInv /\ [UpdNext]_updVars => UpdInv' /\ [Forward]_updVars
    BY <1>1, UpdStep, OnlyInstallerUpdates
  <1>4. UpdSpec => [][Forward]_updVars
    BY <1>2, <1>3, PTL DEF UpdSpec
  <1>. QED
    BY <1>4 DEF UpdateSafe, Forward

(***************************************************************************)
(* The legacy files: LocalMigration.                                       *)
(***************************************************************************)

\* The start over an older release's files on its own.
MigSpec == MigInit /\ [][MigNext]_migVars

\* The sales of this release among sales, which old files have none of.
NewSales(sales) == {s \in sales : s[1] = "new"}
\* The database in the i-th legacy directory.
DatabaseAt(i) == old[Dirs[i]].database

\* The legacy files are what the older releases left.
OldOK ==
    \A i \in DOMAIN Dirs :
        /\ DatabaseAt(i) = NoFile
           \/ \E x \in OldSales[Dirs[i]] : DatabaseAt(i) = File(Database(x, {}, FALSE))
        /\ old[Dirs[i]].secure \in {NoFile, File(Dirs[i])}

\* Type correctness of the phase.
AtOK ==
    /\ at.phase \in {"off", "copying", "open", "running"}
    /\ at.dir \in DOMAIN Dirs /\ at.kind \in Kinds

\* file holds every sale of the first legacy database and every sale rung up
\* since.
Whole(file) ==
    /\ origin["database"] = FirstWithDatabase
    /\ FirstWithDatabase # Nowhere => old[FirstWithDatabase].database[1].sales \subseteq file.sales
    /\ IsFiniteSet(NewSales(file.sales)) /\ Cardinality(NewSales(file.sales)) = rung
    /\ \A s \in NewSales(file.sales) : s[2] \in 1..rung

\* The till's own files are whole: a database on disk holds what it should, and
\* carries the marker only with every amount in minor units.
DiskOK ==
    /\ disk = [k \in Kinds |-> disk[k]] /\ origin = [k \in Kinds |-> origin[k]]
    /\ disk["secure"] \in {NoFile, File("own")} \cup {File(Dirs[i]) : i \in DOMAIN Dirs}
    /\ rung \in Nat
    /\ disk["database"] = NoFile => origin["database"] = Nowhere /\ rung = 0
    /\ disk["database"] # NoFile =>
          /\ Whole(disk["database"][1])
          /\ disk["database"][1].marker => disk["database"][1].minor = disk["database"][1].sales

\* While there is no database, the directories passed so far had none: without it
\* a start that skips the first database could take a later one.
CopyOK ==
    disk["database"] = NoFile =>
        /\ at.phase = "copying" =>
              /\ \A j \in DOMAIN Dirs : j < at.dir => DatabaseAt(j) = NoFile
              /\ at.kind = "secure" => DatabaseAt(at.dir) = NoFile
        /\ at.phase = "open" => \A j \in DOMAIN Dirs : DatabaseAt(j) = NoFile

\* A running till has a whole database open, with every amount in minor units.
MemoryOK ==
    /\ at.phase = "running" => db # NoFile
    /\ db # NoFile =>
          /\ at.phase \in {"open", "running"}
          /\ Whole(db[1]) /\ db[1].minor = db[1].sales

\* The inductive invariant of the migration.
MigInv == OldOK /\ AtOK /\ DiskOK /\ CopyOK /\ MemoryOK

\* There is a first legacy directory.
LEMMA DirsTyped ==
  /\ Len(Dirs) \in Nat /\ Len(Dirs) >= 1 /\ DOMAIN Dirs = 1..Len(Dirs)
  /\ \A i \in DOMAIN Dirs : Dirs[i] # Nowhere
  BY MigrationAssumption DEF Nowhere

\* Without a legacy database there is no first one.
LEMMA NoneWithDatabase ==
  ASSUME \A j \in DOMAIN Dirs : DatabaseAt(j) = NoFile
  PROVE  FirstWithDatabase = Nowhere
  BY DEF FirstWithDatabase, DatabaseAt

\* The first directory with a database is the one that no earlier one precedes.
LEMMA FirstIs ==
  ASSUME NEW i \in DOMAIN Dirs, DatabaseAt(i) # NoFile,
         \A j \in DOMAIN Dirs : j < i => DatabaseAt(j) = NoFile
  PROVE  FirstWithDatabase = Dirs[i]
  <1> DEFINE has == {k \in DOMAIN Dirs : old[Dirs[k]].database # NoFile}
             first == CHOOSE k \in has : \A j \in has : k <= j
  <1>1. i \in has /\ \A j \in has : i <= j
    BY DirsTyped DEF DatabaseAt
  <1>2. first \in has /\ \A j \in has : first <= j
    BY <1>1
  <1>3. first = i
    BY <1>1, <1>2, DirsTyped
  <1>4. FirstWithDatabase = IF has = {} THEN Nowhere ELSE Dirs[first]
    BY DEF FirstWithDatabase
  <1>. QED
    BY <1>1, <1>3, <1>4

\* A till that has never run has no files of its own.
LEMMA MigInitOK == MigInit => MigInv
  <1> SUFFICES ASSUME MigInit PROVE MigInv
    OBVIOUS
  <1>1. OldOK
    <2> SUFFICES ASSUME NEW i \in DOMAIN Dirs
                 PROVE  /\ DatabaseAt(i) = NoFile
                           \/ \E x \in OldSales[Dirs[i]] : DatabaseAt(i) = File(Database(x, {}, FALSE))
                        /\ old[Dirs[i]].secure \in {NoFile, File(Dirs[i])}
      BY DEF OldOK
    <2> DEFINE d == Dirs[i]
               bs == {NoFile} \cup {File(Database(x, {}, FALSE)) : x \in OldSales[d]}
               ss == {NoFile, File(d)}
    <2>1. d \in {Dirs[j] : j \in DOMAIN Dirs}
      OBVIOUS
    <2>2. DOMAIN OldFiles = {Dirs[j] : j \in DOMAIN Dirs}
      BY DEF OldFiles
    <2>3. old[d] \in OldFiles[d]
      BY <2>1, <2>2 DEF MigInit
    <2> HIDE DEF d
    <2>5. old[d] \in [database : bs, secure : ss]
      BY <2>1, <2>3 DEF OldFiles
    <2>4. old[d].database \in bs /\ old[d].secure \in ss
      BY <2>5
    <2>. QED
      BY <2>4 DEF DatabaseAt, d
  <1>2. AtOK
    BY DirsTyped DEF MigInit, AtOK, Phase, Kinds
  <1>3. DiskOK /\ CopyOK /\ MemoryOK
    BY DEF MigInit, DiskOK, CopyOK, MemoryOK, Kinds, Phase
  <1>. QED
    BY <1>1, <1>2, <1>3 DEF MigInv

\* A step that leaves the legacy files leaves the first of them.
LEMMA OldKept ==
  ASSUME OldOK, UNCHANGED old
  PROVE  OldOK' /\ FirstWithDatabase' = FirstWithDatabase
  <1>1. OldOK'
    BY DEF OldOK, DatabaseAt
  <1>2. FirstWithDatabase' = FirstWithDatabase
    BY DEF FirstWithDatabase
  <1>. QED
    BY <1>1, <1>2

\* The copy loop goes on to the other kind, the next directory, or the opening.
LEMMA FollowingOK ==
  ASSUME AtOK, at.phase = "copying", at' = Following
  PROVE  /\ AtOK'
         /\ \/ at.kind = "database" /\ at' = Copy(at.dir, "secure")
            \/ at.kind = "secure" /\ at.dir < Len(Dirs) /\ at' = Copy(at.dir + 1, "database")
            \/ at.kind = "secure" /\ at.dir = Len(Dirs) /\ at' = Phase("open")
  BY DirsTyped DEF AtOK, Following, Copy, Phase, Kinds

\* A step that leaves the files and the database in memory alone keeps the
\* invariant.
LEMMA OnlyMoves ==
  ASSUME MigInv, UNCHANGED <<old, disk, origin, db, rung>>, AtOK', CopyOK',
         db # NoFile => at' = at, at'.phase = "running" => at.phase = "running"
  PROVE  MigInv'
  <1>1. OldOK' /\ DiskOK'
    BY DEF MigInv, OldOK, DatabaseAt, DiskOK, Whole, FirstWithDatabase
  <1>2. MemoryOK'
    BY DEF MigInv, MemoryOK, Whole, FirstWithDatabase
  <1>. QED
    BY <1>1, <1>2 DEF MigInv

\* A skipped copy had no source, or a target already there.
LEMMA SkipStep ==
  ASSUME MigInv, SkipCopy
  PROVE  MigInv'
  <1>1. at.phase = "copying" /\ ~Wanted /\ at' = Following /\ UNCHANGED <<old, disk, temp, origin, db, rung>>
    BY DEF SkipCopy, Copying
  <1>2. db = NoFile
    BY <1>1 DEF MigInv, MemoryOK
  <1>3. disk["database"] = NoFile /\ at.kind = "database" => DatabaseAt(at.dir) = NoFile
    BY <1>1 DEF Wanted, Copying, Candidate, DatabaseAt
  <1>4. CopyOK'
    BY <1>1, <1>3, FollowingOK, DirsTyped DEF MigInv, CopyOK, AtOK, Copy, Phase, DatabaseAt
  <1>. QED
    BY <1>1, <1>2, <1>4, FollowingOK, OnlyMoves DEF MigInv, Following, Copy, Phase

\* The rename puts the first legacy database in place whole.
LEMMA RenameStep ==
  ASSUME MigInv, RenameCopy
  PROVE  MigInv'
  <1>1. /\ at.phase = "copying" /\ at' = Following /\ disk[at.kind] = NoFile
        /\ old[Dirs[at.dir]][at.kind] # NoFile
        /\ disk' = [disk EXCEPT ![at.kind] = old[Dirs[at.dir]][at.kind]]
        /\ origin' = [origin EXCEPT ![at.kind] = Dirs[at.dir]]
        /\ UNCHANGED <<old, db, rung>>
    BY DEF RenameCopy, Wanted, Copying, Candidate
  <1>2. db = NoFile /\ at.dir \in DOMAIN Dirs
    BY <1>1 DEF MigInv, MemoryOK, AtOK
  <1>3. AtOK' /\ at'.phase \in {"copying", "open"} /\ OldOK'
    <2>1. AtOK' /\ at'.phase \in {"copying", "open"}
      BY <1>1, FollowingOK DEF MigInv, Copy, Phase
    <2>. QED
      BY <1>1, <2>1, OldKept DEF MigInv
  <1>4. MemoryOK'
    BY <1>1, <1>2, <1>3 DEF MemoryOK
  <1>5. CASE at.kind = "database"
    <2>1. disk'["database"] = DatabaseAt(at.dir) /\ disk'["secure"] = disk["secure"]
          /\ origin'["database"] = Dirs[at.dir] /\ disk["database"] = NoFile
          /\ disk' = [k \in Kinds |-> disk'[k]] /\ origin' = [k \in Kinds |-> origin'[k]]
      BY <1>1, <1>5 DEF MigInv, DiskOK, Kinds, DatabaseAt
    <2>2. DatabaseAt(at.dir) # NoFile
          /\ \A j \in DOMAIN Dirs : j < at.dir => DatabaseAt(j) = NoFile
      BY <1>1, <1>5, <2>1 DEF MigInv, CopyOK, DatabaseAt
    <2>3. FirstWithDatabase = Dirs[at.dir]
      BY <1>2, <2>2, FirstIs
    <2>4. PICK x \in OldSales[Dirs[at.dir]] : DatabaseAt(at.dir) = File(Database(x, {}, FALSE))
      BY <1>2, <2>2 DEF MigInv, OldOK
    <2>5. disk'["database"][1] = Database(x, {}, FALSE)
      BY <2>1, <2>4 DEF File
    <2>6. rung = 0 /\ NewSales(x) = {}
      BY <1>2, <2>1, MigrationAssumption DEF MigInv, DiskOK, NewSales
    <2>7. IsFiniteSet(NewSales(x)) /\ Cardinality(NewSales(x)) = 0
      BY <2>6, FS_EmptySet
    <2>8. FirstWithDatabase' = Dirs[at.dir]
      BY <1>1, <2>3 DEF FirstWithDatabase
    <2>9. Whole(disk["database"][1])'
      <3>1. disk'["database"][1].sales = x
        BY <2>5 DEF Database
      <3>2. old'[Dirs[at.dir]].database[1].sales = x
        BY <1>1, <2>4 DEF DatabaseAt, File, Database
      <3>. QED
        BY <1>1, <2>1, <2>6, <2>7, <2>8, <3>1, <3>2 DEF Whole
    <2>10. DiskOK'
      <3>1. disk'["database"][1].marker = FALSE /\ disk'["database"] # NoFile
        BY <2>1, <2>2, <2>5 DEF Database
      <3>. QED
        BY <1>1, <2>1, <2>9, <3>1 DEF MigInv, DiskOK
    <2>11. CopyOK'
      BY <2>1, <2>2 DEF CopyOK
    <2>. QED
      BY <1>3, <1>4, <2>10, <2>11 DEF MigInv
  <1>6. CASE at.kind = "secure"
    <2>1. disk'["database"] = disk["database"] /\ disk'["secure"] = old[Dirs[at.dir]].secure
          /\ origin'["database"] = origin["database"]
          /\ disk' = [k \in Kinds |-> disk'[k]] /\ origin' = [k \in Kinds |-> origin'[k]]
      BY <1>1, <1>6 DEF MigInv, DiskOK, Kinds
    <2>2. disk'["secure"] \in {NoFile, File("own")} \cup {File(Dirs[i]) : i \in DOMAIN Dirs}
      BY <1>2, <2>1 DEF MigInv, OldOK
    <2>3. DiskOK'
      <3>1. FirstWithDatabase' = FirstWithDatabase
        BY <1>1, OldKept DEF MigInv
      <3>2. disk["database"] # NoFile => Whole(disk["database"][1])'
        BY <1>1, <2>1, <3>1 DEF MigInv, DiskOK, Whole
      <3>. QED
        BY <1>1, <2>1, <2>2, <3>2 DEF MigInv, DiskOK
    <2>4. CopyOK'
      BY <1>1, <1>6, <2>1, FollowingOK, DirsTyped DEF MigInv, CopyOK, AtOK, Copy, Phase, DatabaseAt
    <2>. QED
      BY <1>3, <1>4, <2>3, <2>4 DEF MigInv
  <1>. QED
    BY <1>5, <1>6 DEF MigInv, AtOK, Kinds

\* Opening backfills what carries no marker.
LEMMA OpenStep ==
  ASSUME MigInv, OpenDatabase
  PROVE  MigInv'
  <1> DEFINE file == IF disk["database"] = NoFile THEN Empty ELSE disk["database"][1]
  <1>1. at.phase = "open" /\ db' = File(Backfilled(file)) /\ UNCHANGED <<old, disk, at, origin, rung>>
    BY DEF OpenDatabase
  <1>2. Whole(file)
    <2>1. CASE disk["database"] = NoFile
      <3>1. FirstWithDatabase = Nowhere /\ origin["database"] = Nowhere /\ rung = 0
        BY <1>1, <2>1, NoneWithDatabase DEF MigInv, CopyOK, DiskOK
      <3>2. NewSales({}) = {}
        BY DEF NewSales
      <3>. QED
        BY <2>1, <3>1, <3>2, FS_EmptySet DEF Whole, Empty, Database
    <2>2. CASE disk["database"] # NoFile
      BY <2>2 DEF MigInv, DiskOK
    <2>. QED
      BY <2>1, <2>2
  <1>3. file.marker => file.minor = file.sales
    BY DEF Empty, Database, MigInv, DiskOK
  <1> HIDE DEF file
  <1>4. Backfilled(file).sales = file.sales /\ Backfilled(file).minor = file.sales
    BY <1>3 DEF Backfilled, Database
  <1>5. db' # NoFile /\ db'[1] = Backfilled(file)
    BY <1>1 DEF File, NoFile
  <1>6. MemoryOK'
    BY <1>1, <1>2, <1>4, <1>5 DEF MemoryOK, Whole, FirstWithDatabase
  <1>. QED
    BY <1>1, <1>6 DEF MigInv, OldOK, AtOK, DiskOK, CopyOK, DatabaseAt, Whole, FirstWithDatabase

\* The first save writes what was opened.
LEMMA SaveStep ==
  ASSUME MigInv, SaveOpened
  PROVE  MigInv'
  <1>1. /\ db # NoFile /\ disk' = [disk EXCEPT !["database"] = db] /\ at' = Phase("running")
        /\ UNCHANGED <<old, origin, db, rung>>
    BY DEF SaveOpened
  <1>2. disk'["database"] = db /\ disk'["secure"] = disk["secure"] /\ disk' = [k \in Kinds |-> disk'[k]]
    BY <1>1 DEF MigInv, DiskOK, Kinds
  <1>3. Whole(db[1])' /\ db[1].minor = db[1].sales
    BY <1>1 DEF MigInv, MemoryOK, Whole, FirstWithDatabase
  <1>4. DiskOK'
    BY <1>1, <1>2, <1>3 DEF MigInv, DiskOK
  <1>5. MemoryOK' /\ CopyOK'
    BY <1>1, <1>2, <1>3 DEF MemoryOK, CopyOK, Phase
  <1>6. AtOK' /\ OldOK'
    BY <1>1, DirsTyped, OldKept DEF MigInv, AtOK, Phase, Kinds
  <1>. QED
    BY <1>4, <1>5, <1>6 DEF MigInv

\* A sale rung up goes into memory and to disk.
LEMMA RingStep ==
  ASSUME MigInv, RingUp
  PROVE  MigInv'
  <1> DEFINE sale == <<"new", rung + 1>>
             was == db[1]
             now == Database(was.sales \cup {sale}, was.minor \cup {sale}, was.marker)
  <1>1. /\ at.phase = "running" /\ rung' = rung + 1 /\ db' = File(now)
        /\ disk' = [disk EXCEPT !["database"] = db',
                                !["secure"] = IF @ = NoFile THEN File("own") ELSE @]
        /\ UNCHANGED <<old, at, origin>>
    BY DEF RingUp
  <1>2. Whole(was) /\ was.minor = was.sales /\ rung \in Nat
    BY <1>1 DEF MigInv, MemoryOK, DiskOK
  <1>3. sale \notin was.sales
    <2>1. sale \in was.sales => sale[2] \in 1..rung
      BY <1>2 DEF Whole, NewSales
    <2>. QED
      BY <1>2, <2>1
  <1>4. NewSales(now.sales) = NewSales(was.sales) \cup {sale} /\ sale \notin NewSales(was.sales)
    BY <1>3 DEF NewSales, Database
  <1>5. IsFiniteSet(NewSales(now.sales)) /\ Cardinality(NewSales(now.sales)) = rung + 1
    <2> DEFINE S == NewSales(was.sales)
    <2>1. IsFiniteSet(S) /\ Cardinality(S) = rung /\ sale \notin S
          /\ NewSales(now.sales) = S \cup {sale}
      BY <1>2, <1>4 DEF Whole
    <2> HIDE DEF S, sale, now, was
    <2>2. IsFiniteSet(S \cup {sale}) /\ Cardinality(S \cup {sale}) = rung + 1
      BY <2>1, FS_AddElement
    <2>. QED
      BY <2>1, <2>2
  <1>6. \A s \in NewSales(now.sales) : s[2] \in 1..rung + 1
    BY <1>2, <1>4 DEF Whole
  <1>7. was.sales \subseteq now.sales /\ now.minor = now.sales
    BY <1>2 DEF Database
  <1>8. db'[1] = now /\ db' # NoFile
    BY <1>1 DEF File, NoFile
  <1> HIDE DEF sale, was, now
  <1>9. Whole(db[1])'
    BY <1>1, <1>2, <1>5, <1>6, <1>7, <1>8 DEF Whole, FirstWithDatabase
  <1>10. disk'["database"] = db' /\ disk' = [k \in Kinds |-> disk'[k]]
         /\ disk'["secure"] \in {NoFile, File("own")} \cup {File(Dirs[i]) : i \in DOMAIN Dirs}
    BY <1>1 DEF MigInv, DiskOK, Kinds
  <1>11. DiskOK'
    BY <1>1, <1>2, <1>7, <1>8, <1>9, <1>10 DEF MigInv, DiskOK
  <1>12. MemoryOK' /\ CopyOK'
    BY <1>1, <1>7, <1>8, <1>9, <1>10 DEF MemoryOK, CopyOK
  <1>. QED
    BY <1>1, <1>11, <1>12 DEF MigInv, AtOK, OldOK, DatabaseAt

\* A failed copy and a stop lose nothing on disk.
LEMMA StopStep ==
  ASSUME MigInv, CopyFails \/ StopTill
  PROVE  MigInv'
  <1>1. at' = Phase("off") /\ db' = NoFile /\ UNCHANGED <<old, disk, origin, rung>>
    BY DEF CopyFails, StopTill, Wanted, Copying, MigInv, MemoryOK
  <1>2. AtOK' /\ CopyOK' /\ MemoryOK'
    BY <1>1, DirsTyped DEF AtOK, CopyOK, MemoryOK, Phase, Kinds
  <1>. QED
    BY <1>1, <1>2 DEF MigInv, OldOK, DatabaseAt, DiskOK, Whole, FirstWithDatabase

\* A factory reset forgets everything, and the next start takes the legacy
\* database again.
LEMMA ResetStep ==
  ASSUME MigInv, ResetTill
  PROVE  MigInv'
  <1>1. at' = Phase("off") /\ db' = NoFile /\ disk' = [k \in Kinds |-> NoFile]
        /\ origin' = [k \in Kinds |-> Nowhere] /\ rung' = 0 /\ UNCHANGED old
    BY DEF ResetTill
  <1>2. AtOK' /\ CopyOK' /\ MemoryOK'
    BY <1>1, DirsTyped DEF AtOK, CopyOK, MemoryOK, Phase, Kinds
  <1>3. DiskOK'
    BY <1>1 DEF DiskOK, Kinds
  <1>. QED
    BY <1>1, <1>2, <1>3 DEF MigInv, OldOK, DatabaseAt

\* Every step of the migration keeps the invariant.
LEMMA MigStep ==
  ASSUME MigInv, MigNext
  PROVE  MigInv'
  <1>1. CASE StartTill
    <2>1. at.phase = "off" /\ at' = Copy(1, "database") /\ UNCHANGED <<old, disk, origin, db, rung>>
      BY <1>1 DEF StartTill
    <2>2. AtOK' /\ CopyOK' /\ db = NoFile /\ at'.phase = "copying"
      BY <2>1, DirsTyped DEF AtOK, CopyOK, Copy, Kinds, MigInv, MemoryOK
    <2>. QED
      BY <2>1, <2>2, OnlyMoves
  <1>2. CASE BeginCopy \/ CopyEnds
    <2>1. UNCHANGED <<old, disk, origin, db, rung, at>>
      BY <1>2 DEF BeginCopy, CopyEnds
    <2>2. AtOK' /\ CopyOK'
      BY <2>1 DEF MigInv, AtOK, CopyOK, DatabaseAt
    <2>. QED
      BY <2>1, <2>2, OnlyMoves
  <1>. QED
    BY <1>1, <1>2, SkipStep, RenameStep, OpenStep, SaveStep, RingStep, StopStep, ResetStep
       DEF MigNext

\* Along every behaviour of the migration a running till has every legacy sale
\* and every sale of its own.
THEOREM MigSafe == MigSpec => []LegacyTakenWhole
  <1>1. MigInv /\ UNCHANGED migVars => MigInv'
    <2> SUFFICES ASSUME MigInv, UNCHANGED migVars PROVE MigInv'
      OBVIOUS
    <2>1. AtOK' /\ CopyOK'
      BY DEF migVars, MigInv, AtOK, CopyOK, DatabaseAt
    <2>. QED
      BY <2>1, OnlyMoves DEF migVars
  <1>2. MigInv => LegacyTakenWhole
    <2>1. \A i \in DOMAIN Dirs : File(Dirs[i]) # File("half")
      BY MigrationAssumption DEF File
    <2>2. NoFile # File("half") /\ File("own") # File("half")
      BY DEF NoFile, File
    <2>3. MigInv => disk["secure"] # File("half")
      BY <2>1, <2>2 DEF MigInv, DiskOK
    <2>. QED
      BY <2>3 DEF MigInv, MemoryOK, Whole, NewSales, LegacyTakenWhole
  <1>. QED
    BY <1>1, <1>2, MigInitOK, MigStep, PTL DEF MigSpec

(***************************************************************************)
(* The composition: MCCounter.                                             *)
(***************************************************************************)

\* A step of the counter is a step of each part, or leaves it alone.
LEMMA PartSteps ==
  ASSUME [Next]_ctrVars
  PROVE  /\ [RegNext]_regVars /\ [SesNext]_sesVars /\ [OpsNext]_opsVars
         /\ [UpdNext]_updVars /\ [MigNext]_migVars
  BY DEF Next, ctrVars

\* A behaviour of the counter is one of each part.
LEMMA PartSpecs == Spec => RegSpec /\ SesSpec /\ OpsSpec /\ UpdSpec /\ MigSpec
  <1>1. Init => RegInit /\ SesInit /\ OpsInit /\ UpdInit /\ MigInit
    BY DEF Init
  <1>. QED
    BY <1>1, PartSteps, PTL DEF Spec, RegSpec, SesSpec, OpsSpec, UpdSpec, MigSpec

\* No cart is sold twice, whatever the cashier presses while a sale is being
\* saved or its receipt printed (SalesScreen's confirmSale).
THEOREM CartSoldOnce == Spec => []OneSalePerCart
  <1>1. RegSpec => []OneSalePerCart
    BY RegSafe, PTL
  <1>. QED
    BY <1>1, PartSpecs, PTL

\* A payment under way has its locked dialog on the screen, unless the session ended,
\* a close asked for before it was answered after, or the focus was walked out of
\* the dialog with Tab: the pointer never leaves a confirmed payment.
THEOREM PaymentStaysWatched == Spec => []PaymentsWatched
  <1>1. RegSpec => []PaymentsWatched
    BY RegSafe, PTL
  <1>. QED
    BY <1>1, PartSpecs, PTL

\* The accounting context on disk and on the screen is that of the till and the
\* cashier it is used for, however late the backend's answers come.
THEOREM ContextStaysOwned == Spec => []ContextOwned
  BY SesSafe, PartSpecs, PTL

\* The operations screen marks rows of another page than its label's, and one
\* opening of the return dialog sends a second return only after its button was
\* freed.
THEOREM ScreenStaysHonest == Spec => []PagesAndReturnsHonest
  BY OpsSafe, PartSpecs, PTL

\* A running till has every sale of the first legacy database it found and every
\* sale rung up since, through any number of interrupted starts.
THEOREM LegacyIsWhole == Spec => []LegacyTakenWhole
  BY MigSafe, PartSpecs, PTL

\* If the releases are listed in the order CompareVersions gives them, the till
\* never installs an older or an unknown release, and over no unsent sale but one
\* that was being saved when it asked and those made after the answer.
THEOREM UpdateMovesForward == ASSUME InOrder PROVE Spec => UpdateSafe
  <1>1. UpdSpec => UpdateSafe
    BY UpdSafe
  <1>. QED
    BY <1>1, PartSpecs, PTL
=============================================================================
