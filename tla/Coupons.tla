------------------------------- MODULE Coupons -------------------------------
(***************************************************************************)
(* One coupon and the requests that redeem it.  redeem reads the coupon and   *)
(* its promotion, counts the customer's redemptions, inserts a row under the   *)
(* caller's idempotency key, takes one use off the capacity, and deletes the   *)
(* row again when there was none left: five statements in no transaction, any   *)
(* of which can be the last before a crash.  A caller who got no answer sends   *)
(* the same key again.                                                         *)
(***************************************************************************)
EXTENDS Naturals, FiniteSets

CONSTANTS
    Keys,           \* idempotency keys: one per redemption a caller means
    Shoppers,       \* customers
    ShopperOf,      \* the customer a key is redeemed for
    CouponShapes,   \* [type, max, perCustomer] a coupon may be created with
    NewCaps,        \* values of max_total_uses an update may set
    CouponSlots,    \* requests that can be open at the same time
    MaxAttempts,    \* bound: requests
    MaxUpdates      \* bound: edits of the coupon or its promotion

ASSUME CouponsAssumption ==
    /\ ShopperOf \in [Keys -> Shoppers] /\ MaxAttempts \in Nat /\ MaxUpdates \in Nat
    /\ NewCaps \subseteq Nat /\ \A s \in CouponShapes : s.max \in Nat

VARIABLES
    coupon,      \* the Coupon row
    promoLive,   \* the promotion's status is active
    redeemed,    \* CouponRedemption rows; counted, nth and cap are history, not columns
    cpnCalls,    \* open requests
    attempts,    \* requests started
    updates,     \* edits made
    told         \* what the caller of each key was answered

cpnVars == <<coupon, promoLive, redeemed, cpnCalls, attempts, updates, told>>

Unlimited == 0   \* no cap: a null column (a cap of zero cannot be entered)
CpnIdle == [at |-> "idle"]

\* create: a single-use coupon has a capacity of one whatever was asked.
CapacityOf(type, max) == IF type = "single_use" THEN 1 ELSE max
Creatable(s) ==
    /\ s.type = "single_use" => s.max \in {Unlimited, 1}
    /\ s.type = "customer_bound" => s.boundTo \in Shoppers
NewCoupon(s) ==
    [type |-> s.type, boundTo |-> s.boundTo, max |-> CapacityOf(s.type, s.max),
     perCustomer |-> s.perCustomer, active |-> TRUE, expired |-> FALSE, uses |-> 0]

CpnInit ==
    /\ \E s \in CouponShapes : Creatable(s) /\ coupon = NewCoupon(s)
    /\ promoLive = TRUE
    /\ redeemed = {}
    /\ cpnCalls = [c \in CouponSlots |-> CpnIdle]
    /\ attempts = 0 /\ updates = 0
    /\ told = [k \in Keys |-> {}]

-----------------------------------------------------------------------------
\* update: any field of any coupon, whatever was redeemed.
UpdateCoupon(new) ==
    /\ updates < MaxUpdates /\ new # coupon
    /\ coupon' = new /\ updates' = updates + 1
    /\ UNCHANGED <<promoLive, redeemed, cpnCalls, attempts, told>>
SetCap(n) == UpdateCoupon([coupon EXCEPT !.max = n])
Toggle == UpdateCoupon([coupon EXCEPT !.active = ~@])
Expire == UpdateCoupon([coupon EXCEPT !.expired = TRUE])
PausePromotion ==
    /\ updates < MaxUpdates /\ promoLive /\ promoLive' = FALSE /\ updates' = updates + 1
    /\ UNCHANGED <<coupon, redeemed, cpnCalls, attempts, told>>

Step(c, at) == cpnCalls' = [cpnCalls EXCEPT ![c] = [@ EXCEPT !.at = at]]
Answer(c, word) ==
    cpnCalls' = [cpnCalls EXCEPT ![c] = [at |-> "answer", key |-> @.key, word |-> word]]
KeyOf(c) == cpnCalls[c].key
RowOf(k) == {r \in redeemed : r.key = k}

Request(c, k) ==
    /\ cpnCalls[c] = CpnIdle /\ attempts < MaxAttempts
    /\ attempts' = attempts + 1
    /\ cpnCalls' = [cpnCalls EXCEPT ![c] = [at |-> "look", key |-> k, n |-> attempts]]
    /\ UNCHANGED <<coupon, promoLive, redeemed, updates, told>>

\* The checks on the coupon and its promotion.
Usable(k) ==
    /\ coupon.active /\ ~coupon.expired /\ promoLive
    /\ coupon.type = "customer_bound" => ShopperOf[k] = coupon.boundTo
Look(c) ==
    /\ cpnCalls[c].at = "look"
    /\ IF Usable(KeyOf(c)) THEN Step(c, "count") ELSE Answer(c, "refused")
    /\ UNCHANGED <<coupon, promoLive, redeemed, attempts, updates, told>>

\* The customer's own limit, from a count of the rows there are.
UsedBy(s) == Cardinality({r \in redeemed : ShopperOf[r.key] = s})
CountOwn(c) ==
    /\ cpnCalls[c].at = "count"
    /\ IF coupon.perCustomer # Unlimited /\ UsedBy(ShopperOf[KeyOf(c)]) >= coupon.perCustomer
       THEN Answer(c, "refused") ELSE Step(c, "insert")
    /\ UNCHANGED <<coupon, promoLive, redeemed, attempts, updates, told>>

\* A mutant: a row that has not taken its use does not hold its key.
KeyCounted(k) == \E r \in RowOf(k) : r.counted
\* The row, or the replay of the one that is there already.
KeyTaken(k) == RowOf(k) # {}
InsertRow(c) ==
    /\ cpnCalls[c].at = "insert"
    /\ LET k == KeyOf(c) IN
       IF KeyTaken(k) THEN Answer(c, "replayed") /\ UNCHANGED redeemed
       ELSE /\ redeemed' = redeemed \cup {[key |-> k, n |-> cpnCalls[c].n, counted |-> FALSE,
                                       nth |-> 0, cap |-> Unlimited]}
            /\ Step(c, "reserve")
    /\ UNCHANGED <<coupon, promoLive, attempts, updates, told>>

\* One conditional UPDATE; the row it is for.
HasCapacity == coupon.active /\ (coupon.max = Unlimited \/ coupon.uses < coupon.max)
OwnRow(c) == {r \in redeemed : r.key = KeyOf(c) /\ r.n = cpnCalls[c].n}
Reserve(c) ==
    /\ cpnCalls[c].at = "reserve"
    /\ IF HasCapacity
       THEN /\ coupon' = [coupon EXCEPT !.uses = @ + 1]
            /\ redeemed' = (redeemed \ OwnRow(c))
                             \cup {[r EXCEPT !.counted = TRUE, !.nth = coupon.uses + 1,
                                             !.cap = coupon.max] : r \in OwnRow(c)}
            /\ Answer(c, "redeemed")
       ELSE Step(c, "compensate") /\ UNCHANGED <<coupon, redeemed>>
    /\ UNCHANGED <<promoLive, attempts, updates, told>>

Compensate(c) ==
    /\ cpnCalls[c].at = "compensate"
    /\ redeemed' = redeemed \ OwnRow(c)
    /\ Answer(c, "refused")
    /\ UNCHANGED <<coupon, promoLive, attempts, updates, told>>

Deliver(c) ==
    /\ cpnCalls[c].at = "answer"
    /\ told' = [told EXCEPT ![KeyOf(c)] = @ \cup {cpnCalls[c].word}]
    /\ cpnCalls' = [cpnCalls EXCEPT ![c] = CpnIdle]
    /\ UNCHANGED <<coupon, promoLive, redeemed, attempts, updates>>
\* The process dies, or the answer is lost on the way.
CrashOrLost(c) ==
    /\ cpnCalls[c] # CpnIdle
    /\ cpnCalls' = [cpnCalls EXCEPT ![c] = CpnIdle]
    /\ UNCHANGED <<coupon, promoLive, redeemed, attempts, updates, told>>

CpnNext ==
    \/ \E n \in NewCaps : SetCap(n)
    \/ Toggle \/ Expire \/ PausePromotion
    \/ \E c \in CouponSlots :
          \/ \E k \in Keys : Request(c, k)
          \/ Look(c) \/ CountOwn(c) \/ InsertRow(c) \/ Reserve(c) \/ Compensate(c)
          \/ Deliver(c) \/ CrashOrLost(c)

-----------------------------------------------------------------------------
(* The capacity is spent once per redemption: use_count is the number of      *)
(* rows that took a use, no key took two, none was taken past the cap in      *)
(* force, and whoever was told "redeemed" has a row that took one.            *)
(* Overlapping and repeated requests, edits of the cap and crashes between    *)
(* the statements do not change that.                                         *)
CouponCounted ==
    LET took == {r \in redeemed : r.counted} IN
    /\ coupon.uses = Cardinality(took)
    /\ \A r, s \in redeemed : r.key = s.key => r = s
    /\ \A r \in took : r.cap # Unlimited => r.nth <= r.cap
    /\ \A k \in Keys : "redeemed" \in told[k] => \E r \in took : r.key = k

=============================================================================
