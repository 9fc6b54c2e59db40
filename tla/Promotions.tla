------------------------------ MODULE Promotions ------------------------------
(***************************************************************************)
(* The lifecycles of promotions                                              *)
(*   draft -> scheduled -> active <-> paused -> ended, or cancelled            *)
(* and of bundles                                                             *)
(*   draft -> active -> ended, with later versions drafted from a live one.    *)
(* Submission and approval of a promotion are two names on a draft, not        *)
(* statuses.  A bundle and its components are written by two statements with   *)
(* no transaction around them, so a crash can separate the two.                *)
(***************************************************************************)
EXTENDS Naturals, FiniteSets

CONSTANTS
    PromoIds,       \* identifiers of Promotion rows
    BundleIds,      \* identifiers of Bundle rows
    Marketers,      \* identities that work on promotions
    PromoCalls,     \* requests that can be open at the same time
    MaxPromoCalls,  \* bound: requests that read before they write
    MaxContent      \* bound: edits of a draft

ASSUME PromotionsAssumption == MaxPromoCalls \in Nat /\ MaxContent \in Nat

VARIABLES
    promos,      \* Promotion rows: a function on the ids inserted so far
    bundles,     \* Bundle rows and their components, likewise
    prmCalls,    \* open requests: what each has read
    prmCount     \* requests started

prmVars == <<promos, bundles, prmCalls, prmCount>>

Unnamed == "unnamed"

\* No identity is the null of the columns submitted_by and approved_by.
ASSUME MarketersAssumption == Unnamed \notin Marketers

PrmIdle == [op |-> "idle"]
PrmInit ==
    /\ promos = <<>> /\ bundles = <<>>
    /\ prmCalls = [c \in PromoCalls |-> PrmIdle]
    /\ prmCount = 0

Extended(f, x, row) == [y \in DOMAIN f \cup {x} |-> IF y = x THEN row ELSE f[y]]
PrmOpen(c, call) ==
    /\ prmCalls[c] = PrmIdle /\ prmCount < MaxPromoCalls
    /\ prmCount' = prmCount + 1
    /\ prmCalls' = [prmCalls EXCEPT ![c] = call]
PrmClose(c) == prmCalls' = [prmCalls EXCEPT ![c] = PrmIdle] /\ UNCHANGED prmCount
PromoStatement == UNCHANGED <<bundles, prmCalls, prmCount>>

-----------------------------------------------------------------------------
(* Promotions. *)

\* The columns of a benefit: its type, and whether the value and the three
\* quantities of a bogo are given.  A row keeps whether they make it whole.
Offered == [type: {"bogo", "percentage"}, value: BOOLEAN, bogo: BOOLEAN]
\* assertBenefitShape
BenefitShape(benefit) == IF benefit.type = "bogo" THEN benefit.bogo ELSE benefit.value

CreatePromo(x, policy, benefit) ==
    /\ x \in PromoIds \ DOMAIN promos /\ BenefitShape(benefit)
    /\ promos' = Extended(promos, x,
          [status |-> "draft", submittedBy |-> Unnamed, approvedBy |-> Unnamed,
           policy |-> policy, whole |-> BenefitShape(benefit), content |-> 0, scheduledContent |-> 0,
           early |-> FALSE])
    /\ PromoStatement

PromoIs(x, from) == x \in DOMAIN promos /\ promos[x].status \in from

Rewrite(x, policy, benefit) ==
    /\ promos[x].content < MaxContent
    /\ promos' = [promos EXCEPT ![x].content = @ + 1, ![x].policy = policy,
                                ![x].whole = BenefitShape(benefit)]
    /\ PromoStatement
\* A mutant: what is scheduled can still be edited.
EditPromoAnytime(x, policy, benefit) ==
    PromoIs(x, {"draft", "scheduled"}) /\ Rewrite(x, policy, benefit)
\* The draft's status is in the predicate.  Nothing asks whether the benefit is
\* still complete, and the two names stay as they are: an approval is of the
\* promotion, whatever it comes to say.
EditPromo(x, policy, benefit) == PromoIs(x, {"draft"}) /\ Rewrite(x, policy, benefit)

\* markSubmitted
SubmitPromo(x, by) ==
    /\ PromoIs(x, {"draft"})
    /\ promos' = [promos EXCEPT ![x].submittedBy = by]
    /\ PromoStatement

\* approve reads the submitter, markApproved only asks that there is one.
ApprovePromoRead(c, x, by) ==
    /\ x \in DOMAIN promos /\ promos[x].submittedBy # by
    /\ PrmOpen(c, [op |-> "approve", id |-> x, by |-> by])
    /\ UNCHANGED <<promos, bundles>>
ApprovePromoWrite(c) ==
    /\ prmCalls[c].op = "approve"
    /\ LET x == prmCalls[c].id IN
       promos' = IF PromoIs(x, {"draft"}) /\ promos[x].submittedBy # Unnamed
                 THEN [promos EXCEPT ![x].approvedBy = prmCalls[c].by] ELSE promos
    /\ PrmClose(c) /\ UNCHANGED bundles

\* schedule reads both names, then moves the draft.
BothNamed(x) == promos[x].submittedBy # Unnamed /\ promos[x].approvedBy # Unnamed
SchedulePromoRead(c, x) ==
    /\ x \in DOMAIN promos /\ BothNamed(x)
    /\ PrmOpen(c, [op |-> "schedule", id |-> x]) /\ UNCHANGED <<promos, bundles>>
SchedulePromoWrite(c) ==
    /\ prmCalls[c].op = "schedule"
    /\ LET x == prmCalls[c].id IN
       promos' = IF PromoIs(x, {"draft"})
                 THEN [promos EXCEPT ![x].status = "scheduled",
                                     ![x].scheduledContent = promos[x].content] ELSE promos
    /\ PrmClose(c) /\ UNCHANGED bundles

\* activate reads the return policy, then moves whatever is scheduled.
ActivatePromoRead(c, x) ==
    /\ x \in DOMAIN promos /\ promos[x].policy
    /\ PrmOpen(c, [op |-> "activate", id |-> x, early |-> promos[x].status = "draft"])
    /\ UNCHANGED <<promos, bundles>>
ActivatePromoWrite(c) ==
    /\ prmCalls[c].op = "activate"
    /\ LET x == prmCalls[c].id IN
       promos' = IF PromoIs(x, {"scheduled"})
                 THEN [promos EXCEPT ![x].status = "active", ![x].early = prmCalls[c].early]
                 ELSE promos
    /\ PrmClose(c) /\ UNCHANGED bundles

MovePromo(x, from, to) ==
    /\ PromoIs(x, from)
    /\ promos' = [promos EXCEPT ![x].status = to]
    /\ PromoStatement
PausePromo(x) == MovePromo(x, {"active"}, "paused")
ResumePromo(x) == MovePromo(x, {"paused"}, "active")
EndPromo(x) == MovePromo(x, {"active", "paused"}, "ended")
CancelPromo(x) == MovePromo(x, {"draft", "scheduled"}, "cancelled")

-----------------------------------------------------------------------------
(* Bundles. *)

BundleStatement == UNCHANGED <<promos, prmCalls, prmCount>>
BundleRow(policy, version, previous) ==
    [status |-> "draft", policy |-> policy, components |-> 0, version |-> version,
     supersedes |-> previous, early |-> FALSE]

\* First statement of create; the components are not there yet.
InsertBundle(c, x, policy, version, previous) ==
    /\ x \in BundleIds \ DOMAIN bundles
    /\ bundles' = Extended(bundles, x, BundleRow(policy, version, previous))
    /\ PrmOpen(c, [op |-> "components", id |-> x])
    /\ UNCHANGED promos
CreateBundle(c, x, policy) == InsertBundle(c, x, policy, 1, Unnamed)
\* A next version is drafted from a live one, which keeps selling.
SupersedeBundle(c, x, previous, policy) ==
    /\ previous \in DOMAIN bundles /\ bundles[previous].status = "active"
    /\ InsertBundle(c, x, policy, bundles[previous].version + 1, previous)
InsertComponents(c) ==
    /\ prmCalls[c].op = "components"
    /\ bundles' = [bundles EXCEPT ![prmCalls[c].id].components = @ + 1]
    /\ PrmClose(c) /\ UNCHANGED promos
\* The process dies between the two statements.
CrashBeforeComponents(c) ==
    /\ prmCalls[c].op = "components"
    /\ PrmClose(c) /\ UNCHANGED <<promos, bundles>>

\* updateDraft replaces the components in one transaction, while a draft.
EditBundle(x, policy, replaced) ==
    /\ x \in DOMAIN bundles /\ bundles[x].status = "draft"
    /\ bundles' = [bundles EXCEPT ![x].policy = policy,
                                  ![x].components = IF replaced THEN 1 ELSE @]
    /\ bundles' # bundles
    /\ BundleStatement

\* activate reads policy and components, then moves the draft.
Sellable(x) == bundles[x].policy /\ bundles[x].components > 0
ActivateBundleRead(c, x) ==
    /\ x \in DOMAIN bundles /\ Sellable(x)
    /\ PrmOpen(c, [op |-> "sell", id |-> x, seen |-> bundles[x]])
    /\ UNCHANGED <<promos, bundles>>
ActivateBundleWrite(c) ==
    /\ prmCalls[c].op = "sell"
    /\ LET x == prmCalls[c].id IN
       bundles' = IF bundles[x].status = "draft"
                  THEN [bundles EXCEPT ![x].status = "active",
                                       ![x].early = bundles[x] # prmCalls[c].seen]
                  ELSE bundles
    /\ PrmClose(c) /\ UNCHANGED promos

EndBundle(x) ==
    /\ x \in DOMAIN bundles /\ bundles[x].status = "active"
    /\ bundles' = [bundles EXCEPT ![x].status = "ended"]
    /\ BundleStatement

PrmNext ==
    \/ \E x \in PromoIds :
          \/ \E p \in BOOLEAN, b \in Offered : CreatePromo(x, p, b) \/ EditPromo(x, p, b)
          \/ \E k \in Marketers : SubmitPromo(x, k)
          \/ PausePromo(x) \/ ResumePromo(x) \/ EndPromo(x) \/ CancelPromo(x)
    \/ \E x \in BundleIds :
          \/ \E p, r \in BOOLEAN : EditBundle(x, p, r)
          \/ EndBundle(x)
    \/ \E c \in PromoCalls :
          \/ \E x \in PromoIds :
                \/ \E k \in Marketers : ApprovePromoRead(c, x, k)
                \/ SchedulePromoRead(c, x) \/ ActivatePromoRead(c, x)
          \/ \E x \in BundleIds :
                \/ \E p \in BOOLEAN :
                      \/ CreateBundle(c, x, p)
                      \/ \E y \in BundleIds : SupersedeBundle(c, x, y, p)
                \/ ActivateBundleRead(c, x)
          \/ ApprovePromoWrite(c) \/ SchedulePromoWrite(c) \/ ActivatePromoWrite(c)
          \/ InsertComponents(c) \/ CrashBeforeComponents(c) \/ ActivateBundleWrite(c)

-----------------------------------------------------------------------------
(* What is live is complete.  A promotion past its draft has two names and    *)
(* says what it said when it was scheduled, which may not be what was approved; *)
(* one that went live declared its return policy, unless the activation had    *)
(* read it as a draft; and its benefit is whole unless it was edited.  A live  *)
(* bundle has components although they are written apart from it and a crash   *)
(* can come between, and a policy unless it was edited away under the           *)
(* activation.                                                                  *)
PromotionComplete(p) ==
    /\ p.status \notin {"draft", "cancelled"} =>
          /\ p.submittedBy # Unnamed /\ p.approvedBy # Unnamed
          /\ p.content = p.scheduledContent
    /\ p.status \in {"active", "paused", "ended"} => p.policy \/ p.early
    /\ p.whole \/ p.content > 0
BundleComplete(b) ==
    b.status # "draft" => b.components > 0 /\ (b.policy \/ b.early)
LiveOffersComplete ==
    /\ \A x \in DOMAIN promos : PromotionComplete(promos[x])
    /\ \A x \in DOMAIN bundles : BundleComplete(bundles[x])

=============================================================================
