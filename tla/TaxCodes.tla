------------------------------- MODULE TaxCodes -------------------------------
(***************************************************************************)
(* The tax codes of one tax category, version by version:                    *)
(*   draft -> submitted -> approved [-> scheduled] -> active -> superseded.    *)
(* A request that reads first and writes later is open in `taxCalls`.          *)
(***************************************************************************)
EXTENDS Naturals, FiniteSets

CONSTANTS
    CodeIds,        \* identifiers of TaxCode rows
    CodeNames,      \* TaxCode.code
    Rates,          \* rates a draft may carry
    TaxClerks,      \* identities that work on tax codes
    TaxCalls,       \* requests that can be open at the same time
    MaxTaxCalls     \* bound: requests that read before they write

ASSUME TaxCodesAssumption == MaxTaxCalls \in Nat

VARIABLES
    codes,       \* TaxCode rows: a function on the ids inserted so far
    taxCalls,    \* open requests: what each has read
    taxCount     \* requests started

taxVars == <<codes, taxCalls, taxCount>>

NoOne == "no one"
NoCode == "no code"

\* A row's id is never the null of its links.
ASSUME CodeIdsAssumption == NoCode \notin CodeIds

\* Nor is an identity that of submitted_by and approved_by.
ASSUME TaxClerksAssumption == NoOne \notin TaxClerks

TaxIdle == [op |-> "idle"]
TaxInit ==
    /\ codes = <<>>
    /\ taxCalls = [c \in TaxCalls |-> TaxIdle]
    /\ taxCount = 0

With(f, x, row) == [y \in DOMAIN f \cup {x} |-> IF y = x THEN row ELSE f[y]]
ActiveCodes == {x \in DOMAIN codes : codes[x].status = "active"}

-----------------------------------------------------------------------------
(* Single statements. *)

\* createDraft; TaxCode_tenant_id_code_version_key refuses a second one.
DraftRow(code, version, rate, supersedes, clerk) ==
    [code |-> code, version |-> version, rate |-> rate, status |-> "draft", createdBy |-> clerk,
     submittedBy |-> NoOne, approvedBy |-> NoOne, sawDraft |-> FALSE,
     submittedRate |-> rate, supersedes |-> supersedes, supersededBy |-> NoCode]
VersionFree(code, version) ==
    \A y \in DOMAIN codes : <<codes[y].code, codes[y].version>> # <<code, version>>

\* A generated id: which one does not matter.
RoomForRow == CodeIds \ DOMAIN codes # {}
NewId == CHOOSE x \in CodeIds : x \notin DOMAIN codes
CreateCode(code, rate, clerk) ==
    /\ RoomForRow /\ VersionFree(code, 1)
    /\ codes' = With(codes, NewId, DraftRow(code, 1, rate, NoCode, clerk))
    /\ UNCHANGED <<taxCalls, taxCount>>

\* updateDraft: the status is part of the statement's predicate.
Editable(x) == x \in DOMAIN codes /\ codes[x].status = "draft"
EditDraft(x, rate) ==
    /\ Editable(x) /\ codes[x].rate # rate
    /\ codes' = [codes EXCEPT ![x].rate = rate]
    /\ UNCHANGED <<taxCalls, taxCount>>

SubmitCode(x, clerk) ==
    /\ x \in DOMAIN codes /\ codes[x].status = "draft"
    /\ codes' = [codes EXCEPT ![x].status = "submitted", ![x].submittedBy = clerk,
                              ![x].submittedRate = codes[x].rate]
    /\ UNCHANGED <<taxCalls, taxCount>>

ScheduleCode(x) ==
    /\ x \in DOMAIN codes /\ codes[x].status = "approved"
    /\ codes' = [codes EXCEPT ![x].status = "scheduled"]
    /\ UNCHANGED <<taxCalls, taxCount>>

-----------------------------------------------------------------------------
(* Requests that read first. *)

TaxOpen(c, call) ==
    /\ taxCalls[c] = TaxIdle /\ taxCount < MaxTaxCalls
    /\ taxCount' = taxCount + 1
    /\ taxCalls' = [taxCalls EXCEPT ![c] = call]
    /\ UNCHANGED codes
TaxClose(c) == taxCalls' = [taxCalls EXCEPT ![c] = TaxIdle] /\ UNCHANGED taxCount

\* Only who submitted the code is refused; who drafted it may approve it.
ApproveCodeRead(c, x, clerk) ==
    /\ x \in DOMAIN codes /\ codes[x].submittedBy # clerk
    /\ TaxOpen(c, [op |-> "approve", id |-> x, by |-> clerk,
                   sawDraft |-> codes[x].status = "draft"])
ApproveCodeWrite(c) ==
    /\ taxCalls[c].op = "approve"
    /\ LET call == taxCalls[c] IN
       codes' = IF codes[call.id].status # "submitted" THEN codes
                ELSE [codes EXCEPT ![call.id].status = "approved",
                        ![call.id].approvedBy = call.by, ![call.id].sawDraft = call.sawDraft]
    /\ TaxClose(c)

Activatable(x) == codes[x].status \in {"approved", "scheduled"}
ActivateCodeRead(c, x) ==
    /\ x \in DOMAIN codes /\ Activatable(x)
    /\ TaxOpen(c, [op |-> "activate", id |-> x])
\* First statement of the transaction.
FindIncumbent(c) ==
    /\ taxCalls[c].op = "activate"
    /\ taxCalls' = [taxCalls EXCEPT ![c] =
                      [op |-> "promote", id |-> taxCalls[c].id, incumbent |-> ActiveCodes]]
    /\ UNCHANGED <<codes, taxCount>>
\* The incumbent is demoted while it is still active, the candidate promoted
\* while it may still be, and TaxCode_one_active_per_category lets it in.
PromotionGoes(x, incumbent) ==
    Activatable(x) /\ incumbent \subseteq ActiveCodes /\ ActiveCodes \subseteq incumbent
PromoteOver(x, incumbent) ==
    [y \in DOMAIN codes |->
        CASE y = x -> [codes[y] EXCEPT !.status = "active",
                         !.supersedes = IF incumbent = {} THEN @ ELSE CHOOSE i \in incumbent : TRUE]
          [] y \in incumbent -> [codes[y] EXCEPT !.status = "superseded", !.supersededBy = x]
          [] OTHER -> codes[y]]
PromoteWrite(c) ==
    /\ taxCalls[c].op = "promote"
    /\ LET call == taxCalls[c] IN
       codes' = IF call.id \in call.incumbent \/ ~PromotionGoes(call.id, call.incumbent)
                THEN codes ELSE PromoteOver(call.id, call.incumbent)
    /\ TaxClose(c)

NextVersionRead(c, x, rate, clerk) ==
    /\ x \in DOMAIN codes /\ codes[x].status = "active" /\ RoomForRow
    /\ TaxOpen(c, [op |-> "next", id |-> x, rate |-> rate, by |-> clerk])
NextVersionWrite(c) ==
    /\ taxCalls[c].op = "next"
    /\ LET x == taxCalls[c].id  v == codes[x].version + 1 IN
       codes' = IF VersionFree(codes[x].code, v) /\ RoomForRow
                THEN With(codes, NewId, DraftRow(codes[x].code, v, taxCalls[c].rate, x, taxCalls[c].by))
                ELSE codes
    /\ TaxClose(c)

TaxNext ==
    \/ \E n \in CodeNames, r \in Rates, k \in TaxClerks : CreateCode(n, r, k)
    \/ \E x \in CodeIds :
          \/ \E r \in Rates : EditDraft(x, r)
          \/ \E k \in TaxClerks : SubmitCode(x, k)
          \/ ScheduleCode(x)
    \/ \E c \in TaxCalls :
          \/ \E x \in CodeIds :
                \/ ActivateCodeRead(c, x)
                \/ \E k \in TaxClerks :
                      ApproveCodeRead(c, x, k) \/ \E r \in Rates : NextVersionRead(c, x, r, k)
          \/ ApproveCodeWrite(c) \/ FindIncumbent(c) \/ PromoteWrite(c)
          \/ NextVersionWrite(c)

-----------------------------------------------------------------------------
(* Which rate a till charged can always be reconstructed: at most one code   *)
(* of the category is active, once one is there always is, the links         *)
(* supersedes and superseded_by of activated codes are each other's inverse, *)
(* and the rate that is charged is the one that was submitted.               *)
Activated == {x \in DOMAIN codes : codes[x].status \in {"active", "superseded"}}
RateTraceable ==
    /\ Activated # {} => Cardinality(ActiveCodes) = 1
    /\ \A x \in Activated :
          /\ codes[x].rate = codes[x].submittedRate
          /\ codes[x].supersededBy # NoCode <=> x \notin ActiveCodes
          /\ codes[x].supersededBy # NoCode =>
                /\ codes[x].supersededBy \in Activated
                /\ codes[codes[x].supersededBy].supersedes = x

(* A code is not approved by who submitted it, unless the approval had read  *)
(* the row before the submission: the window between the two statements is   *)
(* the only way around the check.  Nothing is said of who drafted it: they    *)
(* may approve it when a colleague submits it.                               *)
TaxApprovedByAnother ==
    \A x \in DOMAIN codes : codes[x].approvedBy # NoOne =>
        (codes[x].approvedBy = codes[x].submittedBy => codes[x].sawDraft)

-----------------------------------------------------------------------------
(* The codes implement the abstract lifecycle: they share one slot, their    *)
(* category, none is retired but by its successor, and who drafted a code is  *)
(* on record but not barred from approving it.                               *)
CodeRow(x) ==
    [stage |-> IF codes[x].status = "superseded" THEN "retired" ELSE codes[x].status,
     author |-> codes[x].createdBy, submitter |-> codes[x].submittedBy,
     approver |-> codes[x].approvedBy, overtook |-> codes[x].sawDraft,
     content |-> codes[x].rate,
     fills |-> IF codes[x].status = "superseded" THEN {} ELSE {"category"}]
CodeVersions ==
    INSTANCE MakerChecker
        WITH Ids <- CodeIds, People <- TaxClerks, AuthorBarred <- FALSE, Contents <- Rates,
             Slots <- {"category"}, Ready <- {"approved", "scheduled"}, Retirable <- FALSE,
             None <- NoOne, row <- [x \in DOMAIN codes |-> CodeRow(x)]

=============================================================================
