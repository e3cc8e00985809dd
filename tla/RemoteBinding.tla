--------------------------- MODULE RemoteBinding ----------------------------
(***************************************************************************)
(* Opening and using a remote module binding (modulecapability/remote.go): *)
(* a client that pinned a module key and a contract digest loads the       *)
(* summary and then every category in requests of their own, each of which *)
(* may fail, while the service behind the URL (static.go behind http.go,   *)
(* or a binding somebody wrote by hand) is redeployed at any moment.  An   *)
(* opened client serves the loaded documents from memory and sends         *)
(* candidates to the service for validation.                               *)
(***************************************************************************)
EXTENDS CapabilityContract

CONSTANTS
    Drafts,             \* what NewStaticBinding may be called with
    Pinned,             \* the draft whose key and digest the client pinned
    HandWritten,        \* bindings [summary, docs] that are not StaticBindings
    CandidateRequests   \* the validation requests that callers make

VARIABLES
    deployed,   \* the binding that answers now
    stage,      \* of the client: idle, summary, categories, open, failed
    summary,    \* the summary it loaded, once stage is past "summary"
    docs,       \* the category documents it loaded, in order
    failure,    \* the code of the error that OpenRemote returned
    strayed,    \* history: another contract has answered since OpenRemote began
    accepted    \* history: the last result accepted, as a set of [by, request, result]

bindingVars == <<deployed, stage, summary, docs, failure, strayed, accepted>>

pinned == NewStaticBinding(Pinned)

Published == {NewStaticBinding(d) : d \in {d \in Drafts : StaticBindingOK(d)}}

IsRecord(r) == r = [field \in DOMAIN r |-> r[field]]

\* Category documents are lists; what a hand-written service sends decodes into
\* records, or doJSON fails; keys are texts; the client pinned a contract that
\* NewStaticBinding accepted.
ASSUME BindingAssumption ==
    /\ \A d \in Drafts : d.docs \in Seq(Range(d.docs))
    /\ \A b \in HandWritten :
         /\ IsRecord(b.summary) /\ IsRecord(b.summary.identity)
         /\ b.docs \in Seq({d \in Range(b.docs) : IsRecord(d)})
    /\ Pinned \in Drafts /\ StaticBindingOK(Pinned)
    /\ \A d \in Range(pinned.docs) : d.category.key \in Nat

BindingInit ==
    /\ deployed \in Published
    /\ stage = "idle" /\ summary = deployed.summary /\ docs = <<>>
    /\ failure = "" /\ strayed = FALSE /\ accepted = {}

\* The service is rolled forward, back, or replaced.
Redeploy(binding) ==
    /\ deployed' = binding
    /\ UNCHANGED <<stage, summary, docs, failure, strayed, accepted>>

\* OpenRemote is called, for the first time or again after an error; a call
\* keeps nothing of an earlier one.
OpenRemote ==
    /\ stage \in {"idle", "failed"}
    /\ stage' = "summary" /\ docs' = <<>> /\ strayed' = FALSE /\ failure' = ""
    /\ UNCHANGED <<deployed, summary, accepted>>

FailOpening(code) ==
    /\ stage' = "failed" /\ failure' = code
    /\ UNCHANGED <<deployed, docs, accepted>>

\* loadSummary and the comparison with the pinned key and digest.
LoadSummary ==
    /\ stage = "summary"
    /\ strayed' = (strayed \/ deployed # pinned)
    /\ summary' = deployed.summary
    /\ IF ~ValidateModuleSummary(deployed.summary)
       THEN FailOpening("contract_mismatch")
       ELSE IF deployed.summary.identity.key # pinned.summary.identity.key
       THEN FailOpening("module_mismatch")
       ELSE IF deployed.summary.identity.digest # pinned.summary.identity.digest
       THEN FailOpening("contract_mismatch")
       ELSE stage' = "categories" /\ UNCHANGED <<deployed, docs, failure, accepted>>

\* A bug to tell apart: the documents are read back from the map that holds
\* them, which has no order.
OpenFromMap(loaded) ==
    IF ~ValidateBundle(summary, Reverse(loaded)) THEN FailOpening("contract_mismatch")
    ELSE docs' = loaded /\ stage' = "open" /\ UNCHANGED <<deployed, failure, accepted>>

\* After the last category the whole bundle is validated, the documents in the
\* order in which the summary lists them.
OpenLoaded(loaded) ==
    IF ~ValidateBundle(summary, loaded) THEN FailOpening("contract_mismatch")
    ELSE docs' = loaded /\ stage' = "open" /\ UNCHANGED <<deployed, failure, accepted>>

\* The document that answers a request for a category, if any: a StaticBinding
\* looks it up by its key, another service may send any document it has.
CategoryAnswers(binding, key) ==
    {CategoryAt(binding, key)} \cup
    {{d} : d \in {d \in Range(binding.docs) : binding \notin Published}}

\* loadCategory checks the document by itself, not whether it is the one asked
\* for.
LoadCategory(found) ==
    /\ stage = "categories"
    /\ Len(docs) < Len(summary.categories)
    /\ found \in CategoryAnswers(deployed, summary.categories[Len(docs) + 1].key)
    /\ strayed' = (strayed \/ deployed # pinned)
    /\ UNCHANGED summary
    /\ LET loaded == docs \o SetToSeq(found)
       IN  IF found = {} THEN FailOpening("category_not_found")
           ELSE IF \E d \in found : ~ValidateCategoryDocument(d, summary.identity)
           THEN FailOpening("contract_mismatch")
           ELSE IF Len(loaded) < Len(summary.categories)
           THEN docs' = loaded /\ UNCHANGED <<deployed, stage, failure, accepted>>
           ELSE OpenLoaded(loaded)

\* doJSON returns an error: not authorised, no connection, timeout, a status
\* outside 2xx, a body too large or one that does not decode.
RequestFails ==
    /\ stage \in {"summary", "categories"}
    /\ FailOpening("unavailable")
    /\ UNCHANGED <<summary, strayed>>

Result(binding, r, diagnostics) ==
    [module |-> binding.summary.identity.key, category |-> r.category,
     digest |-> binding.summary.identity.digest, diagnostics |-> diagnostics]

\* ValidateCapabilityCandidate, client and service; the owner's validator may
\* find anything.  An error of either changes nothing.
ValidateCandidate(r, diagnostics) ==
    /\ stage = "open"
    /\ LET result == Result(deployed, r, diagnostics) IN
       IF /\ ValidateValidationRequest(r)
          /\ CandidateStatus(deployed, r) = 200
          /\ ValidateValidationResult(result, summary.identity, r.category)
       THEN accepted' = {[by |-> deployed, request |-> r, result |-> result]}
       ELSE UNCHANGED accepted
    /\ UNCHANGED <<deployed, stage, summary, docs, failure, strayed>>

\* The caller drops the binding, and may open another.
CloseBinding ==
    /\ stage = "open"
    /\ stage' = "idle"
    /\ UNCHANGED <<deployed, summary, docs, failure, strayed, accepted>>

BindingNext ==
    \/ \E b \in Published \cup HandWritten : Redeploy(b)
    \/ OpenRemote
    \/ LoadSummary
    \/ \E found \in {{}} \cup {{d} : d \in Range(deployed.docs)} : LoadCategory(found)
    \/ RequestFails
    \/ \E r \in CandidateRequests, d \in SUBSET {"error"} : ValidateCandidate(r, d)
    \/ CloseBinding

BindingSpec == BindingInit /\ [][BindingNext]_bindingVars

-----------------------------------------------------------------------------
(* Properties.                                                             *)

\* A binding that OpenRemote returned serves the pinned contract, whole and
\* unmixed, whatever was redeployed between the requests that loaded it,
\* whichever documents a service answered with and whatever is deployed now
\* (remote.go:79, "fails before project execution when the service contract
\* identity differs").
OpenedIsPinned ==
    stage = "open" => summary = pinned.summary /\ docs = pinned.docs

\* A client refuses a service as a different contract only if something else
\* than the pinned contract has answered this call of OpenRemote: what
\* NewStaticBinding sorts, counts and stamps passes, document by document and
\* as a whole, the checks of the client that loads it piecewise
\* (remote.go:109-128, validation.go:42-46).
MismatchIsReal ==
    failure \in {"module_mismatch", "contract_mismatch", "category_not_found"} =>
       strayed

\* A validation result that the client accepted from a static binding was
\* produced under the contract the client pinned, for the contract and category
\* the caller named, although the service may have been redeployed since
\* (static.go:130, remote.go:165).
ResultUnderPinnedContract ==
    \A a \in accepted : a.by \in Published =>
       /\ a.by = pinned
       /\ a.request.digest = pinned.summary.identity.digest
       /\ a.result.category = a.request.category
=============================================================================
