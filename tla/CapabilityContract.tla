------------------------- MODULE CapabilityContract -------------------------
(***************************************************************************)
(* The capability contract of a module (modulecapability): what a bundle   *)
(* of one summary and its category documents must satisfy, how a static    *)
(* binding builds and stamps one, how it answers a candidate validation,   *)
(* and the closure of OpenAPI components.                                  *)
(*                                                                         *)
(* Data.  A key is a natural number, ordered as its text; 0 is a text that *)
(* the key pattern refuses.  "complete" stands for the required texts and  *)
(* versions of a record.  A list whose order nothing checks is a bag.  The *)
(* digest of a bundle is the bundle itself without its digest fields, so   *)
(* digests are equal exactly when the contracts are.  (In the code they    *)
(* are equal when the canonical texts are, where integers past the         *)
(* precision of a float64 may fall together, canonical.go:17; such texts   *)
(* are served alike as well.)                                              *)
(***************************************************************************)
EXTENDS Naturals, Sequences, FiniteSets, Bags, SequencesExt

CONSTANTS
    MaxCategoryOperations, MaxCategoryProjections, MaxCategoryValidations,
    MaxReferencedFragments,
    MaxCategoryCanonicalBytes  \* in the model: operations + projections

NoDigest == <<>>

KeyOK(key) == key > 0

UniqueSorted(keys) ==
    /\ \A i \in DOMAIN keys : KeyOK(keys[i])
    /\ \A i \in 2..Len(keys) : keys[i - 1] < keys[i]

UniqueNonBlank(bag) == \A x \in BagToSet(bag) : x # 0 /\ bag[x] = 1

-----------------------------------------------------------------------------
(* OpenAPI components.  A reference is <<component, part>>; part 0 is the  *)
(* whole component.  components[c][part] is the set of references that     *)
(* part holds; <<0, 0>> is a reference that is not a local component.      *)

NotLocal == <<0, 0>>

Resolves(ref, components) ==
    /\ ref[1] \in DOMAIN components
    /\ ref[2] # 0 => ref[2] \in DOMAIN components[ref[1]]

\* The references inside what ref points to (collectReferences).
Inside(ref, components) ==
    IF ~Resolves(ref, components) THEN {}
    ELSE IF ref[2] = 0 THEN UNION Range(components[ref[1]])
    ELSE components[ref[1]][ref[2]]

\* Everything reachable from the references: resolveComponentReference visits
\* each once, whatever the order of its maps.
Closure(refs, components) ==
    LET all  == refs \cup UNION {UNION Range(components[c]) : c \in DOMAIN components}
        step[n \in 0..Cardinality(all)] ==
           IF n = 0 THEN refs
           ELSE step[n - 1] \cup UNION {Inside(r, components) : r \in step[n - 1]}
    IN  step[Cardinality(all)]

\* The part of validateOpenAPI after the operations: every reference resolves
\* and every declared component is the root of one.
ClosureOK(refs, components) ==
    LET closure == Closure(refs, components)
    IN  /\ NotLocal \notin closure
        /\ \A r \in closure : Resolves(r, components)
        /\ DOMAIN components \subseteq {r[1] : r \in closure}

\* ReferencedComponents: the components to publish with a set of operations,
\* by a queue of roots that grows with what each component references.  It
\* fails when a reference is remote, names a part or is missing.
ReferencedRoots(refs, source) == {r[1] : r \in Closure(refs, source)}

ReferencedComponentsOK(refs, source) ==
    \A r \in Closure(refs, source) : r # NotLocal /\ r[2] = 0 /\ r[1] \in DOMAIN source

ReferencedComponents(refs, source) ==
    [c \in ReferencedRoots(refs, source) |-> source[c]]

-----------------------------------------------------------------------------
(* Validation of one category.                                             *)

validateOperationExtension(x) ==
    /\ x.complete /\ x.effect \in {"read", "write"}
    /\ \/ /\ x.strategy = "anonymous"
          /\ x.permission = 0 /\ x.policy = 0 /\ x.audiences = EmptyBag /\ ~x.scoped
       \/ /\ x.strategy = "authenticated"
          /\ x.audiences = EmptyBag /\ x.scoped
          /\ x.policy # 0 => x.permission # 0
       \/ /\ x.strategy = "signed"
          /\ x.permission = 0 /\ KeyOK(x.policy) /\ x.scoped
          /\ UniqueNonBlank(x.audiences)

OperationOK(o) ==
    /\ o.pathOK
    /\ o.method \in {"delete", "get", "head", "options", "patch", "post", "put", "trace"}
    /\ o.id # 0 /\ o.responses
    /\ validateOperationExtension(o.extension)

OperationRefs(d) == UNION {o.refs : o \in Range(d.operations)}

ValidateCategorySummary(c) ==
    /\ KeyOK(c.key) /\ c.complete
    /\ c.operations <= MaxCategoryOperations
    /\ c.projections <= MaxCategoryProjections
    /\ Len(c.scopes) <= MaxCategoryValidations
    /\ UniqueNonBlank(c.chains)
    /\ IsInjective(c.scopes) /\ 0 \notin Range(c.scopes)

ValidateValidationScopeContract(v) ==
    /\ KeyOK(v.kind) /\ v.complete
    /\ v.coverage \in {"all_candidates", "explicit"}
    /\ UniqueSorted(v.candidates) /\ v.candidates # <<>>
    /\ UniqueSorted(v.referenced)

\* Kind and key of a projection, ordered as the code orders their texts.
ProjectionSorted(ps) ==
    \A i \in 2..Len(ps) :
       \/ ps[i - 1].kind < ps[i].kind
       \/ ps[i - 1].kind = ps[i].kind /\ ps[i - 1].key < ps[i].key

Operations(docs) == FlattenSeq([i \in DOMAIN docs |-> docs[i].operations])
Projections(docs) == FlattenSeq([i \in DOMAIN docs |-> docs[i].projections])

\* No operation id, endpoint or projection occurs twice in the documents: the
\* maps that validateCategoryDocument shares between the categories.
NothingRepeats(docs) ==
    LET ops == Operations(docs) IN
    /\ IsInjective([i \in DOMAIN ops |-> ops[i].id])
    /\ IsInjective([i \in DOMAIN ops |-> <<ops[i].method, ops[i].path>>])
    /\ IsInjective(Projections(docs))

ValidateCategoryDocument(d, identity) ==
    /\ d.complete /\ d.module = identity.key /\ d.digest = identity.digest
    /\ ValidateCategorySummary(d.category)
    /\ \A o \in Range(d.operations) : OperationOK(o)
    /\ NothingRepeats(<<d>>)
    /\ ClosureOK(OperationRefs(d), d.components)
    /\ Len(d.operations) = d.category.operations
    /\ Len(d.projections) = d.category.projections
    /\ Len(d.contracts) = Len(d.category.scopes)
    /\ \A i \in DOMAIN d.contracts :
         /\ ValidateValidationScopeContract(d.contracts[i])
         /\ d.contracts[i].kind = d.category.scopes[i]
    /\ \A p \in Range(d.projections) : KeyOK(p.kind) /\ KeyOK(p.key)
    /\ ProjectionSorted(d.projections)
    /\ Len(d.operations) + Len(d.projections) <= MaxCategoryCanonicalBytes

-----------------------------------------------------------------------------
(* Validation of a summary and of a whole bundle.                          *)

validateComposition(key, c) ==
    /\ c.provided # EmptyBag /\ UniqueNonBlank(c.provided)
    /\ c.chains # EmptyBag /\ UniqueNonBlank(c.chains)
    /\ UniqueNonBlank(c.scopes)
    /\ \A group \in {c.required, c.optional, c.conflicting} :
         UniqueNonBlank(group) /\ key \notin BagToSet(group)
    /\ UniqueNonBlank(c.required (+) c.optional (+) c.conflicting)

ValidateModuleSummary(s) ==
    /\ KeyOK(s.identity.key) /\ s.complete /\ s.identity.digest # NoDigest
    /\ s.modes # EmptyBag /\ \A mode \in BagToSet(s.modes) : s.modes[mode] = 1
    /\ BagToSet(s.modes) \subseteq {"module", "saas"}
    /\ validateComposition(s.identity.key, s.composition)
    /\ s.categories # <<>>
    /\ \A c \in Range(s.categories) : ValidateCategorySummary(c)
    /\ \A i \in 2..Len(s.categories) : s.categories[i - 1].key < s.categories[i].key

\* contractSHA256: everything but the digest fields.
contractSHA256(s, docs) ==
    <<[s EXCEPT !.identity.digest = NoDigest],
      [i \in DOMAIN docs |-> [docs[i] EXCEPT !.digest = NoDigest]]>>

\* A bug to tell apart: the stamped digest is not computed again.
BundleByStamp(s, docs) ==
    /\ ValidateModuleSummary(s)
    /\ Len(docs) = Len(s.categories)
    /\ \A i \in DOMAIN docs :
         ValidateCategoryDocument(docs[i], s.identity) /\ docs[i].category = s.categories[i]

ValidateBundle(s, docs) ==
    /\ ValidateModuleSummary(s)
    /\ Len(docs) = Len(s.categories)
    /\ \A i \in DOMAIN docs :
         /\ ValidateCategoryDocument(docs[i], s.identity)
         /\ docs[i].category = s.categories[i]
    /\ NothingRepeats(docs)
    /\ contractSHA256(s, docs) = s.identity.digest

-----------------------------------------------------------------------------
(* The static binding.                                                     *)

ByCategory(docs) == SortSeq(docs, LAMBDA a, b : a.category.key < b.category.key)

ByProjection(ps) ==
    SortSeq(ps, LAMBDA a, b : a.kind < b.kind \/ (a.kind = b.kind /\ a.key < b.key))

\* The documents as NewStaticBinding normalises them: sorted, their projections
\* sorted and counted, under the module's key, not stamped yet.
NormalizedDocs(draft) ==
    [i \in DOMAIN draft.docs |->
       [ByCategory(draft.docs)[i] EXCEPT
          !.projections = ByProjection(@),
          !.category.projections = Len(ByCategory(draft.docs)[i].projections),
          !.module = draft.summary.identity.key,
          !.complete = TRUE,
          !.digest = NoDigest]]

\* The digest is computed once and stamped everywhere.
Stamp(summary, docs) ==
    LET digest == contractSHA256(summary, docs)
    IN  [summary |-> [summary EXCEPT !.identity.digest = digest],
         docs |-> [i \in DOMAIN docs |-> [docs[i] EXCEPT !.digest = digest]]]

\* NewStaticBinding copies the category summaries into the module's.  The result
\* is [summary, docs]; it is returned when ValidateBundle accepts it.
NewStaticBinding(draft) ==
    LET docs == NormalizedDocs(draft)
    IN  Stamp([draft.summary EXCEPT
                 !.categories = [i \in DOMAIN docs |-> docs[i].category],
                 !.identity.digest = NoDigest],
              docs)

StaticBindingOK(draft) ==
    LET b == NewStaticBinding(draft) IN ValidateBundle(b.summary, b.docs)

CategoryAt(binding, key) ==
    {d \in Range(binding.docs) : d.category.key = key}

FragmentOK(f) == KeyOK(f.collection) /\ KeyOK(f.key) /\ f.value

FragmentSorted(fs) ==
    \A i \in 2..Len(fs) :
       \/ fs[i - 1].collection < fs[i].collection
       \/ fs[i - 1].collection = fs[i].collection /\ fs[i - 1].key < fs[i].key

\* r.fits: its canonical text is within MaxValidationRequestBytes.
ValidateValidationRequest(r) ==
    /\ r.complete /\ KeyOK(r.module) /\ KeyOK(r.category) /\ KeyOK(r.kind)
    /\ r.digest # NoDigest
    /\ FragmentOK(r.candidate)
    /\ Len(r.context) <= MaxReferencedFragments
    /\ \A f \in Range(r.context) :
         /\ FragmentOK(f)
         /\ <<f.collection, f.key>> # <<r.candidate.collection, r.candidate.key>>
    /\ FragmentSorted(r.context)
    /\ r.fits

\* StaticBinding.ValidateCapabilityCandidate up to the owner's validator: the
\* status of the error, or 200.
CandidateStatus(binding, r) ==
    LET identity  == binding.summary.identity
        contracts == {v \in UNION {Range(d.contracts) : d \in CategoryAt(binding, r.category)} :
                        v.kind = r.kind}
    IN  IF ~r.complete \/ r.module # identity.key \/ r.digest # identity.digest THEN 409
        ELSE IF CategoryAt(binding, r.category) = {} THEN 404
        ELSE IF /\ ValidateValidationRequest(r)
                /\ \E v \in contracts :
                     /\ r.candidate.collection \in Range(v.candidates)
                     /\ \A f \in Range(r.context) : f.collection \in Range(v.referenced)
             THEN 200
        ELSE 400

\* A bug to tell apart: the digest of a result is not compared.
ResultOfModule(result, identity, category) ==
    result.module = identity.key /\ result.category = category

\* ValidateValidationResult; a result is [module, category, digest, diagnostics],
\* diagnostics being the set of the severities found.
ValidateValidationResult(result, identity, category) ==
    /\ result.module = identity.key
    /\ result.category = category
    /\ result.digest = identity.digest
    /\ result.diagnostics \subseteq {"error", "warning"}
=============================================================================
