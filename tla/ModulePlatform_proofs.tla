----------------------- MODULE ModulePlatform_proofs ------------------------
(***************************************************************************)
(* Proofs about how a module reaches a host: what the registry and the     *)
(* host keep of admitted modules (ModuleAdmission), and the remote binding *)
(* to a capability contract (RemoteBinding).                               *)
(*                                                                         *)
(* Assumptions: ModuleAssumption of ModuleAdmission, BindingAssumption of  *)
(* RemoteBinding.                                                          *)
(***************************************************************************)
EXTENDS ModuleAdmission, RemoteBinding, FiniteSetTheorems, WellFoundedInduction,
        SequenceTheorems, TLAPS

LEMMA LeastNumber ==
  ASSUME NEW T, T \subseteq Nat, T # {}
  PROVE  \E n \in T : \A m \in T : n <= m
<1> DEFINE Below == {1..n : n \in T}
<1>1. Below \subseteq FiniteSubsetsOf(Nat) /\ Below # {}
  <2>1. \A n \in Nat : 1..n \in SUBSET Nat /\ IsFiniteSet(1..n)
    BY FS_Interval
  <2> QED BY <2>1 DEF FiniteSubsetsOf
<1>2. PICK b \in Below : \A c \in Below : ~ (<<c, b>> \in StrictSubsetOrdering(Nat))
  <2> HIDE DEF Below
  <2> QED BY <1>1, WFMin, FS_StrictSubsetOrderingWellFounded
<1>3. PICK n \in T : b = 1..n
  OBVIOUS
<1>4. ASSUME NEW m \in T, m < n PROVE FALSE
  <2>1. 1..m \in Below /\ 1..m \subseteq 1..n /\ n \in 1..n /\ n \notin 1..m
    BY <1>4
  <2>2. 1..m \in SUBSET Nat /\ 1..n \in SUBSET Nat
    OBVIOUS
  <2> QED BY <1>2, <1>3, <2>1, <2>2 DEF StrictSubsetOrdering
<1> QED BY <1>3, <1>4

LEMMA Ascending ==
  ASSUME NEW n \in Nat, NEW key, \A i \in 1..n : key[i] \in Nat,
         \A i \in 2..n : key[i - 1] < key[i]
  PROVE  \A i, j \in 1..n : i < j => key[i] < key[j]
<1> SUFFICES ASSUME NEW i \in 1..n, NEW j \in 1..n, i < j, ~(key[i] < key[j])
             PROVE  FALSE
  OBVIOUS
<1> DEFINE T == {m \in 1..n : i < m /\ ~(key[i] < key[m])}
<1>1. T \subseteq Nat /\ T # {}
  OBVIOUS
<1>2. PICK m \in T : \A l \in T : m <= l
  <2> HIDE DEF T
  <2> QED BY <1>1, LeastNumber
<1>3. m \in 2..n /\ m - 1 \in 1..n /\ m - 1 \notin T
  BY <1>2
<1> QED BY <1>3
-----------------------------------------------------------------------------
(* A digest determines its contract.                                       *)

LEMMA SameButOneField ==
  ASSUME NEW r, NEW s, NEW field, IsRecord(r), IsRecord(s),
         NEW v, [r EXCEPT ![field] = v] = [s EXCEPT ![field] = v],
         r[field] = s[field]
  PROVE  r = s
<1>1. DOMAIN r = DOMAIN s
  OBVIOUS
<1>2. \A f \in DOMAIN r : r[f] = s[f]
  OBVIOUS
<1> QED BY <1>1, <1>2 DEF IsRecord

LEMMA DigestDetermines ==
  ASSUME NEW s1, NEW d1, NEW s2, NEW d2,
         ValidateBundle(s1, d1), ValidateBundle(s2, d2),
         s1.identity.digest = s2.identity.digest,
         IsRecord(s1), "identity" \in DOMAIN s1 => IsRecord(s1.identity),
         IsRecord(s2), "identity" \in DOMAIN s2 => IsRecord(s2.identity),
         IsRecord(d1), \A i \in DOMAIN d1 : IsRecord(d1[i]),
         IsRecord(d2), \A i \in DOMAIN d2 : IsRecord(d2[i])
  PROVE  s1 = s2 /\ d1 = d2
<1>1. /\ [s1 EXCEPT !.identity.digest = NoDigest] = [s2 EXCEPT !.identity.digest = NoDigest]
      /\ [i \in DOMAIN d1 |-> [d1[i] EXCEPT !.digest = NoDigest]]
           = [i \in DOMAIN d2 |-> [d2[i] EXCEPT !.digest = NoDigest]]
  BY DEF ValidateBundle, contractSHA256
<1>2. s1 = s2
  <2>1. DOMAIN s1 = DOMAIN s2
    BY <1>1
  <2>2. ASSUME "identity" \in DOMAIN s1 PROVE s1.identity = s2.identity
    <3>1. [s1.identity EXCEPT !.digest = NoDigest] = [s2.identity EXCEPT !.digest = NoDigest]
      BY <1>1, <2>1, <2>2
    <3> QED BY <3>1, <2>1, <2>2, SameButOneField
  <2>3. \A f \in DOMAIN s1 : s1[f] = s2[f]
    BY <1>1, <2>1, <2>2
  <2> QED BY <2>1, <2>3 DEF IsRecord
<1>3. d1 = d2
  <2>1. DOMAIN d1 = DOMAIN d2
    BY <1>1
  <2>2. ASSUME NEW i \in DOMAIN d1 PROVE d1[i] = d2[i]
    <3>1. [d1[i] EXCEPT !.digest = NoDigest] = [d2[i] EXCEPT !.digest = NoDigest]
      BY <1>1, <2>1
    <3>2. d1[i].digest = s1.identity.digest /\ d2[i].digest = s2.identity.digest
      BY <2>1 DEF ValidateBundle, ValidateCategoryDocument
    <3>3. d1[i].digest = d2[i].digest /\ IsRecord(d1[i]) /\ IsRecord(d2[i])
      BY <3>2, <2>1
    <3> HIDE DEF NoDigest
    <3> QED BY ONLY <3>1, <3>3, SameButOneField
  <2> QED BY <2>1, <2>2 DEF IsRecord
<1> QED BY <1>2, <1>3

-----------------------------------------------------------------------------
(* What a static binding and a hand-written one have in common.            *)

LEMMA StampedShape ==
  ASSUME NEW s, NEW d, NEW n \in Nat, DOMAIN d = 1..n
  PROVE  LET b == Stamp(s, d)
         IN  /\ IsRecord(b.summary)
             /\ "identity" \in DOMAIN b.summary => IsRecord(b.summary.identity)
             /\ b.docs \in Seq({x \in Range(b.docs) : IsRecord(x)})
             /\ b = [summary |-> b.summary, docs |-> b.docs]
<1> DEFINE b == Stamp(s, d)
           c == contractSHA256(s, d)
<1>1. b = [summary |-> [s EXCEPT !.identity.digest = c],
           docs |-> [i \in 1..n |-> [d[i] EXCEPT !.digest = c]]]
  BY DEF Stamp
<1> HIDE DEF b, c
<1>2. IsRecord(b.summary) /\ ("identity" \in DOMAIN b.summary => IsRecord(b.summary.identity))
  BY <1>1 DEF IsRecord
<1>3. /\ DOMAIN b.docs = 1..n /\ b.docs = [i \in 1..n |-> b.docs[i]]
      /\ \A i \in 1..n : IsRecord(b.docs[i])
  BY <1>1 DEF IsRecord
<1>4. b.docs \in [1..n -> {x \in Range(b.docs) : IsRecord(x)}]
  BY <1>3 DEF Range
<1>5. b.docs \in Seq({x \in Range(b.docs) : IsRecord(x)})
  BY <1>4
<1>6. b = [summary |-> b.summary, docs |-> b.docs]
  BY <1>1
<1> QED BY <1>2, <1>5, <1>6 DEF b

Answering == Published \cup HandWritten

LEMMA PublishedShape ==
  ASSUME NEW b \in Published
  PROVE  /\ IsRecord(b.summary)
         /\ "identity" \in DOMAIN b.summary => IsRecord(b.summary.identity)
         /\ b.docs \in Seq({x \in Range(b.docs) : IsRecord(x)})
         /\ b = [summary |-> b.summary, docs |-> b.docs]
         /\ ValidateBundle(b.summary, b.docs)
<1>1. PICK d \in Drafts : StaticBindingOK(d) /\ b = NewStaticBinding(d)
  BY DEF Published
<1>2. ValidateBundle(b.summary, b.docs)
  BY <1>1 DEF StaticBindingOK
<1>3. PICK n \in Nat : DOMAIN d.docs = 1..n
  BY BindingAssumption
<1>4. DOMAIN NormalizedDocs(d) = 1..n
  BY <1>3 DEF NormalizedDocs
<1>5. PICK s : b = Stamp(s, NormalizedDocs(d))
  BY <1>1 DEF NewStaticBinding
<1> QED BY <1>2, <1>4, <1>5, StampedShape

LEMMA AnswerShape ==
  ASSUME NEW b \in Answering
  PROVE  /\ IsRecord(b.summary)
         /\ "identity" \in DOMAIN b.summary => IsRecord(b.summary.identity)
         /\ b.docs \in Seq({x \in Range(b.docs) : IsRecord(x)})
<1>1. CASE b \in Published
  BY <1>1, PublishedShape
<1>2. CASE b \in HandWritten
  BY <1>2, BindingAssumption
<1> QED BY <1>1, <1>2 DEF Answering

LEMMA PinnedIsPublished == pinned \in Published
BY BindingAssumption DEF pinned, Published

LEMMA SetToSeqType ==
  ASSUME NEW S, IsFiniteSet(S)
  PROVE  SetToSeq(S) \in Seq(S)
<1>1. PICK n \in Nat : ExistsBijection(1..n, S)
  BY FS_NatBijection
<1>2. Cardinality(S) = n
  BY <1>1, FS_CountingElements
<1>3. \E f \in [1..n -> S] : IsInjective(f)
  BY <1>1 DEF ExistsBijection, Bijection, Injection
<1>4. SetToSeq(S) \in [1..n -> S]
  BY <1>2, <1>3 DEF SetToSeq
<1> QED BY <1>4

LEMMA SetToSeqSingleton ==
  ASSUME NEW x
  PROVE  SetToSeq({x}) = <<x>>
<1>1. Cardinality({x}) = 1
  BY FS_Singleton
<1>2. \E f \in [1..1 -> {x}] : IsInjective(f)
  <2>1. [i \in 1..1 |-> x] \in [1..1 -> {x}] /\ IsInjective([i \in 1..1 |-> x])
    BY DEF IsInjective
  <2> QED BY <2>1
<1>3. SetToSeq({x}) \in [1..1 -> {x}]
  BY <1>1, <1>2 DEF SetToSeq
<1> QED BY <1>3

LEMMA RangeIsFinite ==
  ASSUME NEW S, NEW q \in Seq(S)
  PROVE  IsFiniteSet(Range(q)) /\ Range(q) \subseteq S
<1>1. IsFiniteSet(1..Len(q))
  BY FS_Interval
<1>2. q \in Surjection(1..Len(q), Range(q))
  BY DEF Surjection, Range
<1> QED BY <1>1, <1>2, FS_Surjection DEF Range

Served == {d \in UNION {Range(b.docs) : b \in Answering} : IsRecord(d)}

\* What a service answers with are documents it holds.
LEMMA FoundIsServed ==
  ASSUME NEW b \in Answering, NEW key, NEW found \in CategoryAnswers(b, key)
  PROVE  SetToSeq(found) \in Seq(Served)
<1>1. b.docs \in Seq({x \in Range(b.docs) : IsRecord(x)})
  BY AnswerShape
<1>2. IsFiniteSet(Range(b.docs)) /\ Range(b.docs) \subseteq Served
  BY <1>1, RangeIsFinite DEF Served
<1>3. IsFiniteSet(found) /\ found \subseteq Served
  BY <1>2, FS_Subset DEF CategoryAnswers, CategoryAt
<1>4. SetToSeq(found) \in Seq(found)
  BY <1>3, SetToSeqType
<1> QED BY <1>3, <1>4

\* The pinned contract's own documents: in order, one under each key.
LEMMA PinnedDocs ==
  /\ pinned.docs \in Seq(Served)
  /\ Len(pinned.docs) = Len(pinned.summary.categories)
  /\ \A i \in 1..Len(pinned.docs) :
       /\ CategoryAt(pinned, pinned.summary.categories[i].key) = {pinned.docs[i]}
       /\ ValidateCategoryDocument(pinned.docs[i], pinned.summary.identity)
<1> DEFINE p == pinned.docs
           c == pinned.summary.categories
           key == [i \in 1..Len(p) |-> p[i].category.key]
<1>1. p \in Seq({x \in Range(p) : IsRecord(x)}) /\ ValidateBundle(pinned.summary, p)
  BY PinnedIsPublished, PublishedShape
<1>2. p \in Seq(Served)
  <2>1. Range(p) \subseteq UNION {Range(b.docs) : b \in Answering}
    BY PinnedIsPublished DEF Answering
  <2> QED BY <1>1, <2>1 DEF Served
<1>3. /\ Len(p) = Len(c) /\ DOMAIN p = 1..Len(p)
      /\ \A i \in 1..Len(p) :
           ValidateCategoryDocument(p[i], pinned.summary.identity) /\ p[i].category = c[i]
      /\ \A i \in 2..Len(p) : c[i - 1].key < c[i].key
  BY <1>1 DEF ValidateBundle, ValidateModuleSummary
<1>4. \A i \in 1..Len(p) : key[i] \in Nat
  BY <1>3, BindingAssumption DEF Range
<1>5. Len(p) \in Nat
  BY <1>1
<1>6. ASSUME NEW i \in 2..Len(p) PROVE key[i - 1] < key[i]
  <2>1. i - 1 \in 1..Len(p) /\ i \in 1..Len(p)
    BY <1>5
  <2>2. key[i - 1] = c[i - 1].key /\ key[i] = c[i].key
    BY <1>3, <2>1
  <2> QED BY <1>3, <2>2
<1>7. \A i, j \in 1..Len(p) : i < j => key[i] < key[j]
  <2> HIDE DEF key, p
  <2> QED BY <1>4, <1>5, <1>6, Ascending
<1>8. ASSUME NEW i \in 1..Len(p)
      PROVE  CategoryAt(pinned, c[i].key) = {p[i]}
  <2>1. \A j \in 1..Len(p) : p[j].category.key = c[i].key => j = i
    <3>1. \A j \in 1..Len(p) : key[j] = p[j].category.key
      OBVIOUS
    <3>2. c[i].key = key[i]
      BY <1>3, <3>1
    <3> HIDE DEF key, p, c
    <3>3. \A j \in 1..Len(p) : key[j] = key[i] => j = i
      BY <1>4, <1>5, <1>7
    <3> QED BY <3>1, <3>2, <3>3
  <2>2. Range(p) = {p[j] : j \in 1..Len(p)}
    BY <1>3 DEF Range
  <2>3. p[i].category.key = c[i].key
    BY <1>3
  <2> QED BY <2>1, <2>2, <2>3 DEF CategoryAt
<1> QED BY <1>2, <1>3, <1>8

-----------------------------------------------------------------------------
(* The inductive invariant.  The client has loaded what some service sent; *)
(* past the summary its digest is the pinned one; and as long as nothing   *)
(* else has answered, it holds the beginning of the pinned contract.       *)

LoadedIsServed ==
    /\ deployed \in Answering
    /\ docs \in Seq(Served)
    /\ \E b \in Answering : summary = b.summary

SummaryIsPinned ==
    stage \in {"categories", "open"} =>
       summary.identity.digest = pinned.summary.identity.digest

LoadedIsPinned ==
    /\ stage = "summary" => docs = <<>>
    /\ stage = "categories" /\ ~strayed =>
         /\ summary = pinned.summary
         /\ \A i \in 1..Len(docs) : docs[i] = pinned.docs[i]

BindingInv ==
    /\ strayed \in BOOLEAN
    /\ LoadedIsServed
    /\ SummaryIsPinned
    /\ LoadedIsPinned
    /\ OpenedIsPinned
    /\ MismatchIsReal
    /\ ResultUnderPinnedContract

\* A bundle that validates under the pinned digest is the pinned contract.
LEMMA ValidBundleIsPinned ==
  ASSUME NEW b \in Answering, NEW d \in Seq(Served),
         ValidateBundle(b.summary, d),
         b.summary.identity.digest = pinned.summary.identity.digest
  PROVE  b.summary = pinned.summary /\ d = pinned.docs
<1>1. /\ IsRecord(b.summary)
      /\ "identity" \in DOMAIN b.summary => IsRecord(b.summary.identity)
  BY AnswerShape
<1>2. IsRecord(d) /\ \A i \in DOMAIN d : IsRecord(d[i])
  BY DEF IsRecord, Served
<1>3. /\ IsRecord(pinned.summary)
      /\ "identity" \in DOMAIN pinned.summary => IsRecord(pinned.summary.identity)
      /\ ValidateBundle(pinned.summary, pinned.docs)
  BY PinnedIsPublished, PublishedShape
<1>4. IsRecord(pinned.docs) /\ \A i \in DOMAIN pinned.docs : IsRecord(pinned.docs[i])
  <2>1. pinned.docs \in Seq(Served)
    BY PinnedDocs
  <2> HIDE DEF pinned
  <2> QED BY <2>1 DEF IsRecord, Served
<1> QED BY <1>1, <1>2, <1>3, <1>4, DigestDetermines

LEMMA BindingInitially == BindingInit => BindingInv
<1> SUFFICES ASSUME BindingInit PROVE BindingInv
  OBVIOUS
<1>1. deployed \in Answering /\ summary = deployed.summary
  BY DEF BindingInit, Answering
<1>2. docs \in Seq(Served)
  BY EmptySeq DEF BindingInit
<1> QED BY <1>1, <1>2 DEF BindingInit, BindingInv, LoadedIsServed, SummaryIsPinned,
           LoadedIsPinned, OpenedIsPinned, MismatchIsReal, ResultUnderPinnedContract

LEMMA LoadSummaryStep == BindingInv /\ LoadSummary => BindingInv'
<1> SUFFICES ASSUME BindingInv, LoadSummary PROVE BindingInv'
  OBVIOUS
<1> USE DEF LoadSummary, FailOpening
<1>1. LoadedIsServed' /\ strayed' \in BOOLEAN
  BY DEF BindingInv, LoadedIsServed
<1>2. SummaryIsPinned'
  BY DEF SummaryIsPinned
<1>3. docs = <<>> /\ docs' = <<>>
  BY DEF BindingInv, LoadedIsPinned
<1>4. LoadedIsPinned'
  <2>1. \A i \in 1..Len(docs') : docs'[i] = pinned.docs[i]
    BY <1>3
  <2>2. ~strayed' => summary' = pinned.summary
    OBVIOUS
  <2> QED BY <1>3, <2>1, <2>2 DEF LoadedIsPinned
<1>5. OpenedIsPinned' /\ ResultUnderPinnedContract'
  BY DEF BindingInv, OpenedIsPinned, ResultUnderPinnedContract
<1>6. MismatchIsReal'
  <2>1. ValidateModuleSummary(pinned.summary)
    BY PinnedIsPublished, PublishedShape DEF ValidateBundle
  <2> QED BY <2>1 DEF BindingInv, MismatchIsReal
<1> QED BY <1>1, <1>2, <1>4, <1>5, <1>6 DEF BindingInv

LEMMA LoadCategoryStep ==
  ASSUME NEW found, BindingInv, LoadCategory(found)
  PROVE  BindingInv'
<1> DEFINE n == Len(docs)
           loaded == docs \o SetToSeq(found)
<1>1. /\ stage = "categories" /\ n < Len(summary.categories)
      /\ strayed' = (strayed \/ deployed # pinned)
      /\ found \in CategoryAnswers(deployed, summary.categories[n + 1].key)
      /\ UNCHANGED <<summary, deployed, accepted>>
      /\ \/ stage' = "failed" /\ UNCHANGED docs
         \/ docs' = loaded /\ UNCHANGED <<stage, failure>>
         \/ docs' = loaded /\ stage' = "open" /\ UNCHANGED failure /\ ValidateBundle(summary, loaded)
  BY DEF LoadCategory, OpenLoaded, FailOpening
<1>2. deployed \in Answering /\ docs \in Seq(Served) /\ strayed \in BOOLEAN
  BY DEF BindingInv, LoadedIsServed
<1>3. loaded \in Seq(Served)
  <2>1. SetToSeq(found) \in Seq(Served)
    BY <1>1, <1>2, FoundIsServed
  <2> QED BY <1>2, <2>1
<1>4. LoadedIsServed' /\ SummaryIsPinned' /\ ResultUnderPinnedContract'
  <2> HIDE DEF loaded
  <2>1. LoadedIsServed'
    BY <1>1, <1>2, <1>3 DEF BindingInv, LoadedIsServed
  <2>2. SummaryIsPinned'
    BY <1>1 DEF BindingInv, SummaryIsPinned
  <2>3. ResultUnderPinnedContract'
    BY <1>1 DEF BindingInv, ResultUnderPinnedContract
  <2> QED BY <2>1, <2>2, <2>3
<1>5. OpenedIsPinned'
  <2> HIDE DEF loaded
  <2> SUFFICES ASSUME stage' = "open"
               PROVE  summary = pinned.summary /\ docs' = pinned.docs
    BY <1>1 DEF OpenedIsPinned
  <2>1. docs' = loaded /\ ValidateBundle(summary, loaded)
    BY <1>1
  <2>2. PICK b \in Answering : summary = b.summary
    BY DEF BindingInv, LoadedIsServed
  <2>3. summary.identity.digest = pinned.summary.identity.digest
    BY <1>1 DEF BindingInv, SummaryIsPinned
  <2> QED BY <1>3, <2>1, <2>2, <2>3, ValidBundleIsPinned
<1>6. ASSUME ~strayed'
      PROVE  /\ \A i \in 1..Len(loaded) : loaded[i] = pinned.docs[i]
             /\ docs' = loaded /\ failure' = failure
             /\ summary = pinned.summary /\ ~strayed
  <2>1. deployed = pinned /\ ~strayed
    BY <1>1, <1>2, <1>6
  <2>2. summary = pinned.summary /\ \A i \in 1..n : docs[i] = pinned.docs[i]
    BY <1>1, <2>1 DEF BindingInv, LoadedIsPinned
  <2>3. n + 1 \in 1..Len(pinned.docs) /\ n \in Nat /\ Len(pinned.docs) \in Nat
    <3>1. Len(pinned.docs) = Len(summary.categories) /\ pinned.docs \in Seq(Served)
      BY <2>2, PinnedDocs
    <3> QED BY <1>1, <1>2, <3>1
  <2>4. /\ found = {pinned.docs[n + 1]}
        /\ ValidateCategoryDocument(pinned.docs[n + 1], summary.identity)
    <3>1. CategoryAnswers(pinned, summary.categories[n + 1].key)
            = {CategoryAt(pinned, summary.categories[n + 1].key)}
      BY PinnedIsPublished DEF CategoryAnswers
    <3>2. /\ CategoryAt(pinned, summary.categories[n + 1].key) = {pinned.docs[n + 1]}
          /\ ValidateCategoryDocument(pinned.docs[n + 1], summary.identity)
      BY <2>2, <2>3, PinnedDocs
    <3> QED BY <1>1, <2>1, <3>1, <3>2
  <2>5. loaded = docs \o <<pinned.docs[n + 1]>>
    BY <2>4, SetToSeqSingleton
  <2>6. Len(loaded) = n + 1 /\ \A i \in 1..(n + 1) : loaded[i] = pinned.docs[i]
    <3> HIDE DEF loaded, pinned
    <3> QED BY <1>2, <2>2, <2>3, <2>5
  <2>7. Len(loaded) = Len(summary.categories) => ValidateBundle(summary, loaded)
    <3> HAVE Len(loaded) = Len(summary.categories)
    <3>1. Len(loaded) = Len(pinned.docs) /\ pinned.docs \in Seq(Served)
      BY <2>2, PinnedDocs
    <3>2. loaded = pinned.docs
      <4> HIDE DEF loaded, pinned
      <4> QED BY <1>3, <2>3, <2>6, <3>1
    <3>3. ValidateBundle(pinned.summary, pinned.docs)
      BY PinnedIsPublished, PublishedShape
    <3> QED BY <2>2, <3>2, <3>3
  <2>8. Len(loaded) <= Len(summary.categories)
    BY <1>1, <2>2, <2>3, <2>6, PinnedDocs
  <2>9. docs' = loaded /\ failure' = failure
    <3>1. ~(\E d \in found : ~ValidateCategoryDocument(d, summary.identity)) /\ found # {}
      BY <2>4
    <3>2. Len(loaded) < Len(summary.categories) \/ ValidateBundle(summary, loaded)
      BY <2>2, <2>3, <2>6, <2>7, <2>8, PinnedDocs
    <3> QED BY <3>1, <3>2 DEF LoadCategory, OpenLoaded
  <2> QED BY <2>1, <2>2, <2>6, <2>9
<1>7. LoadedIsPinned'
  <2> HIDE DEF loaded
  <2>1. stage' # "summary"
    BY <1>1
  <2> QED BY <1>1, <1>6, <2>1 DEF LoadedIsPinned
<1>8. MismatchIsReal'
  BY <1>6 DEF BindingInv, MismatchIsReal
<1>9. strayed' \in BOOLEAN
  BY <1>1, <1>2
<1> QED BY <1>4, <1>5, <1>7, <1>8, <1>9 DEF BindingInv

LEMMA ValidateCandidateStep ==
  ASSUME NEW r \in CandidateRequests, NEW d \in SUBSET {"error"},
         BindingInv, ValidateCandidate(r, d)
  PROVE  BindingInv'
<1> DEFINE result == Result(deployed, r, d)
<1>1. stage = "open" /\ UNCHANGED <<deployed, stage, summary, docs, failure, strayed>>
  BY DEF ValidateCandidate
<1>2. CASE UNCHANGED accepted
  BY <1>1, <1>2 DEF BindingInv, LoadedIsServed, SummaryIsPinned, LoadedIsPinned,
     OpenedIsPinned, MismatchIsReal, ResultUnderPinnedContract
<1>3. CASE /\ CandidateStatus(deployed, r) = 200
           /\ ValidateValidationResult(result, summary.identity, r.category)
           /\ accepted' = {[by |-> deployed, request |-> r, result |-> result]}
  <2>1. result.category = r.category /\ deployed.summary.identity.digest = summary.identity.digest
    BY <1>3 DEF Result, ValidateValidationResult
  <2>2. r.digest = deployed.summary.identity.digest
    BY <1>3 DEF CandidateStatus
  <2>3. summary = pinned.summary
    BY <1>1 DEF BindingInv, OpenedIsPinned
  <2>4. ASSUME deployed \in Published PROVE deployed = pinned
    <3>1. /\ deployed = [summary |-> deployed.summary, docs |-> deployed.docs]
          /\ pinned = [summary |-> pinned.summary, docs |-> pinned.docs]
          /\ ValidateBundle(deployed.summary, deployed.docs)
          /\ deployed.docs \in Seq({x \in Range(deployed.docs) : IsRecord(x)})
      BY <2>4, PublishedShape, PinnedIsPublished
    <3>2. deployed \in Answering /\ deployed.docs \in Seq(Served)
      <4>1. Range(deployed.docs) \subseteq UNION {Range(b.docs) : b \in Answering}
        BY <2>4 DEF Answering
      <4> QED BY <2>4, <3>1, <4>1 DEF Answering, Served
    <3>3. deployed.summary = pinned.summary /\ deployed.docs = pinned.docs
      BY <2>1, <2>3, <3>1, <3>2, ValidBundleIsPinned
    <3> QED BY <3>1, <3>3
  <2>5. ResultUnderPinnedContract'
    <3> HIDE DEF result
    <3> QED BY <1>3, <2>1, <2>2, <2>3, <2>4 DEF ResultUnderPinnedContract
  <2> QED BY <1>1, <2>5 DEF BindingInv, LoadedIsServed, SummaryIsPinned, LoadedIsPinned,
             OpenedIsPinned, MismatchIsReal
<1> QED BY <1>2, <1>3 DEF ValidateCandidate

LEMMA BindingStep == BindingInv /\ [BindingNext]_bindingVars => BindingInv'
<1> SUFFICES ASSUME BindingInv, [BindingNext]_bindingVars PROVE BindingInv'
  OBVIOUS
<1> USE DEF LoadedIsServed, SummaryIsPinned, LoadedIsPinned,
            OpenedIsPinned, MismatchIsReal, ResultUnderPinnedContract
<1>1. ASSUME NEW b \in Published \cup HandWritten, Redeploy(b) PROVE BindingInv'
  BY <1>1 DEF BindingInv, Redeploy, Answering
<1>2. CASE OpenRemote
  <2>1. docs' \in Seq(Served) /\ docs' = <<>>
    BY <1>2, EmptySeq DEF OpenRemote
  <2> QED BY <1>2, <2>1 DEF BindingInv, OpenRemote
<1>3. CASE LoadSummary
  BY <1>3, LoadSummaryStep
<1>4. ASSUME NEW found, LoadCategory(found) PROVE BindingInv'
  BY <1>4, LoadCategoryStep
<1>5. CASE RequestFails
  BY <1>5 DEF BindingInv, RequestFails, FailOpening
<1>6. ASSUME NEW r \in CandidateRequests, NEW d \in SUBSET {"error"}, ValidateCandidate(r, d)
      PROVE  BindingInv'
  BY <1>6, ValidateCandidateStep
<1>7. CASE CloseBinding
  BY <1>7 DEF BindingInv, CloseBinding
<1>8. CASE UNCHANGED bindingVars
  BY <1>8 DEF BindingInv, bindingVars
<1> QED BY <1>1, <1>2, <1>3, <1>4, <1>5, <1>6, <1>7, <1>8 DEF BindingNext

\* The invariant holds in every state of a binding (remote.go).
THEOREM BindingInvariance == BindingSpec => []BindingInv
<1>1. BindingInit => BindingInv
  BY BindingInitially
<1>2. BindingInv /\ [BindingNext]_bindingVars => BindingInv'
  BY BindingStep
<1> QED BY <1>1, <1>2, PTL DEF BindingSpec

\* However the service is redeployed between the requests, and whatever it
\* serves, a binding that OpenRemote returns holds the pinned contract, whole:
\* the digest is computed again over what was loaded (remote.go:79).
THEOREM BindingsArePinned == BindingSpec => []OpenedIsPinned
<1>1. BindingInv => OpenedIsPinned
  BY DEF BindingInv
<1> QED BY <1>1, BindingInvariance, PTL

\* A client reports a contract or module mismatch, or a missing category, only
\* if something else than the pinned contract answered (remote.go:109-128).
THEOREM MismatchesAreReal == BindingSpec => []MismatchIsReal
<1>1. BindingInv => MismatchIsReal
  BY DEF BindingInv
<1> QED BY <1>1, BindingInvariance, PTL

\* A candidate's result that was accepted from a static binding comes from the
\* pinned contract (static.go:130, remote.go:165).
THEOREM ResultsArePinned == BindingSpec => []ResultUnderPinnedContract
<1>1. BindingInv => ResultUnderPinnedContract
  BY DEF BindingInv
<1> QED BY <1>1, BindingInvariance, PTL

-----------------------------------------------------------------------------
(* Trimming a text twice is trimming it once.                              *)

LEMMA GreatestNumber ==
  ASSUME NEW n \in Nat, NEW T, T \subseteq 1..n, T # {}
  PROVE  \E k \in T : \A m \in T : m <= k
<1> DEFINE U == {n - k : k \in T}
<1>1. U \subseteq Nat /\ U # {}
  <2>1. \A k \in T : k \in 1..n /\ n - k \in Nat
    OBVIOUS
  <2> QED BY <2>1
<1>2. PICK u \in U : \A v \in U : u <= v
  <2> HIDE DEF U
  <2> QED BY <1>1, LeastNumber
<1>3. PICK k \in T : u = n - k
  OBVIOUS
<1>4. ASSUME NEW m \in T PROVE m <= k
  <2>1. n - k <= n - m
    BY <1>2, <1>3
  <2>2. k \in 1..n /\ m \in 1..n
    OBVIOUS
  <2> QED BY <2>1, <2>2
<1> QED BY <1>4

LEMMA MinMax ==
  ASSUME NEW n \in Nat, NEW T, T \subseteq 1..n, T # {}
  PROVE  /\ Min(T) \in T /\ \A m \in T : Min(T) <= m
         /\ Max(T) \in T /\ \A m \in T : m <= Max(T)
<1>1. \E k \in T : \A m \in T : k <= m
  <2>1. T \subseteq Nat
    OBVIOUS
  <2> QED BY <2>1, LeastNumber
<1>2. \E k \in T : \A m \in T : k >= m
  BY GreatestNumber
<1> QED BY <1>1, <1>2 DEF Min, Max

LEMMA TrimIdempotent ==
  ASSUME NEW S, NEW t \in Seq(S)
  PROVE  Trim(Trim(t)) = Trim(t)
<1> DEFINE ink(u) == {i \in DOMAIN u : u[i] # " "}
           w == Trim(t)
<1>1. CASE ink(t) = {}
  <2>1. Trim(t) = <<>>
    BY <1>1 DEF Trim
  <2>2. Trim(<<>>) = <<>>
    BY DEF Trim
  <2> QED BY <2>1, <2>2
<1>2. CASE ink(t) # {}
  <2> DEFINE a == Min(ink(t))
             b == Max(ink(t))
  <2>1. ink(t) \subseteq 1..Len(t) /\ Len(t) \in Nat
    <3>1. DOMAIN t = 1..Len(t) /\ Len(t) \in Nat
      OBVIOUS
    <3> QED BY <3>1
  <2>2. a \in ink(t) /\ b \in ink(t) /\ a <= b
    BY <1>2, <2>1, MinMax
  <2>3. w = SubSeq(t, a, b)
    BY <1>2 DEF Trim
  <2>4. a \in Int /\ b \in Int /\ 1 <= a /\ a <= b /\ b <= Len(t)
    <3>1. a \in 1..Len(t) /\ b \in 1..Len(t)
      BY <2>1, <2>2
    <3> HIDE DEF a, b, ink
    <3> QED BY <2>1, <2>2, <3>1
  <2>5. t[a] # " " /\ t[b] # " "
    BY <2>2
  <2> HIDE DEF a, b, w
  <2>6. /\ w \in Seq(S) /\ Len(w) = b - a + 1
        /\ \A i \in 1..(b - a + 1) : w[i] = t[a + i - 1]
    <3>1. \A i \in a..b : t[i] \in S
      BY <2>4
    <3> QED BY <2>3, <2>4, <3>1, SubSeqProperties
  <2>7. /\ DOMAIN w = 1..Len(w) /\ Len(w) \in Nat
        /\ 1 \in 1..Len(w) /\ Len(w) \in 1..Len(w)
    BY <2>4, <2>6
  <2>8. w[1] = t[a] /\ w[Len(w)] = t[b]
    BY <2>4, <2>6
  <2>9. 1 \in ink(w) /\ Len(w) \in ink(w) /\ ink(w) \subseteq 1..Len(w)
    BY <2>5, <2>7, <2>8
  <2>10. Min(ink(w)) = 1 /\ Max(ink(w)) = Len(w)
    <3> HIDE DEF ink
    <3>1. /\ Min(ink(w)) \in ink(w) /\ Min(ink(w)) <= 1
          /\ Max(ink(w)) \in ink(w) /\ Len(w) <= Max(ink(w))
      BY <2>7, <2>9, MinMax
    <3> QED BY <2>7, <2>9, <3>1
  <2>11. Trim(w) = SubSeq(w, 1, Len(w))
    BY <2>9, <2>10 DEF Trim
  <2>12. SubSeq(w, 1, Len(w)) = w
    BY <2>6, SubSeqFull
  <2> QED BY <2>11, <2>12 DEF w
<1> QED BY <1>1, <1>2

-----------------------------------------------------------------------------
(* What committing a batch does to each map of the registry.               *)

\* A map of the registry after a batch: nothing is overwritten, and each claimed
\* identity leads to the one claimant.
Grows(map, map2, ids, values) ==
    /\ \A i \in DOMAIN ids : ids[i] \cap DOMAIN map = {}
    /\ \A i, j \in DOMAIN ids : ids[i] \cap ids[j] # {} => i = j
    /\ DOMAIN map2 = DOMAIN map \cup UNION {ids[i] : i \in DOMAIN ids}
    /\ \A x \in DOMAIN map : map2[x] = map[x]
    /\ \A i \in DOMAIN ids : \A x \in ids[i] : map2[x] = values[i]

\* Without a conflict the last claimant is the only one.
LEMMA OnlyClaimant ==
  ASSUME NEW n \in Nat, NEW ids,
         \A i \in 1..n : \A x \in ids[i] : \A j \in 1..(i - 1) : x \notin ids[j],
         NEW i \in 1..n, NEW x \in ids[i]
  PROVE  {l \in 1..n : x \in ids[l]} = {i}
<1> SUFFICES ASSUME NEW j \in 1..n, x \in ids[j] PROVE i = j
  OBVIOUS
<1>1. CASE i < j
  <2>1. i \in 1..(j - 1)
    BY <1>1
  <2> QED BY <2>1
<1>2. CASE j < i
  <2>1. j \in 1..(i - 1)
    BY <1>2
  <2> QED BY <2>1
<1> QED BY <1>1, <1>2

LEMMA LastOfOne ==
  ASSUME NEW i \in Nat, NEW C, C = {i}
  PROVE  (CHOOSE l \in C : \A j \in C : j <= l) = i
OBVIOUS

LEMMA AssignedGrows ==
  ASSUME NEW n \in Nat, NEW map, NEW ids, DOMAIN ids = 1..n, NEW values,
         ~Conflict(map, ids)
  PROVE  Grows(map, Assigned(map, ids, values), ids, values)
<1> DEFINE map2 == Assigned(map, ids, values)
<1>1. \A i \in 1..n : \A x \in ids[i] :
        x \notin DOMAIN map /\ \A j \in 1..(i - 1) : x \notin ids[j]
  BY DEF Conflict
<1>2. UNION Range(ids) = UNION {ids[i] : i \in DOMAIN ids}
  BY DEF Range
<1>3. DOMAIN map2 = DOMAIN map \cup UNION {ids[i] : i \in DOMAIN ids}
  BY <1>2 DEF Assigned
<1>4. ASSUME NEW x \in DOMAIN map PROVE map2[x] = map[x]
  <2>1. x \notin UNION Range(ids)
    BY <1>1, <1>2
  <2> QED BY <2>1 DEF Assigned
<1>5. ASSUME NEW i \in 1..n, NEW x \in ids[i]
      PROVE  map2[x] = values[i] /\ {l \in 1..n : x \in ids[l]} = {i}
  <2> DEFINE C == {l \in DOMAIN ids : x \in ids[l]}
  <2>1. {l \in 1..n : x \in ids[l]} = {i}
    BY <1>1, OnlyClaimant
  <2>2. C = {i}
    BY <2>1
  <2>3. x \in UNION Range(ids)
    BY <1>2
  <2>4. map2[x] = values[CHOOSE l \in C : \A j \in C : j <= l]
    BY <2>3 DEF Assigned
  <2>5. (CHOOSE l \in C : \A j \in C : j <= l) = i
    <3> HIDE DEF C
    <3> QED BY <2>2, LastOfOne
  <2> QED BY <2>1, <2>4, <2>5
<1>6. ASSUME NEW i \in 1..n, NEW j \in 1..n, ids[i] \cap ids[j] # {} PROVE i = j
  <2>1. PICK x \in ids[i] : x \in ids[j]
    BY <1>6
  <2> QED BY <1>5, <2>1
<1>7. \A i \in 1..n : ids[i] \cap DOMAIN map = {}
  BY <1>1
<1> HIDE DEF map2
<1>8. Grows(map, map2, ids, values)
  BY <1>3, <1>4, <1>5, <1>6, <1>7 DEF Grows
<1> QED BY <1>8 DEF map2

\* An index that agrees with the identities ids[k] of the keys in K agrees with
\* those of K and B once the identities of B have been added.
LEMMA IndexStep ==
  ASSUME NEW K, NEW B, NEW ids, NEW map, NEW map2,
         DOMAIN map = UNION {ids[k] : k \in K},
         \A x \in DOMAIN map : {k \in K : x \in ids[k]} = {map[x]},
         \A b \in B : ids[b] \cap DOMAIN map = {},
         \A b, c \in B : ids[b] \cap ids[c] # {} => b = c,
         DOMAIN map2 = DOMAIN map \cup UNION {ids[b] : b \in B},
         \A x \in DOMAIN map : map2[x] = map[x],
         \A b \in B : \A x \in ids[b] : map2[x] = b
  PROVE  /\ DOMAIN map2 = UNION {ids[k] : k \in K \cup B}
         /\ \A x \in DOMAIN map2 : {k \in K \cup B : x \in ids[k]} = {map2[x]}
<1>1. DOMAIN map2 = UNION {ids[k] : k \in K \cup B}
  OBVIOUS
<1>2. ASSUME NEW x \in DOMAIN map
      PROVE  {k \in K \cup B : x \in ids[k]} = {map2[x]}
  <2>1. {k \in K \cup B : x \in ids[k]} = {k \in K : x \in ids[k]}
    BY <1>2
  <2> QED BY <1>2, <2>1
<1>3. ASSUME NEW b \in B, NEW x \in ids[b]
      PROVE  {k \in K \cup B : x \in ids[k]} = {map2[x]}
  <2>1. x \notin DOMAIN map
    BY <1>3
  <2>2. \A k \in K : x \notin ids[k]
    BY <2>1
  <2>3. \A c \in B : x \in ids[c] => c = b
    BY <1>3
  <2>4. {k \in K \cup B : x \in ids[k]} = {b}
    BY <1>3, <2>2, <2>3
  <2> QED BY <1>3, <2>4
<1> QED BY <1>1, <1>2, <1>3

\* A batch that Register accepts, and commits.
LEMMA CommitGrows ==
  ASSUME NEW n \in Nat, NEW batch, DOMAIN batch = 1..n, Accepts(batch), Commit(batch)
  PROVE  /\ Grows(definitions, definitions', Each(batch, KeyIds), batch)
         /\ Grows(byHTTP, byHTTP', Each(batch, HTTPIds), Each(batch, ActionKey))
         /\ Grows(byNonHTTP, byNonHTTP', Each(batch, NonHTTPIds), Each(batch, ActionKey))
         /\ Grows(permissionOwners, permissionOwners', Each(batch, PermissionIds),
                  Each(batch, PermissionOwner))
<1>1. /\ DOMAIN Each(batch, KeyIds) = 1..n
      /\ DOMAIN Each(batch, HTTPIds) = 1..n
      /\ DOMAIN Each(batch, NonHTTPIds) = 1..n
      /\ DOMAIN Each(batch, PermissionIds) = 1..n
  BY DEF Each
<1>2. Grows(definitions, definitions', Each(batch, KeyIds), batch)
  BY <1>1, AssignedGrows DEF Accepts, Commit
<1>3. Grows(byHTTP, byHTTP', Each(batch, HTTPIds), Each(batch, ActionKey))
  BY <1>1, AssignedGrows DEF Accepts, Commit
<1>4. Grows(byNonHTTP, byNonHTTP', Each(batch, NonHTTPIds), Each(batch, ActionKey))
  BY <1>1, AssignedGrows DEF Accepts, Commit
<1>5. Grows(permissionOwners, permissionOwners', Each(batch, PermissionIds),
            Each(batch, PermissionOwner))
  BY <1>1, AssignedGrows DEF Accepts, Commit
<1> QED BY <1>2, <1>3, <1>4, <1>5

LEMMA CommitKeys ==
  ASSUME NEW n \in Nat, NEW batch, DOMAIN batch = 1..n, Accepts(batch), Commit(batch)
  PROVE  /\ DOMAIN definitions' = DOMAIN definitions \cup {batch[i].key : i \in 1..n}
         /\ \A k \in DOMAIN definitions : definitions'[k] = definitions[k]
         /\ \A i \in 1..n :
              definitions'[batch[i].key] = batch[i] /\ batch[i].key \notin DOMAIN definitions
         /\ \A i, j \in 1..n : batch[i].key = batch[j].key => i = j
<1> DEFINE ids == Each(batch, KeyIds)
<1>1. DOMAIN ids = 1..n /\ \A i \in 1..n : ids[i] = {batch[i].key}
  BY DEF Each, KeyIds
<1>2. Grows(definitions, definitions', ids, batch)
  BY CommitGrows
<1> HIDE DEF ids
<1>3. UNION {ids[i] : i \in DOMAIN ids} = {batch[i].key : i \in 1..n}
  BY <1>1
<1> QED BY <1>1, <1>2, <1>3 DEF Grows

LEMMA HTTPStaysIndexed ==
  ASSUME NEW n \in Nat, NEW batch, DOMAIN batch = 1..n, Accepts(batch), Commit(batch),
         Agrees(byHTTP, HTTPIds)
  PROVE  Agrees(byHTTP, HTTPIds)'
<1> DEFINE K == DOMAIN definitions
           B == {batch[i].key : i \in 1..n}
           ids == [k \in DOMAIN definitions' |-> HTTPIds(definitions'[k])]
<1>1. /\ DOMAIN definitions' = K \cup B
      /\ \A k \in K : definitions'[k] = definitions[k]
      /\ \A i \in 1..n : definitions'[batch[i].key] = batch[i] /\ batch[i].key \notin K
      /\ \A i, j \in 1..n : batch[i].key = batch[j].key => i = j
  BY CommitKeys
<1>2. Grows(byHTTP, byHTTP', Each(batch, HTTPIds), Each(batch, ActionKey))
  BY CommitGrows
<1>3. /\ \A i \in 1..n : HTTPIds(batch[i]) \cap DOMAIN byHTTP = {}
      /\ \A i, j \in 1..n : HTTPIds(batch[i]) \cap HTTPIds(batch[j]) # {} => i = j
      /\ DOMAIN byHTTP' = DOMAIN byHTTP \cup UNION {HTTPIds(batch[i]) : i \in 1..n}
      /\ \A x \in DOMAIN byHTTP : byHTTP'[x] = byHTTP[x]
      /\ \A i \in 1..n : \A x \in HTTPIds(batch[i]) : byHTTP'[x] = batch[i].key
  BY <1>2 DEF Grows, Each, ActionKey
<1>4. (\A k \in K : ids[k] = HTTPIds(definitions[k])) /\ \A i \in 1..n : ids[batch[i].key] = HTTPIds(batch[i])
  BY <1>1
<1>5. /\ DOMAIN byHTTP = UNION {ids[k] : k \in K}
      /\ \A x \in DOMAIN byHTTP : {k \in K : x \in ids[k]} = {byHTTP[x]}
  <2> HIDE DEF ids
  <2>1. DOMAIN byHTTP = UNION {HTTPIds(definitions[k]) : k \in K}
    BY DEF Agrees, Range
  <2>2. \A x \in DOMAIN byHTTP : {k \in K : x \in HTTPIds(definitions[k])} = {byHTTP[x]}
    BY DEF Agrees, Claims
  <2>3. \A x : {k \in K : x \in ids[k]} = {k \in K : x \in HTTPIds(definitions[k])}
    BY <1>4
  <2>4. UNION {ids[k] : k \in K} = UNION {HTTPIds(definitions[k]) : k \in K}
    BY <1>4
  <2> QED BY <2>1, <2>2, <2>3, <2>4
<1>6. /\ \A b \in B : ids[b] \cap DOMAIN byHTTP = {}
      /\ \A b, c \in B : ids[b] \cap ids[c] # {} => b = c
      /\ \A b \in B : \A x \in ids[b] : byHTTP'[x] = b
  <2> HIDE DEF ids
  <2> QED BY <1>3, <1>4
<1>7. DOMAIN byHTTP' = DOMAIN byHTTP \cup UNION {ids[b] : b \in B}
  <2> HIDE DEF ids
  <2>1. UNION {ids[b] : b \in B} = UNION {HTTPIds(batch[i]) : i \in 1..n}
    BY <1>4
  <2> QED BY <1>3, <2>1
<1>8. /\ DOMAIN byHTTP' = UNION {ids[k] : k \in K \cup B}
      /\ \A x \in DOMAIN byHTTP' : {k \in K \cup B : x \in ids[k]} = {byHTTP'[x]}
  <2>1. \A x \in DOMAIN byHTTP : byHTTP'[x] = byHTTP[x]
    BY <1>3
  <2> HIDE DEF ids, K, B
  <2> QED BY ONLY <1>5, <1>6, <1>7, <2>1, IndexStep
<1>9. DOMAIN byHTTP' = UNION {HTTPIds(d) : d \in Range(definitions')}
  <2>1. UNION {ids[k] : k \in DOMAIN definitions'}
          = UNION {HTTPIds(d) : d \in Range(definitions')}
    BY DEF Range
  <2> HIDE DEF ids
  <2> QED BY <1>1, <1>8, <2>1
<1>10. \A x \in DOMAIN byHTTP' :
         {k \in DOMAIN definitions' : x \in HTTPIds(definitions'[k])} = {byHTTP'[x]}
  BY <1>1, <1>8
<1> QED BY <1>9, <1>10 DEF Agrees, Claims

LEMMA NonHTTPStaysIndexed ==
  ASSUME NEW n \in Nat, NEW batch, DOMAIN batch = 1..n, Accepts(batch), Commit(batch),
         Agrees(byNonHTTP, NonHTTPIds)
  PROVE  Agrees(byNonHTTP, NonHTTPIds)'
<1> DEFINE K == DOMAIN definitions
           B == {batch[i].key : i \in 1..n}
           ids == [k \in DOMAIN definitions' |-> NonHTTPIds(definitions'[k])]
<1>1. /\ DOMAIN definitions' = K \cup B
      /\ \A k \in K : definitions'[k] = definitions[k]
      /\ \A i \in 1..n : definitions'[batch[i].key] = batch[i] /\ batch[i].key \notin K
      /\ \A i, j \in 1..n : batch[i].key = batch[j].key => i = j
  BY CommitKeys
<1>2. Grows(byNonHTTP, byNonHTTP', Each(batch, NonHTTPIds), Each(batch, ActionKey))
  BY CommitGrows
<1>3. /\ \A i \in 1..n : NonHTTPIds(batch[i]) \cap DOMAIN byNonHTTP = {}
      /\ \A i, j \in 1..n : NonHTTPIds(batch[i]) \cap NonHTTPIds(batch[j]) # {} => i = j
      /\ DOMAIN byNonHTTP' = DOMAIN byNonHTTP \cup UNION {NonHTTPIds(batch[i]) : i \in 1..n}
      /\ \A x \in DOMAIN byNonHTTP : byNonHTTP'[x] = byNonHTTP[x]
      /\ \A i \in 1..n : \A x \in NonHTTPIds(batch[i]) : byNonHTTP'[x] = batch[i].key
  BY <1>2 DEF Grows, Each, ActionKey
<1>4. (\A k \in K : ids[k] = NonHTTPIds(definitions[k])) /\ \A i \in 1..n : ids[batch[i].key] = NonHTTPIds(batch[i])
  BY <1>1
<1>5. /\ DOMAIN byNonHTTP = UNION {ids[k] : k \in K}
      /\ \A x \in DOMAIN byNonHTTP : {k \in K : x \in ids[k]} = {byNonHTTP[x]}
  <2> HIDE DEF ids
  <2>1. DOMAIN byNonHTTP = UNION {NonHTTPIds(definitions[k]) : k \in K}
    BY DEF Agrees, Range
  <2>2. \A x \in DOMAIN byNonHTTP : {k \in K : x \in NonHTTPIds(definitions[k])} = {byNonHTTP[x]}
    BY DEF Agrees, Claims
  <2>3. \A x : {k \in K : x \in ids[k]} = {k \in K : x \in NonHTTPIds(definitions[k])}
    BY <1>4
  <2>4. UNION {ids[k] : k \in K} = UNION {NonHTTPIds(definitions[k]) : k \in K}
    BY <1>4
  <2> QED BY <2>1, <2>2, <2>3, <2>4
<1>6. /\ \A b \in B : ids[b] \cap DOMAIN byNonHTTP = {}
      /\ \A b, c \in B : ids[b] \cap ids[c] # {} => b = c
      /\ \A b \in B : \A x \in ids[b] : byNonHTTP'[x] = b
  <2> HIDE DEF ids
  <2> QED BY <1>3, <1>4
<1>7. DOMAIN byNonHTTP' = DOMAIN byNonHTTP \cup UNION {ids[b] : b \in B}
  <2> HIDE DEF ids
  <2>1. UNION {ids[b] : b \in B} = UNION {NonHTTPIds(batch[i]) : i \in 1..n}
    BY <1>4
  <2> QED BY <1>3, <2>1
<1>8. /\ DOMAIN byNonHTTP' = UNION {ids[k] : k \in K \cup B}
      /\ \A x \in DOMAIN byNonHTTP' : {k \in K \cup B : x \in ids[k]} = {byNonHTTP'[x]}
  <2>1. \A x \in DOMAIN byNonHTTP : byNonHTTP'[x] = byNonHTTP[x]
    BY <1>3
  <2> HIDE DEF ids, K, B
  <2> QED BY ONLY <1>5, <1>6, <1>7, <2>1, IndexStep
<1>9. DOMAIN byNonHTTP' = UNION {NonHTTPIds(d) : d \in Range(definitions')}
  <2>1. UNION {ids[k] : k \in DOMAIN definitions'}
          = UNION {NonHTTPIds(d) : d \in Range(definitions')}
    BY DEF Range
  <2> HIDE DEF ids
  <2> QED BY <1>1, <1>8, <2>1
<1>10. \A x \in DOMAIN byNonHTTP' :
         {k \in DOMAIN definitions' : x \in NonHTTPIds(definitions'[k])} = {byNonHTTP'[x]}
  BY <1>1, <1>8
<1> QED BY <1>9, <1>10 DEF Agrees, Claims

-----------------------------------------------------------------------------
(* Bags of texts.                                                          *)

\* Counting one element of a bag counts its copies.
LEMMA TallyOfOne ==
  ASSUME NEW f, NEW x, f[x] \in Nat
  PROVE  Tally(f, {x}) = f[x]
<1>1. Units(f, {x}) = {x} \X (1..f[x])
  BY DEF Units
<1>2. IsFiniteSet(1..f[x]) /\ Cardinality(1..f[x]) = f[x]
  BY FS_Interval
<1>3. IsFiniteSet({x}) /\ Cardinality({x}) = 1
  BY FS_Singleton, Zenon
<1>4. Cardinality({x} \X (1..f[x])) = Cardinality({x}) * Cardinality(1..f[x])
  BY <1>2, <1>3, FS_Product
<1>5. 1 * f[x] = f[x]
  OBVIOUS
<1>6. Cardinality(Units(f, {x})) = f[x]
  BY <1>1, <1>2, <1>3, <1>4, <1>5, Zenon
<1> QED BY <1>6, Zenon DEF Tally

\* A finite sum of numbers is a number.
LEMMA TallyIsNumber ==
  ASSUME NEW f, NEW S, IsFiniteSet(S), \A x \in S : f[x] \in Nat
  PROVE  Tally(f, S) \in Nat
<1> DEFINE parts == {{x} \X (1..f[x]) : x \in S}
<1>1. IsFiniteSet(parts)
  <2> DEFINE part == [x \in S |-> {x} \X (1..f[x])]
  <2>1. part \in Surjection(S, parts)
    BY DEF Surjection
  <2> HIDE DEF part
  <2> QED BY <2>1, FS_Surjection
<1>2. ASSUME NEW p \in parts PROVE IsFiniteSet(p)
  <2>1. PICK x \in S : p = {x} \X (1..f[x])
    OBVIOUS
  <2>2. IsFiniteSet(1..f[x])
    BY FS_Interval
  <2>3. IsFiniteSet({x})
    BY FS_Singleton, Zenon
  <2> QED BY <2>1, <2>2, <2>3, FS_Product
<1>3. IsFiniteSet(UNION parts)
  <2> HIDE DEF parts
  <2> QED BY <1>1, <1>2, FS_UNION
<1> QED BY <1>3, FS_CardinalityType DEF Tally, Units

\* Trimming the elements of a list gives a list that trimming leaves alone.
LEMMA TrimmedList ==
  ASSUME NEW bag, IsList(bag), \A x \in BagToSet(bag) : IsText(x)
  PROVE  Images(Trim, Images(Trim, bag)) = Images(Trim, bag)
<1> DEFINE once == Images(Trim, bag)
           twice == Images(Trim, once)
<1>1. /\ DOMAIN once = {Trim(x) : x \in DOMAIN bag}
      /\ \A y \in DOMAIN once : once[y] = Tally(bag, {x \in DOMAIN bag : Trim(x) = y})
  BY DEF Images, BagToSet
<1>2. \A y \in DOMAIN once : Trim(y) = y
  <2>1. \A x \in DOMAIN bag : Trim(Trim(x)) = Trim(x)
    BY TrimIdempotent DEF IsText, BagToSet
  <2> QED BY <1>1, <2>1
<1>3. ASSUME NEW y \in DOMAIN once PROVE once[y] \in Nat
  <2> DEFINE same == {x \in DOMAIN bag : Trim(x) = y}
  <2>1. IsFiniteSet(same) /\ \A x \in same : bag[x] \in Nat
    BY FS_Subset DEF IsList, BagToSet
  <2>2. Tally(bag, same) \in Nat
    <3> HIDE DEF same
    <3> QED BY <2>1, TallyIsNumber
  <2> QED BY <1>1, <2>2
<1>4. /\ DOMAIN twice = {Trim(y) : y \in DOMAIN once}
      /\ \A y \in DOMAIN twice : twice[y] = Tally(once, {x \in DOMAIN once : Trim(x) = y})
      /\ twice = [y \in DOMAIN twice |-> twice[y]]
      /\ once = [y \in DOMAIN once |-> once[y]]
  BY DEF Images, BagToSet
<1> HIDE DEF once, twice
<1>5. DOMAIN twice = DOMAIN once
  BY <1>2, <1>4
<1>6. ASSUME NEW y \in DOMAIN once PROVE twice[y] = once[y]
  <2>1. {x \in DOMAIN once : Trim(x) = y} = {y}
    BY <1>2
  <2>2. twice[y] = Tally(once, {y})
    BY <1>4, <1>5, <2>1
  <2> QED BY <1>3, <2>2, TallyOfOne
<1>7. twice = once
  BY <1>4, <1>5, <1>6
<1> QED BY <1>7 DEF once, twice

LEMMA TrimmedPairs ==
  ASSUME NEW bag, IsList(bag),
         \A x \in BagToSet(bag) : IsText(x[1]) /\ IsText(x[2])
  PROVE  Images(TrimPair, Images(TrimPair, bag)) = Images(TrimPair, bag)
<1> DEFINE once == Images(TrimPair, bag)
           twice == Images(TrimPair, once)
<1>1. /\ DOMAIN once = {TrimPair(x) : x \in DOMAIN bag}
      /\ \A y \in DOMAIN once : once[y] = Tally(bag, {x \in DOMAIN bag : TrimPair(x) = y})
  BY DEF Images, BagToSet
<1>2. \A y \in DOMAIN once : TrimPair(y) = y
  <2>1. \A x \in DOMAIN bag : Trim(Trim(x[1])) = Trim(x[1]) /\ Trim(Trim(x[2])) = Trim(x[2])
    BY TrimIdempotent DEF IsText, BagToSet
  <2>2. \A x \in DOMAIN bag : TrimPair(TrimPair(x)) = TrimPair(x)
    BY <2>1 DEF TrimPair
  <2> QED BY <1>1, <2>2
<1>3. ASSUME NEW y \in DOMAIN once PROVE once[y] \in Nat
  <2> DEFINE same == {x \in DOMAIN bag : TrimPair(x) = y}
  <2>1. IsFiniteSet(same) /\ \A x \in same : bag[x] \in Nat
    BY FS_Subset DEF IsList, BagToSet
  <2>2. Tally(bag, same) \in Nat
    <3> HIDE DEF same
    <3> QED BY <2>1, TallyIsNumber
  <2> QED BY <1>1, <2>2
<1>4. /\ DOMAIN twice = {TrimPair(y) : y \in DOMAIN once}
      /\ \A y \in DOMAIN twice : twice[y] = Tally(once, {x \in DOMAIN once : TrimPair(x) = y})
      /\ twice = [y \in DOMAIN twice |-> twice[y]]
      /\ once = [y \in DOMAIN once |-> once[y]]
  BY DEF Images, BagToSet
<1> HIDE DEF once, twice
<1>5. DOMAIN twice = DOMAIN once
  BY <1>2, <1>4
<1>6. ASSUME NEW y \in DOMAIN once PROVE twice[y] = once[y]
  <2>1. {x \in DOMAIN once : TrimPair(x) = y} = {y}
    BY <1>2
  <2>2. twice[y] = Tally(once, {y})
    BY <1>4, <1>5, <2>1
  <2> QED BY <1>3, <2>2, TallyOfOne
<1>7. twice = once
  BY <1>4, <1>5, <1>6
<1> QED BY <1>7 DEF once, twice

-----------------------------------------------------------------------------
(* Normalising a definition twice is normalising it once.                  *)

\* The fields of a definition, and of its authorization, that are checked.
HasFields(d) ==
    /\ {"key", "owner", "complete", "exposures", "http", "pages", "nonHTTP",
        "authorization", "permission", "effect", "risk", "assurance", "approvals",
        "status"} \subseteq DOMAIN d
    /\ {"strategy", "policy", "audiences"} \subseteq DOMAIN d.authorization

NormalBinding(h) ==
    [method |-> Upper(h.method), route |-> Trim(h.route), display |-> Trim(h.display)]

NormalPermission(p) ==
    [p EXCEPT !.key = Trim(@), !.owner = Trim(@), !.resource = Trim(@),
              !.operation = Trim(@)]

\* What normalising makes of each field.
LEMMA FieldsOfNormalized ==
  ASSUME NEW d, HasFields(d), NEW c, c = normalizeDefinition(d)
  PROVE  /\ HasFields(c)
         /\ c.key = Trim(d.key) /\ c.owner = Trim(d.owner)
         /\ c.http = {NormalBinding(h) : h \in d.http}
         /\ c.permission = {NormalPermission(p) : p \in d.permission}
         /\ c.pages = Images(TrimPair, d.pages)
         /\ c.nonHTTP = Images(TrimPair, d.nonHTTP)
         /\ c.assurance = Images(Trim, d.assurance)
         /\ c.authorization.strategy = d.authorization.strategy
         /\ c.authorization.policy = Trim(d.authorization.policy)
         /\ c.authorization.audiences = Images(Trim, d.authorization.audiences)
         /\ c.complete = d.complete /\ c.exposures = d.exposures
         /\ c.effect = d.effect /\ c.risk = d.risk
         /\ c.approvals = d.approvals /\ c.status = d.status
<1>1. DOMAIN c = DOMAIN d
  BY DEF normalizeDefinition
<1>2. c.key = Trim(d.key) /\ c.owner = Trim(d.owner)
  BY DEF normalizeDefinition, HasFields
<1>3. c.http = {NormalBinding(h) : h \in d.http}
  BY DEF normalizeDefinition, HasFields, NormalBinding
<1>4. c.permission = {NormalPermission(p) : p \in d.permission}
  BY DEF normalizeDefinition, HasFields, NormalPermission
<1>5. /\ c.pages = Images(TrimPair, d.pages)
      /\ c.nonHTTP = Images(TrimPair, d.nonHTTP)
      /\ c.assurance = Images(Trim, d.assurance)
  BY DEF normalizeDefinition, HasFields
<1>6. /\ DOMAIN c.authorization = DOMAIN d.authorization
      /\ c.authorization.strategy = d.authorization.strategy
      /\ c.authorization.policy = Trim(d.authorization.policy)
      /\ c.authorization.audiences = Images(Trim, d.authorization.audiences)
  BY DEF normalizeDefinition, HasFields
<1>7. /\ c.complete = d.complete /\ c.exposures = d.exposures
      /\ c.effect = d.effect /\ c.risk = d.risk
      /\ c.approvals = d.approvals /\ c.status = d.status
  BY DEF normalizeDefinition, HasFields
<1> QED
  BY <1>1, <1>2, <1>3, <1>4, <1>5, <1>6, <1>7 DEF HasFields

LEMMA BindingNormal ==
  ASSUME NEW h, IsText(h.route), IsText(h.display)
  PROVE  NormalBinding(NormalBinding(h)) = NormalBinding(h)
<1>1. Trim(Trim(h.route)) = Trim(h.route) /\ Trim(Trim(h.display)) = Trim(h.display)
  BY TrimIdempotent DEF IsText
<1>2. Upper(Upper(h.method)) = Upper(h.method)
  BY DEF Upper
<1> QED BY <1>1, <1>2 DEF NormalBinding

LEMMA PermissionNormal ==
  ASSUME NEW p, {"key", "owner", "resource", "operation"} \subseteq DOMAIN p,
         IsText(p.key), IsText(p.owner), IsText(p.resource), IsText(p.operation)
  PROVE  NormalPermission(NormalPermission(p)) = NormalPermission(p)
<1> DEFINE q == NormalPermission(p)
           r == NormalPermission(q)
<1>1. /\ DOMAIN q = DOMAIN p
      /\ q.key = Trim(p.key) /\ q.owner = Trim(p.owner)
      /\ q.resource = Trim(p.resource) /\ q.operation = Trim(p.operation)
      /\ q = [f \in DOMAIN q |-> q[f]]
  BY DEF NormalPermission
<1>2. /\ Trim(Trim(p.key)) = Trim(p.key) /\ Trim(Trim(p.owner)) = Trim(p.owner)
      /\ Trim(Trim(p.resource)) = Trim(p.resource)
      /\ Trim(Trim(p.operation)) = Trim(p.operation)
  BY TrimIdempotent DEF IsText
<1> HIDE DEF q
<1>3. /\ DOMAIN r = DOMAIN q /\ r = [f \in DOMAIN r |-> r[f]]
      /\ \A f \in DOMAIN q : r[f] = q[f]
  BY <1>1, <1>2 DEF NormalPermission
<1> HIDE DEF r
<1>4. r = q
  BY <1>1, <1>3
<1> QED BY <1>4 DEF q, r

\* A normalised definition passes the checks again after normalising it again,
\* which is what a client does with the ones it is sent.
LEMMA NormalizedTwice ==
  ASSUME NEW d, IsDefinition(d), validateDefinition(normalizeDefinition(d))
  PROVE  NormalizeDefinitionOK(normalizeDefinition(d))
<1>1. PICK c : c = normalizeDefinition(d)
  OBVIOUS
<1>2. PICK n : n = normalizeDefinition(c)
  OBVIOUS
<1>3. /\ HasFields(c)
      /\ c.key = Trim(d.key) /\ c.owner = Trim(d.owner)
      /\ c.http = {NormalBinding(h) : h \in d.http}
      /\ c.permission = {NormalPermission(p) : p \in d.permission}
      /\ c.pages = Images(TrimPair, d.pages)
      /\ c.nonHTTP = Images(TrimPair, d.nonHTTP)
      /\ c.assurance = Images(Trim, d.assurance)
      /\ c.authorization.policy = Trim(d.authorization.policy)
      /\ c.authorization.audiences = Images(Trim, d.authorization.audiences)
  <2>1. HasFields(d)
    BY DEF HasFields, IsDefinition
  <2> QED BY <1>1, <2>1, FieldsOfNormalized
<1>4. /\ n.key = Trim(c.key) /\ n.owner = Trim(c.owner)
      /\ n.http = {NormalBinding(h) : h \in c.http}
      /\ n.permission = {NormalPermission(p) : p \in c.permission}
      /\ n.pages = Images(TrimPair, c.pages)
      /\ n.nonHTTP = Images(TrimPair, c.nonHTTP)
      /\ n.assurance = Images(Trim, c.assurance)
      /\ n.authorization.strategy = c.authorization.strategy
      /\ n.authorization.policy = Trim(c.authorization.policy)
      /\ n.authorization.audiences = Images(Trim, c.authorization.audiences)
      /\ n.complete = c.complete /\ n.exposures = c.exposures
      /\ n.effect = c.effect /\ n.risk = c.risk
      /\ n.approvals = c.approvals /\ n.status = c.status
  <2>1. HasFields(c)
    BY <1>3
  <2> QED BY <1>2, <2>1, FieldsOfNormalized
<1>5. /\ n.key = c.key /\ n.owner = c.owner
      /\ n.authorization.policy = c.authorization.policy
  <2>1. /\ Trim(Trim(d.key)) = Trim(d.key) /\ Trim(Trim(d.owner)) = Trim(d.owner)
        /\ Trim(Trim(d.authorization.policy)) = Trim(d.authorization.policy)
    BY TrimIdempotent DEF IsDefinition, IsText
  <2> QED BY <1>3, <1>4, <2>1
<1>6. n.http = c.http
  <2>1. \A h \in d.http : NormalBinding(NormalBinding(h)) = NormalBinding(h)
    BY BindingNormal DEF IsDefinition
  <2> QED BY <1>3, <1>4, <2>1
<1>7. n.permission = c.permission
  <2>1. \A p \in d.permission : NormalPermission(NormalPermission(p)) = NormalPermission(p)
    BY PermissionNormal DEF IsDefinition
  <2> QED BY <1>3, <1>4, <2>1
<1>8. n.pages = c.pages /\ n.nonHTTP = c.nonHTTP
  <2>1. \A bag \in {d.pages, d.nonHTTP} :
          IsList(bag) /\ \A x \in BagToSet(bag) : IsText(x[1]) /\ IsText(x[2])
    BY DEF IsDefinition
  <2> QED BY <1>3, <1>4, <2>1, TrimmedPairs
<1>9. /\ n.assurance = c.assurance
      /\ n.authorization.audiences = c.authorization.audiences
  <2>1. \A bag \in {d.authorization.audiences, d.assurance} :
          IsList(bag) /\ \A x \in BagToSet(bag) : IsText(x)
    BY DEF IsDefinition
  <2> QED BY <1>3, <1>4, <2>1, TrimmedList
<1>10. validateAuthorization(c) => validateAuthorization(n)
  BY <1>4, <1>5, <1>7, <1>9 DEF validateAuthorization
<1>11. ASSUME NEW p, validatePermissionDefinition(c, p)
       PROVE  validatePermissionDefinition(n, p)
  BY <1>5, <1>11 DEF validatePermissionDefinition
<1>12. validateDefinition(c)
  BY <1>1
<1>13. validateDefinition(n)
  BY <1>4, <1>5, <1>6, <1>7, <1>8, <1>9, <1>10, <1>11, <1>12 DEF validateDefinition
<1> QED BY <1>1, <1>2, <1>13 DEF NormalizeDefinitionOK
-----------------------------------------------------------------------------
(* What normalising leaves for the queries of a frozen registry: texts     *)
(* that trimming and upper-casing do not change any more.                  *)

Canonical(d) ==
    /\ Trim(d.key) = d.key
    /\ \A h \in d.http :
         Upper(h.method) = h.method /\ Trim(h.route) = h.route /\ Trim(h.display) = h.display
    /\ \A b \in BagToSet(d.nonHTTP) :
         b = <<b[1], b[2]>> /\ Trim(b[1]) = b[1] /\ Trim(b[2]) = b[2]

LEMMA NormalizedIsCanonical ==
  ASSUME NEW m \in Modules, NEW d \in Range(m.manifest)
  PROVE  Canonical(normalizeDefinition(d))
<1> DEFINE c == normalizeDefinition(d)
<1>0. IsDefinition(d)
  BY ModuleAssumption
<1>1. /\ HasFields(d) /\ d.key \in Seq(Range(d.key))
      /\ \A h \in d.http :
           h.route \in Seq(Range(h.route)) /\ h.display \in Seq(Range(h.display))
      /\ \A b \in BagToSet(d.nonHTTP) :
           b[1] \in Seq(Range(b[1])) /\ b[2] \in Seq(Range(b[2]))
  BY <1>0 DEF IsDefinition, IsText, HasFields
<1>2. /\ c.key = Trim(d.key)
      /\ c.http = {[method |-> Upper(h.method), route |-> Trim(h.route),
                    display |-> Trim(h.display)] : h \in d.http}
      /\ BagToSet(c.nonHTTP) = {TrimPair(b) : b \in BagToSet(d.nonHTTP)}
  <2>1. /\ c.key = Trim(d.key)
        /\ c.http = {NormalBinding(h) : h \in d.http}
        /\ c.nonHTTP = Images(TrimPair, d.nonHTTP)
    BY <1>1, FieldsOfNormalized
  <2>2. BagToSet(Images(TrimPair, d.nonHTTP)) = {TrimPair(b) : b \in BagToSet(d.nonHTTP)}
    BY DEF Images, BagToSet
  <2> QED BY <2>1, <2>2 DEF NormalBinding
<1> HIDE DEF c
<1>3. Trim(c.key) = c.key
  <2>1. Trim(Trim(d.key)) = Trim(d.key)
    BY <1>1, TrimIdempotent
  <2> QED BY <1>2, <2>1
<1>4. ASSUME NEW g \in c.http
      PROVE  Upper(g.method) = g.method /\ Trim(g.route) = g.route /\ Trim(g.display) = g.display
  <2>1. PICK h \in d.http : g = [method |-> Upper(h.method), route |-> Trim(h.route),
                                 display |-> Trim(h.display)]
    BY <1>2
  <2>2. Trim(Trim(h.route)) = Trim(h.route) /\ Trim(Trim(h.display)) = Trim(h.display)
    BY <1>1, TrimIdempotent
  <2>3. Upper(Upper(h.method)) = Upper(h.method)
    BY DEF Upper
  <2> QED BY <2>1, <2>2, <2>3
<1>5. ASSUME NEW b \in BagToSet(c.nonHTTP)
      PROVE  b = <<b[1], b[2]>> /\ Trim(b[1]) = b[1] /\ Trim(b[2]) = b[2]
  <2>1. PICK a \in BagToSet(d.nonHTTP) : b = TrimPair(a)
    BY <1>2
  <2>2. Trim(Trim(a[1])) = Trim(a[1]) /\ Trim(Trim(a[2])) = Trim(a[2])
    BY <1>1, TrimIdempotent
  <2> QED BY <2>1, <2>2 DEF TrimPair
<1>6. Canonical(c)
  BY <1>3, <1>4, <1>5 DEF Canonical
<1> QED BY <1>6 DEF c

\* The batch that Admit registers for a module.
LEMMA ManifestBatch ==
  ASSUME NEW m \in Modules
  PROVE  LET batch == Normalized(m.manifest)
         IN  /\ \E n \in Nat : DOMAIN batch = 1..n
             /\ DOMAIN batch = DOMAIN m.manifest
             /\ \A d \in Range(batch) : Canonical(d)
<1> DEFINE batch == Normalized(m.manifest)
<1>1. DOMAIN batch = DOMAIN m.manifest
      /\ \A i \in DOMAIN batch : batch[i] = normalizeDefinition(m.manifest[i])
  BY DEF Normalized, Each
<1>2. \E n \in Nat : DOMAIN m.manifest = 1..n
  BY ModuleAssumption DEF IsText
<1>3. \A i \in DOMAIN batch : m.manifest[i] \in Range(m.manifest)
  BY <1>1 DEF Range
<1>4. \A i \in DOMAIN batch : Canonical(batch[i])
  BY <1>1, <1>3, NormalizedIsCanonical
<1> QED BY <1>1, <1>2, <1>4 DEF Range

-----------------------------------------------------------------------------
(* The inductive invariant of admission.                                   *)

KeysAgree == \A k \in DOMAIN definitions : definitions[k].key = k

\* The registry holds the manifests of the admitted modules and nothing else.
ManifestsRegistered ==
    /\ admitted \subseteq Modules
    /\ \A m \in admitted : \A i \in DOMAIN m.manifest :
         LET d == Normalized(m.manifest)[i]
         IN  d.key \in DOMAIN definitions /\ definitions[d.key] = d
    /\ \A k \in DOMAIN definitions : \E m \in admitted :
         definitions[k] \in Range(Normalized(m.manifest))
    /\ \A m \in admitted : ValidateAuthorizationProjection(m.manifest, m.adapters)

\* No two of them share a key.
ManifestsApart ==
    \A m, q \in admitted : \A i \in DOMAIN m.manifest, j \in DOMAIN q.manifest :
       Normalized(m.manifest)[i].key = Normalized(q.manifest)[j].key => m = q

\* A permission has its action's key and owner, and one entry.
PermissionsOwned ==
    /\ \A k \in DOMAIN definitions : \A p \in definitions[k].permission :
         p.key = k /\ p.owner = definitions[k].owner
    /\ DOMAIN permissionOwners = {k \in DOMAIN definitions : definitions[k].permission # {}}
    /\ \A k \in DOMAIN permissionOwners : permissionOwners[k] = definitions[k].owner

AdmissionInv ==
    /\ KeysAgree
    /\ ManifestsRegistered
    /\ ManifestsApart
    /\ Agrees(byHTTP, HTTPIds)
    /\ Agrees(byNonHTTP, NonHTTPIds)
    /\ PermissionsOwned

LEMMA AdmissionInitially == Init => AdmissionInv
<1> SUFFICES ASSUME Init PROVE AdmissionInv
  OBVIOUS
<1> USE DEF Init, RegistryInit
<1>1. DOMAIN definitions = {} /\ DOMAIN byHTTP = {} /\ DOMAIN byNonHTTP = {}
      /\ DOMAIN permissionOwners = {} /\ admitted = {}
  OBVIOUS
<1>2. Agrees(byHTTP, HTTPIds) /\ Agrees(byNonHTTP, NonHTTPIds)
  BY <1>1 DEF Agrees, Range
<1>3. KeysAgree /\ ManifestsRegistered /\ ManifestsApart /\ PermissionsOwned
  BY <1>1 DEF KeysAgree, ManifestsRegistered, ManifestsApart, PermissionsOwned
<1> QED BY <1>2, <1>3 DEF AdmissionInv

LEMMA PermissionsStep ==
  ASSUME NEW n \in Nat, NEW batch, DOMAIN batch = 1..n, Accepts(batch), Commit(batch),
         PermissionsOwned
  PROVE  PermissionsOwned'
<1>1. /\ DOMAIN definitions' = DOMAIN definitions \cup {batch[i].key : i \in 1..n}
      /\ \A k \in DOMAIN definitions : definitions'[k] = definitions[k]
      /\ \A i \in 1..n :
           definitions'[batch[i].key] = batch[i] /\ batch[i].key \notin DOMAIN definitions
      /\ \A i, j \in 1..n : batch[i].key = batch[j].key => i = j
  BY CommitKeys
<1>2. \A i \in 1..n : \A p \in batch[i].permission :
        p.key = batch[i].key /\ p.owner = batch[i].owner
  BY DEF Accepts, validateDefinition, validatePermissionDefinition
<1>3. Grows(permissionOwners, permissionOwners', Each(batch, PermissionIds),
            Each(batch, PermissionOwner))
  BY CommitGrows
<1>4. /\ DOMAIN permissionOwners'
           = DOMAIN permissionOwners \cup UNION {PermissionIds(batch[i]) : i \in 1..n}
      /\ \A x \in DOMAIN permissionOwners : permissionOwners'[x] = permissionOwners[x]
      /\ \A i \in 1..n : \A x \in PermissionIds(batch[i]) :
           permissionOwners'[x] = PermissionOwner(batch[i])
  BY <1>3 DEF Grows, Each
<1>5. \A i \in 1..n : batch[i].permission # {} =>
        PermissionIds(batch[i]) = {batch[i].key} /\ PermissionOwner(batch[i]) = batch[i].owner
  BY <1>2 DEF PermissionIds, PermissionOwner
<1>6. \A i \in 1..n : batch[i].permission = {} => PermissionIds(batch[i]) = {}
  BY DEF PermissionIds
<1>7. \A k \in DOMAIN definitions' : \A p \in definitions'[k].permission :
        p.key = k /\ p.owner = definitions'[k].owner
  BY <1>1, <1>2 DEF PermissionsOwned
<1>8. DOMAIN permissionOwners' = {k \in DOMAIN definitions' : definitions'[k].permission # {}}
  BY <1>1, <1>4, <1>5, <1>6 DEF PermissionsOwned
<1>9. \A k \in DOMAIN permissionOwners' : permissionOwners'[k] = definitions'[k].owner
  BY <1>1, <1>4, <1>5, <1>6 DEF PermissionsOwned
<1> QED BY <1>7, <1>8, <1>9 DEF PermissionsOwned

LEMMA AdmitStep ==
  ASSUME NEW m \in Modules, AdmissionInv, Admit(m), admitted' = admitted \cup {m},
         Checked(m), Accepts(Normalized(m.manifest)), Commit(Normalized(m.manifest))
  PROVE  AdmissionInv'
<1> DEFINE batch == Normalized(m.manifest)
<1>1. PICK n \in Nat : DOMAIN batch = 1..n
  BY ManifestBatch
<1>2. DOMAIN batch = DOMAIN m.manifest
  BY ManifestBatch
<1>3. /\ DOMAIN definitions' = DOMAIN definitions \cup {batch[i].key : i \in 1..n}
      /\ \A k \in DOMAIN definitions : definitions'[k] = definitions[k]
      /\ \A i \in 1..n :
           definitions'[batch[i].key] = batch[i] /\ batch[i].key \notin DOMAIN definitions
      /\ \A i, j \in 1..n : batch[i].key = batch[j].key => i = j
  <2>1. Accepts(batch) /\ Commit(batch)
    OBVIOUS
  <2> HIDE DEF batch
  <2> QED BY <1>1, <2>1, CommitKeys
<1>4. Agrees(byHTTP, HTTPIds)'
  BY <1>1, HTTPStaysIndexed DEF AdmissionInv
<1>5. Agrees(byNonHTTP, NonHTTPIds)'
  BY <1>1, NonHTTPStaysIndexed DEF AdmissionInv
<1>6. PermissionsOwned'
  BY <1>1, PermissionsStep DEF AdmissionInv
<1> HIDE DEF batch
<1>7. KeysAgree'
  BY <1>3 DEF AdmissionInv, KeysAgree
<1>8. ManifestsRegistered'
  <2>1. \A q \in admitted' : \A i \in DOMAIN q.manifest :
          LET d == Normalized(q.manifest)[i]
          IN  d.key \in DOMAIN definitions' /\ definitions'[d.key] = d
    BY <1>1, <1>2, <1>3 DEF AdmissionInv, ManifestsRegistered, batch
  <2>2. ASSUME NEW k \in DOMAIN definitions'
        PROVE  \E q \in admitted' : definitions'[k] \in Range(Normalized(q.manifest))
    <3>1. CASE k \in DOMAIN definitions
      BY <1>3, <3>1 DEF AdmissionInv, ManifestsRegistered
    <3>2. ASSUME NEW i \in 1..n, k = batch[i].key
          PROVE  definitions'[k] \in Range(batch)
      BY <1>1, <1>3, <3>2 DEF Range
    <3> QED BY <1>3, <3>1, <3>2 DEF batch
  <2>3. \A q \in admitted' : ValidateAuthorizationProjection(q.manifest, q.adapters)
    BY DEF AdmissionInv, ManifestsRegistered, Checked
  <2> QED BY <2>1, <2>2, <2>3 DEF AdmissionInv, ManifestsRegistered
<1>9. ManifestsApart'
  <2> SUFFICES ASSUME NEW q \in admitted', NEW r \in admitted',
                      NEW i \in DOMAIN q.manifest, NEW j \in DOMAIN r.manifest,
                      Normalized(q.manifest)[i].key = Normalized(r.manifest)[j].key
               PROVE  q = r
    BY DEF ManifestsApart
  <2>1. \A p \in admitted : \A l \in DOMAIN p.manifest :
          Normalized(p.manifest)[l].key \in DOMAIN definitions
    BY DEF AdmissionInv, ManifestsRegistered
  <2>2. \A l \in DOMAIN m.manifest : Normalized(m.manifest)[l].key \notin DOMAIN definitions
    BY <1>1, <1>2, <1>3 DEF batch
  <2> QED BY <2>1, <2>2 DEF AdmissionInv, ManifestsApart
<1> QED BY <1>4, <1>5, <1>6, <1>7, <1>8, <1>9 DEF AdmissionInv

LEMMA AdmissionStep == AdmissionInv /\ [Next]_vars => AdmissionInv'
<1> SUFFICES ASSUME AdmissionInv, [Next]_vars PROVE AdmissionInv'
  OBVIOUS
<1>1. ASSUME UNCHANGED <<definitions, byHTTP, byNonHTTP, permissionOwners, admitted>>
      PROVE  AdmissionInv'
  BY <1>1 DEF AdmissionInv, KeysAgree, ManifestsRegistered, ManifestsApart, Agrees, Claims,
     PermissionsOwned
<1>2. ASSUME NEW m \in Modules, Admit(m) PROVE AdmissionInv'
  <2>1. CASE Checked(m) /\ Accepts(Normalized(m.manifest))
    <3>1. Commit(Normalized(m.manifest)) /\ admitted' = admitted \cup {m}
      BY <1>2, <2>1 DEF Admit, Register
    <3> QED BY <1>2, <2>1, <3>1, AdmitStep
  <2>2. CASE ~(Checked(m) /\ Accepts(Normalized(m.manifest)))
    BY <1>1, <1>2, <2>2 DEF Admit, Register, vars, registryVars
  <2> QED BY <2>1, <2>2
<1>3. CASE FreezeRegistry
  BY <1>1, <1>3 DEF FreezeRegistry, Freeze
<1>4. CASE UNCHANGED vars
  BY <1>1, <1>4 DEF vars, registryVars
<1> QED BY <1>2, <1>3, <1>4 DEF Next

\* The invariant holds in every state of a host (registry.go, adapter.go).
THEOREM AdmissionInvariance == Spec => []AdmissionInv
<1>1. Init => AdmissionInv
  BY AdmissionInitially
<1>2. AdmissionInv /\ [Next]_vars => AdmissionInv'
  BY AdmissionStep
<1> QED BY <1>1, <1>2, PTL DEF Spec

-----------------------------------------------------------------------------
(* What the invariant says about the queries.                              *)

LEMMA DefinitionsAreCanonical ==
  ASSUME AdmissionInv, NEW d \in Range(definitions)
  PROVE  Canonical(d) /\ d.key \in DOMAIN definitions /\ definitions[d.key] = d
<1>1. PICK k \in DOMAIN definitions : d = definitions[k]
  BY DEF Range
<1>2. PICK m \in admitted : definitions[k] \in Range(Normalized(m.manifest))
  BY DEF AdmissionInv, ManifestsRegistered
<1>3. m \in Modules
  BY DEF AdmissionInv, ManifestsRegistered
<1>4. Canonical(d)
  BY <1>1, <1>2, <1>3, ManifestBatch
<1> QED BY <1>1, <1>4 DEF AdmissionInv, KeysAgree

LEMMA LiveKey ==
  ASSUME frozen, NEW d, d.key \in DOMAIN definitions, definitions[d.key] = d,
         d.status # "retired"
  PROVE  Live({d.key}) = {d}
BY DEF Live

LEMMA HTTPLeadsHome ==
  ASSUME AdmissionInv, NEW d \in Range(definitions), NEW id \in HTTPIds(d)
  PROVE  At(byHTTP, id) = {d.key}
<1>1. d.key \in DOMAIN definitions /\ definitions[d.key] = d
  BY DefinitionsAreCanonical
<1>2. id \in DOMAIN byHTTP /\ Claims(HTTPIds, id) = {byHTTP[id]}
  BY DEF AdmissionInv, Agrees
<1>3. d.key \in Claims(HTTPIds, id)
  BY <1>1 DEF Claims
<1> QED BY <1>2, <1>3 DEF At

LEMMA NonHTTPLeadsHome ==
  ASSUME AdmissionInv, NEW d \in Range(definitions), NEW id \in NonHTTPIds(d)
  PROVE  At(byNonHTTP, id) = {d.key}
<1>1. d.key \in DOMAIN definitions /\ definitions[d.key] = d
  BY DefinitionsAreCanonical
<1>2. id \in DOMAIN byNonHTTP /\ Claims(NonHTTPIds, id) = {byNonHTTP[id]}
  BY DEF AdmissionInv, Agrees
<1>3. d.key \in Claims(NonHTTPIds, id)
  BY <1>1 DEF Claims
<1> QED BY <1>2, <1>3 DEF At

LEMMA InvIndexesAgree == AdmissionInv => IndexesAgree
<1> SUFFICES ASSUME AdmissionInv PROVE IndexesAgree
  OBVIOUS
<1>1. Agrees(byHTTP, HTTPIds) /\ Agrees(byNonHTTP, NonHTTPIds)
  BY DEF AdmissionInv
<1>2. ASSUME NEW id \in DOMAIN permissionOwners
      PROVE  \E k \in DOMAIN definitions : \E p \in definitions[k].permission :
                /\ Claims(PermissionIds, id) = {k}
                /\ id = p.key /\ permissionOwners[id] = p.owner
  <2>1. id \in DOMAIN definitions /\ definitions[id].permission # {}
        /\ permissionOwners[id] = definitions[id].owner
    BY DEF AdmissionInv, PermissionsOwned
  <2>2. PICK p \in definitions[id].permission : TRUE
    BY <2>1
  <2>3. id = p.key /\ permissionOwners[id] = p.owner
    BY <2>1, <2>2 DEF AdmissionInv, PermissionsOwned
  <2>4. \A k \in DOMAIN definitions : id \in PermissionIds(definitions[k]) => k = id
    BY DEF AdmissionInv, PermissionsOwned, PermissionIds
  <2>5. id \in PermissionIds(definitions[id])
    BY <2>2, <2>3 DEF PermissionIds
  <2>6. Claims(PermissionIds, id) = {id}
    BY <2>1, <2>4, <2>5 DEF Claims
  <2> QED BY <2>1, <2>2, <2>3, <2>6
<1>3. ASSUME frozen, NEW d \in Range(definitions), d.status # "retired"
      PROVE  /\ ResolveDefinition(d.key) = {d}
             /\ \A id \in NonHTTPIds(d) : ResolveNonHTTP(id[1], id[2]) = {d}
  <2>1. Canonical(d) /\ Live({d.key}) = {d}
    BY <1>3, DefinitionsAreCanonical, LiveKey
  <2>2. ResolveDefinition(d.key) = {d}
    BY <2>1 DEF ResolveDefinition, Canonical
  <2>3. ASSUME NEW id \in NonHTTPIds(d) PROVE ResolveNonHTTP(id[1], id[2]) = {d}
    <3>1. id = <<id[1], id[2]>> /\ Trim(id[1]) = id[1] /\ Trim(id[2]) = id[2]
      BY <1>3, <2>1, <2>3 DEF Canonical, NonHTTPIds
    <3>2. At(byNonHTTP, id) = {d.key}
      BY <1>3, <2>3, NonHTTPLeadsHome
    <3> QED BY <2>1, <3>1, <3>2 DEF ResolveNonHTTP
  <2> QED BY <2>2, <2>3
<1> QED BY <1>1, <1>2, <1>3 DEF IndexesAgree

\* However modules are admitted, refused and retried before the registry is
\* frozen, its indexes hold every binding of every registered action under that
\* action alone, each permission has one owner, and a frozen registry resolves
\* every live action (registry.go:39, :177-225).
THEOREM IndexesStayConsistent == Spec => []IndexesAgree
BY AdmissionInvariance, InvIndexesAgree, PTL

LEMMA InvRoutesResolve == AdmissionInv => MountedRoutesResolve
<1> SUFFICES ASSUME AdmissionInv, frozen
             PROVE  /\ \A r \in Mounted : RouteAt(r).status # "retired" =>
                         \A h \in RouteAt(r).http :
                            LET id == definitionHTTPIdentity(RouteAt(r), h)
                            IN  ResolveHTTP(id[1], id[2]) = {RouteAt(r)}
                    /\ \A d \in Range(definitions) : d.status # "retired" /\ d.http # {} =>
                         Cardinality({r \in Mounted : RouteAt(r) = d}) = 1
  BY DEF MountedRoutesResolve
<1>1. ASSUME NEW r \in Mounted
      PROVE  \E m \in admitted : \E q \in Routes(m.adapters) :
                r = <<m, q>> /\ RouteAt(r) = ActionAt(m.adapters, q)
  BY DEF Mounted, RouteAt
<1>2. ASSUME NEW m \in admitted, NEW q \in Routes(m.adapters)
      PROVE  \E i \in DOMAIN m.manifest : ActionAt(m.adapters, q) = Normalized(m.manifest)[i]
  <2>1. ActionAt(m.adapters, q) \in AdapterActions(m.adapters)
    BY DEF AdapterActions
  <2>2. AdapterActions(m.adapters) \subseteq Range(Normalized(m.manifest))
    BY DEF AdmissionInv, ManifestsRegistered, ValidateAuthorizationProjection
  <2>3. DOMAIN Normalized(m.manifest) = DOMAIN m.manifest
    BY DEF Normalized, Each
  <2> QED BY <2>1, <2>2, <2>3 DEF Range
<1>3. ASSUME NEW m \in admitted, NEW i \in DOMAIN m.manifest
      PROVE  Normalized(m.manifest)[i] \in Range(definitions)
  BY DEF AdmissionInv, ManifestsRegistered, Range
<1>4. ASSUME NEW r \in Mounted, RouteAt(r).status # "retired", NEW h \in RouteAt(r).http
      PROVE  LET id == definitionHTTPIdentity(RouteAt(r), h)
             IN  ResolveHTTP(id[1], id[2]) = {RouteAt(r)}
  <2> DEFINE d == RouteAt(r)
             id == definitionHTTPIdentity(d, h)
  <2>1. d \in Range(definitions)
    BY <1>1, <1>2, <1>3
  <2>2. Canonical(d) /\ Live({d.key}) = {d}
    BY <1>4, <2>1, DefinitionsAreCanonical, LiveKey
  <2>3. id \in HTTPIds(d)
    BY <1>4 DEF HTTPIds
  <2>4. id = <<id[1], id[2]>> /\ Upper(id[1]) = id[1] /\ Trim(id[2]) = id[2]
    BY <1>4, <2>2 DEF Canonical, definitionHTTPIdentity
  <2>5. At(byHTTP, id) = {d.key}
    BY <2>1, <2>3, HTTPLeadsHome
  <2> HIDE DEF d, id
  <2>6. ResolveHTTP(id[1], id[2]) = {d}
    BY <2>2, <2>4, <2>5 DEF ResolveHTTP
  <2> QED BY <2>6 DEF d, id
<1>5. ASSUME NEW d \in Range(definitions), d.status # "retired", d.http # {}
      PROVE  Cardinality({r \in Mounted : RouteAt(r) = d}) = 1
  <2>1. PICK m \in admitted : d \in Range(Normalized(m.manifest))
    BY DEF AdmissionInv, ManifestsRegistered, Range
  <2>2. d \in AdapterActions(m.adapters)
    BY <1>5, <2>1 DEF AdmissionInv, ManifestsRegistered, ValidateAuthorizationProjection
  <2>3. PICK q \in Routes(m.adapters) : d = ActionAt(m.adapters, q)
    BY <2>2 DEF AdapterActions
  <2>4. <<m, q>> \in Mounted /\ RouteAt(<<m, q>>) = d
    BY <2>1, <2>3 DEF Mounted, RouteAt
  <2>5. ASSUME NEW r \in Mounted, RouteAt(r) = d PROVE r = <<m, q>>
    <3>0. PICK p \in admitted : \E t \in Routes(p.adapters) :
            r = <<p, t>> /\ ActionAt(p.adapters, t) = d
      BY <1>1, <2>5
    <3>1. PICK t \in Routes(p.adapters) : r = <<p, t>> /\ ActionAt(p.adapters, t) = d
      BY <3>0
    <3>2. PICK i \in DOMAIN p.manifest : d = Normalized(p.manifest)[i]
      BY <1>2, <3>1
    <3>3. PICK j \in DOMAIN m.manifest : d = Normalized(m.manifest)[j]
      BY <1>2, <2>3
    <3>4. p = m
      BY <3>2, <3>3 DEF AdmissionInv, ManifestsApart
    <3>5. AuthorizationActionsOK(m.adapters)
      BY DEF AdmissionInv, ManifestsRegistered, ValidateAuthorizationProjection
    <3>6. t = q
      BY <2>3, <3>1, <3>4, <3>5 DEF AuthorizationActionsOK
    <3> QED BY <3>1, <3>4, <3>6
  <2>6. {r \in Mounted : RouteAt(r) = d} = {<<m, q>>}
    BY <2>4, <2>5
  <2> QED BY <2>6, FS_Singleton
<1> QED BY <1>4, <1>5

\* What is mounted is what the registry authorises: every live route of an
\* admitted module resolves to its own action, and every live HTTP action is
\* mounted exactly once (ValidateAuthorizationProjection, adapter.go:125).
THEOREM RoutesResolve == Spec => []MountedRoutesResolve
BY AdmissionInvariance, InvRoutesResolve, PTL

-----------------------------------------------------------------------------
(* Usage queries.                                                          *)

\* A frozen registry has a revision and the usages of its definitions, which
\* no batch changes any more.
FrozenAnswers ==
    frozen =>
      /\ revision # {}
      /\ DOMAIN usages = UNION {permissionIdentities(d) : d \in Range(definitions)}
      /\ \A id \in DOMAIN usages :
           usages[id] \in Range(definitions) /\ id \in permissionIdentities(usages[id])

LEMMA FrozenStep ==
  ASSUME FrozenAnswers, [Next]_vars
  PROVE  FrozenAnswers'
<1>1. ASSUME UNCHANGED registryVars PROVE FrozenAnswers'
  BY <1>1 DEF registryVars, FrozenAnswers
<1>2. ASSUME NEW m \in Modules, Admit(m) PROVE FrozenAnswers'
  <2>1. CASE Checked(m) /\ Accepts(Normalized(m.manifest))
    <3>1. ~frozen /\ frozen' = frozen
      BY <1>2, <2>1 DEF Admit, Register, Accepts, Commit
    <3> QED BY <3>1 DEF FrozenAnswers
  <2>2. CASE ~(Checked(m) /\ Accepts(Normalized(m.manifest)))
    BY <1>1, <1>2, <2>2 DEF Admit, Register, vars
  <2> QED BY <2>1, <2>2
<1>3. CASE FreezeRegistry
  <2> DEFINE ids == UNION {permissionIdentities(d) : d \in Range(definitions)}
             user(id) == CHOOSE d \in Range(definitions) : id \in permissionIdentities(d)
  <2>1. /\ usages' = [id \in ids |-> user(id)]
        /\ revision' = {Range(definitions)} /\ definitions' = definitions
    BY <1>3 DEF FreezeRegistry, Freeze
  <2>2. ASSUME NEW id \in ids
        PROVE  user(id) \in Range(definitions) /\ id \in permissionIdentities(user(id))
    <3>1. \E d \in Range(definitions) : id \in permissionIdentities(d)
      OBVIOUS
    <3> QED BY <3>1
  <2> HIDE DEF user
  <2>3. DOMAIN usages' = ids /\ \A id \in ids : usages'[id] = user(id)
    BY <2>1
  <2>4. /\ revision' # {}
        /\ DOMAIN usages' = UNION {permissionIdentities(d) : d \in Range(definitions')}
        /\ \A id \in DOMAIN usages' :
             usages'[id] \in Range(definitions') /\ id \in permissionIdentities(usages'[id])
    BY <2>1, <2>2, <2>3
  <2> QED BY <2>4 DEF FrozenAnswers, permissionIdentities, Range
<1>4. CASE UNCHANGED vars
  BY <1>1, <1>4 DEF vars
<1> QED BY <1>2, <1>3, <1>4 DEF Next

\* A registered definition passes the client's checks, after the client's own
\* normalising too.
LEMMA DefinitionsPass ==
  ASSUME AdmissionInv, NEW d \in Range(definitions)
  PROVE  NormalizeDefinitionOK(d)
<1>1. PICK k \in DOMAIN definitions : d = definitions[k]
  BY DEF Range
<1>2. PICK m \in admitted : definitions[k] \in Range(Normalized(m.manifest))
  BY DEF AdmissionInv, ManifestsRegistered
<1>3. m \in Modules /\ ValidateAuthorizationProjection(m.manifest, m.adapters)
  BY DEF AdmissionInv, ManifestsRegistered
<1>4. PICK i \in DOMAIN m.manifest : d = normalizeDefinition(m.manifest[i])
  BY <1>1, <1>2 DEF Normalized, Each, Range
<1>5. validateDefinition(normalizeDefinition(m.manifest[i]))
  BY <1>3 DEF ValidateAuthorizationProjection, Normalized, Each
<1>6. IsDefinition(m.manifest[i])
  BY <1>3, ModuleAssumption DEF Range
<1> QED BY <1>4, <1>5, <1>6, NormalizedTwice

\* The usage of a permission is the one action it belongs to.
LEMMA UsageIsItsAction ==
  ASSUME AdmissionInv, FrozenAnswers, frozen, NEW owner, NEW key
  PROVE  /\ <<owner, key>> \in DOMAIN usages
               <=> /\ key \in DOMAIN definitions
                   /\ definitions[key].owner = owner
                   /\ definitions[key].permission # {}
         /\ <<owner, key>> \in DOMAIN usages => usages[<<owner, key>>] = definitions[key]
<1>0. \A k \in DOMAIN definitions : \A p \in definitions[k].permission :
        p.key = k /\ p.owner = definitions[k].owner
  BY DEF AdmissionInv, PermissionsOwned
<1>1. ASSUME NEW d \in Range(definitions), <<owner, key>> \in permissionIdentities(d)
      PROVE  /\ key \in DOMAIN definitions /\ d = definitions[key]
             /\ d.owner = owner /\ d.permission # {}
  <2>1. PICK k \in DOMAIN definitions : d = definitions[k]
    BY DEF Range
  <2>2. PICK p \in d.permission : p.owner = owner /\ p.key = key
    BY <1>1 DEF permissionIdentities
  <2> QED BY <1>0, <2>1, <2>2
<1>2. ASSUME key \in DOMAIN definitions, definitions[key].owner = owner,
             definitions[key].permission # {}
      PROVE  <<owner, key>> \in DOMAIN usages
  <2>1. definitions[key] \in Range(definitions)
    BY <1>2 DEF Range
  <2>2. <<owner, key>> \in permissionIdentities(definitions[key])
    BY <1>0, <1>2 DEF permissionIdentities
  <2> QED BY <2>1, <2>2 DEF FrozenAnswers
<1>3. ASSUME <<owner, key>> \in DOMAIN usages
      PROVE  /\ key \in DOMAIN definitions /\ usages[<<owner, key>>] = definitions[key]
             /\ definitions[key].owner = owner /\ definitions[key].permission # {}
  BY <1>1, <1>3 DEF FrozenAnswers
<1> QED BY <1>2, <1>3

\* What the answer for one owner holds: the actions of that owner whose
\* permission was asked for, each once.
Answered(owner, keys) ==
    {d \in Range(definitions) : d.owner = owner /\ PermissionIds(d) \cap Range(keys) # {}}

\* The lookups of one owner's keys that find an entry, and what they find.
Lookups(owner, keys, hits, used) ==
  /\ \A n : n \in hits <=> n \in DOMAIN keys /\ <<owner, keys[n]>> \in DOMAIN usages
  /\ \A n \in hits : used[n] = usages[<<owner, keys[n]>>]

\* What they find is the answer, with every action in it once.
FindTheAnswer(owner, keys, hits, used) ==
  /\ {used[n] : n \in hits} = Answered(owner, keys)
  /\ \A d \in Answered(owner, keys) :
       /\ Cardinality({n \in hits : used[n] = d}) = 1
       /\ d.permission # {}
       /\ \A p \in d.permission :
            p.owner = owner /\ \E n \in DOMAIN keys : keys[n] = p.key
  /\ hits # {} => \E k \in DOMAIN permissionOwners : permissionOwners[k] = owner

LEMMA AnswerForOwner ==
  ASSUME AdmissionInv, FrozenAnswers, frozen, NEW owner, NEW keys,
         \A n, j \in DOMAIN keys : keys[j] = keys[n] => j = n,
         NEW hits, NEW used, Lookups(owner, keys, hits, used)
  PROVE  FindTheAnswer(owner, keys, hits, used)
<1>0. /\ \A k \in DOMAIN definitions :
           /\ definitions[k].key = k
           /\ \A p \in definitions[k].permission :
                p.key = k /\ p.owner = definitions[k].owner
      /\ DOMAIN permissionOwners = {k \in DOMAIN definitions : definitions[k].permission # {}}
      /\ \A k \in DOMAIN permissionOwners : permissionOwners[k] = definitions[k].owner
  BY DEF AdmissionInv, PermissionsOwned, KeysAgree
<1>1. ASSUME NEW n \in hits
      PROVE  /\ n \in DOMAIN keys /\ keys[n] \in DOMAIN definitions
             /\ used[n] = definitions[keys[n]]
             /\ used[n].owner = owner /\ used[n].permission # {}
  <2>1. /\ n \in DOMAIN keys /\ <<owner, keys[n]>> \in DOMAIN usages
        /\ used[n] = usages[<<owner, keys[n]>>]
    BY Zenon DEF Lookups
  <2>2. PICK key : key = keys[n]
    OBVIOUS
  <2>3. /\ key \in DOMAIN definitions /\ usages[<<owner, key>>] = definitions[key]
        /\ definitions[key].owner = owner /\ definitions[key].permission # {}
    BY <2>1, <2>2, UsageIsItsAction
  <2> QED BY <2>1, <2>2, <2>3
<1>2. ASSUME NEW n \in hits PROVE used[n] \in Answered(owner, keys)
  <2>1. /\ n \in DOMAIN keys /\ keys[n] \in DOMAIN definitions
        /\ used[n] = definitions[keys[n]]
        /\ used[n].owner = owner /\ used[n].permission # {}
    BY <1>1
  <2>2. PICK p \in used[n].permission : p.key = keys[n]
    BY <1>0, <2>1
  <2> QED BY <2>1, <2>2 DEF Answered, PermissionIds, Range
<1>3. ASSUME NEW d \in Answered(owner, keys)
      PROVE  \E n \in hits : d = used[n] /\ d.key = keys[n]
  <2>1. PICK k \in DOMAIN definitions : d = definitions[k]
    BY DEF Answered, Range
  <2>2. PICK p \in d.permission, n \in DOMAIN keys : p.key = keys[n]
    BY DEF Answered, PermissionIds, Range
  <2>3. keys[n] = k /\ d.owner = owner
    BY <1>0, <2>1, <2>2 DEF Answered
  <2>4. <<owner, k>> \in DOMAIN usages
    BY <2>1, <2>2, <2>3, UsageIsItsAction
  <2>5. n \in hits
    BY <2>2, <2>3, <2>4 DEF Lookups
  <2> QED BY <1>0, <1>1, <2>1, <2>3, <2>5
<1>4. {used[n] : n \in hits} = Answered(owner, keys)
  <2>1. \A d \in {used[n] : n \in hits} : d \in Answered(owner, keys)
    BY <1>2, Zenon
  <2>2. \A d \in Answered(owner, keys) : d \in {used[n] : n \in hits}
    BY <1>3, Zenon
  <2> QED BY <2>1, <2>2, Zenon
<1>5. ASSUME NEW d \in Answered(owner, keys)
      PROVE  /\ Cardinality({n \in hits : used[n] = d}) = 1
             /\ d.permission # {}
             /\ \A p \in d.permission :
                  p.owner = owner /\ \E n \in DOMAIN keys : keys[n] = p.key
  <2>1. PICK n \in hits : d = used[n] /\ d.key = keys[n]
    BY <1>3
  <2>2. \A j \in hits : used[j] = d => j = n
    <3>1. ASSUME NEW j \in hits, used[j] = d PROVE j = n
      <4>1. /\ j \in DOMAIN keys /\ keys[j] \in DOMAIN definitions
            /\ used[j] = definitions[keys[j]]
        BY <1>1
      <4>2. keys[j] = keys[n]
        BY <1>0, <2>1, <3>1, <4>1
      <4> QED BY <1>1, <2>1, <4>1, <4>2
    <3> QED BY <3>1
  <2>3. {j \in hits : used[j] = d} = {n}
    BY <2>1, <2>2
  <2>4. Cardinality({n}) = 1
    BY FS_Singleton, Zenon
  <2>5. /\ n \in DOMAIN keys /\ keys[n] \in DOMAIN definitions
        /\ d = definitions[keys[n]] /\ d.owner = owner /\ d.permission # {}
    BY <1>1, <2>1
  <2>6. \A p \in d.permission : p.owner = owner /\ p.key = keys[n]
    BY <1>0, <2>5
  <2> QED BY <2>3, <2>4, <2>5, <2>6
<1>6. ASSUME hits # {} PROVE \E k \in DOMAIN permissionOwners : permissionOwners[k] = owner
  <2>1. PICK n \in hits : TRUE
    BY <1>6
  <2> QED BY <1>0, <1>1, <2>1
<1> QED BY <1>4, <1>5, <1>6, Zenon DEF FindTheAnswer

\* The requests of clients: texts are trimmed, and the keys that remain of an
\* owner are distinct when the request is valid.
LEMMA RequestShape ==
  ASSUME NEW queries \in Requests, NEW request,
         request = NewPermissionUsageRequest(queries), RequestValid(request)
  PROVE  /\ request \in Seq(Range(request))
         /\ \A i \in DOMAIN request :
              /\ Trim(request[i].owner) = request[i].owner
              /\ \A n \in DOMAIN request[i].keys : Trim(request[i].keys[n]) = request[i].keys[n]
              /\ \A n, j \in DOMAIN request[i].keys :
                   request[i].keys[j] = request[i].keys[n] => j = n
              /\ \A j \in 1..(i - 1) : request[j].owner # request[i].owner
<1>1. PICK n \in Nat : DOMAIN queries = 1..n
  BY QueryAssumption DEF IsText
<1>2. DOMAIN request = 1..n /\ request = [i \in 1..n |-> request[i]]
  BY <1>1 DEF NewPermissionUsageRequest
<1>3. request \in Seq(Range(request))
  BY <1>2 DEF Range
<1>4. ASSUME NEW i \in DOMAIN request
      PROVE  /\ Trim(request[i].owner) = request[i].owner
             /\ \A j \in DOMAIN request[i].keys : Trim(request[i].keys[j]) = request[i].keys[j]
  <2>1. /\ queries[i] \in Range(queries)
        /\ request[i].owner = Trim(queries[i].owner)
        /\ DOMAIN request[i].keys \subseteq DOMAIN queries[i].keys
        /\ \A j \in DOMAIN request[i].keys : request[i].keys[j] = Trim(queries[i].keys[j])
    BY <1>1, <1>2 DEF NewPermissionUsageRequest, Range
  <2>2. /\ IsText(queries[i].owner)
        /\ \A j \in DOMAIN queries[i].keys : IsText(queries[i].keys[j])
    BY <2>1, QueryAssumption
  <2>3. Trim(Trim(queries[i].owner)) = Trim(queries[i].owner)
    BY <2>2, TrimIdempotent DEF IsText
  <2>4. \A j \in DOMAIN queries[i].keys :
          Trim(Trim(queries[i].keys[j])) = Trim(queries[i].keys[j])
    BY <2>2, TrimIdempotent DEF IsText
  <2> QED BY <2>1, <2>3, <2>4
<1>5. ASSUME NEW i \in DOMAIN request
      PROVE  /\ \A j, l \in DOMAIN request[i].keys :
                   request[i].keys[j] = request[i].keys[l] => j = l
             /\ \A j \in 1..(i - 1) : request[j].owner # request[i].owner
  <2>1. /\ \A j \in 1..(i - 1) : Trim(request[j].owner) # Trim(request[i].owner)
        /\ \A l \in DOMAIN request[i].keys : \A j \in DOMAIN request[i].keys \ {l} :
             Trim(request[i].keys[j]) # Trim(request[i].keys[l])
    BY DEF RequestValid
  <2>2. \A j \in 1..(i - 1) : j \in DOMAIN request
    BY <1>2
  <2> QED BY <1>4, <2>1, <2>2
<1> QED BY <1>3, <1>4, <1>5

\* The answer of a frozen registry for one owner.
LEMMA SnapshotIsRight ==
  ASSUME AdmissionInv, FrozenAnswers, frozen, NEW q, Trim(q.owner) = q.owner,
         \A n \in DOMAIN q.keys : Trim(q.keys[n]) = q.keys[n],
         \A n, j \in DOMAIN q.keys : q.keys[j] = q.keys[n] => j = n,
         NEW s, s = SnapshotFor(q)
  PROVE  /\ s.owner = q.owner
         /\ ~s.available => s.usages = EmptyBag
         /\ BagToSet(s.usages) = Answered(q.owner, q.keys)
         /\ ~Repeats(s.usages)
         /\ \A d \in Answered(q.owner, q.keys) :
              /\ d.owner = q.owner /\ d.permission # {}
              /\ \A p \in d.permission :
                   p.owner = q.owner /\ \E n \in DOMAIN q.keys : q.keys[n] = p.key
<1> DEFINE owner == Trim(q.owner)
           id(n) == <<owner, Trim(q.keys[n])>>
           hits == {n \in DOMAIN q.keys : id(n) \in DOMAIN usages}
           used == [n \in hits |-> usages[id(n)]]
           available == \E k \in DOMAIN permissionOwners : permissionOwners[k] = owner
           counted == [d \in {usages[id(n)] : n \in hits} |->
                         Cardinality({n \in hits : usages[id(n)] = d})]
<1>1. s.owner = owner /\ s.available = available
  BY DEF SnapshotFor
<1>2. s.usages = IF ~available THEN EmptyBag ELSE counted
  BY DEF SnapshotFor
<1>3. /\ {usages[id(n)] : n \in hits} = {used[n] : n \in hits}
      /\ \A d : {n \in hits : usages[id(n)] = d} = {n \in hits : used[n] = d}
  <2>1. \A n \in hits : used[n] = usages[id(n)]
    OBVIOUS
  <2> HIDE DEF used, hits, id
  <2> QED BY <2>1
<1>4. /\ \A n : n \in hits <=> n \in DOMAIN q.keys /\ <<q.owner, q.keys[n]>> \in DOMAIN usages
      /\ \A n \in hits : used[n] = usages[<<q.owner, q.keys[n]>>]
  OBVIOUS
<1>5. DOMAIN counted = {usages[id(n)] : n \in hits}
      /\ \A d \in DOMAIN counted : counted[d] = Cardinality({n \in hits : usages[id(n)] = d})
  <2> HIDE DEF hits, id
  <2> QED OBVIOUS
<1>6. owner = q.owner
  OBVIOUS
<1> HIDE DEF used, hits, counted, id
<1>7. FindTheAnswer(q.owner, q.keys, hits, used)
  <2>1. Lookups(q.owner, q.keys, hits, used)
    BY <1>4, Zenon DEF Lookups
  <2> QED BY <2>1, AnswerForOwner
<1>0. hits # {} => available
  BY <1>6, <1>7, Zenon DEF FindTheAnswer
<1>8. /\ {used[n] : n \in hits} = Answered(q.owner, q.keys)
      /\ \A d \in Answered(q.owner, q.keys) :
           /\ Cardinality({n \in hits : used[n] = d}) = 1
           /\ d.permission # {}
           /\ \A p \in d.permission :
                p.owner = q.owner /\ \E n \in DOMAIN q.keys : q.keys[n] = p.key
  BY <1>7, Zenon DEF FindTheAnswer
<1> HIDE DEF available, owner
<1>9. \A d \in Answered(q.owner, q.keys) : d.owner = q.owner
  BY DEF Answered
<1>10. CASE available
  <2>0. s.usages = counted
    BY <1>2, <1>10
  <2>1. DOMAIN s.usages = Answered(q.owner, q.keys)
    BY <1>3, <1>5, <1>8, <2>0, Zenon
  <2>2. ASSUME NEW d \in Answered(q.owner, q.keys) PROVE s.usages[d] = 1
    <3>1. d \in DOMAIN counted
      BY <2>0, <2>1, Zenon
    <3>2. counted[d] = Cardinality({n \in hits : usages[id(n)] = d})
      BY <1>5, <3>1, Zenon
    <3>3. {n \in hits : usages[id(n)] = d} = {n \in hits : used[n] = d}
      BY <1>3, Zenon
    <3>4. Cardinality({n \in hits : used[n] = d}) = 1
      BY <1>8, Zenon
    <3> QED BY <2>0, <3>2, <3>3, <3>4, Zenon
  <2>3. ~Repeats(s.usages) /\ BagToSet(s.usages) = Answered(q.owner, q.keys)
    BY <2>1, <2>2 DEF Repeats, BagToSet
  <2> QED BY <1>1, <1>6, <1>8, <1>9, <1>10, <2>3
<1>11. CASE ~available
  <2>1. s.usages = EmptyBag
    BY <1>2, <1>11
  <2>2. Answered(q.owner, q.keys) = {}
    BY <1>0, <1>8, <1>11
  <2>3. ~Repeats(s.usages) /\ BagToSet(s.usages) = {}
    BY <2>1 DEF EmptyBag, SetToBag, BagToSet, Repeats
  <2> QED BY <1>1, <1>6, <2>1, <2>2, <2>3
<1> QED BY <1>10, <1>11

\* A frozen registry's answer, owner by owner.
LEMMA InvUsageAnswers == AdmissionInv /\ FrozenAnswers => UsageAnswersValidate
<1> SUFFICES ASSUME AdmissionInv, FrozenAnswers, frozen, NEW queries \in Requests,
                    RequestValid(NewPermissionUsageRequest(queries))
             PROVE  LET request == NewPermissionUsageRequest(queries)
                        answer  == QueryPermissionUsages(request)
                    IN  /\ ValidateFor(answer, request)
                        /\ \A i \in DOMAIN request :
                             BagToSet(answer.owners[i].usages) =
                               {d \in Range(definitions) :
                                  /\ d.owner = request[i].owner
                                  /\ PermissionIds(d) \cap Range(request[i].keys) # {}}
  BY DEF UsageAnswersValidate
<1> DEFINE request == NewPermissionUsageRequest(queries)
           answer  == QueryPermissionUsages(request)
<1>1. /\ request \in Seq(Range(request))
      /\ \A i \in DOMAIN request :
           /\ Trim(request[i].owner) = request[i].owner
           /\ \A n \in DOMAIN request[i].keys : Trim(request[i].keys[n]) = request[i].keys[n]
           /\ \A n, j \in DOMAIN request[i].keys :
                request[i].keys[j] = request[i].keys[n] => j = n
           /\ \A j \in 1..(i - 1) : request[j].owner # request[i].owner
  BY RequestShape
<1>2. RequestValid(request)
  OBVIOUS
<1> HIDE DEF request
<1>3. /\ answer.revision = revision
      /\ answer.owners = [i \in DOMAIN request |-> SnapshotFor(request[i])]
  BY DEF QueryPermissionUsages
<1> HIDE DEF answer
<1>4. /\ DOMAIN request = 1..Len(request) /\ Len(request) \in Nat
      /\ DOMAIN answer.owners = DOMAIN request
      /\ \A i \in DOMAIN request : answer.owners[i] = SnapshotFor(request[i])
  BY <1>1, <1>3
<1>5. Len(answer.owners) = Len(request)
  BY <1>3, <1>4
<1>6. ASSUME NEW i \in DOMAIN request
      PROVE  /\ answer.owners[i].owner = request[i].owner
             /\ ~answer.owners[i].available => answer.owners[i].usages = EmptyBag
             /\ BagToSet(answer.owners[i].usages) = Answered(request[i].owner, request[i].keys)
             /\ ~Repeats(answer.owners[i].usages)
             /\ \A d \in Answered(request[i].owner, request[i].keys) :
                  /\ d.owner = request[i].owner /\ d.permission # {}
                  /\ \A p \in d.permission :
                       /\ p.owner = request[i].owner
                       /\ \E n \in DOMAIN request[i].keys : request[i].keys[n] = p.key
  <2>1. answer.owners[i] = SnapshotFor(request[i])
    BY <1>4
  <2>2. /\ Trim(request[i].owner) = request[i].owner
        /\ \A n \in DOMAIN request[i].keys : Trim(request[i].keys[n]) = request[i].keys[n]
        /\ \A n, j \in DOMAIN request[i].keys :
             request[i].keys[j] = request[i].keys[n] => j = n
    BY <1>1
  <2> QED BY <2>1, <2>2, SnapshotIsRight
<1>7. ASSUME NEW i \in DOMAIN request
      PROVE  LET o == answer.owners[i]
                 asked == {q \in Range(request) : Trim(q.owner) = o.owner}
             IN /\ asked # {}
                /\ \A j \in 1..(i - 1) : answer.owners[j].owner # o.owner
                /\ ~o.available => o.usages = EmptyBag
                /\ ~Repeats(o.usages)
                /\ \A d \in BagToSet(o.usages) :
                     /\ d.owner = o.owner
                     /\ \A e \in BagToSet(o.usages) : e.key = d.key => e = d
                     /\ d.permission # {}
                     /\ \A p \in d.permission :
                          /\ p.owner = o.owner
                          /\ \E q \in asked : \E n \in DOMAIN q.keys : Trim(q.keys[n]) = p.key
                     /\ NormalizeDefinitionOK(d)
  <2> DEFINE o == answer.owners[i]
             asked == {q \in Range(request) : Trim(q.owner) = o.owner}
  <2>1. request[i] \in asked
    BY <1>1, <1>6 DEF Range
  <2>2. \A j \in 1..(i - 1) : answer.owners[j].owner # o.owner
    <3>1. \A j \in 1..(i - 1) : j \in DOMAIN request
      BY <1>4
    <3> QED BY <1>1, <1>6, <3>1
  <2>3. ASSUME NEW d \in BagToSet(o.usages)
        PROVE  /\ d.owner = o.owner
               /\ \A e \in BagToSet(o.usages) : e.key = d.key => e = d
               /\ d.permission # {}
               /\ \A p \in d.permission :
                    /\ p.owner = o.owner
                    /\ \E q \in asked : \E n \in DOMAIN q.keys : Trim(q.keys[n]) = p.key
               /\ NormalizeDefinitionOK(d)
    <3>1. d \in Answered(request[i].owner, request[i].keys)
      BY <1>6
    <3>2. NormalizeDefinitionOK(d)
      BY <3>1, DefinitionsPass DEF Answered
    <3>3. d.owner = o.owner /\ d.permission # {}
      BY <1>6, <3>1
    <3>4. ASSUME NEW p \in d.permission
          PROVE  /\ p.owner = o.owner
                 /\ \E q \in asked : \E n \in DOMAIN q.keys : Trim(q.keys[n]) = p.key
      <4>1. PICK n \in DOMAIN request[i].keys : request[i].keys[n] = p.key
        BY <1>6, <3>1
      <4>2. Trim(request[i].keys[n]) = p.key
        BY <1>1, <4>1
      <4>3. p.owner = o.owner
        BY <1>6, <3>1
      <4> HIDE DEF asked, o
      <4> QED BY <2>1, <4>2, <4>3
    <3>5. ASSUME NEW e \in BagToSet(o.usages), e.key = d.key PROVE e = d
      <4>1. e \in Range(definitions) /\ d \in Range(definitions)
        BY <1>6, <3>1 DEF Answered
      <4>2. definitions[e.key] = e /\ definitions[d.key] = d
        BY <4>1, DefinitionsAreCanonical
      <4> QED BY <3>5, <4>2
    <3> QED BY <3>2, <3>3, <3>4, <3>5
  <2> HIDE DEF o, asked
  <2>4. (~o.available => o.usages = EmptyBag) /\ ~Repeats(o.usages)
    BY <1>6 DEF o
  <2> QED BY <2>1, <2>2, <2>3, <2>4 DEF o, asked
<1>8. answer.revision # {}
  BY <1>3 DEF FrozenAnswers
<1>9. ValidateFor(answer, request)
  BY <1>2, <1>4, <1>5, <1>7, <1>8 DEF ValidateFor
<1>10. \A i \in DOMAIN request :
         BagToSet(answer.owners[i].usages) =
           {d \in Range(definitions) :
              /\ d.owner = request[i].owner
              /\ PermissionIds(d) \cap Range(request[i].keys) # {}}
  BY <1>6 DEF Answered
<1> QED BY <1>9, <1>10 DEF request, answer

\* Whatever modules were admitted before the freeze, and whatever a client
\* asks, the answer to a valid usage request passes the client's validation,
\* which normalizes and validates every action of it a second time, and holds
\* the actions asked for and no other (usage.go:86 and :139).
THEOREM UsageAnswersAreValid == Spec => []UsageAnswersValidate
<1>1. Init => FrozenAnswers
  BY DEF Init, RegistryInit, FrozenAnswers
<1>2. FrozenAnswers /\ [Next]_vars => FrozenAnswers'
  BY FrozenStep
<1> QED BY <1>1, <1>2, AdmissionInvariance, InvUsageAnswers, PTL DEF Spec
=============================================================================
