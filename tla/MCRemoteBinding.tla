-------------------------- MODULE MCRemoteBinding ---------------------------
(***************************************************************************)
(* One module in two versions, one of them smaller, another module, drafts *)
(* that NewStaticBinding must refuse, and hand-written services that serve *)
(* other documents under the first version's digest, or its own documents  *)
(* under any key.                                                          *)
(***************************************************************************)
EXTENDS RemoteBinding

Extension == [complete |-> TRUE, effect |-> "read", strategy |-> "authenticated",
              permission |-> 1, policy |-> 0, audiences |-> EmptyBag, scoped |-> TRUE]
Operation(path, id, refs) ==
    [path |-> path, pathOK |-> TRUE, method |-> "get", id |-> id, responses |-> TRUE,
     extension |-> Extension, refs |-> refs]
Contract == [kind |-> 1, complete |-> TRUE, coverage |-> "explicit",
             candidates |-> <<1, 2>>, referenced |-> <<3>>]
Projection(kind, key) == [kind |-> kind, key |-> key]
\* The module's own components: 1 and 3 refer to 2, which refers to itself.
\* An author publishes those that the operations need, none on an error.
Source == [c \in 1..3 |-> [part \in 1..1 |-> {<<2, 0>>}]]
Collected(refs) ==
    IF ReferencedComponentsOK(refs, Source) THEN ReferencedComponents(refs, Source)
    ELSE <<>>
Document(key, ops, projections, contracts) ==
    [module |-> 0, digest |-> NoDigest, complete |-> FALSE,
     category |-> [key |-> key, complete |-> TRUE, operations |-> Len(ops),
                   projections |-> 0, chains |-> SetToBag({1}),
                   scopes |-> [i \in DOMAIN contracts |-> contracts[i].kind]],
     operations |-> ops, projections |-> projections, contracts |-> contracts,
     components |-> Collected(UNION {o.refs : o \in Range(ops)})]
Composition == [provided |-> SetToBag({1}), chains |-> SetToBag({1}),
                scopes |-> SetToBag({1}), required |-> SetToBag({2}),
                optional |-> EmptyBag, conflicting |-> SetToBag({3})]
Draft(key, documents) ==
    [summary |-> [identity |-> [key |-> key, digest |-> NoDigest], complete |-> TRUE,
                  modes |-> SetToBag({"module", "saas"}), composition |-> Composition,
                  categories |-> <<>>],
     docs |-> documents]

First == Document(1, <<Operation(1, 1, {<<1, 0>>})>>, <<>>, <<Contract>>)
Second == Document(2, <<Operation(2, 2, {})>>, <<Projection(2, 1), Projection(1, 1)>>, <<>>)
\* A reference to a part of a component, which cannot be collected.
Partial == Document(2, <<Operation(2, 2, {<<1, 1>>})>>, <<>>, <<>>)
SecondChanged == [Second EXCEPT !.operations = <<Operation(3, 3, {})>>]
SecondRepeats == [Second EXCEPT !.operations = <<Operation(1, 2, {})>>]
Crowded == [Second EXCEPT !.projections = [i \in 1..3 |-> Projection(1, i)]]

V1 == Draft(1, <<Second, First>>)
V2 == Draft(1, <<First, SecondChanged>>)
Smaller == Draft(1, <<First>>)
OtherModule == Draft(4, <<First, Second>>)
AllDrafts == {V1, V2, Smaller, OtherModule,
              Draft(1, <<First, SecondRepeats>>), Draft(1, <<First, Crowded>>),
              Draft(1, <<First, First>>), Draft(1, <<First, Partial>>),
              Draft(3, <<First, Second>>)}

Built == NewStaticBinding(V1)
\* Served under the first version's digest: another operation, or no order.
AllHandWritten == {
    [Built EXCEPT !.docs[2].operations = SecondChanged.operations],
    [Built EXCEPT !.docs[2].projections = Reverse(@)],
    [Built EXCEPT !.docs = Reverse(@)]}

Fragment(c, k) == [collection |-> c, key |-> k, value |-> TRUE]
Request(digest, category, kind, context) ==
    [complete |-> TRUE, module |-> 1, category |-> category, digest |-> digest,
     kind |-> kind, candidate |-> Fragment(1, 1), context |-> context,
     fits |-> TRUE]
V1Digest == Built.summary.identity.digest
V2Digest == NewStaticBinding(V2).summary.identity.digest
AllCandidates == {
    Request(V1Digest, 1, 1, <<Fragment(3, 1), Fragment(3, 2)>>),
    Request(V2Digest, 1, 1, <<>>),
    Request(V1Digest, 2, 1, <<>>),
    [Request(V1Digest, 1, 1, <<>>) EXCEPT !.fits = FALSE],
    Request(V1Digest, 1, 1, <<Fragment(3, 2), Fragment(3, 1)>>)}
=============================================================================
