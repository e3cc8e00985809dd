--------------------------- MODULE ActionRegistry ---------------------------
(***************************************************************************)
(* The action registry (action/registry.go, validation.go, usage.go): a    *)
(* batch of action definitions is normalised, validated and checked for    *)
(* conflicts with the registry and within itself, then committed to every  *)
(* index or not at all; Freeze computes the usages and the revision; only  *)
(* a frozen registry resolves bindings and answers usage queries.          *)
(*                                                                         *)
(* Data.  A text is a sequence of tokens, " " being white space.  A list   *)
(* that the code sorts is the bag of its elements: sorting is canonical.   *)
(* A pointer is a set of at most one element.  The required labels and     *)
(* keys that no index or check uses are the one field "complete".  The     *)
(* revision, a hash of the sorted definitions, is the set of them.         *)
(***************************************************************************)
EXTENDS Naturals, Sequences, FiniteSets, Bags, SequencesExt, Tallies

VARIABLES
    frozen,            \* Registry.frozen
    definitions,       \* action key -> normalised definition
    byHTTP,            \* HTTP identity -> action key
    byNonHTTP,         \* non-HTTP identity -> action key
    permissionOwners,  \* permission key -> owner
    usages,            \* <<owner, permission key>> -> the action using it
    revision           \* a set: empty until Freeze, then of one revision

registryVars ==
    <<frozen, definitions, byHTTP, byNonHTTP, permissionOwners, usages, revision>>

-----------------------------------------------------------------------------
(* Normalisation: trimming, upper-casing the method, sorting (kept by the  *)
(* bags).                                                                  *)

\* strings.TrimSpace: from the first to the last token that is not white space.
Trim(text) ==
    LET ink == {i \in DOMAIN text : text[i] # " "}
    IN  IF ink = {} THEN <<>> ELSE SubSeq(text, Min(ink), Max(ink))

Upper(method) == IF method = "get" THEN "GET" ELSE method

TrimPair(p) == <<Trim(p[1]), Trim(p[2])>>

\* BagOfAll of the bags module, with a sum that can be proved about.
Images(F(_), bag) ==
    [y \in {F(x) : x \in BagToSet(bag)} |->
       Tally(bag, {x \in BagToSet(bag) : F(x) = y})]

normalizeDefinition(d) ==
    [d EXCEPT
       !.key = Trim(@), !.owner = Trim(@),
       !.authorization.policy = Trim(@),
       !.authorization.audiences = Images(Trim, @),
       !.http = {[method  |-> Upper(h.method),
                  route   |-> Trim(h.route),
                  display |-> Trim(h.display)] : h \in @},
       !.pages = Images(TrimPair, @),
       !.nonHTTP = Images(TrimPair, @),
       !.permission = {[p EXCEPT !.key = Trim(@), !.owner = Trim(@),
                                 !.resource = Trim(@), !.operation = Trim(@)]
                         : p \in @},
       !.assurance = Images(Trim, @)]

-----------------------------------------------------------------------------
(* Validation of one normalised definition.                                *)

Repeats(bag) == \E x \in BagToSet(bag) : bag[x] > 1

duplicateOrBlank(bag) == <<>> \in BagToSet(bag) \/ Repeats(bag)

Mentions(text, token) == \E i \in DOMAIN text : text[i] = token

StableKey(text) == text # <<>> /\ ~Mentions(text, "!") /\ ~Mentions(text, " ")

validRouteTemplate(route) ==
    /\ route # <<>> /\ Head(route) = "/"
    /\ ~Mentions(route, " ") /\ ~Mentions(route, "?")

HTTPBindingValid(h) ==
    /\ h.method \in {"DELETE", "GET", "HEAD", "OPTIONS", "PATCH", "POST", "PUT"}
    /\ validRouteTemplate(h.route)
    /\ h.display # <<>> =>
         /\ validRouteTemplate(h.display)
         /\ \A wildcard \in {"{objectKey}", "{actionKey}"} :
               ~(Mentions(h.route, wildcard) /\ Mentions(h.display, wildcard))

validateAuthorization(d) ==
    LET a == d.authorization IN
    \/ /\ a.strategy = "anonymous"
       /\ d.permission = {} /\ a.policy = <<>> /\ a.audiences = EmptyBag
    \/ /\ a.strategy = "authenticated"
       /\ a.audiences = EmptyBag
       /\ a.policy # <<>> => d.permission # {}
    \/ /\ a.strategy = "signed"
       /\ d.permission = {} /\ StableKey(a.policy) /\ ~duplicateOrBlank(a.audiences)

\* A bug to tell apart: a permission for any owner.
PermissionOfAnyOwner(d, p) ==
    /\ p.complete /\ p.key = d.key
    /\ p.key = p.resource \o <<".">> \o p.operation

validatePermissionDefinition(d, p) ==
    /\ \A text \in {p.key, p.owner, p.resource, p.operation} : StableKey(text)
    /\ p.complete
    /\ p.owner = d.owner
    /\ p.key = d.key
    /\ p.key = p.resource \o <<".">> \o p.operation
    /\ p.status \in {"active", "retired"}

validateDefinition(d) ==
    /\ StableKey(d.key) /\ StableKey(d.owner) /\ d.complete
    /\ d.exposures # EmptyBag /\ ~Repeats(d.exposures)
    /\ BagToSet(d.exposures) \subseteq {"public", "management", "ops"}
    /\ d.http # {} \/ d.nonHTTP # EmptyBag
    /\ \A h \in d.http : HTTPBindingValid(h)
    /\ ~Repeats(d.pages)
    /\ \A p \in BagToSet(d.pages) : validRouteTemplate(p[1]) /\ p[2] # <<>>
    /\ ~Repeats(d.nonHTTP)
    /\ \A b \in BagToSet(d.nonHTTP) : StableKey(b[1]) /\ StableKey(b[2])
    /\ validateAuthorization(d)
    /\ \A p \in d.permission : validatePermissionDefinition(d, p)
    /\ d.effect \in {"read", "write"}
    /\ d.risk \in {"low", "medium", "high", "critical"}
    /\ ~duplicateOrBlank(d.assurance)
    /\ ~Repeats(d.approvals)
    /\ BagToSet(d.approvals) \subseteq {"reason", "confirmation", "break_glass",
                                        "maker_checker", "workflow"}
    /\ d.status \in {"active", "deprecated", "retired"}

\* NormalizeDefinition fails or returns the normalised definition.
NormalizeDefinitionOK(d) == validateDefinition(normalizeDefinition(d))

-----------------------------------------------------------------------------
(* The identities a definition claims in each index.                       *)

definitionHTTPIdentity(d, h) ==
    <<h.method, IF d.nonHTTP # EmptyBag /\ h.display # <<>> THEN h.display ELSE h.route>>

KeyIds(d) == {d.key}
HTTPIds(d) ==
    IF d.status = "retired" THEN {} ELSE {definitionHTTPIdentity(d, h) : h \in d.http}
NonHTTPIds(d) == IF d.status = "retired" THEN {} ELSE BagToSet(d.nonHTTP)
PermissionIds(d) == {p.key : p \in d.permission}

Each(batch, F(_)) == [i \in DOMAIN batch |-> F(batch[i])]

\* Some definition of the batch, of identities ids[i], claims one that the map
\* or an earlier definition of the batch has already.
Conflict(map, ids) ==
    \E i \in DOMAIN ids : \E x \in ids[i] :
       x \in DOMAIN map \/ \E j \in 1..(i - 1) : x \in ids[j]

\* The map after the batch's assignments in order: the last one wins.
Assigned(map, ids, values) ==
    LET claims(x) == {i \in DOMAIN ids : x \in ids[i]}
        touched   == UNION Range(ids)
    IN  [x \in DOMAIN map \cup touched |->
           IF x \in touched
           THEN values[CHOOSE i \in claims(x) : \A j \in claims(x) : j <= i]
           ELSE map[x]]

ActionKey(d) == d.key
PermissionOwner(d) == (CHOOSE p \in d.permission : TRUE).owner

-----------------------------------------------------------------------------
(* Operations.                                                             *)

RegistryInit ==
    /\ frozen = FALSE
    /\ definitions = <<>> /\ byHTTP = <<>> /\ byNonHTTP = <<>>
    /\ permissionOwners = <<>> /\ usages = <<>>
    /\ revision = {}

\* A bug to tell apart: the bindings of a batch are not compared with each other.
AcceptsPiecewise(batch) ==
    /\ ~frozen
    /\ \A i \in DOMAIN batch :
         /\ validateDefinition(batch[i])
         /\ ~Conflict(byHTTP, Each(<<batch[i]>>, HTTPIds))
         /\ ~Conflict(byNonHTTP, Each(<<batch[i]>>, NonHTTPIds))
    /\ ~Conflict(definitions, Each(batch, KeyIds))

\* Register returns an error, and nothing has changed, when this is FALSE.
Accepts(batch) ==
    /\ ~frozen
    /\ \A i \in DOMAIN batch : validateDefinition(batch[i])
    /\ ~Conflict(definitions, Each(batch, KeyIds))
    /\ ~Conflict(byHTTP, Each(batch, HTTPIds))
    /\ ~Conflict(byNonHTTP, Each(batch, NonHTTPIds))
    /\ ~Conflict(permissionOwners, Each(batch, PermissionIds))

Commit(batch) ==
    /\ definitions' = Assigned(definitions, Each(batch, KeyIds), batch)
    /\ byHTTP' = Assigned(byHTTP, Each(batch, HTTPIds), Each(batch, ActionKey))
    /\ byNonHTTP' =
         Assigned(byNonHTTP, Each(batch, NonHTTPIds), Each(batch, ActionKey))
    /\ permissionOwners' =
         Assigned(permissionOwners, Each(batch, PermissionIds), Each(batch, PermissionOwner))
    /\ UNCHANGED <<frozen, usages, revision>>

Normalized(raw) == Each(raw, normalizeDefinition)

Register(raw) ==
    IF Accepts(Normalized(raw)) THEN Commit(Normalized(raw))
    ELSE UNCHANGED registryVars

permissionIdentities(d) == {<<p.owner, p.key>> : p \in d.permission}

Freeze ==
    /\ ~frozen
    /\ frozen' = TRUE
    /\ usages' = [id \in UNION {permissionIdentities(d) : d \in Range(definitions)} |->
                    CHOOSE d \in Range(definitions) : id \in permissionIdentities(d)]
    /\ revision' = {Range(definitions)}
    /\ UNCHANGED <<definitions, byHTTP, byNonHTTP, permissionOwners>>

-----------------------------------------------------------------------------
(* Queries of a frozen registry.  A query's answer is a set: {} not found. *)

Live(keys) ==
    {definitions[k] : k \in {k \in keys \cap DOMAIN definitions :
                               frozen /\ definitions[k].status # "retired"}}

At(map, id) == IF id \in DOMAIN map THEN {map[id]} ELSE {}

ResolveDefinition(key) == Live({Trim(key)})
ResolveHTTP(method, route) == Live(At(byHTTP, <<Upper(method), Trim(route)>>))
ResolveNonHTTP(kind, key) == Live(At(byNonHTTP, <<Trim(kind), Trim(key)>>))

\* A usage request is a sequence of [owner, keys], keys a family of texts
\* (their order, which is sorted, is not told apart).
RequestValid(request) ==
    /\ request # <<>>
    /\ \A i \in DOMAIN request :
         LET q == request[i] IN
         /\ StableKey(Trim(q.owner)) /\ DOMAIN q.keys # {}
         /\ \A j \in 1..(i - 1) : Trim(request[j].owner) # Trim(q.owner)
         /\ \A n \in DOMAIN q.keys :
              /\ StableKey(Trim(q.keys[n]))
              /\ \A j \in DOMAIN q.keys \ {n} : Trim(q.keys[j]) # Trim(q.keys[n])

\* NewPermissionUsageRequest trims, drops blank keys and sorts.
NewPermissionUsageRequest(queries) ==
    [i \in DOMAIN queries |->
       [owner |-> Trim(queries[i].owner),
        keys  |-> LET all == queries[i].keys
                  IN  [n \in {n \in DOMAIN all : Trim(all[n]) # <<>>} |-> Trim(all[n])]]]

\* The snapshot of one owner: its usages of the keys that were asked for.
SnapshotFor(query) ==
    LET owner     == Trim(query.owner)
        available == \E k \in DOMAIN permissionOwners : permissionOwners[k] = owner
        id(n)     == <<owner, Trim(query.keys[n])>>
        hits      == {n \in DOMAIN query.keys : id(n) \in DOMAIN usages}
    IN  [owner |-> owner, available |-> available,
         usages |-> IF ~available THEN EmptyBag
                    ELSE [d \in {usages[id(n)] : n \in hits} |->
                            Cardinality({n \in hits : usages[id(n)] = d})]]

\* QueryPermissionUsages of a valid request: one snapshot per query, in order.
QueryPermissionUsages(request) ==
    [revision |-> revision, owners |-> [i \in DOMAIN request |-> SnapshotFor(request[i])]]

\* PermissionUsageSnapshot.ValidateFor.
ValidateFor(snapshot, request) ==
    /\ RequestValid(request)
    /\ snapshot.revision # {}
    /\ Len(snapshot.owners) = Len(request)
    /\ \A i \in DOMAIN snapshot.owners :
         LET s == snapshot.owners[i]
             asked == {q \in Range(request) : Trim(q.owner) = s.owner}
         IN /\ asked # {}
            /\ \A j \in 1..(i - 1) : snapshot.owners[j].owner # s.owner
            /\ ~s.available => s.usages = EmptyBag
            /\ ~Repeats(s.usages)
            /\ \A d \in BagToSet(s.usages) :
                 /\ d.owner = s.owner
                 /\ \A e \in BagToSet(s.usages) : e.key = d.key => e = d
                 /\ d.permission # {}
                 /\ \A p \in d.permission :
                      /\ p.owner = s.owner
                      /\ \E q \in asked : \E n \in DOMAIN q.keys : Trim(q.keys[n]) = p.key
                 /\ NormalizeDefinitionOK(d)
=============================================================================
