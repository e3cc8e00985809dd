-------------------------- MODULE ModuleAdmission ---------------------------
(***************************************************************************)
(* How a host admits modules: a module's descriptor enters the inventory   *)
(* (moduleinfo/descriptor.go), its HTTP adapters are validated and proved  *)
(* to be a projection of its action manifest (modulehttp/adapter.go), and  *)
(* the manifest is registered in the action registry, which is frozen      *)
(* before it serves.                                                       *)
(*                                                                         *)
(* A module is [descriptor, manifest, adapters]; an adapter has an owner,  *)
(* its routes (raw definitions) and the patterns it publishes OpenAPI for. *)
(***************************************************************************)
EXTENDS ActionRegistry

CONSTANTS
    Modules,    \* the modules a host may try to admit
    Requests    \* the usage queries that clients send

IsText(text) == text \in Seq(Range(text))

\* A list that the code sorts: a finite bag.
IsList(bag) ==
    IsFiniteSet(BagToSet(bag)) /\ \A x \in BagToSet(bag) : bag[x] \in Nat

\* A definition has the fields that are checked, and texts where they are trimmed.
IsDefinition(d) ==
    /\ {"key", "owner", "complete", "exposures", "http", "pages", "nonHTTP",
        "authorization", "permission", "effect", "risk", "assurance", "approvals",
        "status"} \subseteq DOMAIN d
    /\ {"strategy", "policy", "audiences"} \subseteq DOMAIN d.authorization
    /\ IsText(d.key) /\ IsText(d.owner) /\ IsText(d.authorization.policy)
    /\ \A h \in d.http : IsText(h.route) /\ IsText(h.display)
    /\ \A p \in d.permission :
         /\ {"key", "owner", "resource", "operation"} \subseteq DOMAIN p
         /\ IsText(p.key) /\ IsText(p.owner) /\ IsText(p.resource) /\ IsText(p.operation)
    /\ \A bag \in {d.authorization.audiences, d.assurance} :
         IsList(bag) /\ \A x \in BagToSet(bag) : IsText(x)
    /\ \A bag \in {d.pages, d.nonHTTP} :
         IsList(bag) /\ \A x \in BagToSet(bag) : IsText(x[1]) /\ IsText(x[2])

ASSUME ModuleAssumption ==
    \A m \in Modules :
       IsText(m.manifest) /\ \A d \in Range(m.manifest) : IsDefinition(d)

ASSUME QueryAssumption ==
    \A queries \in Requests :
       /\ IsText(queries)
       /\ \A q \in Range(queries) :
            IsText(q.owner) /\ \A n \in DOMAIN q.keys : IsText(q.keys[n])

VARIABLE admitted   \* the modules the host has admitted

vars == <<registryVars, admitted>>

-----------------------------------------------------------------------------
(* moduleinfo.                                                             *)

ValidateDescriptor(v) ==
    /\ Trim(v.key) # <<>>
    /\ v.mode \in {"module", "saas"}
    /\ ~duplicateOrBlank(Images(Trim, v.capabilities))
    /\ v.mode = "saas" => ~v.adapters
    /\ \/ v.persistence = "borrowed_host" /\ v.mode = "module" /\ v.schemaOwner # <<>>
       \/ v.persistence = "service_owned" /\ v.mode = "saas" /\ v.schemaOwner # <<>>
       \/ v.persistence = "none" /\ v.schemaOwner = <<>>

\* descriptors: a family of them, in any order (NewInventory sorts).
NewInventoryOK(descriptors) ==
    /\ \A i \in DOMAIN descriptors : ValidateDescriptor(descriptors[i])
    /\ \A i, j \in DOMAIN descriptors :
         descriptors[i].key = descriptors[j].key => i = j

-----------------------------------------------------------------------------
(* modulehttp.                                                             *)

\* Route.Pattern trims the declared method and template; it does not upper-case.
Pattern(h) == <<h.method, Trim(h.route)>>

ValidateRoute(d) == NormalizeDefinitionOK(d) /\ d.http # {}

Hyphenated(text) == [i \in DOMAIN text |-> IF text[i] = "_" THEN "-" ELSE text[i]]

Under(root, path) == path = root \/ IsPrefix(root \o <<"/">>, path)

ValidateRouteNamespace(owner, d) ==
    \A h \in normalizeDefinition(d).http :
       \/ Under(<<"/">> \o Hyphenated(owner), h.route)
       \/ /\ owner = <<"identity">>
          /\ \/ Under(<<"/", "auth">>, h.route)
             \/ IsPrefix(<<"/", ".well-known", "/">>, h.route)

RoutePatterns(d) == {Pattern(h) : h \in d.http}

ValidateAdapter(a) ==
    /\ a.complete /\ Trim(a.owner) # <<>> /\ a.routes # <<>>
    /\ \A i \in DOMAIN a.routes :
         /\ ValidateRoute(a.routes[i])
         /\ ValidateRouteNamespace(Trim(a.owner), a.routes[i])
         /\ \A j \in 1..(i - 1) :
              RoutePatterns(a.routes[j]) \cap RoutePatterns(a.routes[i]) = {}
    /\ \A o \in a.openapi :
         /\ \E i \in DOMAIN a.routes : o.pattern \in RoutePatterns(a.routes[i])
         /\ o.operationId

\* <<adapter index, route index>> for every route of the adapters.
Routes(adapters) ==
    UNION {{<<i, n>> : n \in DOMAIN adapters[i].routes} : i \in DOMAIN adapters}

ActionAt(adapters, r) == normalizeDefinition(adapters[r[1]].routes[r[2]])

AdapterActions(adapters) == {ActionAt(adapters, r) : r \in Routes(adapters)}

AuthorizationActionsOK(adapters) ==
    /\ \A i \in DOMAIN adapters : ValidateAdapter(adapters[i])
    /\ \A r, q \in Routes(adapters) :
         ActionAt(adapters, r).key = ActionAt(adapters, q).key => r = q

ValidateSourceOwners(adapters) ==
    /\ \A i \in DOMAIN adapters : ValidateAdapter(adapters[i])
    /\ \A r \in Routes(adapters) :
         ActionAt(adapters, r).owner = <<"module", ":">> \o Trim(adapters[r[1]].owner)

\* A bug to tell apart: an active HTTP action need not be mounted.
ProjectionOfMountedOnly(manifest, adapters) ==
    /\ AuthorizationActionsOK(adapters)
    /\ AdapterActions(adapters) \subseteq Range(Normalized(manifest))

ValidateAuthorizationProjection(manifest, adapters) ==
    LET source == Normalized(manifest)
        routes == AdapterActions(adapters)
    IN  /\ \A i \in DOMAIN source : validateDefinition(source[i])
        /\ ~Conflict(<<>>, Each(source, KeyIds))
        /\ AuthorizationActionsOK(adapters)
        /\ routes \subseteq Range(source)
        /\ \A d \in Range(source) : d.status # "retired" /\ d.http # {} => d \in routes

-----------------------------------------------------------------------------
(* The host.                                                               *)

Init == RegistryInit /\ admitted = {}

Checked(m) ==
    /\ NewInventoryOK([x \in admitted \cup {m} |-> x.descriptor])
    /\ ValidateSourceOwners(m.adapters)
    /\ ValidateAuthorizationProjection(m.manifest, m.adapters)

\* One module: every check first, then its manifest as one batch.
Admit(m) ==
    /\ m \notin admitted
    /\ IF Checked(m)
       THEN /\ Register(m.manifest)
            /\ admitted' = IF Accepts(Normalized(m.manifest)) THEN admitted \cup {m}
                           ELSE admitted
       ELSE UNCHANGED vars

FreezeRegistry == Freeze /\ UNCHANGED admitted

Next == (\E m \in Modules : Admit(m)) \/ FreezeRegistry

Spec == Init /\ [][Next]_vars

-----------------------------------------------------------------------------
(* Properties.                                                             *)

Claims(Ids(_), id) == {k \in DOMAIN definitions : id \in Ids(definitions[k])}

Agrees(map, Ids(_)) ==
    /\ DOMAIN map = UNION {Ids(d) : d \in Range(definitions)}
    /\ \A id \in DOMAIN map : Claims(Ids, id) = {map[id]}

\* Every HTTP and non-HTTP binding of an action is indexed under that action
\* and no other, and every permission has one declaration owner, however the
\* batches were split and whatever they conflicted with (Register,
\* registry.go:39); and once the registry is frozen a live action is found by
\* its key and by each of its non-HTTP bindings (registry.go:177-225).
IndexesAgree ==
    /\ Agrees(byHTTP, HTTPIds)
    /\ Agrees(byNonHTTP, NonHTTPIds)
    /\ \A id \in DOMAIN permissionOwners :
         \E k \in DOMAIN definitions : \E p \in definitions[k].permission :
            /\ Claims(PermissionIds, id) = {k}
            /\ id = p.key /\ permissionOwners[id] = p.owner
    /\ frozen => \A d \in Range(definitions) : d.status # "retired" =>
         /\ ResolveDefinition(d.key) = {d}
         /\ \A id \in NonHTTPIds(d) : ResolveNonHTTP(id[1], id[2]) = {d}

\* <<module, route>> for every route that is mounted.
Mounted == UNION {{<<m, r>> : r \in Routes(m.adapters)} : m \in admitted}

RouteAt(r) == ActionAt(r[1].adapters, r[2])

\* What the adapters of the admitted modules mount is what the registry
\* authorises: a live mounted route resolves to exactly its own action, and a
\* live HTTP action is mounted exactly once.  A module that was refused leaves
\* neither a route nor an action ("A failed batch never partially mutates the
\* registry", registry.go:14; ValidateAuthorizationProjection, adapter.go:125).
MountedRoutesResolve ==
    frozen =>
      /\ \A r \in Mounted : RouteAt(r).status # "retired" =>
           \A h \in RouteAt(r).http :
              LET id == definitionHTTPIdentity(RouteAt(r), h)
              IN  ResolveHTTP(id[1], id[2]) = {RouteAt(r)}
      /\ \A d \in Range(definitions) : d.status # "retired" /\ d.http # {} =>
           Cardinality({r \in Mounted : RouteAt(r) = d}) = 1

\* The answer of a frozen registry to a valid usage request always passes the
\* client's own validation, and names exactly the actions whose permission was
\* asked for (QueryPermissionUsages and ValidateFor, usage.go:139 and :86).
UsageAnswersValidate ==
    \A queries \in Requests :
       LET request == NewPermissionUsageRequest(queries)
           answer  == QueryPermissionUsages(request)
       IN frozen /\ RequestValid(request) =>
            /\ ValidateFor(answer, request)
            /\ \A i \in DOMAIN request :
                 BagToSet(answer.owners[i].usages) =
                   {d \in Range(definitions) :
                      /\ d.owner = request[i].owner
                      /\ PermissionIds(d) \cap Range(request[i].keys) # {}}
=============================================================================
