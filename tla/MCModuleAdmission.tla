------------------------- MODULE MCModuleAdmission --------------------------
(***************************************************************************)
(* Modules whose manifests meet in every way the registry distinguishes:   *)
(* the same key, the same route from two owners of one namespace root, a   *)
(* generic template beside its concrete action, a conflict inside one      *)
(* batch, a retired action on a live route, other spellings, and manifests *)
(* and adapters that disagree.                                             *)
(***************************************************************************)
EXTENDS ModuleAdmission

Path(a, b) == <<"/">> \o a \o <<"/", b>>

Owner(root) == <<"module", ":">> \o root

Base(root, key) ==
    [key |-> key, owner |-> Owner(root), complete |-> TRUE,
     exposures |-> SetToBag({"public", "ops"}), http |-> {}, pages |-> EmptyBag,
     nonHTTP |-> EmptyBag,
     authorization |-> [strategy |-> "authenticated", policy |-> <<>>,
                        audiences |-> EmptyBag],
     permission |-> {}, effect |-> "read", risk |-> "low",
     assurance |-> EmptyBag, approvals |-> EmptyBag, status |-> "active"]

Get(route) == {[method |-> "GET", route |-> route, display |-> <<>>]}

Permitted(d, owner) ==
    [d EXCEPT !.permission =
       {[key |-> d.key, owner |-> owner, complete |-> TRUE,
         resource |-> SubSeq(d.key, 1, Len(d.key) - 2),
         operation |-> <<Last(d.key)>>, status |-> "active"]}]

Crm == <<"crm">>
Orders == <<"orders", ".", "read">>
OrdersRead == Permitted([Base(Crm, Orders) EXCEPT !.http = Get(Path(Crm, "orders"))], Owner(Crm))
OrdersSpelled ==
    [OrdersRead EXCEPT !.key = <<" ">> \o @,
       !.http = {[method |-> "get", route |-> Path(Crm, "orders") \o <<" ">>, display |-> <<>>]}]
OrdersJob ==
    [Permitted(Base(Crm, <<"orders", ".", "rebuild">>), Owner(Crm)) EXCEPT
       !.nonHTTP = SetToBag({<<<<"job">>, <<"rebuild">>>>})]
OrdersTask ==
    [Base(Crm, <<"orders", ".", "task">>) EXCEPT
       !.nonHTTP = SetToBag({<<<<"job">>, <<"rebuild">>>>})]
Retired == [Base(<<"old">>, <<"old", ".", "read">>) EXCEPT
              !.http = Get(Path(<<"old">>, "x")), !.status = "retired"]
Current == [Base(<<"old">>, <<"new", ".", "read">>) EXCEPT !.http = Get(Path(<<"old">>, "x"))]
AB(mark, key) == [Base(<<"a", mark, "b">>, <<key>>) EXCEPT
                    !.http = Get(Path(<<"a", "-", "b">>, "x"))]
Template == Path(<<"data">>, "{objectKey}")
Generic == [Base(<<"data">>, <<"generic">>) EXCEPT !.http = Get(Template)]
Concrete(item) ==
    [Base(<<"data">>, <<"concrete", ".", item>>) EXCEPT
       !.http = {[method |-> "GET", route |-> Template, display |-> Path(<<"data">>, item)]},
       !.nonHTTP = SetToBag({<<<<"object">>, <<item>>>>})]
Login == [Base(<<"identity">>, <<"login">>) EXCEPT
            !.http = Get(Path(<<"auth">>, "login")), !.authorization.strategy = "anonymous"]
Hook == [Base(<<"hook">>, <<"hook">>) EXCEPT
           !.http = Get(Path(<<"hook">>, "in")),
           !.authorization = [strategy |-> "signed", policy |-> <<"hmac">>,
                              audiences |-> SetToBag({<<"bank">>})]]
Foreign == Permitted([Base(<<"hook">>, <<"foreign", ".", "read">>) EXCEPT
                        !.http = Get(Path(<<"hook">>, "f"))], Owner(Crm))

Spaced == [Hook EXCEPT !.http = Get(Path(<<"hook", "/", " ">>, "in"))]

Adapter(root, routes) ==
    [complete |-> TRUE, owner |-> root, routes |-> routes,
     openapi |-> {[pattern |-> Pattern(h), operationId |-> TRUE] : h \in Head(routes).http}]

Module(key, manifest, adapters) ==
    [descriptor |-> [key |-> <<key>>, mode |-> "module",
                     capabilities |-> SetToBag({<<key>>}), adapters |-> adapters # <<>>,
                     persistence |-> "borrowed_host", schemaOwner |-> <<key>>],
     manifest |-> manifest, adapters |-> adapters]

InProcess == {
    Module("crm", <<OrdersRead, OrdersJob>>, <<Adapter(Crm, <<OrdersSpelled>>)>>),
    Module("crm2", <<OrdersSpelled>>, <<Adapter(Crm, <<OrdersRead>>)>>),
    Module("tasks", <<OrdersTask>>, <<>>),
    Module("clash", <<[OrdersTask EXCEPT !.key = <<"first">>], [OrdersTask EXCEPT !.key = <<"second">>]>>, <<>>),
    Module("old", <<Retired, Current>>, <<Adapter(<<"old">>, <<Current>>)>>),
    Module("older", <<[Retired EXCEPT !.key = <<"older">>]>>, <<>>),
    Module("a_b", <<AB("_", "ab1")>>, <<Adapter(<<"a", "_", "b">>, <<AB("_", "ab1")>>)>>),
    Module("a-b", <<AB("-", "ab2")>>, <<Adapter(<<"a", "-", "b">>, <<AB("-", "ab2")>>)>>),
    Module("data", <<Generic>>, <<Adapter(<<"data">>, <<Generic>>)>>),
    Module("objects", <<Concrete("car"), Concrete("bus")>>,
           <<Adapter(<<"data">>, <<Concrete("car")>>), Adapter(<<"data">>, <<Concrete("bus")>>)>>),
    Module("login", <<Login>>, <<Adapter(<<"identity">>, <<Login>>)>>),
    Module("hook", <<Hook>>, <<Adapter(<<"hook">>, <<Hook>>)>>),
    Module("foreign", <<Foreign>>, <<Adapter(<<"hook">>, <<Foreign>>)>>),
    Module("spaced", <<Spaced>>, <<Adapter(<<"hook">>, <<Spaced>>)>>),
    Module("extra", <<Hook>>, <<Adapter(<<"hook">>, <<Hook, Foreign>>)>>),
    Module("unmounted", <<Hook, OrdersRead>>, <<Adapter(<<"hook">>, <<Hook>>)>>)}

Remote ==
    [Module("cloud", <<[OrdersTask EXCEPT !.key = <<"cloud">>, !.nonHTTP = SetToBag({<<<<"rpc">>, <<"c">>>>})]>>, <<>>)
       EXCEPT !.descriptor.mode = "saas", !.descriptor.persistence = "service_owned"]

AllModules == InProcess \cup {Remote}

Query(owner, keys) == [owner |-> owner, keys |-> keys]

AllRequests == {
    <<Query(Owner(Crm), <<Orders, <<" ">> >>)>>,
    <<Query(Owner(Crm), <<Orders, <<"orders", ".", "rebuild">>, <<"none">> >>),
      Query(<<" ">> \o Owner(<<"hook">>), <<Orders>>)>>,
    <<Query(Owner(Crm), <<<<"foreign", ".", "read">> >>)>>,
    <<Query(Owner(Crm), <<Orders, <<" ">> \o Orders>>)>>}
=============================================================================
