----------------------------- MODULE MCDiscovery -----------------------------
(* A model-checking instance of Discovery: one Service, one IngressRoute and
   one IngressRouteTCP of the namespace "app", each edited on its own. *)
EXTENDS Discovery, TLC

(* Names; "a" and "b" are hosts. *)
Names == [n \in {"shop", "app", "infra", "api", "db"} |-> n]
         @@ ("api-v1" :> "api v1" @@ "api--v1" :> "api v1")

(* Gatus objects: some settings, and a client that may be a map of settings. *)
Settings(keys) == UNION {[some -> [is : {"other"}, value : {1, 2}]] : some \in SUBSET keys}
Clients == [is : {"map"}, of : Settings({"timeout", "insecure"})]
           \cup [is : {"other"}, value : {1}]
MCObjects ==
    LET settings == Settings({"interval", "timeout", "insecure"})
    IN  settings \cup {o @@ [client |-> c] : o \in settings, c \in Clients}
MCDepth ==
    LET depth[o \in MCObjects] ==
            Max({0} \cup {1 + depth[o[k].of] : k \in {l \in DOMAIN o : IsMap(o[l])}})
    IN  depth

Map(o) == [is |-> "map", of |-> o]
Other(v) == [is |-> "other", value |-> v]

(* Match expressions. *)
Leaf(is, not, values) == [is |-> is, not |-> not, values |-> values]
Branch(is, not, left, right) == [is |-> is, not |-> not, left |-> left, right |-> right]

HostA == Leaf("host", FALSE, <<"a">>)
HostB == Leaf("host", FALSE, <<"b">>)
NotHostA == Leaf("host", TRUE, <<"a">>)
Api == Leaf("path", FALSE, <<"/api">>)
Ui == Leaf("path", FALSE, <<"{x}", "ui">>)
AtApi == Branch("and", FALSE, HostA, Api)
AtUi == Branch("and", FALSE, HostA, Ui)
Elsewhere == Branch("and", FALSE, Leaf("host", FALSE, <<"b", "*">>), NotHostA)
NotNotB == Branch("or", TRUE, Leaf("host", TRUE, <<"b">>), Leaf("path", FALSE, <<"/x">>))
Twice == Branch("and", FALSE, NotNotB,
                Branch("or", TRUE, Leaf("host", TRUE, <<"b", "a">>),
                       Leaf("other", FALSE, <<"GET">>)))
Never == Branch("and", FALSE, HostB, Branch("or", TRUE, HostB, NotHostA))
Except == Branch("and", FALSE, Leaf("host", FALSE, <<"a", "b">>), Leaf("host", TRUE, <<"b">>))
Both == Branch("and", FALSE, HostA, HostB)
Anything == Leaf("host", FALSE, <<"*">>)
Parts(t) == {t, t.left, t.right}
MCTrees == {HostA, HostB, Anything} \cup Parts(AtApi) \cup Parts(AtUi)
           \cup Parts(Elsewhere) \cup Parts(NotNotB) \cup Parts(Twice)
           \cup Parts(Twice.right) \cup Parts(Never) \cup Parts(Never.right)
           \cup Parts(Except) \cup Parts(Both)
MCHeight ==
    LET height[t \in MCTrees] ==
            IF t.is \in Branches THEN 1 + Max({height[t.left], height[t.right]}) ELSE 0
    IN  height

(* Rules. *)
ByName(n) == [name |-> n, number |-> -1]
ByNumber(n) == [name |-> "", number |-> n]
To(ns, name, port) == [name |-> name, namespace |-> ns, kind |-> "Service", port |-> port]
Rule(match, services_) == [match |-> match, services |-> services_]

HTTPRules ==
    {Rule(HostA, <<To("", "api", ByName("http"))>>),
     Rule(AtApi, <<To("", "api", ByName("http"))>>),
     Rule(AtUi, <<To("", "api-v1", NoPort), To("", "api--v1", NoPort)>>),
     Rule(Elsewhere, <<To("infra", "api", ByName("http"))>>),
     Rule(Except, <<To("infra", "api", NoPort)>>),
     Rule(Twice, <<To("", "api", ByNumber(81))>>),
     Rule(Blank, <<[To("", "api", NoPort) EXCEPT !.kind = "TraefikService"],
                   To("app", "api", NoPort)>>),
     Rule(Unparsable, <<>>)}
TCPRules ==
    {Rule(HostA, <<To("", "db", NoPort)>>),
     Rule(HostB, <<To("", "db", ByName("pg"))>>),
     Rule(Never, <<To("", "db", ByName("pg"))>>),
     Rule(Both, <<To("", "db", ByName("pg"))>>),
     Rule(Anything, <<To("", "db", ByNumber(70000))>>)}
MCRulesOf == "Service" :> {} @@ "IngressRoute" :> HTTPRules @@ "IngressRouteTCP" :> TCPRules

(* Annotations. *)
On == [enabled |-> "true"]
Text(names) == [text |-> TRUE, names |-> names]
List(names) == [text |-> FALSE, names |-> names]
PatchedItems ==
    On @@ [endpoint |-> [interval |-> Other(1), client |-> Map([timeout |-> Other(1)])],
           group |-> "", template |-> <<"t">>, port |-> ByNumber(80),
           endpoints |-> <<[name |-> "one", template |-> Text(<<>>),
                            fields |-> [client |-> Map([insecure |-> Other(2)])]],
                           [name |-> "two", url |-> <<"tcp", "a", "", 1>>,
                            templateExtra |-> List(<<"e">>), path |-> "health",
                            fields |-> [interval |-> Other(2), client |-> Other(1)]],
                           [name |-> "three", group |-> Null, scheme |-> "tcp",
                            fields |-> [client |-> Map(<<>>)]]>>]
Common ==
    {On, [enabled |-> "false"], [name |-> "Mine", group |-> "Ours"],
     PatchedItems,
     On @@ [endpoints |-> <<[name |-> "one"], Malformed>>],
     On @@ [url |-> <<"https", "a", "/x", 0>>, endpoint |-> Malformed]}
ServiceAnnotations ==
    Common \cup {On @@ [exclude |-> {"api"}], On @@ [exclude |-> {"db"}],
                 On @@ [port |-> ByName("http"), path |-> "health"],
                 On @@ [port |-> ByNumber(70000)], On @@ [endpoints |-> Null],
                 On @@ [endpoints |-> <<[url |-> 7, name |-> Malformed]>>]}
HTTPAnnotations ==
    Common \cup {On @@ [path |-> "/", scheme |-> "http", port |-> ByName("ui")],
                 On @@ [url |-> <<"https", "a", "/x", 0>>],
                 On @@ [excludeRoute |-> {<<"b">>, <<"/ui">>, <<"infra", "api">>}],
                 On @@ [excludeRoute |-> {<<"a", "/api">>, <<"api-v1">>}]}
TCPAnnotations ==
    {On, [name |-> "Mine"], On @@ [excludeRoute |-> {<<"a">>}],
     On @@ [traefikService |-> <<"infra", "inner">>, scheme |-> "starttls"]}
MCAnnotationsOf == "Service" :> ServiceAnnotations @@ "IngressRoute" :> HTTPAnnotations
                   @@ "IngressRouteTCP" :> TCPAnnotations

(* Entry points, and Services. *)
Listening(entryPoints, tls) == [entryPoints |-> entryPoints, tls |-> tls]
MCListenersOf ==
    "Service" :> {} @@ "IngressRoute" :> {}
    @@ "IngressRouteTCP" :> {Listening(<<>>, FALSE), Listening(<<"websecure">>, TRUE),
                             Listening(<<"pg", "web">>, FALSE), Listening(<<"pg">>, TRUE)}

Port(name, port, nodePort) == [name |-> name, port |-> port, nodePort |-> nodePort]
Has(type, labelled, ports) == [type |-> type, labelled |-> labelled, ports |-> ports]
OwnHas(type, ports) == [type |-> type, ports |-> ports]
Http == Port("http", 80, 0)
MCOwnServicesOf ==
    "Service" :> {OwnHas("ClusterIP", <<Http>>), OwnHas("ClusterIP", <<Http, Port("ui", 81, 0)>>),
                  OwnHas("ClusterIP", <<>>), OwnHas("ExternalName", <<>>)}
    @@ "IngressRoute" :> {} @@ "IngressRouteTCP" :> {}

MCServiceRefs == {<<"app", "api">>, <<"infra", "api">>, <<"app", "api-v1">>,
                  <<"app", "api--v1">>, <<"app", "db">>,
                  <<"infra", "inner">>, <<"infra", "outer">>}
Of(states) == [ref \in MCServiceRefs |->
                  IF ref \in DOMAIN states THEN states[ref] \cup {NoService} ELSE {}]
MCServicesOf ==
    "Service" :> Of([ref \in {} |-> {}])
    @@ "IngressRoute" :>
         Of(<<"app", "api">> :> {Has("ClusterIP", FALSE, <<Http>>),
                                 Has("ClusterIP", FALSE, <<Http, Port("ui", 81, 0)>>)}
            @@ <<"infra", "api">> :> {Has("ClusterIP", FALSE, <<Http>>)}
            @@ <<"app", "api-v1">> :> {Has("ClusterIP", FALSE, <<Http>>)}
            @@ <<"app", "api--v1">> :> {Has("ClusterIP", FALSE, <<Http>>)})
    @@ "IngressRouteTCP" :>
         Of(<<"app", "db">> :> {Has("ClusterIP", FALSE, <<Port("pg", 5432, 0)>>)}
            @@ <<"infra", "inner">> :>
                 {Has("ClusterIP", TRUE, <<Port("pg", 5432, 0), Port("", 9000, 0)>>),
                  Has("NodePort", TRUE, <<Port("pg", 5432, 30432), Port("web", 80, 0)>>)}
            @@ <<"infra", "outer">> :>
                 {Has("LoadBalancer", TRUE, <<Port("pg", 5432, 31000)>>),
                  Has("LoadBalancer", FALSE, <<Port("websecure", 8443, 0)>>)})

MCFlags ==
    {[mode |-> "opt-in", groupFromNamespace |-> TRUE, traefikServices |-> {},
      entrypointPorts |-> [e \in {} |-> 0], suffix |-> "(external)"],
     [mode |-> "auto", groupFromNamespace |-> FALSE,
      traefikServices |-> {<<"infra", "outer">>},
      entrypointPorts |-> [e \in {"web"} |-> 8000], suffix |-> ""]}

Source(kind, name) ==
    [kind |-> kind, name |-> name, namespace |-> "app", ann |-> On, rules |-> <<>>,
     entryPoints |-> <<>>, tls |-> FALSE, own |-> OwnHas("ClusterIP", <<>>)]
MCSources == {Source("Service", "api"), Source("IngressRoute", "shop"),
              Source("IngressRouteTCP", "shop")}
=============================================================================
