----------------------------- MODULE MCRenderer ------------------------------
(* Model-checking instances of Renderer. *)
EXTENDS Renderer

Plain(source, ref, name) ==
    [source |-> source, ref |-> ref, name |-> name, group |-> 1,
     url |-> NoURL, host |-> NoHost, port |-> 0, path |-> 0, scheme |-> NoScheme,
     templates |-> NoTemplates, extra |-> <<>>, patch |-> EmptyObject]

AtURL(ep, url) == [ep EXCEPT !.url = url, !.scheme = "https"]
AtHost(ep, host, port, path) ==
    [ep EXCEPT !.host = host, !.port = port, !.path = path]

(* Two objects of a kind, two names, the public URLs given and the workloads
   given as host, port and path. *)
Addressed(urls, workloads) ==
    UNION {LET ep == Plain(s, r, n)
           IN  {AtURL(ep, u) : u \in urls} \cup {AtHost(ep, w[1], w[2], w[3]) : w \in workloads}
           : s \in {"Service", "IngressRoute"}, r \in 1..2, n \in 1..2}

(* All lists of one, two or three. *)
UpToThree(S) == UNION {[1..n -> S] : n \in 1..3}

(* Two public URLs, one of them an in-cluster one written out, and two hosts,
   one of them checked at two paths. *)
OnePortEach == Addressed({<<"https", "example", 443, 0>>, <<"http", "h2", 80, 0>>},
                         {<<"h1", 80, 0>>, <<"h1", 80, 1>>, <<"h2", 80, 0>>})

(* With and without a group, and with a patch that leads elsewhere. *)
Varied ==
    {[ep EXCEPT !.group = g, !.patch = p] :
        ep \in OnePortEach, g \in 0..1,
        p \in {EmptyObject, [url |-> <<"https", "elsewhere", 443, 0>>]}}

(* One host with two ports. *)
TwoPorts == Addressed({}, {<<"h1", 80, 0>>, <<"h1", 81, 0>>})

Untemplated(endpoints) == [endpoints |-> endpoints, templates |-> EmptyObject]

(* Endpoints with and without a group, with templates and patches. *)
Decorated ==
    LET service(ref) == AtHost(Plain("Service", ref, 1), "h1", 79 + ref, 0)
    IN  UNION {{[service(r) EXCEPT !.group = g, !.templates = t, !.extra = e, !.patch = p] :
                  g \in 0..1, t \in {NoTemplates, <<1>>, <<1, 3>>}, e \in {<<>>, <<2>>},
                  p \in {EmptyObject, [name |-> 2]}}
               : r \in 1..2}

(* Template 1 is the default for http; either template may set a group or an
   interval, declare a scheme or fail to resolve; template 3 does not exist. *)
TwoTemplates ==
    LET states(defaultFor, bodies) ==
            [scheme : {NoScheme, "tcp"}, defaultFor : {defaultFor}, resolves : BOOLEAN,
             body : bodies]
    IN  {<<t1, t2>> : t1 \in states({"http"}, {[group |-> 1], [interval |-> 1]}),
                      t2 \in states({}, {[group |-> 2, interval |-> 2], [group |-> 2]})}

(* Every snapshot of up to three addressed endpoints; two varied ones; one
   decorated endpoint with every state of the templates. *)
DedupAndLayers ==
    {Untemplated(eps) :
        eps \in UpToThree(OnePortEach) \cup [1..2 -> Varied] \cup UpToThree(TwoPorts)}
    \cup {[endpoints |-> <<ep>>, templates |-> ts] : ep \in Decorated, ts \in TwoTemplates}
=============================================================================
