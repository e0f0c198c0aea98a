------------------------------ MODULE Discovery ------------------------------
(***************************************************************************)
(* internal/discovery: the endpoints one annotated Service, IngressRoute   *)
(* or IngressRouteTCP is turned into, while its author edits it and the    *)
(* Services it depends on change; and, from internal/controller, which of  *)
(* those changes have it derived again.                                    *)
(*                                                                         *)
(* Every step is one change and the reconcile it leads to; module Sidecar  *)
(* is about what happens between the two.  A name is the sequence of its   *)
(* words, a URL that of its scheme, host, path and port.                   *)
(***************************************************************************)
EXTENDS Annotations, Rules

CONSTANTS Sources,     \* the objects as they are first seen
          AnnotationsOf, RulesOf, OwnServicesOf, ListenersOf, \* edits, by kind
          MaxRules,    \* rules of one route
          ServiceRefs, \* namespace and name of the Services there may be
          ServicesOf,  \* states of each of them, by kind of obj
          NoService,   \* there is no such Service
          NsGroups,    \* the group annotated on the namespace, or "", or
          Unselected,  \* the namespace does not match the selector
          AllFlags,    \* what the sidecar is started with
          Displayed    \* DisplayName, of every name there is

(* One controller per kind. *)
Kinds == {"Service", "IngressRoute", "IngressRouteTCP"}

MaxPort == 65535
Ports == 1..MaxPort
ArePorts(ports) == Listed(ports) /\ \A p \in ToSet(ports) : p.port \in Ports
IsRule(rule) == rule.match \in Trees \cup {Blank, Unparsable} /\ Listed(rule.services)

(* The API server admits no other port of a Service. *)
IsService(service) == service = NoService \/ ArePorts(service.ports)

IsObject(o) ==
    /\ {"kind", "name", "namespace", "ann", "rules", "entryPoints", "tls", "own"}
          \subseteq DOMAIN o
    /\ o.kind \in Kinds
    /\ AreAnnotations(o.ann)
    /\ Listed(o.rules) /\ \A rule \in ToSet(o.rules) : IsRule(rule)
    /\ Listed(o.entryPoints)
    /\ ArePorts(o.own.ports)

ASSUME SourcesAssumption ==
    /\ \A o \in Sources : IsObject(o)
    /\ IsFiniteSet(ServiceRefs)
    /\ Kinds \subseteq DOMAIN AnnotationsOf
    /\ \A kind \in Kinds :
          /\ \A ann \in AnnotationsOf[kind] : AreAnnotations(ann)
          /\ \A rule \in RulesOf[kind] : IsRule(rule)
          /\ \A l \in ListenersOf[kind] : Listed(l.entryPoints)
          /\ \A own \in OwnServicesOf[kind] : ArePorts(own.ports)
          /\ \A ref \in ServiceRefs : \A service \in ServicesOf[kind][ref] : IsService(service)

VARIABLES obj,   \* the object: kind, name, namespace, annotations and spec
          world, \* the Services looked up, the group annotated on the namespace,
                 \* and the flags: discovery.Options and the controller's settings
          entry  \* the endpoints in the registry, and whether an error was logged

vars == <<obj, world, entry>>

Nothing == [endpoints |-> <<>>, failed |-> FALSE]
Refused == [endpoints |-> <<>>, failed |-> TRUE]
NoHost == <<>>

-----------------------------------------------------------------------------
(* Which objects are monitored. *)

(* Enabled may hold neither "true" nor "false". *)
Enabled(o, w) ==
    \/ w.flags.mode = "auto" /\ Written(o.ann, "enabled", "true") # "false"
    \/ w.flags.mode = "opt-in" /\ Written(o.ann, "enabled", "false") = "true"

(* A list of globs is the set of what they match. *)
Excluded(o) == o.name \in Written(o.ann, "exclude", {})
Skipped(o) == Written(o.ann, "excludeRoute", {})

(* An object's annotations describe its endpoints themselves. *)
IsDescribed(o) ==
    \/ "endpoints" \in DOMAIN o.ann
    \/ Written(o.ann, "url", NoURL) # NoURL

-----------------------------------------------------------------------------
(* What every derivation shares. *)

DisplayName(name) == Displayed[name]
Title(s, o) == IF s.name # "" THEN s.name ELSE DisplayName(o.name)

(* An explicitly empty group is honoured. *)
ResolveGroup(s, o, w) ==
    IF s.groupSet THEN s.group
    ELSE IF w.nsGroup # "" THEN w.nsGroup
    ELSE IF w.flags.groupFromNamespace THEN DisplayName(o.namespace) ELSE ""

BaseEndpoint(s, o, w) ==
    [name |-> <<Title(s, o)>>, group |-> ResolveGroup(s, o, w), url |-> NoURL,
     host |-> NoHost, port |-> 0, path |-> "", scheme |-> s.scheme,
     templates |-> s.templates, templatesSet |-> s.templatesSet,
     extra |-> s.extra, patch |-> s.patch]

(* Mutant of ResolvePort: a port given by number is taken as it is. *)
ResolvePortUnchecked(want, ports) ==
    LET called == {i \in DOMAIN ports : ports[i].name = want.name}
    IN  IF want.name # ""
          THEN IF called = {} THEN 0 ELSE ports[CHOOSE i \in called : TRUE].port
        ELSE IF want # NoPort THEN want.number
        ELSE IF Len(ports) = 1 THEN ports[1].port ELSE 0

(* The port wanted, among those a Service has: 0 if there is no telling. *)
ResolvePort(want, ports) ==
    LET called == {i \in DOMAIN ports : ports[i].name = want.name}
    IN  IF want.name # ""
          THEN IF called = {} THEN 0 ELSE ports[CHOOSE i \in called : TRUE].port
        ELSE IF want # NoPort
          THEN IF want.number \in Ports THEN want.number ELSE 0
        ELSE IF Len(ports) = 1 THEN ports[1].port ELSE 0

EndpointFromSpec(s, o, w, host, ports) ==
    IF s.url # NoURL
      THEN [BaseEndpoint(s, o, w) EXCEPT !.url = s.url,
                !.scheme = IF s.scheme = "" THEN s.url[1] ELSE s.scheme]
      ELSE [BaseEndpoint(s, o, w) EXCEPT !.host = host, !.path = NormalisePath(s.path),
                !.port = ResolvePort(s.port, ports)]

(* One spec without an address and there is none for the others either. *)
EndpointsFromSpecs(specs, o, w, host, ports) ==
    LET endpoints == [i \in DOMAIN specs |-> EndpointFromSpec(specs[i], o, w, host, ports)]
    IN  IF \E i \in DOMAIN endpoints : endpoints[i].url = NoURL /\ endpoints[i].port = 0
          THEN Refused
          ELSE [endpoints |-> endpoints, failed |-> FALSE]

FromService(o, w) ==
    IF o.own.type = "ExternalName" \/ AnnotationsFail(o.ann) THEN Refused
    ELSE EndpointsFromSpecs(SpecsFromAnnotations(o.ann), o, w,
                            <<o.name, o.namespace>>, o.own.ports)

-----------------------------------------------------------------------------
(* The addresses in a route. *)

Address(host, path) == IF path = "" THEN <<host>> ELSE <<host, path>>

(* What a rule's services name, the namespace being the route's by default. *)
BackendOf(service, path, o) ==
    [ref |-> <<IF service.namespace = "" THEN o.namespace ELSE service.namespace,
               service.name>>,
     port |-> service.port, path |-> path]
IsBackend(service) == service.name # "" /\ service.kind = "Service"

NamedBy(backend) == {<<backend.ref[2]>>, backend.ref}

IsSkippedWhole(o, parsed) == parsed.path # "" /\ <<parsed.path>> \in Skipped(o)

KeptHosts(o, parsed) ==
    Subsequence(parsed.hosts, {i \in DOMAIN parsed.hosts :
        {<<parsed.hosts[i]>>, Address(parsed.hosts[i], parsed.path)} \cap Skipped(o) = {}})

(* The addresses a rule adds, unless it is skipped for its path. *)
HostsIn(o, parsed) ==
    LET kept == KeptHosts(o, parsed)
    IN  IF IsSkippedWhole(o, parsed) THEN <<>>
        ELSE [i \in DOMAIN kept |-> [host |-> kept[i], path |-> parsed.path]]

KeptBackends(o, rule, parsed) ==
    LET backend(i) == BackendOf(rule.services[i], parsed.path, o)
        kept == {i \in DOMAIN rule.services :
                    IsBackend(rule.services[i]) /\ NamedBy(backend(i)) \cap Skipped(o) = {}}
    IN  Subsequence([i \in DOMAIN rule.services |-> backend(i)], kept)

(* Mutant of BackendsIn: a rule none of whose addresses is left adds them. *)
BackendsInAnyway(o, rule, parsed) ==
    IF IsSkippedWhole(o, parsed) THEN <<>> ELSE KeptBackends(o, rule, parsed)

(* The backends it adds: none if all its addresses are skipped. *)
BackendsIn(o, rule, parsed) ==
    IF \/ IsSkippedWhole(o, parsed)
       \/ parsed.hosts # <<>> /\ KeptHosts(o, parsed) = <<>>
      THEN <<>>
      ELSE KeptBackends(o, rule, parsed)

(* routeTargets: an address or a backend that several rules name is the first
   one's, with its path. *)
Targets(o) ==
    LET parsed == [i \in DOMAIN o.rules |-> ParseRule[o.rules[i].match]]
        hosts == FlattenSeq([i \in DOMAIN o.rules |-> HostsIn(o, parsed[i])])
        backends == FlattenSeq([i \in DOMAIN o.rules |->
                                   BackendsIn(o, o.rules[i], parsed[i])])
    IN  [hosts |-> Distinct(hosts),
         backends |-> Firsts(backends, [i \in DOMAIN backends |->
                                          <<backends[i].ref, backends[i].port>>])]

-----------------------------------------------------------------------------
(* The endpoints of a route, HTTP or TCP. *)

(* Mutant of DistinctHosts: every address of the route counts. *)
DistinctHostsByAddress(hosts) == Len(hosts)

DistinctHosts(hosts) == Cardinality({hosts[i].host : i \in DOMAIN hosts})

(* --external-suffix is a word that ends no other name, or is empty. *)
Suffix(w) == IF w.flags.suffix = "" THEN <<>> ELSE <<w.flags.suffix>>

(* externalName, externalNameWithPath and externalTCPName: the host is in the
   name if the route serves several. *)
ExternalName(s, o, w, host, total, parts) ==
    <<Title(s, o)>> \o (IF total > 1 THEN <<host>> ELSE <<>>) \o parts \o Suffix(w)

(* Mutant of PathPart: the path is left out. *)
PathPartNever(target, hosts) == <<>>

(* The path is in the name if there is one and its host has other addresses. *)
PathPart(target, hosts) ==
    IF /\ target.path # ""
       /\ \E i \in DOMAIN hosts : hosts[i].host = target.host /\ hosts[i] # target
      THEN <<target.path>> ELSE <<>>

ExternalEndpoints(s, o, w, hosts) ==
    LET scheme == IF s.scheme = "" THEN "https" ELSE s.scheme
        path(t) == NormalisePath(IF s.path = "" THEN t.path ELSE s.path)
        endpoint(t) == [BaseEndpoint(s, o, w) EXCEPT
                           !.name = ExternalName(s, o, w, t.host, DistinctHosts(hosts),
                                                 PathPart(t, hosts)),
                           !.url = <<scheme, t.host, path(t), 0>>,
                           !.scheme = scheme]
    IN  [i \in DOMAIN hosts |-> endpoint(hosts[i])]

(* A backend's own name, if there are others. *)
InternalName(s, o, backend, total) ==
    <<IF total > 1 THEN DisplayName(backend.ref[2]) ELSE Title(s, o)>>

(* A Service is looked up by the namespace and name a rule gives. *)
ServiceAt(ref, w) == IF ref \in ServiceRefs THEN w.services[ref] ELSE NoService

InternalEndpoint(s, o, w, backend, total) ==
    LET want == IF backend.port = NoPort THEN s.port ELSE backend.port
        service == ServiceAt(backend.ref, w)
    IN  [BaseEndpoint(s, o, w) EXCEPT
            !.name = InternalName(s, o, backend, total),
            !.host = <<backend.ref[2], backend.ref[1]>>,
            !.path = NormalisePath(IF s.path = "" THEN backend.path ELSE s.path),
            !.port = IF service = NoService THEN 0 ELSE ResolvePort(want, service.ports)]

AllInternal(s, o, w, backends) ==
    [i \in DOMAIN backends |-> InternalEndpoint(s, o, w, backends[i], Len(backends))]

(* Mutant of Resolved: one bad backend takes the others with it. *)
ResolvedOrNone(endpoints) ==
    IF \E i \in DOMAIN endpoints : endpoints[i].port = 0 THEN <<>> ELSE endpoints

(* A backend that is missing or has no such port costs its own endpoint. *)
Resolved(endpoints) ==
    Subsequence(endpoints, {i \in DOMAIN endpoints : endpoints[i].port # 0})

InternalEndpoints(s, o, w, backends) ==
    LET all == AllInternal(s, o, w, backends)
        resolved == Resolved(all)
    IN  [endpoints |-> resolved, failed |-> Len(resolved) < Len(all)]

(* The external endpoints, then the internal ones. *)
Following(external, internal) ==
    [endpoints |-> external \o internal.endpoints, failed |-> internal.failed]

DeriveHTTP(s, o, w, targets) ==
    Following(ExternalEndpoints(s, o, w, targets.hosts),
              InternalEndpoints(s, o, w, targets.backends))

-----------------------------------------------------------------------------
(* Entry points, and the Traefik Services that publish them. *)

DefaultEntrypointPorts == [web |-> 80, websecure |-> 443]

(* isTraefikService, of a Service found in the given state. *)
IsTraefik(ref, service, flags) ==
    /\ service # NoService
    /\ IF flags.traefikServices = {} THEN service.labelled
                                     ELSE ref \in flags.traefikServices

(* traefikService: the named ports, and where a client finds them. *)
Published(service) ==
    LET ports == service.ports
        named == {i \in DOMAIN ports : ports[i].name # ""}
        reached(p) == IF service.type = "NodePort" /\ p.nodePort # 0 THEN p.nodePort
                                                                     ELSE p.port
    IN  [n \in {ports[i].name : i \in named} |->
            reached(ports[CHOOSE i \in named : ports[i].name = n])]

InScope(w) == {ref \in ServiceRefs : IsTraefik(ref, w.services[ref], w.flags)}

(* Those in scope, or the one preferred, that name the entry point. *)
Naming(e, prefer, w) ==
    LET scope == IF prefer = <<>> THEN InScope(w) ELSE InScope(w) \cap {prefer}
    IN  {ref \in scope : e \in DOMAIN Published(w.services[ref])}

PortsPublished(e, prefer, w) ==
    {Published(w.services[ref])[e] : ref \in Naming(e, prefer, w)}

AnyOf(ports) == CHOOSE p \in ports : TRUE

(* Mutant of EntrypointPort: the first Service found decides. *)
EntrypointPortGuessed(e, prefer, w) ==
    LET ports == PortsPublished(e, prefer, w)
    IN  IF e \in DOMAIN w.flags.entrypointPorts THEN w.flags.entrypointPorts[e]
        ELSE IF ports # {} THEN AnyOf(ports)
        ELSE IF prefer = <<>> /\ e \in DOMAIN DefaultEntrypointPorts
          THEN DefaultEntrypointPorts[e]
        ELSE 0

(* EntrypointPorts.Port: 0 if there is no telling. *)
EntrypointPort(e, prefer, w) ==
    LET ports == PortsPublished(e, prefer, w)
    IN  IF e \in DOMAIN w.flags.entrypointPorts THEN w.flags.entrypointPorts[e]
        ELSE IF Cardinality(ports) = 1 THEN AnyOf(ports)
        ELSE IF ports = {} /\ prefer = <<>> /\ e \in DOMAIN DefaultEntrypointPorts
          THEN DefaultEntrypointPorts[e]
        ELSE 0

TCPScheme(s, o) == IF s.scheme # "" THEN s.scheme ELSE IF o.tls THEN "tls" ELSE "tcp"

(* The port of an entry point of the route, which may prefer a Traefik Service. *)
PortOf(e, o, w) == EntrypointPort(e, Written(o.ann, "traefikService", <<>>), w)

(* The entry point is in the name if the route has several. *)
TCPEndpoint(s, o, w, hosts, e, host) ==
    LET part == IF Len(o.entryPoints) > 1 THEN <<e>> ELSE <<>>
    IN  [BaseEndpoint(s, o, w) EXCEPT
            !.name = ExternalName(s, o, w, host, Len(hosts), part),
            !.url = <<TCPScheme(s, o), host, "", PortOf(e, o, w)>>,
            !.scheme = TCPScheme(s, o)]

(* One endpoint per entry point and host. *)
TCPEndpoints(s, o, w, hosts) ==
    FlattenSeq([i \in DOMAIN o.entryPoints |->
        [j \in DOMAIN hosts |-> TCPEndpoint(s, o, w, hosts, o.entryPoints[i], hosts[j].host)]])

(* One entry point without a port and nothing at all can be made of the route,
   its backends included. *)
DeriveTCP(s, o, w, targets) ==
    IF /\ targets.hosts # <<>>
       /\ \E i \in DOMAIN o.entryPoints : PortOf(o.entryPoints[i], o, w) = 0
      THEN Refused
      ELSE Following(TCPEndpoints(s, o, w, targets.hosts),
                     InternalEndpoints([s EXCEPT !.scheme = "tcp"], o, w, targets.backends))

-----------------------------------------------------------------------------
(* FromIngressRoute and FromIngressRouteTCP. *)
FromRoute(o, w) ==
    IF AnnotationsFail(o.ann) THEN Refused
    ELSE IF IsDescribed(o)
      THEN EndpointsFromSpecs(SpecsFromAnnotations(o.ann), o, w, NoHost, <<>>)
    ELSE IF \E i \in DOMAIN o.rules : o.rules[i].match = Unparsable THEN Refused
    ELSE LET s == SpecsFromAnnotations(o.ann)[1]
         IN  IF o.kind = "IngressRoute" THEN DeriveHTTP(s, o, w, Targets(o))
                                        ELSE DeriveTCP(s, o, w, Targets(o))

(* What Reconcile stores. *)
Derive(o, w) ==
    IF w.nsGroup = Unselected \/ ~Enabled(o, w) \/ Excluded(o) THEN Nothing
    ELSE IF o.kind = "Service" THEN FromService(o, w) ELSE FromRoute(o, w)

-----------------------------------------------------------------------------
(* The steps. *)

Init ==
    /\ obj \in Sources
    /\ world \in [services : [ServiceRefs -> {NoService}], nsGroup : NsGroups,
                   flags : AllFlags]
    /\ entry = Derive(obj, world)

(* The author edits the object: it is reconciled. *)
Edit(o) ==
    /\ o # obj
    /\ obj' = o
    /\ entry' = Derive(o, world)
    /\ UNCHANGED world

Annotate(ann) == Edit([obj EXCEPT !.ann = ann])

AppendRule(rule) ==
    /\ Len(obj.rules) < MaxRules
    /\ Edit([obj EXCEPT !.rules = Append(obj.rules, rule)])

DropRule(i) == Edit([obj EXCEPT !.rules = RemoveAt(obj.rules, i)])

EditListeners(l) == Edit([obj EXCEPT !.entryPoints = l.entryPoints, !.tls = l.tls])

EditOwnService(own) == Edit([obj EXCEPT !.own = own])

(* routesInNamespace and its like: every object of the namespace. *)
EditNamespace(group) ==
    LET after == [world EXCEPT !.nsGroup = group]
    IN  /\ after # world
        /\ world' = after
        /\ entry' = Derive(obj, after)
        /\ UNCHANGED obj

(* Mutant of RoutesForService: a Traefik Service is a Service like any other. *)
RoutesForServiceNearby(ref, before, after) == ref[1] = obj.namespace

(* routesForService, of the Service before and after the change. *)
RoutesForService(ref, before, after) ==
    \/ ref[1] = obj.namespace
    \/ obj.kind = "IngressRouteTCP" /\ \E s \in {before, after} : IsTraefik(ref, s, world.flags)

(* A Service is derived from itself alone. *)
EditService(ref, service) ==
    LET before == world.services[ref]
        after == [world EXCEPT !.services[ref] = service]
    IN  /\ obj.kind # "Service"
        /\ after # world
        /\ world' = after
        /\ entry' = IF RoutesForService(ref, before, service) THEN Derive(obj, after)
                                                             ELSE entry
        /\ UNCHANGED obj

Next ==
    \/ \E ann \in AnnotationsOf[obj.kind] : Annotate(ann)
    \/ \E rule \in RulesOf[obj.kind] : AppendRule(rule)
    \/ \E i \in DOMAIN obj.rules : DropRule(i)
    \/ \E l \in ListenersOf[obj.kind] : EditListeners(l)
    \/ \E own \in OwnServicesOf[obj.kind] : EditOwnService(own)
    \/ \E group \in NsGroups : EditNamespace(group)
    \/ \E ref \in ServiceRefs :
          \E service \in ServicesOf[obj.kind][ref] : EditService(ref, service)

Spec == Init /\ [][Next]_vars

-----------------------------------------------------------------------------
(* Properties. *)

(* Every endpoint has a URL, or a port there can be and a host to find it on,
   except that an item of a route's list may give a port and nothing else
   (endpointFromSpec has no host for it). *)
TypeOK ==
    /\ obj.kind \in DOMAIN AnnotationsOf
    /\ DOMAIN world.services = ServiceRefs
    /\ entry.failed \in BOOLEAN
    /\ \A ep \in ToSet(entry.endpoints) :
          ep.url = NoURL =>
              /\ ep.port \in Ports
              /\ ep.host # NoHost \/ (IsDescribed(obj) /\ obj.kind # "Service")

(* A route whose rules say what is checked. *)
IsDerived(o, w) ==
    /\ o.kind # "Service"
    /\ w.nsGroup # Unselected /\ Enabled(o, w) /\ ~Excluded(o)
    /\ ~AnnotationsFail(o.ann) /\ ~IsDescribed(o)
    /\ \A i \in DOMAIN o.rules : o.rules[i].match # Unparsable

(* The endpoints of addresses, and of backends in the object's namespace. *)
Followed(endpoints) ==
    Subsequence(endpoints, {i \in DOMAIN endpoints : \/ endpoints[i].host = NoHost
                                                     \/ endpoints[i].host[2] = obj.namespace})

(* What the registry holds is what would be derived now, so every change an
   object's endpoints depend on has it reconciled; but for the endpoints of
   backends in another namespace, which routesForService does not follow. *)
EntryIsCurrent ==
    \/ entry = Derive(obj, world)
    \/ /\ IsDerived(obj, world)
       /\ \E backend \in ToSet(Targets(obj).backends) : backend.ref[1] # obj.namespace
       /\ Followed(entry.endpoints) = Followed(Derive(obj, world).endpoints)

(* exclude-route: "the configuration the object would have produced had the
   rule never been written" (README), for each rule with no address left. *)
ExcludedRuleIsAsNeverWritten ==
    LET skipped(rule) ==
            LET parsed == ParseRule[rule.match]
            IN  \/ parsed.path # "" /\ <<parsed.path>> \in Skipped(obj)
                \/ /\ parsed.hosts # <<>>
                   /\ \A h \in ToSet(parsed.hosts) :
                         {<<h>>, Address(h, parsed.path)} \cap Skipped(obj) # {}
        rest == Subsequence(obj.rules, {i \in DOMAIN obj.rules : ~skipped(obj.rules[i])})
    IN  IsDerived(obj, world) => Derive(obj, world) = Derive([obj EXCEPT !.rules = rest], world)

(* Gatus keeps history by name: a route's endpoints have names of their own,
   but for backends whose Services are displayed alike, which internalName does
   not tell apart (one Service at two ports or in two namespaces), and, if
   --external-suffix is empty, which nothing checks, for an external endpoint and
   an internal one.  An entry point listed twice gives one endpoint twice. *)
EndpointNamesAreDistinct ==
    ~IsDescribed(obj) =>
        \A i, j \in DOMAIN entry.endpoints :
            LET a == entry.endpoints[i]
                b == entry.endpoints[j]
            IN  a # b /\ a.name = b.name =>
                    \/ /\ a.url = NoURL /\ b.url = NoURL
                       /\ DisplayName(a.host[1]) = DisplayName(b.host[1])
                    \/ Suffix(world) = <<>> /\ (a.url = NoURL <=> b.url # NoURL)

(* The address of an entry point is never a guess, nor an old answer: every
   Traefik Service in scope that names the entry point, or the one the route
   prefers, publishes it on the port checked, now, wherever it is. *)
EntryPointPortsAreCertain ==
    LET prefer == Written(obj.ann, "traefikService", <<>>)
        naming(e) == {r \in InScope(world) : /\ prefer \in {<<>>, r}
                                      /\ e \in DOMAIN Published(world.services[r])}
        certain(e, port) ==
            IF e \in DOMAIN world.flags.entrypointPorts THEN port = world.flags.entrypointPorts[e]
            ELSE IF naming(e) = {}
              THEN prefer = <<>> /\ port = DefaultEntrypointPorts[e]
            ELSE \A r \in naming(e) : port = Published(world.services[r])[e]
        hosts == Targets(obj).hosts
    IN  obj.kind = "IngressRouteTCP" /\ IsDerived(obj, world) /\ entry.endpoints # <<>> =>
            \A k \in DOMAIN obj.entryPoints, j \in DOMAIN hosts :
                certain(obj.entryPoints[k], entry.endpoints[(k - 1) * Len(hosts) + j].url[4])

(* The values in an object, each under its path of keys; of a map, also that it
   is one, empty or not. *)
AMap == [is |-> "map"]
Values ==
    LET values[o \in Objects] ==
            UNION {IF IsMap(o[k])
                     THEN {<<<<k>>, AMap>>}
                          \cup {<<<<k>> \o v[1], v[2]>> : v \in values[o[k].of]}
                     ELSE {<<<<k>>, o[k]>>} : k \in DOMAIN o}
    IN  values

(* One value leaves no room for another: either is at, above or below the
   other, and the upper is not a map. *)
Overrides(w, v) ==
    \/ ~IsMap(w[2]) /\ IsPrefix(w[1], v[1])
    \/ ~IsMap(v[2]) /\ IsPrefix(v[1], w[1])

Overlaid(base, own) == own \cup {v \in base : \A w \in own : ~Overrides(w, v)}

ValuesIn(from, key) == IF Written(from, key, Nil) = Nil THEN {} ELSE Values[from[key]]

(* The patch of a listed item has every value of the item, and every value of
   the object's own patch that none of them overrides. *)
ItemsOverlayTheObject ==
    Items(obj.ann) # Nil =>
        \A i \in DOMAIN entry.endpoints :
            ValuesIn(entry.endpoints[i], "patch") =
                Overlaid(ValuesIn(obj.ann, "endpoint"), ValuesIn(Items(obj.ann)[i], "fields"))

(* The leaves of an expression under an even number of negations (FALSE), and
   those under an odd one, which are turned round (TRUE). *)
Asserted ==
    LET asserted[t \in Trees] ==
            [negated \in BOOLEAN |->
                LET sign == t.not # negated
                IN  IF t.is \in Branches
                      THEN asserted[t.left][sign] \cup asserted[t.right][sign]
                      ELSE IF sign THEN {} ELSE {t}]
    IN  asserted

(* A matcher, apart from its negation; the hosts it names; and whether it may be
   true of a request for a host that it does not name. *)
Matcher(leaf) == [is |-> leaf.is, values |-> leaf.values]
HostsOf(leaf) == IF leaf.is = "host" THEN ToSet(leaf.values) \ Wildcards ELSE {}
IsOpen(leaf) == leaf.is # "host" \/ ToSet(leaf.values) \cap Wildcards # {}

(* The value of an expression, of a request for a host in `asked`, or for one
   that no matcher names if there is none; `on` are the open matchers true of it. *)
Holds(asked, on) ==
    LET value[t \in Trees] ==
            t.not # (IF t.is = "and" THEN value[t.left] /\ value[t.right]
                     ELSE IF t.is = "or" THEN value[t.left] \/ value[t.right]
                     ELSE \/ HostsOf(t) \cap asked # {}
                          \/ IsOpen(t) /\ Matcher(t) \in on)
    IN  value

MatchersOf(t) == {Matcher(leaf) : leaf \in Asserted[t][FALSE] \cup Asserted[t][TRUE]}
HostsNamed(t) == UNION {HostsOf(leaf) : leaf \in Asserted[t][FALSE] \cup Asserted[t][TRUE]}

(* A request for h can be served; one can be that would not be for a host that
   no matcher names. *)
CanServe(t, h) == \E on \in SUBSET MatchersOf(t) : Holds({h}, on)[t]
ServesByName(t, h) ==
    \E on \in SUBSET MatchersOf(t) : Holds({h}, on)[t] /\ ~Holds({}, on)[t]

(* Where an expression requires two parts, each lets other hosts in or names h. *)
Agreed(h) ==
    LET agreed[t \in Trees] ==
            [negated \in BOOLEAN |->
                LET sign == t.not # negated
                    agrees(part) ==
                        \/ \A leaf \in Asserted[part][sign] : IsOpen(leaf)
                        \/ \E leaf \in Asserted[part][sign] : h \in HostsOf(leaf)
                IN  t.is \in Branches =>
                        /\ agreed[t.left][sign] /\ agreed[t.right][sign]
                        /\ (t.is = "and") # sign => agrees(t.left) /\ agrees(t.right)]
    IN  agreed

(* A matcher that is turned round names h, or is written as it is as well. *)
Contradicted(t, h) ==
    \E leaf \in Asserted[t][TRUE] :
        \/ h \in HostsOf(leaf)
        \/ Matcher(leaf) \in {Matcher(l) : l \in Asserted[t][FALSE]}

(* However the negations nest, no host that a rule serves by its name is missed;
   and one is monitored because the rule can serve it, the matchers of other
   things allowing, but for the hosts that one part of the rule names and another
   rules out: Host(`a`, `b`) && !Host(`b`), Host(`a`) && Host(`b`).  The code
   monitors them although the rule never serves them, against matcher.go:47-50
   and README.md:241-243. *)
HostsAreServed ==
    \A i \in DOMAIN obj.rules :
        LET match == obj.rules[i].match
        IN  match \in Trees =>
                LET monitored == ToSet(ParseRule[match].hosts)
                IN  /\ \A h \in HostsNamed(match) : ServesByName(match, h) => h \in monitored
                    /\ \A h \in monitored :
                          CanServe(match, h) \/ Contradicted(match, h) \/ ~Agreed(h)[match][FALSE]

(* The endpoints that a change of one Service is no reason to change. *)
Apart(ref) ==
    LET apart(ep) == /\ ep.host # <<ref[2], ref[1]>>
                     /\ ep.host = NoHost \/ ep.host[2] = obj.namespace
    IN  Subsequence(entry.endpoints,
                    {i \in DOMAIN entry.endpoints : apart(entry.endpoints[i])})

(* "One bad backend does not take the others down with it" (internalEndpoints):
   what happens to one backend's Service leaves every other endpoint, name
   included, as it was. *)
BackendsFailAlone ==
    [][\A ref \in ServiceRefs :
          /\ world'.services[ref] # world.services[ref]
          /\ ~IsTraefik(ref, world.services[ref], world.flags)
          /\ ~IsTraefik(ref, world'.services[ref], world.flags)
          => Apart(ref)' = Apart(ref)]_vars

External(endpoints) == {i \in DOMAIN endpoints : endpoints[i].url # NoURL}
HostsChecked(endpoints) == {endpoints[i].url[2] : i \in External(endpoints)}

(* A rule was added to the route, and no host with it. *)
PathAdded ==
    /\ obj.kind = "IngressRoute" /\ IsDerived(obj, world)
    /\ Len(obj'.rules) > Len(obj.rules)
    /\ HostsChecked(entry'.endpoints) = HostsChecked(entry.endpoints)

KeepsName(i) == entry'.endpoints[i].name = entry.endpoints[i].name

(* "Only the paths are suffixed, never the bare host" (externalEndpoints): a
   path more leaves the names of the addresses without one alone. *)
BareNamesSurvive ==
    [][PathAdded => \A i \in External(entry.endpoints) :
                        Targets(obj).hosts[i].path = "" => KeepsName(i)]_vars

(* "Adding a path to a route never renames the endpoint that was already there"
   (README; the same in externalEndpoints), of addresses with a path too. *)
AddingAPathNeverRenames ==
    [][PathAdded => \A i \in External(entry.endpoints) : KeepsName(i)]_vars
=============================================================================
