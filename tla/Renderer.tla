------------------------------ MODULE Renderer ------------------------------
(***************************************************************************)
(* internal/config/render.go: what Renderer.Render does with a snapshot of *)
(* the registry and one of the templates, stage by stage.                  *)
(*                                                                         *)
(* Names, groups, objects and paths are numbers, because Render sorts by   *)
(* them; group 0 is the empty string.  A rendered endpoint is a function   *)
(* from the fields it has to their values.  What a template resolves to is *)
(* given: module TemplateSet is about resolving it.                        *)
(***************************************************************************)
EXTENDS Subsequences, FiniteSetsExt

CONSTANTS Inputs,        \* pairs of endpoints in the registry and templates' states
          DefaultScheme, \* RenderOptions.DefaultScheme
          NoScheme, NoURL, NoHost, NoTemplates  \* fields left empty

(* Registry.Snapshot orders the entries by kind, kinds by their name. *)
KindRank == [IngressRoute |-> 1, IngressRouteTCP |-> 2, Service |-> 3]

(* What discovery makes: an endpoint has a URL, or a host and a port. *)
IsEndpoint(ep) ==
    /\ ep.source \in DOMAIN KindRank
    /\ {ep.ref, ep.name, ep.group} \subseteq Nat
    /\ ep.url # NoURL => ep.host = NoHost
    /\ ep.templates = NoTemplates \/ ep.templates \in Seq(Nat)
    /\ ep.extra \in Seq(Nat)

Elements(s) == {s[i] : i \in DOMAIN s}

ASSUME InputsAssumption ==
    \A input \in Inputs :
        /\ input.endpoints \in Seq(Elements(input.endpoints))
        /\ \A ep \in Elements(input.endpoints) : IsEndpoint(ep)
        /\ IsFiniteSet(DOMAIN input.templates)

VARIABLES snapshot,  \* Registry.Snapshot
          templates, \* the templates: scheme, defaultFor, resolves, body of each
          stage,     \* what Render does next
          ordered,   \* the endpoints still to treat
          seen,      \* the endpoints whose name is taken: the values of seenNames
          rendered,  \* RenderResult.Endpoints
          usage,     \* RenderResult.TemplateUsage
          warnings   \* RenderResult.Warnings

inputVars == <<snapshot, templates>>
resultVars == <<rendered, usage, warnings>>
vars == <<inputVars, stage, ordered, seen, resultVars>>

-----------------------------------------------------------------------------
(* A lexicographic order on triples of numbers. *)
Precedes(a, b) == \E n \in 1..3 : a[n] < b[n] /\ \A m \in 1..(n - 1) : a[m] = b[m]

(* Sorting by keys is stable: equal elements keep their order. *)
Earlier(key) ==
    {e \in (DOMAIN key) \X (DOMAIN key) :
        Precedes(key[e[1]], key[e[2]]) \/ (key[e[1]] = key[e[2]] /\ e[1] < e[2])}
StableSort(s, key) == [p \in DOMAIN s |-> s[AtRank(DOMAIN s, Earlier(key), p)]]

(* Registry.Snapshot orders the entries by key. *)
RegistryKey(ep) == <<KindRank[ep.source], ep.ref, 0>>
SnapshotOf(endpoints) ==
    StableSort(endpoints, [i \in DOMAIN endpoints |-> RegistryKey(endpoints[i])])

Priority(source) == IF source = "Service" THEN 0 ELSE 1

DedupKey(ep) == <<Priority(ep.source), ep.ref, ep.name>>
SortForDedup(endpoints) ==
    StableSort(endpoints, [i \in DOMAIN endpoints |-> DedupKey(endpoints[i])])

-----------------------------------------------------------------------------
(* What the templates say of an endpoint. *)

SchemeOf(t) == IF t \in DOMAIN templates THEN templates[t].scheme ELSE NoScheme
Resolves(t) == t \in DOMAIN templates /\ templates[t].resolves

(* The endpoint's own scheme, else that of the last template it names that has
   one, the appended templates being looked at only if the others have none. *)
LastScheme(names) ==
    LET set == {i \in DOMAIN names : SchemeOf(names[i]) # NoScheme}
    IN  IF set = {} THEN NoScheme ELSE SchemeOf(names[Max(set)])

FirstScheme(schemes) == schemes[Min({i \in DOMAIN schemes : schemes[i] # NoScheme})]

ResolveScheme(ep) ==
    FirstScheme(<<ep.scheme,
                  IF ep.templates = NoTemplates THEN NoScheme ELSE LastScheme(ep.templates),
                  LastScheme(ep.extra),
                  DefaultScheme>>)

(* Template names are numbers too: DefaultsFor sorts them. *)
DefaultsFor(scheme) ==
    InOrder({t \in DOMAIN templates : scheme \in templates[t].defaultFor})

(* Mutant of TemplateNames: template-extra does not come last. *)
TemplateNamesExtraFirst(ep, scheme) ==
    ep.extra \o (IF ep.templates = NoTemplates THEN DefaultsFor(scheme) ELSE ep.templates)

TemplateNames(ep, scheme) ==
    (IF ep.templates = NoTemplates THEN DefaultsFor(scheme) ELSE ep.templates)
        \o ep.extra

BuildURL(ep, scheme) ==
    IF ep.url # NoURL THEN ep.url ELSE <<scheme, ep.host, ep.port, ep.path>>

URLOf(ep) == BuildURL(ep, ResolveScheme(ep))
Address(ep) == <<ep.host, ep.port>>

-----------------------------------------------------------------------------
EmptyObject == [f \in {} |-> 0]

Init ==
    /\ snapshot = <<>>
    /\ templates = EmptyObject
    /\ stage = "idle"
    /\ ordered = <<>>
    /\ seen = {}
    /\ rendered = <<>>
    /\ usage = EmptyObject
    /\ warnings = {}

-----------------------------------------------------------------------------
(* Render. *)

Call ==
    /\ stage = "idle"
    /\ \E input \in Inputs :
          /\ snapshot' = SnapshotOf(input.endpoints)
          /\ templates' = input.templates
          /\ usage' = [t \in DOMAIN input.templates |-> 0]
    /\ stage' = "sort"
    /\ UNCHANGED <<ordered, seen, rendered, warnings>>

Sort ==
    /\ stage = "sort"
    /\ ordered' = SortForDedup(snapshot)
    /\ stage' = "workload"
    /\ UNCHANGED <<inputVars, seen, resultVars>>

(* The in-cluster endpoint of a route gives way to a Service at its address. *)
Covered(endpoints) ==
    {Address(ep) : ep \in {e \in Elements(endpoints) :
                              e.source = "Service" /\ e.host # NoHost}}

(* Mutant of GivesWay: the path counts. *)
GivesWayAtPath(ep, endpoints) ==
    /\ ep.source # "Service"
    /\ \E e \in Elements(endpoints) :
          e.source = "Service" /\ <<e.host, e.port, e.path>> = <<ep.host, ep.port, ep.path>>

GivesWay(ep, endpoints) ==
    /\ ep.source # "Service"
    /\ ep.host # NoHost
    /\ Address(ep) \in Covered(endpoints)

DedupByWorkload ==
    /\ stage = "workload"
    /\ ordered' = Subsequence(ordered, {i \in DOMAIN ordered : ~GivesWay(ordered[i], ordered)})
    /\ stage' = "url"
    /\ UNCHANGED <<inputVars, seen, resultVars>>

Warning(kind, ep, because) == [kind |-> kind, about |-> ep, because |-> because]

SameObject(a, b) == a.source = b.source /\ a.ref = b.ref

(* The first index with a URL. *)
First(urls, i) ==
    CHOOSE j \in 1..i : urls[j] = urls[i] /\ \A k \in 1..(j - 1) : urls[k] # urls[i]

(* The first endpoint with a URL stays; a later one is dropped, with a warning
   unless both come from one object. *)
DedupByURL ==
    /\ stage = "url"
    /\ LET urls == [i \in DOMAIN ordered |-> URLOf(ordered[i])]
           dropped == {i \in DOMAIN ordered : First(urls, i) # i}
       IN  /\ ordered' = Subsequence(ordered, DOMAIN ordered \ dropped)
           /\ warnings' = {Warning("url", ordered[i], ordered[First(urls, i)]) :
                             i \in {d \in dropped :
                                      ~SameObject(ordered[First(urls, d)], ordered[d])}}
    /\ stage' = "render"
    /\ UNCHANGED <<inputVars, seen, rendered, usage>>

-----------------------------------------------------------------------------
(* mergeInto, for fields that are not maps: what the source sets wins. *)
Merge(dst, src) ==
    [f \in DOMAIN dst \cup DOMAIN src |-> IF f \in DOMAIN src THEN src[f] ELSE dst[f]]

(* ResolveMany: the templates that resolve, merged in order. *)
MergedTemplates(names) ==
    LET merged[n \in 0..Len(names)] ==
            IF n = 0 THEN EmptyObject
            ELSE IF Resolves(names[n]) THEN Merge(merged[n - 1], templates[names[n]].body)
            ELSE merged[n - 1]
    IN  merged[Len(names)]

Identity(ep) ==
    Merge([name |-> ep.name, url |-> URLOf(ep)],
          IF ep.group = 0 THEN EmptyObject ELSE [group |-> ep.group])

(* MergeAll(tplLayer, identity, ep.Patch). *)
RenderOne(ep) ==
    LET names == TemplateNames(ep, ResolveScheme(ep))
    IN  Merge(Merge(MergedTemplates(names), Identity(ep)), ep.patch)

(* Mutant of GroupKey: names are told apart per object. *)
GroupKeyOfObject(ep) == <<ep.group, ep.name, ep.ref>>
GroupKey(ep) == <<ep.group, ep.name>>

(* Mutant of SameWorkload: two endpoints without a host are one workload. *)
SameHostIfAny(a, b) == a.host = b.host
SameWorkload(a, b) == a.host # NoHost /\ a.host = b.host

(* Mutant of RenderNext: the rendered object is remembered, not the endpoint. *)
RenderNextByObject ==
    /\ stage = "render"
    /\ ordered # <<>>
    /\ LET ep == Head(ordered)
           object == RenderOne(ep)
       IN  IF \E s \in seen : GroupKey(s) = GroupKey(ep)
             THEN UNCHANGED <<rendered, seen>>
             ELSE /\ rendered' = Append(rendered, [from |-> ep, object |-> object])
                  /\ seen' = seen \cup {object}
    /\ ordered' = Tail(ordered)
    /\ UNCHANGED <<inputVars, stage, usage, warnings>>

(* One endpoint: it is rendered, and its templates counted, before its name is
   looked up. *)
RenderNext ==
    /\ stage = "render"
    /\ ordered # <<>>
    /\ LET ep == Head(ordered)
           names == TemplateNames(ep, ResolveScheme(ep))
           unresolved == {n \in Elements(names) : ~Resolves(n)}
           clashes == {s \in seen : GroupKey(s) = GroupKey(ep)}
       IN  /\ usage' = [t \in DOMAIN usage |->
                          IF Resolves(t)
                            THEN usage[t] + Cardinality({i \in DOMAIN names : names[i] = t})
                            ELSE usage[t]]
           /\ warnings' = warnings
                  \cup {Warning("template", ep, n) : n \in unresolved}
                  \cup {Warning("name", ep, prev) :
                          prev \in {s \in clashes : ~SameWorkload(s, ep)}}
           /\ IF clashes = {}
                THEN /\ rendered' = Append(rendered, [from |-> ep, object |-> RenderOne(ep)])
                     /\ seen' = seen \cup {ep}
                ELSE UNCHANGED <<rendered, seen>>
    /\ ordered' = Tail(ordered)
    /\ UNCHANGED <<inputVars, stage>>

(* stringValue: a field that is absent, or holds no string, is empty. *)
FieldOr0(object, f) == IF f \in DOMAIN object /\ object[f] \in Nat THEN object[f] ELSE 0

(* The output is sorted by its group and name. *)
OutputKey(object) == <<FieldOr0(object, "group"), FieldOr0(object, "name"), 0>>

Finish ==
    /\ stage = "render"
    /\ ordered = <<>>
    /\ rendered' = StableSort(rendered,
                              [i \in DOMAIN rendered |-> OutputKey(rendered[i].object)])
    /\ stage' = "done"
    /\ UNCHANGED <<inputVars, ordered, seen, usage, warnings>>

(* Render keeps nothing from one call to the next. *)
Return ==
    /\ stage = "done"
    /\ stage' = "idle"
    /\ snapshot' = <<>>
    /\ templates' = EmptyObject
    /\ seen' = {}
    /\ rendered' = <<>>
    /\ usage' = EmptyObject
    /\ warnings' = {}
    /\ UNCHANGED ordered

Next ==
    \/ Call
    \/ Sort \/ DedupByWorkload \/ DedupByURL \/ RenderNext \/ Finish
    \/ Return

Spec == Init /\ [][Next]_vars

-----------------------------------------------------------------------------
(* Properties. *)

Done == stage = "done"
Origins == {r.from : r \in Elements(rendered)}
Patched(ep, fields) == DOMAIN ep.patch \cap fields # {}

(* Every variable keeps its type, and all of them speak of the snapshot. *)
TypeOK ==
    /\ stage \in {"idle", "sort", "workload", "url", "render", "done"}
    /\ \A t \in DOMAIN usage : usage[t] \in Nat
    /\ Elements(ordered) \cup seen \cup Origins \subseteq Elements(snapshot)
    /\ \A w \in warnings : w.about \in Elements(snapshot)

(* Gatus keys history on group and name (README.md:359-361): no two rendered
   endpoints share them, nor a URL, unless a raw patch sets one of them over what
   the workload says, or a template the group of an endpoint that has none. *)
UnpatchedEndpointsAreDistinct ==
    LET plain == {i \in DOMAIN rendered :
                    /\ ~Patched(rendered[i].from, {"name", "group", "url"})
                    /\ rendered[i].from.group = 0 => "group" \notin DOMAIN rendered[i].object}
    IN  Done => \A i, j \in plain :
                    i # j => /\ OutputKey(rendered[i].object) # OutputKey(rendered[j].object)
                             /\ rendered[i].object["url"] # rendered[j].object["url"]

(* The host and port that a URL leads to. *)
Target(url) == <<url[2], url[3]>>
IsWorkload(address) == \E s \in Elements(snapshot) : s.host # NoHost /\ Address(s) = address

(* At the URL asked for; or, where a workload runs, at one of its URLs. *)
Checks(url, ep) ==
    \/ url = URLOf(ep)
    \/ Target(url) = Target(URLOf(ep)) /\ IsWorkload(Target(URLOf(ep)))

OnePortPerHost ==
    \A a, b \in Elements(snapshot) : a.host # NoHost /\ a.host = b.host => a.port = b.port

(* Some endpoint that is asked for at ep's host and port goes elsewhere: its raw
   patch sets the url, after every deduplication (render.go:126). *)
Redirected(ep) ==
    \E e \in Elements(snapshot) :
        Target(URLOf(e)) = Target(URLOf(ep)) /\ Patched(e, {"url"})

(* How far the alert on warnings can be relied on (README.md:374-376): with none,
   what an annotated object asks for is checked by some rendered endpoint, at its
   URL or at least at its host and port, through all three ways an endpoint can
   be dropped.  The URL is the one written to the file.  Two cases are excepted,
   in which the code drops an endpoint, checks its address nowhere and does not
   warn: a host asked for at two ports, since sameWorkload compares hosts alone;
   and a Redirected endpoint, since it still silences, by the URL it would have
   had, the endpoints it replaces. *)
NoWarningMeansAllChecked ==
    Done /\ warnings = {} /\ OnePortPerHost =>
        \A ep \in Elements(snapshot) :
            Redirected(ep) \/ \E r \in Elements(rendered) : Checks(r.object["url"], ep)

(* An annotated Service beats the routes to it (render.go:187-199, 221-224): no
   rendered endpoint of a route checks an address that a rendered Service
   endpoint checks, none has the URL of one, and no Service endpoint is dropped
   in favour of a route. *)
ServiceTakesPrecedence ==
    Done => /\ \A s, r \in Origins :
                  s.source = "Service" /\ r.source # "Service" =>
                      /\ URLOf(s) # URLOf(r)
                      /\ s.host # NoHost => Address(s) # Address(r)
            /\ \A w \in warnings :
                  w.kind \in {"url", "name"} /\ w.about.source = "Service" =>
                      w.because.source = "Service"

(* The layers of an endpoint, the highest first. *)
TemplateBody(t) == IF Resolves(t) THEN templates[t].body ELSE EmptyObject
LatestFirst(names) == [i \in DOMAIN names |-> TemplateBody(names[Len(names) + 1 - i])]
Selected(ep) ==
    IF ep.templates = NoTemplates THEN DefaultsFor(ResolveScheme(ep)) ELSE ep.templates
LayersOf(ep) ==
    <<ep.patch, Identity(ep)>> \o LatestFirst(ep.extra) \o LatestFirst(Selected(ep))
SetBy(ep, f) == {i \in DOMAIN LayersOf(ep) : f \in DOMAIN LayersOf(ep)[i]}

(* The endpoint has no group, and templates give it one. *)
GroupedByTemplates(ep) ==
    SetBy(ep, "group") # {} /\ SetBy(ep, "group") \cap {1, 2} = {}

(* Each field comes from the highest layer that sets it (README.md:216-224): the
   raw patch, what the workload is, template-extra, the selected templates, the
   later before the earlier and those that do not resolve left out.  Excepted is
   the group of an endpoint that has none: README.md:134-136, 223 and
   service.go:237-239 put it at the top level, the code where a template says
   (render.go:118-126). *)
FieldsFollowPrecedence ==
    Done => \A r \in Elements(rendered), f \in {"name", "group", "url", "interval"} :
        \/ f = "group" /\ GroupedByTemplates(r.from)
        \/ /\ f \in DOMAIN r.object <=> SetBy(r.from, f) # {}
           /\ \A i \in SetBy(r.from, f) :
                 (\A j \in SetBy(r.from, f) : i <= j) => r.object[f] = LayersOf(r.from)[i][f]
=============================================================================
