--------------------------- MODULE DiscoveryProofs ---------------------------
(* Proofs about Discovery: what an object's endpoints depend on, that each
   change of it has the object reconciled, and what the endpoints are. *)
EXTENDS Discovery, SubsequenceProofs

-----------------------------------------------------------------------------
(* Sequences, whatever is in them. *)

LEMMA ElementsListed ==
    ASSUME NEW S, NEW s \in Seq(S)
    PROVE  Listed(s) /\ ToSet(s) \subseteq S
<1>1. s \in [1..Len(s) -> S] /\ Len(s) \in Nat
  BY LenProperties
<1>2. s \in [1..Len(s) -> ToSet(s)]
  BY <1>1 DEF ToSet
<1>3. s \in Seq(ToSet(s))
  BY <1>1, <1>2, IsASeq
<1> QED
  BY <1>1, <1>3 DEF Listed, ToSet

LEMMA ListIsFunction ==
    ASSUME NEW s, Listed(s)
    PROVE  /\ Len(s) \in Nat /\ DOMAIN s = 1..Len(s)
           /\ s = [i \in 1..Len(s) |-> s[i]]
BY LenProperties DEF Listed

LEMMA FunctionListed ==
    ASSUME NEW n \in Nat, NEW s, s = [i \in 1..n |-> s[i]]
    PROVE  Listed(s) /\ Len(s) = n /\ DOMAIN s = 1..n
<1>1. DOMAIN s = 1..n
  OBVIOUS
<1>2. s \in [1..n -> ToSet(s)]
  BY <1>1 DEF ToSet
<1>3. s \in Seq(ToSet(s))
  BY <1>2, SeqDef
<1> QED
  BY <1>1, <1>3, LenProperties DEF Listed

LEMMA KeptListed ==
    ASSUME NEW s, Listed(s), NEW keep, keep \subseteq DOMAIN s
    PROVE  /\ Listed(Subsequence(s, keep))
           /\ ToSet(Subsequence(s, keep)) = {s[i] : i \in keep}
<1>1. Subsequence(s, keep) \in Seq(ToSet(s)) /\ \E n, place : IsKeeping(n, s, keep, place)
  BY Keeps DEF Listed
<1>2. Listed(Subsequence(s, keep))
  BY <1>1, ElementsListed
<1>3. PICK n, place : IsKeeping(n, s, keep, place)
  BY <1>1
<1>4. /\ Subsequence(s, keep) = [p \in 1..n |-> s[place[p]]]
      /\ \A p \in 1..n : place[p] \in keep
      /\ \A i \in keep : \E p \in 1..n : place[p] = i
  BY <1>3 DEF IsKeeping
<1>5. ToSet(Subsequence(s, keep)) = {s[place[p]] : p \in 1..n}
  BY <1>4 DEF ToSet
<1> QED
  BY <1>2, <1>4, <1>5

LEMMA RowsListed ==
    ASSUME NEW rows, Listed(rows), \A i \in DOMAIN rows : Listed(rows[i])
    PROVE  rows \in Seq(Seq(UNION {ToSet(rows[i]) : i \in DOMAIN rows}))
<1> DEFINE S == UNION {ToSet(rows[i]) : i \in DOMAIN rows}
<1>1. /\ Len(rows) \in Nat /\ DOMAIN rows = 1..Len(rows)
      /\ rows = [i \in 1..Len(rows) |-> rows[i]]
  BY ListIsFunction
<1>2. ASSUME NEW i \in DOMAIN rows PROVE rows[i] \in Seq(S)
  <2>1. ToSet(rows[i]) \subseteq S /\ rows[i] \in Seq(ToSet(rows[i]))
    BY DEF Listed
  <2> HIDE DEF S
  <2> QED
    BY <2>1, SeqMonotonic
<1> HIDE DEF S
<1>3. rows \in [1..Len(rows) -> Seq(S)]
  BY <1>1, <1>2
<1>4. rows \in Seq(Seq(S))
  BY <1>1, <1>3, IsASeq
<1> QED
  BY <1>4 DEF S

LEMMA FlattenListed ==
    ASSUME NEW rows, Listed(rows), \A i \in DOMAIN rows : Listed(rows[i])
    PROVE  /\ Listed(FlattenSeq(rows))
           /\ \A x \in ToSet(FlattenSeq(rows)) : \E i \in DOMAIN rows : x \in ToSet(rows[i])
<1> DEFINE S == UNION {ToSet(rows[i]) : i \in DOMAIN rows}
<1>1. rows \in Seq(Seq(S))
  BY RowsListed
<1> HIDE DEF S
<1>2. FlattenSeq(rows) \in Seq(S)
  BY <1>1, FlattenTyped
<1>3. Listed(FlattenSeq(rows)) /\ ToSet(FlattenSeq(rows)) \subseteq S
  BY <1>2, ElementsListed
<1> QED
  BY <1>3 DEF S

LEMMA FirstsListed ==
    ASSUME NEW s, Listed(s), NEW keys
    PROVE  Listed(Firsts(s, keys)) /\ ToSet(Firsts(s, keys)) \subseteq ToSet(s)
<1> DEFINE keep == {i \in DOMAIN s : \A j \in 1..(i - 1) : keys[j] # keys[i]}
<1>1. Firsts(s, keys) = Subsequence(s, keep)
  BY DEF Firsts
<1>2. keep \subseteq DOMAIN s
  OBVIOUS
<1> HIDE DEF keep
<1> QED
  BY <1>1, <1>2, KeptListed DEF ToSet

LEMMA BothListed ==
    ASSUME NEW s, NEW t, Listed(s), Listed(t)
    PROVE  /\ Listed(s \o t)
           /\ Len(s \o t) = Len(s) + Len(t)
           /\ \A i \in 1..Len(s) : (s \o t)[i] = s[i]
           /\ \A i \in 1..Len(t) : (s \o t)[Len(s) + i] = t[i]
           /\ ToSet(s \o t) = ToSet(s) \cup ToSet(t)
           /\ s \in Seq(ToSet(s) \cup ToSet(t)) /\ t \in Seq(ToSet(s) \cup ToSet(t))
<1> DEFINE S == ToSet(s) \cup ToSet(t)
<1>1. s \in Seq(S) /\ t \in Seq(S)
  BY SeqMonotonic DEF Listed
<1>2. PICK m \in Nat, n \in Nat : m = Len(s) /\ n = Len(t) /\ DOMAIN s = 1..m /\ DOMAIN t = 1..n
  BY ListIsFunction
<1> HIDE DEF S
<1>3. PICK u : u = s \o t
  OBVIOUS
<1>4. /\ u \in Seq(S) /\ Len(u) = m + n
      /\ \A i \in 1..(m + n) : u[i] = IF i <= m THEN s[i] ELSE t[i - m]
  BY <1>1, <1>2, <1>3, ConcatProperties
<1>5. DOMAIN u = 1..(m + n) /\ Listed(u)
  BY <1>4, LenProperties, ElementsListed
<1>6. \A i \in 1..m : i \in 1..(m + n) /\ u[i] = s[i]
  BY <1>4
<1>7. \A i \in 1..n : m + i \in 1..(m + n) /\ u[m + i] = t[i]
  <2>1. \A i \in 1..n : m + i \in 1..(m + n) /\ ~(m + i <= m) /\ (m + i) - m = i
    OBVIOUS
  <2> QED
    BY <1>4, <2>1
<1>8. \A i \in 1..(m + n) : i \in 1..m \/ \E j \in 1..n : i = m + j
  <2> SUFFICES ASSUME NEW i \in 1..(m + n), i \notin 1..m PROVE \E j \in 1..n : i = m + j
    OBVIOUS
  <2>1. i - m \in 1..n /\ i = m + (i - m)
    OBVIOUS
  <2> QED
    BY <2>1
<1>9. ToSet(u) = ToSet(s) \cup ToSet(t)
  <2>1. ASSUME NEW i \in 1..(m + n) PROVE u[i] \in ToSet(s) \cup ToSet(t)
    <3>1. CASE i \in 1..m
      BY <1>2, <1>6, <3>1 DEF ToSet
    <3>2. CASE i \notin 1..m
      <4>1. PICK j \in 1..n : i = m + j
        BY <1>8, <3>2
      <4> QED
        BY <1>2, <1>7, <4>1 DEF ToSet
    <3> QED
      BY <3>1, <3>2
  <2>2. \A x \in ToSet(s) : x \in ToSet(u)
    BY <1>2, <1>5, <1>6 DEF ToSet
  <2>3. \A x \in ToSet(t) : x \in ToSet(u)
    BY <1>2, <1>5, <1>7 DEF ToSet
  <2>4. ToSet(u) = {u[i] : i \in 1..(m + n)}
    BY <1>5 DEF ToSet
  <2> QED
    BY <2>1, <2>2, <2>3, <2>4
<1> QED
  BY <1>1, <1>2, <1>3, <1>4, <1>5, <1>6, <1>7, <1>9 DEF S

-----------------------------------------------------------------------------
(* The world. *)

(* The world is looked at through its three parts. *)
WorldShape ==
    /\ world = [services |-> world.services, nsGroup |-> world.nsGroup, flags |-> world.flags]
    /\ world.services = [ref \in ServiceRefs |-> world.services[ref]]

(* Two worlds that differ in their Services alone. *)
SameSettings(w, x) == w.nsGroup = x.nsGroup /\ w.flags = x.flags

-----------------------------------------------------------------------------
(* What each part of a derivation depends on. *)

LEMMA BaseNeedsSettings ==
    ASSUME NEW s, NEW o, NEW w, NEW x, SameSettings(w, x)
    PROVE  BaseEndpoint(s, o, w) = BaseEndpoint(s, o, x)
BY DEF SameSettings, BaseEndpoint, ResolveGroup

LEMMA ExternalNameNeedsSettings ==
    ASSUME NEW s, NEW o, NEW w, NEW x, SameSettings(w, x)
    PROVE  \A host, total, parts :
              ExternalName(s, o, w, host, total, parts) = ExternalName(s, o, x, host, total, parts)
<1>1. Suffix(w) = Suffix(x)
  BY DEF SameSettings, Suffix
<1> QED
  BY <1>1, Zenon DEF ExternalName

LEMMA SpecNeedsSettings ==
    ASSUME NEW specs, NEW o, NEW w, NEW x, NEW host, NEW ports, SameSettings(w, x)
    PROVE  EndpointsFromSpecs(specs, o, w, host, ports)
             = EndpointsFromSpecs(specs, o, x, host, ports)
<1> DEFINE endpoints(v) ==
               [i \in DOMAIN specs |-> EndpointFromSpec(specs[i], o, v, host, ports)]
<1>1. \A s : EndpointFromSpec(s, o, w, host, ports) = EndpointFromSpec(s, o, x, host, ports)
  BY BaseNeedsSettings DEF EndpointFromSpec
<1>2. endpoints(w) = endpoints(x)
  BY <1>1
<1> QED
  BY <1>2 DEF EndpointsFromSpecs

(* An internal endpoint depends on the Service of its backend alone. *)
LEMMA BackendsNeedTheirServices ==
    ASSUME NEW s, NEW o, NEW w, NEW x, NEW backends, SameSettings(w, x),
           \A i \in DOMAIN backends :
               ServiceAt(backends[i].ref, w) = ServiceAt(backends[i].ref, x)
    PROVE  InternalEndpoints(s, o, w, backends) = InternalEndpoints(s, o, x, backends)
<1>1. BaseEndpoint(s, o, w) = BaseEndpoint(s, o, x)
  BY BaseNeedsSettings
<1>2. ASSUME NEW i \in DOMAIN backends
      PROVE  InternalEndpoint(s, o, w, backends[i], Len(backends))
               = InternalEndpoint(s, o, x, backends[i], Len(backends))
  BY <1>1, Zenon DEF InternalEndpoint
<1>3. AllInternal(s, o, w, backends) = AllInternal(s, o, x, backends)
  BY <1>2, Zenon DEF AllInternal
<1> QED
  BY <1>3, Zenon DEF InternalEndpoints

(* An entry point's port depends on the Traefik Services in scope alone. *)
LEMMA PortNeedsTraefik ==
    ASSUME NEW o, NEW w, NEW x, NEW e, SameSettings(w, x), InScope(w) = InScope(x),
           \A ref \in InScope(w) : w.services[ref] = x.services[ref]
    PROVE  PortOf(e, o, w) = PortOf(e, o, x)
<1> DEFINE prefer == Written(o.ann, "traefikService", <<>>)
<1>1. Naming(e, prefer, w) = Naming(e, prefer, x)
  BY DEF Naming
<1>2. \A ref \in Naming(e, prefer, w) : ref \in InScope(w)
  BY DEF Naming
<1>3. PortsPublished(e, prefer, w) = PortsPublished(e, prefer, x)
  BY <1>1, <1>2 DEF PortsPublished
<1>4. EntrypointPort(e, prefer, w) = EntrypointPort(e, prefer, x)
  BY <1>3 DEF EntrypointPort, SameSettings
<1> QED
  BY <1>4 DEF PortOf

LEMMA ExternalNeedsSettings ==
    ASSUME NEW s, NEW o, NEW w, NEW x, NEW hosts, SameSettings(w, x)
    PROVE  ExternalEndpoints(s, o, w, hosts) = ExternalEndpoints(s, o, x, hosts)
<1> DEFINE scheme == IF s.scheme = "" THEN "https" ELSE s.scheme
           path(t) == NormalisePath(IF s.path = "" THEN t.path ELSE s.path)
           name(v, t) == ExternalName(s, o, v, t.host, DistinctHosts(hosts), PathPart(t, hosts))
           endpoint(v, t) == [BaseEndpoint(s, o, v) EXCEPT
                                  !.name = name(v, t),
                                  !.url = <<scheme, t.host, path(t), 0>>, !.scheme = scheme]
           all(v) == [i \in DOMAIN hosts |-> endpoint(v, hosts[i])]
<1>1. BaseEndpoint(s, o, w) = BaseEndpoint(s, o, x)
  BY BaseNeedsSettings
<1>2. \A t : name(w, t) = name(x, t)
  BY ExternalNameNeedsSettings
<1> HIDE DEF name
<1>3. \A t : endpoint(w, t) = endpoint(x, t)
  <2> TAKE t
  <2>1. name(w, t) = name(x, t)
    BY <1>2
  <2> QED
    BY <1>1, <2>1, Zenon
<1> HIDE DEF endpoint
<1>4. all(w) = all(x)
  BY <1>3
<1> USE DEF endpoint, name
<1> QED
  BY <1>4, Zenon DEF ExternalEndpoints

LEMMA TCPNeedsTraefik ==
    ASSUME NEW s, NEW o, NEW w, NEW x, NEW hosts, SameSettings(w, x),
           \A e : PortOf(e, o, w) = PortOf(e, o, x)
    PROVE  TCPEndpoints(s, o, w, hosts) = TCPEndpoints(s, o, x, hosts)
<1> DEFINE row(v, i) == [j \in DOMAIN hosts |->
                            TCPEndpoint(s, o, v, hosts, o.entryPoints[i], hosts[j].host)]
           rows(v) == [i \in DOMAIN o.entryPoints |-> row(v, i)]
<1>1. BaseEndpoint(s, o, w) = BaseEndpoint(s, o, x)
  BY BaseNeedsSettings
<1>2. \A e, h : TCPEndpoint(s, o, w, hosts, e, h) = TCPEndpoint(s, o, x, hosts, e, h)
  <2> TAKE e, h
  <2>1. PICK part : part = IF Len(o.entryPoints) > 1 THEN <<e>> ELSE <<>>
    OBVIOUS
  <2>2. ExternalName(s, o, w, h, Len(hosts), part) = ExternalName(s, o, x, h, Len(hosts), part)
    BY ExternalNameNeedsSettings
  <2>3. PortOf(e, o, w) = PortOf(e, o, x)
    OBVIOUS
  <2> QED
    BY <1>1, <2>1, <2>2, <2>3, Zenon DEF TCPEndpoint
<1>3. \A i : row(w, i) = row(x, i)
  BY <1>2
<1> HIDE DEF row
<1>4. rows(w) = rows(x)
  BY <1>3
<1> USE DEF row
<1> QED
  BY <1>4, Zenon DEF TCPEndpoints

-----------------------------------------------------------------------------
(* What a derivation depends on. *)

(* The Services named by the route, each as it is. *)
SameBackends(o, w, x) ==
    \A i \in DOMAIN Targets(o).backends :
        LET ref == Targets(o).backends[i].ref IN ServiceAt(ref, w) = ServiceAt(ref, x)

SameTraefik(w, x) ==
    InScope(w) = InScope(x) /\ \A ref \in InScope(w) : w.services[ref] = x.services[ref]

LEMMA HTTPNeedsBackends ==
    ASSUME NEW s, NEW o, NEW w, NEW x, SameSettings(w, x), SameBackends(o, w, x)
    PROVE  DeriveHTTP(s, o, w, Targets(o)) = DeriveHTTP(s, o, x, Targets(o))
<1>1. InternalEndpoints(s, o, w, Targets(o).backends)
        = InternalEndpoints(s, o, x, Targets(o).backends)
  BY BackendsNeedTheirServices DEF SameBackends
<1>3. ExternalEndpoints(s, o, w, Targets(o).hosts) = ExternalEndpoints(s, o, x, Targets(o).hosts)
  BY ExternalNeedsSettings
<1> QED
  BY <1>1, <1>3 DEF DeriveHTTP

LEMMA TCPNeedsBackends ==
    ASSUME NEW s, NEW o, NEW w, NEW x, SameSettings(w, x), SameBackends(o, w, x),
           SameTraefik(w, x)
    PROVE  DeriveTCP(s, o, w, Targets(o)) = DeriveTCP(s, o, x, Targets(o))
<1>1. \A t : InternalEndpoints(t, o, w, Targets(o).backends)
               = InternalEndpoints(t, o, x, Targets(o).backends)
  BY BackendsNeedTheirServices DEF SameBackends
<1>2. \A e : PortOf(e, o, w) = PortOf(e, o, x)
  BY PortNeedsTraefik DEF SameTraefik
<1>3. TCPEndpoints(s, o, w, Targets(o).hosts) = TCPEndpoints(s, o, x, Targets(o).hosts)
  BY <1>2, TCPNeedsTraefik
<1> QED
  BY <1>1, <1>2, <1>3 DEF DeriveTCP

(* All a route's endpoints depend on in the cluster: the settings; and, if they
   come from its rules, the Services of its backends and, for TCP, those of
   Traefik. *)
LEMMA DerivationNeeds ==
    ASSUME NEW o, NEW w, NEW x, o.kind # "Service", SameSettings(w, x),
           IsDerived(o, w) =>
               /\ SameBackends(o, w, x)
               /\ o.kind # "IngressRoute" => SameTraefik(w, x)
    PROVE  Derive(o, w) = Derive(o, x)
<1>1. /\ w.nsGroup = x.nsGroup
      /\ Enabled(o, w) <=> Enabled(o, x)
  BY DEF SameSettings, Enabled
<1>2. CASE w.nsGroup = Unselected \/ ~Enabled(o, w) \/ Excluded(o)
  BY <1>1, <1>2 DEF Derive
<1>3. CASE ~(w.nsGroup = Unselected \/ ~Enabled(o, w) \/ Excluded(o))
  <2>1. Derive(o, w) = FromRoute(o, w) /\ Derive(o, x) = FromRoute(o, x)
    BY <1>1, <1>3 DEF Derive
  <2>2. CASE IsDerived(o, w)
    <3>1. \A s : DeriveHTTP(s, o, w, Targets(o)) = DeriveHTTP(s, o, x, Targets(o))
      BY <2>2, HTTPNeedsBackends
    <3>2. CASE o.kind = "IngressRoute"
      BY <2>1, <2>2, <3>1, <3>2 DEF FromRoute, IsDerived
    <3>3. CASE o.kind # "IngressRoute"
      <4>1. \A s : DeriveTCP(s, o, w, Targets(o)) = DeriveTCP(s, o, x, Targets(o))
        BY <2>2, <3>3, TCPNeedsBackends
      <4> QED
        BY <2>1, <2>2, <3>3, <4>1 DEF FromRoute, IsDerived
    <3> QED
      BY <3>2, <3>3
  <2>3. CASE ~IsDerived(o, w)
    <3>1. \/ AnnotationsFail(o.ann) \/ IsDescribed(o)
          \/ \E i \in DOMAIN o.rules : o.rules[i].match = Unparsable
      BY <1>3, <2>3 DEF IsDerived
    <3>2. EndpointsFromSpecs(SpecsFromAnnotations(o.ann), o, w, NoHost, <<>>)
            = EndpointsFromSpecs(SpecsFromAnnotations(o.ann), o, x, NoHost, <<>>)
      BY SpecNeedsSettings
    <3> QED
      BY <2>1, <3>1, <3>2 DEF FromRoute
  <2> QED
    BY <2>2, <2>3
<1> QED
  BY <1>2, <1>3

(* A Service depends on nothing else in the cluster. *)
LEMMA ServiceNeedsSettings ==
    ASSUME NEW o, NEW w, NEW x, o.kind = "Service", SameSettings(w, x)
    PROVE  Derive(o, w) = Derive(o, x)
<1>1. /\ w.nsGroup = x.nsGroup
      /\ Enabled(o, w) <=> Enabled(o, x)
  BY DEF SameSettings, Enabled
<1>2. FromService(o, w) = FromService(o, x)
  BY SpecNeedsSettings DEF FromService
<1> QED
  BY <1>1, <1>2 DEF Derive

-----------------------------------------------------------------------------
(* The inductive invariant: the entry was derived from a world that differs
   from the present one in nothing that has the object reconciled. *)

ServicesOK(w) == \A ref \in ServiceRefs : IsService(w.services[ref])

DerivedFrom(x, o, w, e) ==
    /\ e = Derive(o, x)
    /\ SameSettings(x, w)
    /\ ServicesOK(x)
    /\ \A ref \in ServiceRefs : ref[1] = o.namespace => x.services[ref] = w.services[ref]
    /\ o.kind = "IngressRouteTCP" => SameTraefik(x, w)

CurrentInv ==
    /\ IsObject(obj)
    /\ WorldShape
    /\ ServicesOK(world)
    /\ \E x : DerivedFrom(x, obj, world, entry)

LEMMA DerivedFromHere ==
    ASSUME NEW o, NEW w, NEW e, e = Derive(o, w), ServicesOK(w)
    PROVE  \E x : DerivedFrom(x, o, w, e)
<1>1. DerivedFrom(w, o, w, e)
  BY DEF DerivedFrom, SameSettings, SameTraefik
<1> QED
  BY <1>1

LEMMA CurrentInit == Init => CurrentInv
<1> SUFFICES ASSUME Init PROVE CurrentInv
  OBVIOUS
<1>1. WorldShape
  BY DEF Init, WorldShape
<1>2. IsObject(obj) /\ entry = Derive(obj, world)
  BY SourcesAssumption DEF Init
<1>3. ServicesOK(world)
  BY DEF Init, ServicesOK, IsService
<1>4. \E x : DerivedFrom(x, obj, world, entry)
  BY <1>2, <1>3, DerivedFromHere
<1> QED
  BY <1>1, <1>2, <1>3, <1>4 DEF CurrentInv

LEMMA EditKeeps ==
    ASSUME CurrentInv, NEW o, IsObject(o), Edit(o)
    PROVE  CurrentInv'
<1>1. obj' = o /\ entry' = Derive(o, world) /\ world' = world
  BY DEF Edit
<1>2. IsObject(obj')
  BY <1>1
<1>3. \E x : DerivedFrom(x, o, world, Derive(o, world))
  BY DerivedFromHere DEF CurrentInv
<1>4. WorldShape' /\ ServicesOK(world')
  BY <1>1 DEF CurrentInv, WorldShape
<1>5. \E x : DerivedFrom(x, obj', world', entry')
  BY <1>1, <1>3
<1> QED
  BY <1>2, <1>4, <1>5 DEF CurrentInv

LEMMA AnnotatedObject ==
    ASSUME NEW o, IsObject(o), NEW ann, AreAnnotations(ann)
    PROVE  IsObject([o EXCEPT !.ann = ann])
BY DEF IsObject

LEMMA WithMoreRules ==
    ASSUME NEW o, IsObject(o), NEW rule, IsRule(rule)
    PROVE  IsObject([o EXCEPT !.rules = Append(o.rules, rule)])
<1> DEFINE S == ToSet(o.rules) \cup {rule}
<1>1. o.rules \in Seq(ToSet(o.rules)) /\ \A r \in S : IsRule(r)
  BY DEF IsObject, Listed
<1>2. Append(o.rules, rule) \in Seq(S)
  <2>1. o.rules \in Seq(S) /\ rule \in S
    BY <1>1, SeqMonotonic
  <2> QED
    BY <2>1, AppendProperties
<1>3. Listed(Append(o.rules, rule)) /\ ToSet(Append(o.rules, rule)) \subseteq S
  BY <1>2, ElementsListed
<1> QED
  BY <1>1, <1>3 DEF IsObject

LEMMA RemovedListed ==
    ASSUME NEW s, Listed(s), NEW i \in DOMAIN s
    PROVE  /\ Listed(RemoveAt(s, i)) /\ ToSet(RemoveAt(s, i)) \subseteq ToSet(s)
           /\ Len(RemoveAt(s, i)) < Len(s)
<1>1. PICK n \in Nat : n = Len(s) /\ DOMAIN s = 1..n
  BY ListIsFunction
<1>2. i \in 1..n
  BY <1>1
<1>3. \A j \in 1..n : s[j] \in ToSet(s)
  BY <1>1 DEF ToSet
<1>4. SubSeq(s, 1, i - 1) \in Seq(ToSet(s))
  <2>1. 1 \in Int /\ i - 1 \in Int /\ \A j \in 1..(i - 1) : s[j] \in ToSet(s)
    BY <1>2, <1>3
  <2> QED
    BY <2>1, SubSeqProperties
<1>5. SubSeq(s, i + 1, n) \in Seq(ToSet(s))
  <2>1. i + 1 \in Int /\ n \in Int /\ \A j \in (i + 1)..n : s[j] \in ToSet(s)
    BY <1>2, <1>3
  <2> QED
    BY <2>1, SubSeqProperties
<1>6. Len(SubSeq(s, 1, i - 1)) = i - 1
  <2>1. 1 \in Int /\ i - 1 \in Int /\ \A j \in 1..(i - 1) : s[j] \in ToSet(s)
    BY <1>2, <1>3
  <2> QED
    BY <1>2, <2>1, SubSeqProperties
<1>7. Len(SubSeq(s, i + 1, n)) = n - i
  <2>1. i + 1 \in Int /\ n \in Int /\ \A j \in (i + 1)..n : s[j] \in ToSet(s)
    BY <1>2, <1>3
  <2> QED
    BY <1>2, <2>1, SubSeqProperties
<1>8. RemoveAt(s, i) \in Seq(ToSet(s))
  BY <1>1, <1>4, <1>5, ConcatProperties DEF RemoveAt
<1>9. Len(RemoveAt(s, i)) = (i - 1) + (n - i)
  BY <1>1, <1>4, <1>5, <1>6, <1>7, ConcatProperties DEF RemoveAt
<1>10. Len(RemoveAt(s, i)) < Len(s)
  BY <1>1, <1>2, <1>9
<1> QED
  BY <1>8, <1>10, ElementsListed

LEMMA WithFewerRules ==
    ASSUME NEW o, IsObject(o), NEW i \in DOMAIN o.rules
    PROVE  IsObject([o EXCEPT !.rules = RemoveAt(o.rules, i)])
<1>1. Listed(RemoveAt(o.rules, i)) /\ ToSet(RemoveAt(o.rules, i)) \subseteq ToSet(o.rules)
  BY RemovedListed DEF IsObject
<1> QED
  BY <1>1 DEF IsObject

LEMMA ListeningObject ==
    ASSUME NEW o, IsObject(o), NEW entryPoints, Listed(entryPoints), NEW tls
    PROVE  IsObject([o EXCEPT !.entryPoints = entryPoints, !.tls = tls])
BY DEF IsObject

LEMMA ServedObject ==
    ASSUME NEW o, IsObject(o), NEW own, ArePorts(own.ports)
    PROVE  IsObject([o EXCEPT !.own = own])
BY DEF IsObject

LEMMA EditNamespaceKeeps ==
    ASSUME CurrentInv, NEW group, EditNamespace(group)
    PROVE  CurrentInv'
<1>1. PICK w : w = [world EXCEPT !.nsGroup = group]
  OBVIOUS
<1>2. world' = w /\ entry' = Derive(obj, w) /\ obj' = obj
  BY <1>1 DEF EditNamespace
<1>3. WorldShape' /\ w.services = world.services
  BY <1>1, <1>2 DEF CurrentInv, WorldShape
<1>4. ServicesOK(w)
  BY <1>3 DEF CurrentInv, ServicesOK
<1>5. \E x : DerivedFrom(x, obj, w, Derive(obj, w))
  BY <1>4, DerivedFromHere
<1>6. ServicesOK(world') /\ \E x : DerivedFrom(x, obj', world', entry')
  BY <1>2, <1>4, <1>5
<1> QED
  BY <1>2, <1>3, <1>6 DEF CurrentInv

(* What a change of one Service leaves as it was. *)
LEMMA OneServiceChanges ==
    ASSUME WorldShape, NEW ref \in ServiceRefs, NEW service, EditService(ref, service)
    PROVE  /\ obj' = obj /\ obj.kind # "Service"
           /\ WorldShape'
           /\ SameSettings(world, world')
           /\ world'.services[ref] = service
           /\ \A q \in ServiceRefs : q # ref => world'.services[q] = world.services[q]
<1>1. /\ obj' = obj /\ obj.kind # "Service"
      /\ world' = [world EXCEPT !.services[ref] = service]
  BY DEF EditService
<1>2. /\ WorldShape'
      /\ SameSettings(world, world')
      /\ world'.services = [world.services EXCEPT ![ref] = service]
  BY <1>1 DEF WorldShape, SameSettings
<1> QED
  BY <1>1, <1>2 DEF WorldShape

LEMMA EditServiceKeeps ==
    ASSUME CurrentInv, NEW ref \in ServiceRefs, NEW service, IsService(service),
           EditService(ref, service)
    PROVE  CurrentInv'
<1> DEFINE before == world.services[ref]
<1>1. /\ obj' = obj /\ WorldShape' /\ SameSettings(world, world')
      /\ world'.services[ref] = service
      /\ \A q \in ServiceRefs : q # ref => world'.services[q] = world.services[q]
  BY OneServiceChanges DEF CurrentInv
<1>2. ServicesOK(world')
  BY <1>1 DEF CurrentInv, ServicesOK
<1>3. CASE RoutesForService(ref, before, service)
  <2>1. entry' = Derive(obj', world')
    BY <1>1, <1>3 DEF EditService
  <2>2. \E x : DerivedFrom(x, obj', world', entry')
    BY <1>2, <2>1, DerivedFromHere
  <2> QED
    BY <1>1, <1>2, <2>2 DEF CurrentInv
<1>4. CASE ~RoutesForService(ref, before, service)
  <2>1. entry' = entry /\ ref[1] # obj.namespace
    BY <1>4 DEF EditService, RoutesForService
  <2>2. PICK x : DerivedFrom(x, obj, world, entry)
    BY DEF CurrentInv
  <2>3. SameSettings(x, world')
    BY <1>1, <2>2 DEF DerivedFrom, SameSettings
  <2>4. ASSUME obj.kind = "IngressRouteTCP" PROVE SameTraefik(x, world')
    <3>1. ref \notin InScope(world) /\ ref \notin InScope(world')
      BY <1>1, <1>4, <2>4 DEF RoutesForService, InScope, SameSettings
    <3>2. \A q \in ServiceRefs :
             q \in InScope(world) <=> q \in InScope(world')
      BY <1>1, <3>1 DEF InScope, SameSettings
    <3>3. InScope(world) = InScope(world')
      BY <3>2 DEF InScope
    <3>4. InScope(x) = InScope(world) /\ \A q \in InScope(x) : x.services[q] = world.services[q]
      BY <2>2, <2>4 DEF DerivedFrom, SameTraefik
    <3>5. \A q \in InScope(world) : world'.services[q] = world.services[q]
      BY <1>1, <3>1 DEF InScope
    <3> QED
      BY <3>3, <3>4, <3>5 DEF SameTraefik
  <2>5. \A q \in ServiceRefs : q[1] = obj.namespace => x.services[q] = world'.services[q]
    BY <1>1, <2>1, <2>2 DEF DerivedFrom
  <2>6. DerivedFrom(x, obj', world', entry')
    BY <1>1, <2>1, <2>2, <2>3, <2>4, <2>5 DEF DerivedFrom
  <2> QED
    BY <1>1, <1>2, <2>6 DEF CurrentInv
<1> QED
  BY <1>3, <1>4

LEMMA CurrentStep == CurrentInv /\ [Next]_vars => CurrentInv'
<1> SUFFICES ASSUME CurrentInv, [Next]_vars PROVE CurrentInv'
  OBVIOUS
<1>0. obj.kind \in Kinds /\ IsObject(obj)
  BY DEF CurrentInv, IsObject
<1>1. ASSUME NEW ann \in AnnotationsOf[obj.kind], Annotate(ann) PROVE CurrentInv'
  BY <1>0, <1>1, SourcesAssumption, AnnotatedObject, EditKeeps DEF Annotate
<1>2. ASSUME NEW rule \in RulesOf[obj.kind], AppendRule(rule) PROVE CurrentInv'
  BY <1>0, <1>2, SourcesAssumption, WithMoreRules, EditKeeps DEF AppendRule
<1>3. ASSUME NEW i \in DOMAIN obj.rules, DropRule(i) PROVE CurrentInv'
  BY <1>0, <1>3, WithFewerRules, EditKeeps DEF DropRule
<1>4. ASSUME NEW l \in ListenersOf[obj.kind], EditListeners(l) PROVE CurrentInv'
  BY <1>0, <1>4, SourcesAssumption, ListeningObject, EditKeeps DEF EditListeners
<1>5. ASSUME NEW own \in OwnServicesOf[obj.kind], EditOwnService(own) PROVE CurrentInv'
  BY <1>0, <1>5, SourcesAssumption, ServedObject, EditKeeps DEF EditOwnService
<1>6. ASSUME NEW ref \in ServiceRefs, NEW service \in ServicesOf[obj.kind][ref],
             EditService(ref, service)
      PROVE  CurrentInv'
  BY <1>0, <1>6, SourcesAssumption, EditServiceKeeps
<1>7. CASE UNCHANGED vars
  BY <1>7 DEF vars, CurrentInv, WorldShape
<1> QED
  BY <1>1, <1>2, <1>3, <1>4, <1>5, <1>6, <1>7, EditNamespaceKeeps DEF Next

LEMMA CurrentAlways == Spec => []CurrentInv
BY CurrentInit, CurrentStep, PTL DEF Spec

-----------------------------------------------------------------------------
(* Match expressions: recursion over them ends, and what is computed of every
   expression is what its parts make of it. *)

LowestIn(t, B) ==
    /\ t \in B
    /\ t.is \in Branches => t.left \in Trees \ B /\ t.right \in Trees \ B

LEMMA LowestExists ==
    ASSUME NEW B, B \subseteq Trees, B # {}
    PROVE  \E t : LowestIn(t, B)
<1> DEFINE T == {Height[t] : t \in B}
<1>1. T \subseteq Nat /\ T # {}
  BY TreesAssumption
<1>2. PICK l \in T : \A j \in T : l <= j
  <2> HIDE DEF T
  <2> QED
    BY <1>1, LeastNatural
<1>3. PICK t \in B : l = Height[t]
  BY <1>2
<1>4. ASSUME t.is \in Branches, NEW part \in {t.left, t.right} PROVE part \in Trees \ B
  <2>1. t \in Trees
    BY <1>3
  <2>2. part \in Trees /\ Height[part] \in Nat /\ Height[t] \in Nat /\ Height[part] < Height[t]
    BY <1>4, <2>1, TreesAssumption
  <2>3. Height[part] \notin T
    <3> HIDE DEF T
    <3> QED
      BY <1>2, <1>3, <2>2
  <2> QED
    BY <2>2, <2>3
<1> QED
  BY <1>3, <1>4 DEF LowestIn

(* What a function folds of t, given its values of the parts of t. *)
FoldStep(base, comb, f, t) ==
    IF t.is \in Branches THEN comb[t][f[t.left]][f[t.right]] ELSE base[t]

(* f is the fold on the expressions below a height. *)
Lower(h) == {t \in Trees : Height[t] < h}
FoldsTo(base, comb, f, h) == \A t \in Lower(h) : f[t] = FoldStep(base, comb, f, t)

LEMMA PartsAreLower ==
    ASSUME NEW h \in Nat, NEW t \in Lower(h), t.is \in Branches
    PROVE  t.left \in Lower(h) /\ t.right \in Lower(h)
<1>1. ASSUME NEW part \in {t.left, t.right} PROVE part \in Lower(h)
  <2>1. t \in Trees /\ Height[t] < h
    BY DEF Lower
  <2>2. part \in Trees /\ Height[part] \in Nat /\ Height[t] \in Nat /\ Height[part] < Height[t]
    BY <2>1, TreesAssumption
  <2> QED
    BY <2>1, <2>2 DEF Lower
<1> QED
  BY <1>1

LEMMA FoldsAgree ==
    ASSUME NEW base, NEW comb, NEW h \in Nat, NEW k \in Nat, NEW f, NEW g,
           FoldsTo(base, comb, f, h), FoldsTo(base, comb, g, k)
    PROVE  \A t \in Lower(h) \cap Lower(k) : f[t] = g[t]
<1> DEFINE B == {t \in Lower(h) \cap Lower(k) : f[t] # g[t]}
<1>1. ASSUME B # {} PROVE FALSE
  <2>1. PICK t : LowestIn(t, B)
    BY <1>1, LowestExists DEF Lower
  <2>2. t \in Lower(h) \cap Lower(k) /\ f[t] # g[t]
    BY <2>1 DEF LowestIn
  <2>3. f[t] = FoldStep(base, comb, f, t) /\ g[t] = FoldStep(base, comb, g, t)
    BY <2>2 DEF FoldsTo
  <2>4. t.is \in Branches => f[t.left] = g[t.left] /\ f[t.right] = g[t.right]
    BY <2>1, <2>2, PartsAreLower DEF LowestIn
  <2> QED
    BY <2>2, <2>3, <2>4 DEF FoldStep
<1> QED
  BY <1>1

Folding(R, base, comb) == base \in [Trees -> R] /\ comb \in [Trees -> [R -> [R -> R]]]

LEMMA FoldReaches ==
    ASSUME NEW R, NEW base, NEW comb, Folding(R, base, comb), NEW h \in Nat
    PROVE  \E f \in [Trees -> R] : FoldsTo(base, comb, f, h)
<1> DEFINE T == {k \in Nat : ~\E f \in [Trees -> R] : FoldsTo(base, comb, f, k)}
<1>1. ASSUME T # {} PROVE FALSE
  <2>1. PICK k \in T : \A j \in T : k <= j
    BY <1>1, LeastNatural
  <2>2. CASE k = 0
    <3>1. Lower(0) = {}
      BY TreesAssumption DEF Lower
    <3>2. FoldsTo(base, comb, base, 0) /\ base \in [Trees -> R]
      BY <3>1 DEF FoldsTo, Folding
    <3> QED
      BY <2>2, <3>2
  <2>3. CASE k # 0
    <3>1. k - 1 \in Nat /\ k - 1 \notin T
      BY <2>1, <2>3
    <3>2. PICK p \in Nat : p = k - 1
      BY <3>1
    <3>3. PICK f \in [Trees -> R] : FoldsTo(base, comb, f, p)
      BY <3>1, <3>2
    <3> DEFINE g == [t \in Trees |-> FoldStep(base, comb, f, t)]
    <3>4. g \in [Trees -> R] /\ \A t \in Trees : g[t] = FoldStep(base, comb, f, t)
      <4>1. ASSUME NEW t \in Trees PROVE FoldStep(base, comb, f, t) \in R
        <5>1. t.is \in Branches => f[t.left] \in R /\ f[t.right] \in R
          BY <3>3, TreesAssumption
        <5> QED
          BY <5>1 DEF FoldStep, Folding
      <4> QED
        BY <4>1
    <3> HIDE DEF g
    <3>5. ASSUME NEW t \in Lower(k) PROVE g[t] = FoldStep(base, comb, g, t)
      <4>1. t \in Trees /\ Height[t] < k
        BY DEF Lower
      <4>2. ASSUME t.is \in Branches, NEW part \in {t.left, t.right}
            PROVE  f[part] = g[part]
        <5>1. part \in Trees /\ Height[part] \in Nat /\ Height[t] \in Nat /\ Height[part] < Height[t]
          BY <4>1, <4>2, TreesAssumption
        <5>2. part \in Lower(p)
          BY <3>2, <4>1, <5>1 DEF Lower
        <5> QED
          BY <3>3, <3>4, <5>1, <5>2 DEF FoldsTo
      <4> QED
        BY <3>4, <4>1, <4>2 DEF FoldStep
    <3>6. FoldsTo(base, comb, g, k)
      BY <3>5 DEF FoldsTo
    <3> QED
      BY <3>4, <3>6
  <2> QED
    BY <2>2, <2>3
<1> QED
  BY <1>1

LEMMA FoldExists ==
    ASSUME NEW R, NEW base, NEW comb, Folding(R, base, comb)
    PROVE  \E f \in [Trees -> R] : f = [t \in Trees |-> FoldStep(base, comb, f, t)]
<1> DEFINE upTo(h) == CHOOSE f \in [Trees -> R] : FoldsTo(base, comb, f, h)
           F == [t \in Trees |-> upTo(Height[t] + 1)[t]]
<1>1. \A h \in Nat : upTo(h) \in [Trees -> R] /\ FoldsTo(base, comb, upTo(h), h)
  BY FoldReaches, Zenon
<1> HIDE DEF upTo
<1>2. \A t \in Trees : F[t] = upTo(Height[t] + 1)[t] /\ Height[t] + 1 \in Nat
  BY TreesAssumption
<1>3. F \in [Trees -> R]
  BY <1>1, <1>2
<1> HIDE DEF F
<1>4. ASSUME NEW t \in Trees PROVE F[t] = FoldStep(base, comb, F, t)
  <2>1. PICK h \in Nat : h = Height[t] + 1 /\ t \in Lower(h)
    BY TreesAssumption DEF Lower
  <2>2. PICK f : f = upTo(h)
    OBVIOUS
  <2>3. FoldsTo(base, comb, f, h)
    BY <1>1, <2>2
  <2>4. F[t] = FoldStep(base, comb, f, t)
    BY <1>2, <2>1, <2>2, <2>3 DEF FoldsTo
  <2>5. ASSUME t.is \in Branches, NEW u \in {t.left, t.right} PROVE f[u] = F[u]
    <3>1. u \in Trees /\ Height[u] \in Nat
      BY <2>5, TreesAssumption
    <3>2. PICK k \in Nat : k = Height[u] + 1
      BY <3>1
    <3>3. u \in Lower(h) \cap Lower(k)
      BY <2>1, <2>5, <3>1, <3>2, PartsAreLower DEF Lower
    <3>4. FoldsTo(base, comb, upTo(k), k)
      BY <1>1
    <3>5. f[u] = upTo(k)[u]
      BY <2>3, <3>3, <3>4, FoldsAgree
    <3> QED
      BY <1>2, <3>1, <3>2, <3>5
  <2> QED
    BY <2>4, <2>5 DEF FoldStep
<1>5. F = [t \in Trees |-> FoldStep(base, comb, F, t)]
  BY <1>3, <1>4
<1> QED
  BY <1>3, <1>5

-----------------------------------------------------------------------------
(* walkTree. *)

LeavesBy(f, t) ==
    [negated \in BOOLEAN |->
        LET sign == t.not # negated
        IN  IF t.is \in Branches THEN f[t.left][sign] \o f[t.right][sign]
            ELSE IF sign THEN <<>> ELSE <<t>>]

Walk == CHOOSE f : f = [t \in Trees |-> LeavesBy(f, t)]

(* The leaves walkTree returns are matchers. *)
Matchers == {t \in Trees : t.is \notin Branches}

LeafLists == [BOOLEAN -> Seq(Matchers)]

LEMMA WalkExists ==
    \E f \in [Trees -> LeafLists] : f = [t \in Trees |-> LeavesBy(f, t)]
<1> DEFINE both(t, x, y) == [negated \in BOOLEAN |-> x[t.not # negated] \o y[t.not # negated]]
           one(t) == [negated \in BOOLEAN |->
                         IF t.is \in Branches \/ t.not # negated THEN <<>> ELSE <<t>>]
           comb == [t \in Trees |-> [x \in LeafLists |-> [y \in LeafLists |-> both(t, x, y)]]]
           base == [t \in Trees |-> one(t)]
<1>1. ASSUME NEW t \in Trees, NEW x \in LeafLists, NEW y \in LeafLists PROVE both(t, x, y) \in LeafLists
  <2>1. ASSUME NEW sign \in BOOLEAN PROVE x[sign] \o y[sign] \in Seq(Matchers)
    <3>1. x[sign] \in Seq(Matchers) /\ y[sign] \in Seq(Matchers)
      BY DEF LeafLists
    <3> QED
      BY <3>1, ConcatProperties
  <2>2. \A negated \in BOOLEAN : (t.not # negated) \in BOOLEAN
    OBVIOUS
  <2> QED
    BY <2>1, <2>2 DEF LeafLists
<1>2. ASSUME NEW t \in Trees PROVE one(t) \in LeafLists
  <2>1. <<>> \in Seq(Matchers)
    BY EmptySeq
  <2>2. t.is \notin Branches => <<t>> \in Seq(Matchers)
    BY DEF Matchers
  <2> QED
    BY <2>1, <2>2 DEF LeafLists
<1>3. Folding(LeafLists, base, comb)
  <2> HIDE DEF both, one
  <2> QED
    BY <1>1, <1>2 DEF Folding
<1>4. PICK f \in [Trees -> LeafLists] : f = [t \in Trees |-> FoldStep(base, comb, f, t)]
  <2> HIDE DEF base, comb
  <2> QED
    BY <1>3, FoldExists
<1>5. ASSUME NEW t \in Trees PROVE FoldStep(base, comb, f, t) = LeavesBy(f, t)
  <2>1. CASE t.is \in Branches
    <3>1. f[t.left] \in LeafLists /\ f[t.right] \in LeafLists
      BY <1>4, <2>1, TreesAssumption
    <3>2. FoldStep(base, comb, f, t) = both(t, f[t.left], f[t.right])
      <4> HIDE DEF both
      <4> QED
        BY <2>1, <3>1 DEF FoldStep
    <3>3. both(t, f[t.left], f[t.right]) = LeavesBy(f, t)
      BY <2>1, Zenon DEF LeavesBy
    <3> QED
      BY <3>2, <3>3
  <2>2. CASE t.is \notin Branches
    <3>1. FoldStep(base, comb, f, t) = one(t)
      <4> HIDE DEF one
      <4> QED
        BY <2>2 DEF FoldStep
    <3>2. one(t) = LeavesBy(f, t)
      BY <2>2, Zenon DEF LeavesBy
    <3> QED
      BY <3>1, <3>2
  <2> QED
    BY <2>1, <2>2
<1>6. f = [t \in Trees |-> LeavesBy(f, t)]
  BY <1>4, <1>5
<1> QED
  BY <1>4, <1>6

LEMMA WalkIs == Walk = [t \in Trees |-> LeavesBy(Walk, t)]
<1>1. \E f : f = [t \in Trees |-> LeavesBy(f, t)]
  BY WalkExists
<1> QED
  BY <1>1, Zenon DEF Walk

LEMMA LeavesNeedParts ==
    ASSUME NEW t, NEW f, NEW g,
           t.is \in Branches => f[t.left] = g[t.left] /\ f[t.right] = g[t.right]
    PROVE  LeavesBy(f, t) = LeavesBy(g, t)
BY Zenon DEF LeavesBy

LEMMA WalkTyped ==
    ASSUME NEW t \in Trees, NEW negated \in BOOLEAN
    PROVE  Walk[t][negated] \in Seq(Matchers)
<1>1. PICK f \in [Trees -> LeafLists] : f = [u \in Trees |-> LeavesBy(f, u)]
  BY WalkExists
<1> DEFINE B == {u \in Trees : Walk[u] # f[u]}
<1>2. ASSUME B # {} PROVE FALSE
  <2>1. PICK u : LowestIn(u, B)
    BY <1>2, LowestExists
  <2>2. u \in Trees /\ Walk[u] # f[u]
    BY <2>1 DEF LowestIn
  <2>3. u.is \in Branches => Walk[u.left] = f[u.left] /\ Walk[u.right] = f[u.right]
    BY <2>1 DEF LowestIn
  <2>4. LeavesBy(Walk, u) = LeavesBy(f, u)
    BY <2>3, LeavesNeedParts
  <2>5. Walk[u] = LeavesBy(Walk, u) /\ f[u] = LeavesBy(f, u)
    BY <1>1, <2>2, WalkIs
  <2> QED
    BY <2>2, <2>4, <2>5
<1>3. Walk[t] = f[t] /\ f[t] \in LeafLists
  BY <1>1, <1>2
<1> QED
  BY <1>3 DEF LeafLists

LEMMA LeavesTyped ==
    ASSUME NEW t \in Trees
    PROVE  PositiveLeaves[t] \in Seq(Matchers)
<1>1. PositiveLeaves = [u \in Trees |-> Walk[u][FALSE]]
  BY Zenon DEF PositiveLeaves, Walk, LeavesBy
<1> QED
  BY <1>1, WalkTyped

-----------------------------------------------------------------------------
(* Routes: what the rules say is there to read, as sequences. *)

LEMMA NamedListed ==
    ASSUME NEW leaves, leaves \in Seq(Matchers), NEW sort
    PROVE  /\ Listed(Named(leaves, sort))
           /\ \A i \in DOMAIN Named(leaves, sort) : Listed(Named(leaves, sort)[i])
<1> DEFINE keep == {i \in DOMAIN leaves : leaves[i].is = sort}
<1>1. PICK ofSort : ofSort = Subsequence(leaves, keep)
  OBVIOUS
<1>2. keep \subseteq DOMAIN leaves
  OBVIOUS
<1> HIDE DEF keep
<1>3. ofSort \in Seq(Matchers)
  BY <1>1, <1>2, Keeps
<1>4. PICK n \in Nat : n = Len(ofSort) /\ DOMAIN ofSort = 1..n
  BY <1>3, LenProperties
<1>5. PICK named : named = [i \in 1..n |-> Addresses(ofSort[i].values)]
  OBVIOUS
<1>6. Named(leaves, sort) = named
  BY <1>1, <1>4, <1>5 DEF Named, keep
<1>7. Listed(named) /\ DOMAIN named = 1..n
  <2>1. named = [i \in 1..n |-> named[i]]
    BY <1>5
  <2> QED
    BY <2>1, FunctionListed
<1>8. ASSUME NEW i \in 1..n PROVE Listed(named[i])
  <2>1. ofSort[i] \in Matchers
    BY <1>3, <1>4, ElementOfSeq
  <2>2. Listed(ofSort[i].values)
    BY <2>1, TreesAssumption DEF Matchers
  <2>3. Listed(Addresses(ofSort[i].values))
    BY <2>2, KeptListed DEF Addresses
  <2> QED
    BY <1>5, <2>3
<1> QED
  BY <1>6, <1>7, <1>8

LEMMA HostsListed ==
    ASSUME NEW match \in Trees \cup {Blank}
    PROVE  Listed(ParseRule[match].hosts)
<1>1. PICK leaves : leaves = IF match = Blank THEN <<>> ELSE PositiveLeaves[match]
  OBVIOUS
<1>2. leaves \in Seq(Matchers)
  BY <1>1, LeavesTyped, EmptySeq
<1>3. ParseRule[match].hosts = Distinct(FlattenSeq(Named(leaves, "host")))
  BY <1>1, Zenon DEF ParseRule
<1>4. Listed(FlattenSeq(Named(leaves, "host")))
  BY <1>2, NamedListed, FlattenListed
<1> QED
  BY <1>3, <1>4, FirstsListed DEF Distinct

LEMMA KeptHostsListed ==
    ASSUME NEW o, NEW parsed, Listed(parsed.hosts)
    PROVE  Listed(KeptHosts(o, parsed))
BY KeptListed DEF KeptHosts

LEMMA HostsInListed ==
    ASSUME NEW o, NEW parsed, Listed(parsed.hosts)
    PROVE  Listed(HostsIn(o, parsed))
<1>1. PICK kept : kept = KeptHosts(o, parsed) /\ Listed(kept)
  BY KeptHostsListed
<1>2. PICK n \in Nat : n = Len(kept) /\ DOMAIN kept = 1..n
  BY <1>1, ListIsFunction
<1>3. PICK hosts : hosts = [i \in 1..n |-> [host |-> kept[i], path |-> parsed.path]]
  OBVIOUS
<1>4. hosts = [i \in 1..n |-> hosts[i]]
  BY <1>3
<1>5. Listed(hosts) /\ Listed(<<>>)
  BY <1>4, FunctionListed, EmptySeq, ElementsListed
<1>6. HostsIn(o, parsed) = IF IsSkippedWhole(o, parsed) THEN <<>> ELSE hosts
  BY <1>1, <1>2, <1>3 DEF HostsIn
<1> QED
  BY <1>5, <1>6

LEMMA BackendsInListed ==
    ASSUME NEW o, NEW rule, NEW parsed, Listed(rule.services)
    PROVE  Listed(BackendsIn(o, rule, parsed))
<1> DEFINE backend(i) == BackendOf(rule.services[i], parsed.path, o)
           kept == {i \in DOMAIN rule.services :
                       IsBackend(rule.services[i]) /\ NamedBy(backend(i)) \cap Skipped(o) = {}}
<1>1. PICK n \in Nat : n = Len(rule.services) /\ DOMAIN rule.services = 1..n
  BY ListIsFunction
<1>2. PICK all : all = [i \in 1..n |-> backend(i)]
  OBVIOUS
<1>3. Listed(all) /\ DOMAIN all = 1..n
  <2>1. all = [i \in 1..n |-> all[i]]
    BY <1>2
  <2> QED
    BY <2>1, FunctionListed
<1>4. KeptBackends(o, rule, parsed) = Subsequence(all, kept)
  BY <1>1, <1>2 DEF KeptBackends
<1>5. kept \subseteq DOMAIN all
  BY <1>1, <1>3
<1> HIDE DEF kept
<1>6. Listed(Subsequence(all, kept))
  BY <1>3, <1>5, KeptListed
<1>7. Listed(<<>>)
  BY EmptySeq, ElementsListed
<1> QED
  BY <1>4, <1>6, <1>7 DEF BackendsIn

(* The rows of routeTargets. *)
HostRows(o) == [i \in DOMAIN o.rules |-> HostsIn(o, ParseRule[o.rules[i].match])]
BackendRows(o) ==
    [i \in DOMAIN o.rules |-> BackendsIn(o, o.rules[i], ParseRule[o.rules[i].match])]
AllBackends(o) == FlattenSeq(BackendRows(o))

LEMMA TargetsAre ==
    ASSUME NEW o
    PROVE  /\ Targets(o).hosts = Distinct(FlattenSeq(HostRows(o)))
           /\ Targets(o).backends =
                 Firsts(AllBackends(o), [i \in DOMAIN AllBackends(o) |->
                            <<AllBackends(o)[i].ref, AllBackends(o)[i].port>>])
<1> DEFINE parsed == [i \in DOMAIN o.rules |-> ParseRule[o.rules[i].match]]
<1>1. HostRows(o) = [i \in DOMAIN o.rules |-> HostsIn(o, parsed[i])]
  BY DEF HostRows
<1>2. BackendRows(o) = [i \in DOMAIN o.rules |-> BackendsIn(o, o.rules[i], parsed[i])]
  BY DEF BackendRows
<1> HIDE DEF parsed
<1> QED
  BY <1>1, <1>2, Zenon DEF Targets, AllBackends, parsed

Parsable(o) == \A i \in DOMAIN o.rules : o.rules[i].match # Unparsable

LEMMA RowsAreListed ==
    ASSUME NEW o, IsObject(o), Parsable(o)
    PROVE  /\ Listed(HostRows(o)) /\ \A i \in DOMAIN HostRows(o) : Listed(HostRows(o)[i])
           /\ Listed(BackendRows(o)) /\ \A i \in DOMAIN BackendRows(o) : Listed(BackendRows(o)[i])
<1>1. PICK n \in Nat : n = Len(o.rules) /\ DOMAIN o.rules = 1..n
  BY ListIsFunction DEF IsObject
<1>2. PICK hosts : hosts = HostRows(o)
  OBVIOUS
<1>3. PICK backends : backends = BackendRows(o)
  OBVIOUS
<1>4. Listed(hosts) /\ DOMAIN hosts = 1..n
  <2>1. hosts = [i \in 1..n |-> hosts[i]]
    BY <1>1, <1>2 DEF HostRows
  <2> QED
    BY <2>1, FunctionListed
<1>5. Listed(backends) /\ DOMAIN backends = 1..n
  <2>1. backends = [i \in 1..n |-> backends[i]]
    BY <1>1, <1>3 DEF BackendRows
  <2> QED
    BY <2>1, FunctionListed
<1>6. ASSUME NEW i \in 1..n PROVE Listed(hosts[i]) /\ Listed(backends[i])
  <2>1. PICK rule : rule = o.rules[i] /\ IsRule(rule) /\ rule.match # Unparsable
    BY <1>1 DEF IsObject, ToSet, Parsable
  <2>2. Listed(ParseRule[rule.match].hosts) /\ Listed(rule.services)
    BY <2>1, HostsListed DEF IsRule
  <2>3. Listed(HostsIn(o, ParseRule[rule.match]))
    BY <2>2, HostsInListed
  <2>4. Listed(BackendsIn(o, rule, ParseRule[rule.match]))
    BY <2>2, BackendsInListed
  <2>5. hosts[i] = HostsIn(o, ParseRule[rule.match])
    BY <1>1, <1>2, <2>1 DEF HostRows
  <2>6. backends[i] = BackendsIn(o, rule, ParseRule[rule.match])
    BY <1>1, <1>3, <2>1 DEF BackendRows
  <2> QED
    BY <2>3, <2>4, <2>5, <2>6
<1> QED
  BY <1>2, <1>3, <1>4, <1>5, <1>6

LEMMA TargetsListed ==
    ASSUME NEW o, IsObject(o), Parsable(o)
    PROVE  Listed(Targets(o).hosts) /\ Listed(Targets(o).backends)
<1>1. Listed(FlattenSeq(HostRows(o))) /\ Listed(AllBackends(o))
  BY RowsAreListed, FlattenListed DEF AllBackends
<1> QED
  BY <1>1, TargetsAre, FirstsListed DEF Distinct

-----------------------------------------------------------------------------
(* What is derived: the endpoints of a spec, of an address, of a backend and of
   an entry point. *)

LEMMA PortResolved ==
    ASSUME NEW want, NEW ports, ArePorts(ports)
    PROVE  ResolvePort(want, ports) \in Ports \cup {0}
<1> DEFINE called == {i \in DOMAIN ports : ports[i].name = want.name}
<1>1. \A i \in DOMAIN ports : ports[i].port \in Ports
  BY DEF ArePorts, ToSet
<1>2. CASE want.name # ""
  <2>1. CASE called = {}
    BY <1>2, <2>1 DEF ResolvePort
  <2>2. CASE called # {}
    <3>1. PICK c : c = CHOOSE i \in called : TRUE
      OBVIOUS
    <3>2. c \in called
      BY <2>2, <3>1
    <3>3. ResolvePort(want, ports) = ports[c].port
      BY <1>2, <2>2, <3>1 DEF ResolvePort
    <3> QED
      BY <1>1, <3>2, <3>3
  <2> QED
    BY <2>1, <2>2
<1>3. CASE want.name = ""
  <2>1. Len(ports) = 1 => 1 \in DOMAIN ports
    BY ListIsFunction DEF ArePorts
  <2>2. ResolvePort(want, ports) =
            IF want # NoPort THEN (IF want.number \in Ports THEN want.number ELSE 0)
            ELSE IF Len(ports) = 1 THEN ports[1].port ELSE 0
    BY <1>3 DEF ResolvePort
  <2> QED
    BY <1>1, <2>1, <2>2
<1> QED
  BY <1>2, <1>3

LEMMA BaseShape ==
    ASSUME NEW s, NEW o, NEW w
    PROVE  /\ DOMAIN BaseEndpoint(s, o, w) = {"name", "group", "url", "host", "port", "path",
                     "scheme", "templates", "templatesSet", "extra", "patch"}
           /\ BaseEndpoint(s, o, w).url = NoURL
           /\ BaseEndpoint(s, o, w).host = NoHost
BY DEF BaseEndpoint

LEMMA SpecEndpoints ==
    ASSUME NEW specs, NEW o, NEW w, NEW host, NEW ports, ArePorts(ports)
    PROVE  \A ep \in ToSet(EndpointsFromSpecs(specs, o, w, host, ports).endpoints) :
               ep.url = NoURL => ep.port \in Ports /\ ep.host = host
<1> DEFINE endpoints == [i \in DOMAIN specs |-> EndpointFromSpec(specs[i], o, w, host, ports)]
           fails == \E i \in DOMAIN endpoints : endpoints[i].url = NoURL /\ endpoints[i].port = 0
<1>1. EndpointsFromSpecs(specs, o, w, host, ports)
        = IF fails THEN Refused ELSE [endpoints |-> endpoints, failed |-> FALSE]
  BY DEF EndpointsFromSpecs
<1>2. CASE fails
  <2>1. EndpointsFromSpecs(specs, o, w, host, ports).endpoints = <<>>
    BY <1>1, <1>2 DEF Refused
  <2> QED
    BY <2>1 DEF ToSet
<1>3. CASE ~fails
  <2>1. EndpointsFromSpecs(specs, o, w, host, ports).endpoints = endpoints
    BY <1>1, <1>3
  <2>2. ASSUME NEW i \in DOMAIN specs, NEW ep, ep = EndpointFromSpec(specs[i], o, w, host, ports),
               ep.url = NoURL
        PROVE  ep.port \in Ports \cup {0} /\ ep.host = host
    <3>1. specs[i].url = NoURL
      BY <2>2 DEF EndpointFromSpec, BaseEndpoint
    <3>2. ep = [BaseEndpoint(specs[i], o, w) EXCEPT !.host = host,
                   !.path = NormalisePath(specs[i].path),
                   !.port = ResolvePort(specs[i].port, ports)]
      BY <2>2, <3>1 DEF EndpointFromSpec
    <3>3. ep.port = ResolvePort(specs[i].port, ports) /\ ep.host = host
      <4>1. PICK port, path, base : /\ port = ResolvePort(specs[i].port, ports)
                                    /\ path = NormalisePath(specs[i].path)
                                    /\ base = BaseEndpoint(specs[i], o, w)
        OBVIOUS
      <4>2. ep = [base EXCEPT !.host = host, !.path = path, !.port = port]
        BY <3>2, <4>1, Zenon
      <4>3. {"host", "path", "port"} \subseteq DOMAIN base
        BY <4>1, BaseShape
      <4>4. ep.host = host /\ ep.port = port
        BY <4>2, <4>3
      <4> QED
        BY <4>1, <4>4
    <3> QED
      BY <3>3, PortResolved
  <2>3. \A i \in DOMAIN specs : endpoints[i] = EndpointFromSpec(specs[i], o, w, host, ports)
    OBVIOUS
  <2>4. \A i \in DOMAIN specs : ~(endpoints[i].url = NoURL /\ endpoints[i].port = 0)
    BY <1>3
  <2>5. ASSUME NEW i \in DOMAIN specs, endpoints[i].url = NoURL
        PROVE  endpoints[i].port \in Ports /\ endpoints[i].host = host
    BY <2>2, <2>3, <2>4, <2>5
  <2>6. ToSet(endpoints) = {endpoints[i] : i \in DOMAIN specs}
    BY DEF ToSet
  <2> QED
    BY <2>1, <2>5, <2>6
<1> QED
  BY <1>2, <1>3

LEMMA WithURL ==
    ASSUME NEW r, {"name", "url", "scheme", "host"} \subseteq DOMAIN r,
           NEW name, NEW url, NEW scheme,
           NEW ep, ep = [r EXCEPT !.name = name, !.url = url, !.scheme = scheme]
    PROVE  ep.name = name /\ ep.url = url /\ ep.host = r.host
OBVIOUS

LEMMA WithHost ==
    ASSUME NEW r, {"name", "url", "host", "path", "port"} \subseteq DOMAIN r,
           NEW name, NEW host, NEW path, NEW port,
           NEW ep, ep = [r EXCEPT !.name = name, !.host = host, !.path = path, !.port = port]
    PROVE  ep.name = name /\ ep.host = host /\ ep.port = port /\ ep.url = r.url
OBVIOUS

LEMMA ExternalShape ==
    ASSUME NEW s, NEW o, NEW w, NEW hosts, Listed(hosts),
           NEW external, external = ExternalEndpoints(s, o, w, hosts)
    PROVE  /\ Listed(external) /\ Len(external) = Len(hosts) /\ DOMAIN external = DOMAIN hosts
           /\ \A i \in DOMAIN hosts :
                 /\ external[i].name = ExternalName(s, o, w, hosts[i].host, DistinctHosts(hosts),
                                                    PathPart(hosts[i], hosts))
                 /\ external[i].url # NoURL /\ external[i].url[2] = hosts[i].host
                 /\ external[i].host = NoHost
           /\ \A i, j \in DOMAIN hosts : hosts[i] = hosts[j] => external[i] = external[j]
<1> DEFINE scheme == IF s.scheme = "" THEN "https" ELSE s.scheme
           path(t) == NormalisePath(IF s.path = "" THEN t.path ELSE s.path)
           name(t) == ExternalName(s, o, w, t.host, DistinctHosts(hosts), PathPart(t, hosts))
           url(t) == <<scheme, t.host, path(t), 0>>
           base == BaseEndpoint(s, o, w)
           endpoint(t) == [base EXCEPT !.name = name(t), !.url = url(t), !.scheme = scheme]
<1>1. external = [i \in DOMAIN hosts |-> endpoint(hosts[i])]
  BY Zenon DEF ExternalEndpoints
<1>2. {"name", "url", "scheme", "host"} \subseteq DOMAIN base /\ base.host = NoHost
  BY BaseShape
<1>3. \A t : url(t) # NoURL /\ url(t)[2] = t.host
  <2> HIDE DEF path, scheme
  <2> QED
    BY DEF NoURL
<1> HIDE DEF scheme, base, name, url
<1>4. ASSUME NEW t
      PROVE  /\ endpoint(t).name = name(t)
             /\ endpoint(t).url = url(t)
             /\ endpoint(t).host = NoHost
  BY <1>2, WithURL
<1>5. PICK n \in Nat : n = Len(hosts) /\ DOMAIN hosts = 1..n
  BY ListIsFunction
<1> HIDE DEF endpoint
<1>6. Listed(external) /\ Len(external) = n /\ DOMAIN external = 1..n
  <2>1. external = [i \in 1..n |-> external[i]]
    BY <1>1, <1>5
  <2> QED
    BY <2>1, FunctionListed
<1>7. \A i \in DOMAIN hosts : external[i] = endpoint(hosts[i])
  BY <1>1
<1>8. ASSUME NEW i \in DOMAIN hosts
      PROVE  /\ external[i].name = name(hosts[i])
             /\ external[i].url = url(hosts[i])
             /\ external[i].host = NoHost
  BY <1>4, <1>7
<1>9. ASSUME NEW i \in DOMAIN hosts
      PROVE  external[i].url # NoURL /\ external[i].url[2] = hosts[i].host
  <2>1. external[i].url = url(hosts[i])
    BY <1>8
  <2> QED
    BY <1>3, <2>1
<1>10. \A i, j \in DOMAIN hosts : hosts[i] = hosts[j] => external[i] = external[j]
  BY <1>7
<1>11. \A i \in DOMAIN hosts :
          external[i].name = ExternalName(s, o, w, hosts[i].host, DistinctHosts(hosts),
                                          PathPart(hosts[i], hosts))
  BY <1>8 DEF name
<1> QED
  BY <1>5, <1>6, <1>8, <1>9, <1>10, <1>11

LEMMA InternalShape ==
    ASSUME NEW s, NEW o, NEW w, NEW backend, NEW total,
           NEW ep, ep = InternalEndpoint(s, o, w, backend, total)
    PROVE  /\ ep.url = NoURL
           /\ ep.host = <<backend.ref[2], backend.ref[1]>> /\ ep.host # NoHost
           /\ ep.name = InternalName(s, o, backend, total)
           /\ ServicesOK(w) => ep.port \in Ports \cup {0}
<1> DEFINE want == IF backend.port = NoPort THEN s.port ELSE backend.port
           service == ServiceAt(backend.ref, w)
           port == IF service = NoService THEN 0 ELSE ResolvePort(want, service.ports)
           path == NormalisePath(IF s.path = "" THEN backend.path ELSE s.path)
           name == InternalName(s, o, backend, total)
           host == <<backend.ref[2], backend.ref[1]>>
           base == BaseEndpoint(s, o, w)
<1>1. ep = [base EXCEPT !.name = name, !.host = host, !.path = path, !.port = port]
  BY Zenon DEF InternalEndpoint
<1>2. ASSUME ServicesOK(w) PROVE port \in Ports \cup {0}
  <2>1. service # NoService => ArePorts(service.ports)
    BY <1>2 DEF ServiceAt, ServicesOK, IsService
  <2> HIDE DEF service, want
  <2>2. service # NoService => ResolvePort(want, service.ports) \in Ports \cup {0}
    BY <2>1, PortResolved
  <2> QED
    BY <2>2
<1>3. host # NoHost
  BY DEF NoHost
<1>4. {"name", "url", "host", "path", "port"} \subseteq DOMAIN base /\ base.url = NoURL
  BY BaseShape
<1> HIDE DEF port, path, name, host, base
<1>5. ep.url = NoURL /\ ep.host = host /\ ep.name = name /\ ep.port = port
  BY <1>1, <1>4, WithHost
<1> QED
  BY <1>2, <1>3, <1>5 DEF name, host

LEMMA InternalListed ==
    ASSUME NEW s, NEW o, NEW w, NEW backends, Listed(backends),
           NEW all, all = AllInternal(s, o, w, backends)
    PROVE  /\ Listed(all) /\ DOMAIN all = DOMAIN backends
           /\ \A i \in DOMAIN backends :
                 all[i] = InternalEndpoint(s, o, w, backends[i], Len(backends))
           /\ Listed(Resolved(all))
           /\ ToSet(Resolved(all)) = {all[i] : i \in {j \in DOMAIN backends : all[j].port # 0}}
<1>1. PICK n \in Nat : n = Len(backends) /\ DOMAIN backends = 1..n
  BY ListIsFunction
<1>2. all = [i \in 1..n |-> InternalEndpoint(s, o, w, backends[i], n)]
  BY <1>1 DEF AllInternal
<1>3. Listed(all) /\ DOMAIN all = 1..n
  <2>1. all = [i \in 1..n |-> all[i]]
    BY <1>2
  <2> QED
    BY <2>1, FunctionListed
<1>4. PICK keep : keep = {j \in 1..n : all[j].port # 0}
  OBVIOUS
<1>5. Resolved(all) = Subsequence(all, keep) /\ keep \subseteq DOMAIN all
  BY <1>3, <1>4 DEF Resolved
<1>6. Listed(Resolved(all)) /\ ToSet(Resolved(all)) = {all[i] : i \in keep}
  BY <1>3, <1>5, KeptListed
<1>7. \A i \in 1..n : all[i] = InternalEndpoint(s, o, w, backends[i], n)
  BY <1>2
<1> QED
  BY <1>1, <1>3, <1>4, <1>6, <1>7

ListenerPart(o, e) == IF Len(o.entryPoints) > 1 THEN <<e>> ELSE <<>>

LEMMA TCPShape ==
    ASSUME NEW s, NEW o, NEW w, NEW hosts, NEW e, NEW host,
           NEW ep, ep = TCPEndpoint(s, o, w, hosts, e, host)
    PROVE  /\ ep.url # NoURL /\ ep.url[2] = host /\ ep.url[4] = PortOf(e, o, w)
           /\ ep.host = NoHost
           /\ ep.name = ExternalName(s, o, w, host, Len(hosts), ListenerPart(o, e))
<1> DEFINE part == ListenerPart(o, e)
           name == ExternalName(s, o, w, host, Len(hosts), part)
           scheme == TCPScheme(s, o)
           port == PortOf(e, o, w)
           url == <<scheme, host, "", port>>
           base == BaseEndpoint(s, o, w)
<1>1. ep = [base EXCEPT !.name = name, !.url = url, !.scheme = scheme]
  BY Zenon DEF TCPEndpoint, ListenerPart
<1>2. url # NoURL /\ url[2] = host /\ url[4] = port
  <2> HIDE DEF scheme, port
  <2> QED
    BY DEF NoURL
<1>3. {"name", "url", "scheme", "host"} \subseteq DOMAIN base /\ base.host = NoHost
  BY BaseShape
<1> HIDE DEF name, scheme, port, url, base
<1>4. ep.url = url /\ ep.name = name /\ ep.host = NoHost
  BY <1>1, <1>3, WithURL
<1> QED
  BY <1>2, <1>4 DEF name, port

LEMMA TCPHasURL ==
    ASSUME NEW s, NEW o, NEW w, NEW hosts, NEW e, NEW host
    PROVE  TCPEndpoint(s, o, w, hosts, e, host).url # NoURL
BY TCPShape

(* The endpoints of a TCP route's entry points, in their order and place. *)
LEMMA TCPListed ==
    ASSUME NEW s, NEW o, NEW w, NEW hosts, Listed(hosts), Listed(o.entryPoints),
           NEW external, external = TCPEndpoints(s, o, w, hosts)
    PROVE  /\ Listed(external)
           /\ Len(external) = Len(o.entryPoints) * Len(hosts)
           /\ \A k \in DOMAIN o.entryPoints, j \in DOMAIN hosts :
                 external[(k - 1) * Len(hosts) + j]
                   = TCPEndpoint(s, o, w, hosts, o.entryPoints[k], hosts[j].host)
           /\ \A ep \in ToSet(external) : \E k \in DOMAIN o.entryPoints, j \in DOMAIN hosts :
                 ep = TCPEndpoint(s, o, w, hosts, o.entryPoints[k], hosts[j].host)
<1>1. PICK m \in Nat : m = Len(hosts) /\ DOMAIN hosts = 1..m
  BY ListIsFunction
<1>2. PICK n \in Nat : n = Len(o.entryPoints) /\ DOMAIN o.entryPoints = 1..n
  BY ListIsFunction
<1> DEFINE row(k) == [j \in 1..m |-> TCPEndpoint(s, o, w, hosts, o.entryPoints[k], hosts[j].host)]
<1>3. PICK rows : rows = [k \in 1..n |-> row(k)]
  OBVIOUS
<1>4. external = FlattenSeq(rows)
  BY <1>1, <1>2, <1>3, Zenon DEF TCPEndpoints
<1>5. ASSUME NEW k \in 1..n PROVE Listed(row(k)) /\ Len(row(k)) = m /\ DOMAIN row(k) = 1..m
  <2>1. row(k) = [j \in 1..m |-> row(k)[j]]
    OBVIOUS
  <2> HIDE DEF row
  <2> QED
    BY <2>1, FunctionListed
<1>6. \A k \in 1..n, j \in 1..m :
          row(k)[j] = TCPEndpoint(s, o, w, hosts, o.entryPoints[k], hosts[j].host)
  OBVIOUS
<1> HIDE DEF row
<1>7. Listed(rows) /\ Len(rows) = n /\ DOMAIN rows = 1..n
  <2>1. rows = [k \in 1..n |-> rows[k]]
    BY <1>3
  <2> QED
    BY <2>1, FunctionListed
<1>8. \A k \in 1..n : rows[k] = row(k)
  BY <1>3
<1>9. /\ Listed(external)
      /\ \A ep \in ToSet(external) : \E k \in 1..n : ep \in ToSet(row(k))
  BY <1>4, <1>5, <1>7, <1>8, FlattenListed
<1>10. \A ep \in ToSet(external) : \E k \in 1..n, j \in 1..m :
           ep = TCPEndpoint(s, o, w, hosts, o.entryPoints[k], hosts[j].host)
  BY <1>5, <1>6, <1>9 DEF ToSet
<1>11. PICK S : rows \in Seq(Seq(S))
  BY <1>5, <1>7, <1>8, RowsListed
<1>12. /\ Len(external) = n * m
       /\ \A k \in 1..n, j \in 1..m : external[(k - 1) * m + j] = row(k)[j]
  <2>1. \A k \in DOMAIN rows : Len(rows[k]) = m
    BY <1>5, <1>7, <1>8
  <2>2. /\ Len(FlattenSeq(rows)) = Len(rows) * m
        /\ \A k \in DOMAIN rows, j \in 1..m : FlattenSeq(rows)[(k - 1) * m + j] = rows[k][j]
    BY <1>11, <2>1, FlattenRectangle
  <2> QED
    BY <1>4, <1>7, <1>8, <2>2
<1>13. \A k \in 1..n, j \in 1..m :
          external[(k - 1) * m + j] = TCPEndpoint(s, o, w, hosts, o.entryPoints[k], hosts[j].host)
  BY <1>6, <1>12
<1>14. /\ Len(external) = Len(o.entryPoints) * Len(hosts)
       /\ \A k \in DOMAIN o.entryPoints, j \in DOMAIN hosts :
             external[(k - 1) * Len(hosts) + j]
               = TCPEndpoint(s, o, w, hosts, o.entryPoints[k], hosts[j].host)
  <2>1. Len(external) = Len(o.entryPoints) * Len(hosts)
    BY <1>1, <1>2, <1>12
  <2>2. \A k \in DOMAIN o.entryPoints, j \in DOMAIN hosts :
             external[(k - 1) * Len(hosts) + j]
               = TCPEndpoint(s, o, w, hosts, o.entryPoints[k], hosts[j].host)
    BY <1>1, <1>2, <1>13
  <2> QED
    BY <2>1, <2>2
<1>15. \A ep \in ToSet(external) : \E k \in DOMAIN o.entryPoints, j \in DOMAIN hosts :
                 ep = TCPEndpoint(s, o, w, hosts, o.entryPoints[k], hosts[j].host)
  BY <1>1, <1>2, <1>10
<1> QED
  BY <1>9, <1>14, <1>15

-----------------------------------------------------------------------------
(* Where the endpoints of an entry come from. *)

LEMMA RouteSpec ==
    ASSUME NEW o, ~IsDescribed(o)
    PROVE  SpecsFromAnnotations(o.ann) = <<Shortcuts(o.ann)>>
<1>1. Items(o.ann) = Nil
  BY DEF IsDescribed, Items, Written
<1> QED
  BY <1>1 DEF SpecsFromAnnotations

(* The spec of a TCP route's backends. *)
TCPSpec(o) == [Shortcuts(o.ann) EXCEPT !.scheme = "tcp"]

SpecOf(o) == IF o.kind = "IngressRoute" THEN Shortcuts(o.ann) ELSE TCPSpec(o)

ExternalOf(o, x) ==
    IF o.kind = "IngressRoute"
      THEN ExternalEndpoints(Shortcuts(o.ann), o, x, Targets(o).hosts)
      ELSE TCPEndpoints(Shortcuts(o.ann), o, x, Targets(o).hosts)
InternalOf(o, x) == InternalEndpoints(SpecOf(o), o, x, Targets(o).backends)

(* An object that describes its endpoints itself, or a Service. *)
OwnEndpoints(o, x) ==
    IF o.kind = "Service"
      THEN EndpointsFromSpecs(SpecsFromAnnotations(o.ann), o, x, <<o.name, o.namespace>>, o.own.ports)
      ELSE EndpointsFromSpecs(SpecsFromAnnotations(o.ann), o, x, NoHost, <<>>)

(* A TCP route with an entry point whose port is not known. *)
IsUnreachable(o, x) ==
    /\ o.kind # "IngressRoute" /\ Targets(o).hosts # <<>>
    /\ \E k \in DOMAIN o.entryPoints : PortOf(o.entryPoints[k], o, x) = 0

LEMMA RouteIs ==
    ASSUME NEW o, o.kind \in Kinds, NEW x, IsDerived(o, x)
    PROVE  Derive(o, x) = IF IsUnreachable(o, x) THEN Refused
                          ELSE Following(ExternalOf(o, x), InternalOf(o, x))
<1>1. SpecsFromAnnotations(o.ann)[1] = Shortcuts(o.ann)
  BY RouteSpec DEF IsDerived
<1>2. Derive(o, x) = FromRoute(o, x)
  BY DEF IsDerived, Derive
<1>3. FromRoute(o, x) = IF o.kind = "IngressRoute"
                          THEN DeriveHTTP(Shortcuts(o.ann), o, x, Targets(o))
                          ELSE DeriveTCP(Shortcuts(o.ann), o, x, Targets(o))
  BY <1>1 DEF FromRoute, IsDerived
<1>4. CASE o.kind = "IngressRoute"
  <2>1. DeriveHTTP(Shortcuts(o.ann), o, x, Targets(o)) = Following(ExternalOf(o, x), InternalOf(o, x))
    BY <1>4, Zenon DEF DeriveHTTP, ExternalOf, InternalOf, SpecOf
  <2> QED
    BY <1>2, <1>3, <1>4, <2>1 DEF IsUnreachable
<1>5. CASE o.kind # "IngressRoute"
  <2>1. DeriveTCP(Shortcuts(o.ann), o, x, Targets(o)) =
          IF IsUnreachable(o, x)
            THEN Refused ELSE Following(ExternalOf(o, x), InternalOf(o, x))
    BY <1>5, Zenon DEF DeriveTCP, ExternalOf, InternalOf, SpecOf, TCPSpec, IsUnreachable
  <2> QED
    BY <1>2, <1>3, <1>5, <2>1
<1> QED
  BY <1>4, <1>5

LEMMA RouteDerived ==
    ASSUME NEW o, o.kind \in Kinds, NEW x, IsDerived(o, x)
    PROVE  \/ Derive(o, x) = Refused
           \/ /\ Derive(o, x) = Following(ExternalOf(o, x), InternalOf(o, x))
              /\ o.kind # "IngressRoute" /\ Targets(o).hosts # <<>> =>
                    \A k \in DOMAIN o.entryPoints : PortOf(o.entryPoints[k], o, x) # 0
BY RouteIs DEF IsUnreachable

LEMMA OtherDerived ==
    ASSUME NEW o, o.kind \in Kinds, NEW x, ~IsDerived(o, x)
    PROVE  \/ Derive(o, x) \in {Nothing, Refused}
           \/ /\ Derive(o, x) = OwnEndpoints(o, x) /\ ~AnnotationsFail(o.ann)
              /\ o.kind = "Service" \/ IsDescribed(o)
<1>1. CASE o.kind = "Service"
  BY <1>1 DEF Derive, FromService, OwnEndpoints
<1>2. CASE o.kind # "Service"
  BY <1>2 DEF Derive, FromRoute, OwnEndpoints, IsDerived
<1> QED
  BY <1>1, <1>2

LEMMA OwnShape ==
    ASSUME NEW o, IsObject(o), NEW x
    PROVE  /\ OwnEndpoints(o, x).failed \in BOOLEAN
           /\ \A ep \in ToSet(OwnEndpoints(o, x).endpoints) :
                 ep.url = NoURL => /\ ep.port \in Ports
                                   /\ o.kind = "Service" => ep.host # NoHost
<1>1. ArePorts(<<>>)
  <2>1. ToSet(<<>>) = {} /\ <<>> \in Seq({})
    BY DEF ToSet
  <2> QED
    BY <2>1 DEF ArePorts, Listed
<1>2. ArePorts(o.own.ports)
  BY DEF IsObject
<1>3. \A specs, host, ports : EndpointsFromSpecs(specs, o, x, host, ports).failed \in BOOLEAN
  BY DEF EndpointsFromSpecs, Refused
<1>4. CASE o.kind = "Service"
  <2>1. PICK host : host = <<o.name, o.namespace>>
    OBVIOUS
  <2>2. host # NoHost
    BY <2>1 DEF NoHost
  <2>3. OwnEndpoints(o, x) = EndpointsFromSpecs(SpecsFromAnnotations(o.ann), o, x, host, o.own.ports)
    BY <1>4, <2>1 DEF OwnEndpoints
  <2> QED
    BY <1>2, <1>3, <2>2, <2>3, SpecEndpoints
<1>5. CASE o.kind # "Service"
  <2>1. OwnEndpoints(o, x) = EndpointsFromSpecs(SpecsFromAnnotations(o.ann), o, x, NoHost, <<>>)
    BY <1>5 DEF OwnEndpoints
  <2> QED
    BY <1>1, <1>3, <1>5, <2>1, SpecEndpoints
<1> QED
  BY <1>4, <1>5

(* A route's endpoints: those of its addresses, then those of its backends. *)
IsBackendOf(ep, o, x) ==
    \E i \in DOMAIN Targets(o).backends :
        /\ ep = InternalEndpoint(SpecOf(o), o, x, Targets(o).backends[i], Len(Targets(o).backends))
        /\ ep.port # 0

LEMMA InternalOfRoute ==
    ASSUME NEW o, IsObject(o), Parsable(o), NEW x, ServicesOK(x)
    PROVE  /\ Listed(InternalOf(o, x).endpoints)
           /\ InternalOf(o, x).failed \in BOOLEAN
           /\ \A ep \in ToSet(InternalOf(o, x).endpoints) :
                 IsBackendOf(ep, o, x) /\ ep.url = NoURL /\ ep.port \in Ports /\ ep.host # NoHost
<1>1. PICK backends : backends = Targets(o).backends /\ Listed(backends)
  BY TargetsListed
<1>2. PICK s : s = SpecOf(o)
  OBVIOUS
<1>3. PICK all : all = AllInternal(s, o, x, backends)
  OBVIOUS
<1>4. InternalOf(o, x) = [endpoints |-> Resolved(all), failed |-> Len(Resolved(all)) < Len(all)]
  BY <1>1, <1>2, <1>3 DEF InternalOf, InternalEndpoints
<1>5. /\ Listed(Resolved(all))
      /\ \A i \in DOMAIN backends :
            all[i] = InternalEndpoint(s, o, x, backends[i], Len(backends))
      /\ ToSet(Resolved(all)) = {all[i] : i \in {j \in DOMAIN backends : all[j].port # 0}}
  BY <1>1, <1>3, InternalListed
<1>6. ASSUME NEW ep \in ToSet(Resolved(all))
      PROVE  IsBackendOf(ep, o, x) /\ ep.url = NoURL /\ ep.port \in Ports /\ ep.host # NoHost
  <2>1. PICK i \in DOMAIN backends : ep = all[i] /\ all[i].port # 0
    BY <1>5
  <2>2. ep = InternalEndpoint(s, o, x, backends[i], Len(backends)) /\ ep.port # 0
    BY <1>5, <2>1
  <2>3. IsBackendOf(ep, o, x)
    BY <1>1, <1>2, <2>2 DEF IsBackendOf
  <2>4. ep.url = NoURL /\ ep.host # NoHost /\ ep.port \in Ports \cup {0}
    BY <2>2, InternalShape
  <2> QED
    BY <2>2, <2>3, <2>4
<1> QED
  BY <1>4, <1>5, <1>6

(* What an external endpoint is an endpoint of. *)
IsAddressOf(ep, o, x) ==
    \E i \in DOMAIN Targets(o).hosts :
        /\ ep = ExternalOf(o, x)[i]
        /\ ep.name = ExternalName(Shortcuts(o.ann), o, x, Targets(o).hosts[i].host,
                                  DistinctHosts(Targets(o).hosts),
                                  PathPart(Targets(o).hosts[i], Targets(o).hosts))
IsListenerOf(ep, o, x) ==
    \E k \in DOMAIN o.entryPoints, j \in DOMAIN Targets(o).hosts :
        ep = TCPEndpoint(Shortcuts(o.ann), o, x, Targets(o).hosts, o.entryPoints[k],
                         Targets(o).hosts[j].host)

LEMMA ExternalOfRoute ==
    ASSUME NEW o, IsObject(o), Parsable(o), NEW x
    PROVE  /\ Listed(ExternalOf(o, x))
           /\ \A ep \in ToSet(ExternalOf(o, x)) :
                 /\ ep.url # NoURL
                 /\ IF o.kind = "IngressRoute" THEN IsAddressOf(ep, o, x) ELSE IsListenerOf(ep, o, x)
<1>1. PICK hosts : hosts = Targets(o).hosts /\ Listed(hosts)
  BY TargetsListed
<1>2. PICK s : s = Shortcuts(o.ann)
  OBVIOUS
<1>3. PICK external : external = ExternalOf(o, x)
  OBVIOUS
<1>4. CASE o.kind = "IngressRoute"
  <2>1. external = ExternalEndpoints(s, o, x, hosts)
    BY <1>1, <1>2, <1>3, <1>4 DEF ExternalOf
  <2>2. /\ Listed(external) /\ DOMAIN external = DOMAIN hosts
        /\ \A i \in DOMAIN hosts :
              /\ external[i].name = ExternalName(s, o, x, hosts[i].host, DistinctHosts(hosts),
                                                 PathPart(hosts[i], hosts))
              /\ external[i].url # NoURL
    BY <1>1, <2>1, ExternalShape
  <2>3. ASSUME NEW ep \in ToSet(external) PROVE ep.url # NoURL /\ IsAddressOf(ep, o, x)
    <3>1. PICK i \in DOMAIN hosts : ep = external[i]
      BY <2>2 DEF ToSet
    <3> QED
      BY <1>1, <1>2, <1>3, <2>2, <3>1 DEF IsAddressOf
  <2> QED
    BY <1>3, <1>4, <2>2, <2>3
<1>5. CASE o.kind # "IngressRoute"
  <2>1. external = TCPEndpoints(s, o, x, hosts)
    BY <1>1, <1>2, <1>3, <1>5 DEF ExternalOf
  <2>2. Listed(o.entryPoints)
    BY DEF IsObject
  <2>3. Listed(external)
    BY <1>1, <2>1, <2>2, TCPListed
  <2>4. ASSUME NEW ep \in ToSet(external) PROVE ep.url # NoURL /\ IsListenerOf(ep, o, x)
    <3>1. PICK k \in DOMAIN o.entryPoints, j \in DOMAIN hosts :
              ep = TCPEndpoint(s, o, x, hosts, o.entryPoints[k], hosts[j].host)
      BY <1>1, <2>1, <2>2, TCPListed
    <3>2. ep.url # NoURL
      BY <3>1, TCPHasURL
    <3> QED
      BY <1>1, <1>2, <3>1, <3>2 DEF IsListenerOf
  <2> QED
    BY <1>3, <1>5, <2>3, <2>4
<1> QED
  BY <1>4, <1>5

(* Every endpoint of the entry has a URL, or a port there can be and a host,
   whatever the object's annotations, its rules and the cluster say: nothing
   that could not be found is stored (endpointFromSpec, internalEndpoints). *)
THEOREM EntryTyped == Spec => []TypeOK
<1>1. CurrentInv => TypeOK
  <2> SUFFICES ASSUME CurrentInv PROVE TypeOK
    OBVIOUS
  <2>1. PICK x : entry = Derive(obj, x) /\ ServicesOK(x)
    BY DEF CurrentInv, DerivedFrom
  <2>2. IsObject(obj) /\ obj.kind \in Kinds
    BY DEF CurrentInv, IsObject
  <2>3. obj.kind \in DOMAIN AnnotationsOf
    BY <2>2, SourcesAssumption
  <2>4. DOMAIN world.services = ServiceRefs
    <3>1. PICK services : services = world.services
      OBVIOUS
    <3>2. services = [ref \in ServiceRefs |-> services[ref]]
      BY <3>1 DEF CurrentInv, WorldShape
    <3> QED
      BY <3>1, <3>2
  <2>5. CASE entry \in {Nothing, Refused}
    <3>1. entry.failed \in BOOLEAN /\ entry.endpoints = <<>>
      <4>1. Nothing.failed = FALSE /\ Nothing.endpoints = <<>>
        BY DEF Nothing
      <4>2. Refused.failed = TRUE /\ Refused.endpoints = <<>>
        BY DEF Refused
      <4> QED
        BY <2>5, <4>1, <4>2
    <3>2. ToSet(entry.endpoints) = {}
      BY <3>1 DEF ToSet
    <3> QED
      BY <2>3, <2>4, <3>1, <3>2 DEF TypeOK
  <2>6. CASE IsDerived(obj, x) /\ entry # Refused
    <3>1. Parsable(obj)
      BY <2>6 DEF IsDerived, Parsable
    <3>2. entry = Following(ExternalOf(obj, x), InternalOf(obj, x))
      BY <2>1, <2>2, <2>6, RouteDerived
    <3>3. PICK external, internal : /\ external = ExternalOf(obj, x)
                                   /\ internal = InternalOf(obj, x).endpoints
      OBVIOUS
    <3>4. /\ entry.endpoints = external \o internal
          /\ entry.failed = InternalOf(obj, x).failed
      BY <3>2, <3>3 DEF Following
    <3>5. Listed(external) /\ Listed(internal)
      BY <2>1, <2>2, <3>1, <3>3, ExternalOfRoute, InternalOfRoute
    <3>6. ToSet(entry.endpoints) = ToSet(external) \cup ToSet(internal)
      BY <3>4, <3>5, BothListed
    <3>7. \A ep \in ToSet(external) : ep.url # NoURL
      BY <2>2, <3>1, <3>3, ExternalOfRoute
    <3>8. /\ \A ep \in ToSet(internal) : ep.port \in Ports /\ ep.host # NoHost
          /\ entry.failed \in BOOLEAN
      BY <2>1, <2>2, <3>1, <3>3, <3>4, InternalOfRoute
    <3> QED
      BY <2>3, <2>4, <3>6, <3>7, <3>8 DEF TypeOK
  <2>7. CASE entry = OwnEndpoints(obj, x) /\ (obj.kind = "Service" \/ IsDescribed(obj))
    <3>1. /\ entry.failed \in BOOLEAN
          /\ \A ep \in ToSet(entry.endpoints) :
                ep.url = NoURL => /\ ep.port \in Ports
                                  /\ obj.kind = "Service" => ep.host # NoHost
      BY <2>2, <2>7, OwnShape
    <3> QED
      BY <2>3, <2>4, <2>7, <3>1 DEF TypeOK
  <2> QED
    BY <2>1, <2>2, <2>5, <2>6, <2>7, OtherDerived
<1> QED
  BY <1>1, CurrentAlways, PTL

-----------------------------------------------------------------------------
(* Names. *)

IsPart(p) == Listed(p) /\ Len(p) \in {0, 1}

LEMMA WordIsPart ==
    ASSUME NEW x
    PROVE  IsPart(<<x>>) /\ Len(<<x>>) = 1 /\ <<x>>[1] = x
<1>1. <<x>> \in Seq({x})
  OBVIOUS
<1> QED
  BY <1>1, ElementsListed DEF IsPart

LEMMA NothingIsPart == IsPart(<<>>) /\ Len(<<>>) = 0
<1>1. <<>> \in Seq({})
  OBVIOUS
<1> QED
  BY <1>1, ElementsListed DEF IsPart

LEMMA SameParts ==
    ASSUME NEW p, IsPart(p), NEW q, IsPart(q), Len(p) = Len(q), Len(p) = 1 => p[1] = q[1]
    PROVE  p = q
<1>1. p = [i \in 1..Len(p) |-> p[i]] /\ q = [i \in 1..Len(p) |-> q[i]]
  BY ListIsFunction DEF IsPart
<1>2. \A i \in 1..Len(p) : p[i] = q[i]
  BY DEF IsPart
<1> QED
  BY <1>1, <1>2

IsJoined(u, s, t) ==
    /\ Listed(u) /\ Len(u) = Len(s) + Len(t)
    /\ \A i \in 1..Len(s) : u[i] = s[i]
    /\ \A i \in 1..Len(t) : u[Len(s) + i] = t[i]

LEMMA Joined ==
    ASSUME NEW s, NEW t, Listed(s), Listed(t)
    PROVE  IsJoined(s \o t, s, t)
<1>1. PICK u : u = s \o t
  OBVIOUS
<1>2. Listed(u) /\ Len(u) = Len(s) + Len(t)
  BY <1>1, BothListed
<1>3. \A i \in 1..Len(s) : u[i] = s[i]
  BY <1>1, BothListed
<1>4. \A i \in 1..Len(t) : u[Len(s) + i] = t[i]
  BY <1>1, BothListed
<1> QED
  BY <1>1, <1>2, <1>3, <1>4 DEF IsJoined

LEMMA SuffixIsPart == ASSUME NEW w PROVE IsPart(Suffix(w)) /\ Len(Suffix(w)) \in {0, 1}
<1>1. IsPart(Suffix(w))
  BY WordIsPart, NothingIsPart DEF Suffix
<1> QED
  BY <1>1 DEF IsPart

LEMMA ExternalNameIs ==
    ASSUME NEW s, NEW o, NEW w, NEW host, NEW total, NEW p, IsPart(p),
           NEW name, name = ExternalName(s, o, w, host, total, p)
    PROVE  \E n \in {0, 1} :
               /\ n = IF total > 1 THEN 1 ELSE 0
               /\ n = 1 => name[2] = host
               /\ Len(name) = n + Len(p) + 1 + Len(Suffix(w))
               /\ Len(p) = 1 => name[n + 2] = p[1]
<1>1. PICK hosts, first, last : /\ hosts = IF total > 1 THEN <<host>> ELSE <<>>
                                /\ first = <<Title(s, o)>> /\ last = Suffix(w)
  OBVIOUS
<1>2. PICK start, all : start = first \o hosts /\ all = start \o p /\ name = all \o last
  <2>1. name = first \o hosts \o p \o last
    BY <1>1 DEF ExternalName
  <2> QED
    BY <2>1
<1>3. /\ IsPart(hosts) /\ Len(hosts) = IF total > 1 THEN 1 ELSE 0
      /\ Len(hosts) = 1 => hosts[1] = host
  <2>1. CASE total > 1
    <3>1. hosts = <<host>>
      BY <1>1, <2>1
    <3> QED
      BY <2>1, <3>1, WordIsPart
  <2>2. CASE ~(total > 1)
    <3>1. hosts = <<>>
      BY <1>1, <2>2
    <3> QED
      BY <2>2, <3>1, NothingIsPart
  <2> QED
    BY <2>1, <2>2
<1>4. IsPart(first) /\ Len(first) = 1 /\ IsPart(last)
  BY <1>1, WordIsPart, SuffixIsPart
<1>5. Listed(p) /\ Listed(hosts) /\ Listed(first) /\ Listed(last)
  BY <1>3, <1>4 DEF IsPart
<1>6. IsJoined(start, first, hosts)
  BY <1>2, <1>5, Joined, Zenon
<1>7. IsJoined(all, start, p)
  <2>1. Listed(start)
    BY <1>6 DEF IsJoined
  <2> QED
    BY <1>2, <1>5, <2>1, Joined, Zenon
<1>8. IsJoined(name, all, last)
  <2>1. Listed(all)
    BY <1>7 DEF IsJoined
  <2> QED
    BY <1>2, <1>5, <2>1, Joined, Zenon
<1>9. PICK n \in {0, 1}, m \in {0, 1}, k \in {0, 1} : n = Len(hosts) /\ m = Len(p) /\ k = Len(last)
  BY <1>3, <1>4 DEF IsPart
<1>10. /\ Len(start) = 1 + n
       /\ \A i \in 1..n : start[1 + i] = hosts[i]
  BY <1>4, <1>6, <1>9 DEF IsJoined
<1>11. /\ Len(all) = 1 + n + m
       /\ \A i \in 1..(1 + n) : all[i] = start[i]
       /\ \A i \in 1..m : all[(1 + n) + i] = p[i]
  BY <1>7, <1>9, <1>10 DEF IsJoined
<1>12. /\ Len(name) = n + m + 1 + k
       /\ \A i \in 1..(1 + n + m) : name[i] = all[i]
  BY <1>8, <1>9, <1>11 DEF IsJoined
<1>13. ASSUME n = 1 PROVE name[2] = host
  BY <1>3, <1>9, <1>10, <1>11, <1>12, <1>13
<1>14. ASSUME m = 1 PROVE name[n + 2] = p[1]
  BY <1>11, <1>12, <1>14
<1> QED
  BY <1>1, <1>3, <1>9, <1>12, <1>13, <1>14

(* A name tells the host, if there are several, and the part. *)
LEMMA ExternalNamesTell ==
    ASSUME NEW s, NEW o, NEW w, NEW total, NEW h, NEW g, NEW p, IsPart(p), NEW q, IsPart(q),
           ExternalName(s, o, w, h, total, p) = ExternalName(s, o, w, g, total, q)
    PROVE  p = q /\ (total > 1 => h = g)
<1>1. PICK name : name = ExternalName(s, o, w, h, total, p) /\ name = ExternalName(s, o, w, g, total, q)
  OBVIOUS
<1>2. PICK n \in {0, 1} :
          /\ n = IF total > 1 THEN 1 ELSE 0
          /\ n = 1 => name[2] = h
          /\ Len(name) = n + Len(p) + 1 + Len(Suffix(w))
          /\ Len(p) = 1 => name[n + 2] = p[1]
  BY <1>1, ExternalNameIs
<1>3. PICK m \in {0, 1} :
          /\ m = IF total > 1 THEN 1 ELSE 0
          /\ m = 1 => name[2] = g
          /\ Len(name) = m + Len(q) + 1 + Len(Suffix(w))
          /\ Len(q) = 1 => name[m + 2] = q[1]
  BY <1>1, ExternalNameIs
<1>4. m = n
  BY <1>2, <1>3
<1>5. Len(p) = Len(q) /\ (Len(p) = 1 => p[1] = q[1])
  BY <1>2, <1>3, <1>4, SuffixIsPart DEF IsPart
<1>6. p = q
  BY <1>5, SameParts
<1> QED
  BY <1>2, <1>3, <1>4, <1>6

LEMMA ExternalNamesAreLong ==
    ASSUME NEW s, NEW o, NEW w, Suffix(w) # <<>>, NEW total, NEW h, NEW p, IsPart(p), NEW word
    PROVE  ExternalName(s, o, w, h, total, p) # <<word>>
<1>1. PICK name : name = ExternalName(s, o, w, h, total, p)
  OBVIOUS
<1>2. PICK n \in {0, 1} : Len(name) = n + Len(p) + 1 + Len(Suffix(w))
  BY <1>1, ExternalNameIs
<1>3. Len(Suffix(w)) = 1
  BY WordIsPart DEF Suffix
<1>4. Len(name) # 1
  BY <1>2, <1>3 DEF IsPart
<1> QED
  BY <1>1, <1>4, WordIsPart

LEMMA ImageIsFinite ==
    ASSUME NEW f, IsFiniteSet(DOMAIN f)
    PROVE  IsFiniteSet({f[i] : i \in DOMAIN f})
<1> DEFINE D == DOMAIN f
           T == {f[i] : i \in D}
           g == [i \in D |-> f[i]]
<1>1. g \in Surjection(D, T)
  BY DEF Surjection
<1>2. IsFiniteSet(T)
  BY <1>1, FS_Surjection
<1> QED
  BY <1>2

LEMMA SeveralHosts ==
    ASSUME NEW hosts, Listed(hosts), NEW i \in DOMAIN hosts, NEW j \in DOMAIN hosts,
           hosts[i].host # hosts[j].host
    PROVE  DistinctHosts(hosts) > 1
<1>1. PICK n \in Nat : DOMAIN hosts = 1..n
  BY ListIsFunction
<1>2. PICK f : f = [k \in 1..n |-> hosts[k].host]
  OBVIOUS
<1>3. DOMAIN f = 1..n /\ \A k \in 1..n : f[k] = hosts[k].host
  BY <1>2
<1>4. PICK T : T = {f[k] : k \in 1..n}
  OBVIOUS
<1>5. IsFiniteSet(T)
  <2>1. IsFiniteSet(1..n)
    BY FS_Interval
  <2> QED
    BY <1>3, <1>4, <2>1, ImageIsFinite
<1>6. DistinctHosts(hosts) = Cardinality(T)
  <2>1. {hosts[k].host : k \in DOMAIN hosts} = T
    BY <1>1, <1>3, <1>4
  <2> QED
    BY <2>1 DEF DistinctHosts
<1>7. hosts[i].host \in T /\ hosts[j].host \in T
  BY <1>1, <1>3, <1>4
<1>8. Cardinality(T) \in Nat
  BY <1>5, FS_CardinalityType
<1>9. Cardinality(T) # 0
  BY <1>5, <1>7, FS_EmptySet
<1>10. Cardinality(T) # 1
  <2>1. Cardinality(T) = 1 => \E y : T = {y}
    BY <1>5, FS_Singleton
  <2> QED
    BY <1>7, <2>1
<1> QED
  BY <1>6, <1>8, <1>9, <1>10

(* An address is a host and a path. *)
LEMMA AddressShape ==
    ASSUME NEW o, IsObject(o), Parsable(o)
    PROVE  \A t \in ToSet(Targets(o).hosts) : t = [host |-> t.host, path |-> t.path]
<1>1. PICK all : all = FlattenSeq(HostRows(o))
  OBVIOUS
<1>2. Listed(all) /\ \A t \in ToSet(all) : \E i \in DOMAIN HostRows(o) : t \in ToSet(HostRows(o)[i])
  BY <1>1, RowsAreListed, FlattenListed
<1>3. Targets(o).hosts = Firsts(all, all)
  BY <1>1, TargetsAre DEF Distinct
<1>4. ToSet(Targets(o).hosts) \subseteq ToSet(all)
  BY <1>2, <1>3, FirstsListed
<1>5. ASSUME NEW parsed, NEW t \in ToSet(HostsIn(o, parsed))
      PROVE  t = [host |-> t.host, path |-> t.path]
  <2>1. PICK kept : kept = KeptHosts(o, parsed)
    OBVIOUS
  <2>2. CASE IsSkippedWhole(o, parsed)
    <3>1. HostsIn(o, parsed) = <<>>
      BY <2>2, Zenon DEF HostsIn
    <3>2. ToSet(HostsIn(o, parsed)) = {}
      BY <3>1 DEF ToSet
    <3> QED
      BY <3>2
  <2>3. CASE ~IsSkippedWhole(o, parsed)
    <3>1. HostsIn(o, parsed) = [i \in DOMAIN kept |-> [host |-> kept[i], path |-> parsed.path]]
      BY <2>1, <2>3, Zenon DEF HostsIn
    <3>2. PICK i \in DOMAIN kept : t = [host |-> kept[i], path |-> parsed.path]
      BY <3>1 DEF ToSet
    <3> QED
      BY <3>2
  <2> QED
    BY <2>2, <2>3
<1>6. \A i \in DOMAIN HostRows(o) : HostRows(o)[i] = HostsIn(o, ParseRule[o.rules[i].match])
  BY DEF HostRows
<1> QED
  BY <1>2, <1>4, <1>5, <1>6

LEMMA PathPartIsPart ==
    ASSUME NEW t, NEW hosts
    PROVE  IsPart(PathPart(t, hosts))
BY WordIsPart, NothingIsPart DEF PathPart

LEMMA ListenerPartIsPart ==
    ASSUME NEW o, NEW e
    PROVE  IsPart(ListenerPart(o, e))
BY WordIsPart, NothingIsPart DEF ListenerPart

(* Two addresses of one host are told apart by their paths. *)
LEMMA PathPartsTell ==
    ASSUME NEW hosts, NEW i \in DOMAIN hosts, NEW j \in DOMAIN hosts, hosts[i] # hosts[j],
           NEW t, t = hosts[i], NEW u, u = hosts[j],
           t = [host |-> t.host, path |-> t.path], u = [host |-> u.host, path |-> u.path],
           t.host = u.host
    PROVE  PathPart(t, hosts) # PathPart(u, hosts)
<1>1. t.path # u.path
  <2>1. t.path = u.path => t = u
    OBVIOUS
  <2> QED
    BY <2>1
<1>2. PathPart(t, hosts) = IF t.path # "" THEN <<t.path>> ELSE <<>>
  BY DEF PathPart
<1>3. PathPart(u, hosts) = IF u.path # "" THEN <<u.path>> ELSE <<>>
  BY DEF PathPart
<1>4. \A p, q : <<p>> # <<>> /\ (<<p>> = <<q>> => p = q)
  OBVIOUS
<1> QED
  BY <1>1, <1>2, <1>3, <1>4

LEMMA AddressesTell ==
    ASSUME NEW o, IsObject(o), Parsable(o), o.kind = "IngressRoute", NEW x,
           NEW a, IsAddressOf(a, o, x), NEW b, IsAddressOf(b, o, x), a # b
    PROVE  a.name # b.name
<1>1. PICK hosts, s, external : /\ hosts = Targets(o).hosts /\ s = Shortcuts(o.ann)
                                /\ external = ExternalOf(o, x)
  OBVIOUS
<1>2. Listed(hosts) /\ \A t \in ToSet(hosts) : t = [host |-> t.host, path |-> t.path]
  BY <1>1, TargetsListed, AddressShape
<1>3. PICK i \in DOMAIN hosts :
          /\ a = external[i]
          /\ a.name = ExternalName(s, o, x, hosts[i].host, DistinctHosts(hosts), PathPart(hosts[i], hosts))
  BY <1>1 DEF IsAddressOf
<1>4. PICK j \in DOMAIN hosts :
          /\ b = external[j]
          /\ b.name = ExternalName(s, o, x, hosts[j].host, DistinctHosts(hosts), PathPart(hosts[j], hosts))
  BY <1>1 DEF IsAddressOf
<1>5. hosts[i] # hosts[j]
  <2>1. external = ExternalEndpoints(s, o, x, hosts)
    BY <1>1 DEF ExternalOf
  <2>2. hosts[i] = hosts[j] => external[i] = external[j]
    BY <1>2, <2>1, ExternalShape
  <2> QED
    BY <1>3, <1>4, <2>2
<1>6. hosts[i] \in ToSet(hosts) /\ hosts[j] \in ToSet(hosts)
  BY DEF ToSet
<1>7. CASE hosts[i].host = hosts[j].host
  <2>1. PathPart(hosts[i], hosts) # PathPart(hosts[j], hosts)
    BY <1>2, <1>5, <1>6, <1>7, PathPartsTell
  <2> QED
    BY <1>3, <1>4, <2>1, PathPartIsPart, ExternalNamesTell
<1>8. CASE hosts[i].host # hosts[j].host
  <2>1. DistinctHosts(hosts) > 1
    BY <1>2, <1>8, SeveralHosts
  <2> QED
    BY <1>3, <1>4, <1>8, <2>1, PathPartIsPart, ExternalNamesTell
<1> QED
  BY <1>7, <1>8

LEMMA ListenersTell ==
    ASSUME NEW o, IsObject(o), Parsable(o), NEW x,
           NEW a, IsListenerOf(a, o, x), NEW b, IsListenerOf(b, o, x), a # b
    PROVE  a.name # b.name
<1>1. PICK hosts, s : hosts = Targets(o).hosts /\ s = Shortcuts(o.ann)
  OBVIOUS
<1>2. PICK n \in Nat, m \in Nat : /\ n = Len(o.entryPoints) /\ DOMAIN o.entryPoints = 1..n
                                  /\ m = Len(hosts) /\ DOMAIN hosts = 1..m
  <2>1. Listed(o.entryPoints) /\ Listed(hosts)
    BY <1>1, TargetsListed DEF IsObject
  <2> QED
    BY <2>1, ListIsFunction
<1>3. PICK k \in 1..n, j \in 1..m :
          a = TCPEndpoint(s, o, x, hosts, o.entryPoints[k], hosts[j].host)
  BY <1>1, <1>2 DEF IsListenerOf
<1>4. PICK l \in 1..n, i \in 1..m :
          b = TCPEndpoint(s, o, x, hosts, o.entryPoints[l], hosts[i].host)
  BY <1>1, <1>2 DEF IsListenerOf
<1>5. PICK e, f, h, g : /\ e = o.entryPoints[k] /\ f = o.entryPoints[l]
                        /\ h = hosts[j].host /\ g = hosts[i].host
  OBVIOUS
<1>6. /\ a.name = ExternalName(s, o, x, h, m, ListenerPart(o, e))
      /\ b.name = ExternalName(s, o, x, g, m, ListenerPart(o, f))
  BY <1>2, <1>3, <1>4, <1>5, TCPShape
<1>7. e # f \/ h # g
  BY <1>3, <1>4, <1>5
<1>8. ASSUME a.name = b.name PROVE FALSE
  <2>1. ListenerPart(o, e) = ListenerPart(o, f) /\ (m > 1 => h = g)
    <3>1. PICK p, q : p = ListenerPart(o, e) /\ q = ListenerPart(o, f) /\ IsPart(p) /\ IsPart(q)
      BY ListenerPartIsPart
    <3>2. ExternalName(s, o, x, h, m, p) = ExternalName(s, o, x, g, m, q)
      BY <1>6, <1>8, <3>1
    <3> QED
      BY <3>1, <3>2, ExternalNamesTell
  <2>2. CASE h # g
    <3>1. j # i
      BY <1>5, <2>2
    <3> QED
      BY <2>1, <2>2, <3>1
  <2>3. CASE e # f
    <3>1. k # l
      BY <1>5, <2>3
    <3>2. n > 1
      BY <3>1
    <3>3. <<e>> # <<f>>
      BY <2>3
    <3> QED
      BY <1>2, <2>1, <3>2, <3>3 DEF ListenerPart
  <2> QED
    BY <1>7, <2>2, <2>3
<1> QED
  BY <1>8

LEMMA BackendsTell ==
    ASSUME NEW o, IsObject(o), Parsable(o), NEW x,
           NEW a, IsBackendOf(a, o, x), NEW b, IsBackendOf(b, o, x), a # b, a.name = b.name
    PROVE  DisplayName(a.host[1]) = DisplayName(b.host[1])
<1>1. PICK backends, s : backends = Targets(o).backends /\ s = SpecOf(o)
  OBVIOUS
<1>2. PICK n \in Nat : n = Len(backends) /\ DOMAIN backends = 1..n
  BY <1>1, TargetsListed, ListIsFunction
<1>3. PICK i \in 1..n : a = InternalEndpoint(s, o, x, backends[i], n)
  BY <1>1, <1>2 DEF IsBackendOf
<1>4. PICK j \in 1..n : b = InternalEndpoint(s, o, x, backends[j], n)
  BY <1>1, <1>2 DEF IsBackendOf
<1>5. PICK p, q : p = backends[i] /\ q = backends[j]
  OBVIOUS
<1>6. n > 1
  BY <1>3, <1>4
<1>7. /\ a.name = InternalName(s, o, p, n) /\ a.host = <<p.ref[2], p.ref[1]>>
      /\ b.name = InternalName(s, o, q, n) /\ b.host = <<q.ref[2], q.ref[1]>>
  BY <1>3, <1>4, <1>5, InternalShape
<1>8. InternalName(s, o, p, n) = InternalName(s, o, q, n)
  BY <1>7
<1>9. <<DisplayName(p.ref[2])>> = <<DisplayName(q.ref[2])>>
  BY <1>6, <1>8 DEF InternalName
<1>10. DisplayName(p.ref[2]) = DisplayName(q.ref[2])
  BY <1>9
<1>11. a.host[1] = p.ref[2] /\ b.host[1] = q.ref[2]
  BY <1>7
<1> QED
  BY <1>10, <1>11

(* With a suffix, an external endpoint's name has more than one word; an internal
   one's has one. *)
LEMMA ExternalsAreNoBackends ==
    ASSUME NEW o, IsObject(o), NEW x, Suffix(x) # <<>>, NEW a, IsAddressOf(a, o, x) \/ IsListenerOf(a, o, x),
           NEW b, IsBackendOf(b, o, x)
    PROVE  a.name # b.name
<1>1. PICK word : b.name = <<word>>
  <2>1. PICK backend, n : b = InternalEndpoint(SpecOf(o), o, x, backend, n)
    BY DEF IsBackendOf
  <2>2. b.name = InternalName(SpecOf(o), o, backend, n)
    BY <2>1, InternalShape
  <2> QED
    BY <2>2 DEF InternalName
<1>2. PICK host, total, p : a.name = ExternalName(Shortcuts(o.ann), o, x, host, total, p) /\ IsPart(p)
  <2>1. CASE IsAddressOf(a, o, x)
    BY <2>1, PathPartIsPart DEF IsAddressOf
  <2>2. CASE IsListenerOf(a, o, x)
    <3>1. PICK e, host : a = TCPEndpoint(Shortcuts(o.ann), o, x, Targets(o).hosts, e, host)
      BY <2>2 DEF IsListenerOf
    <3>2. a.name = ExternalName(Shortcuts(o.ann), o, x, host, Len(Targets(o).hosts), ListenerPart(o, e))
      BY <3>1, TCPShape
    <3> QED
      BY <3>2, ListenerPartIsPart
  <2> QED
    BY <2>1, <2>2
<1> QED
  BY <1>1, <1>2, ExternalNamesAreLong

LEMMA RouteNamesDiffer ==
    ASSUME NEW o, IsObject(o), NEW x, IsDerived(o, x), ServicesOK(x),
           NEW a \in ToSet(Derive(o, x).endpoints), NEW b \in ToSet(Derive(o, x).endpoints),
           a # b, a.name = b.name
    PROVE  \/ /\ a.url = NoURL /\ b.url = NoURL
              /\ DisplayName(a.host[1]) = DisplayName(b.host[1])
           \/ Suffix(x) = <<>> /\ (a.url = NoURL <=> b.url # NoURL)
<1>1. Parsable(o) /\ o.kind \in Kinds
  BY DEF IsDerived, Parsable, IsObject
<1>2. PICK external, internal : external = ExternalOf(o, x) /\ internal = InternalOf(o, x).endpoints
  OBVIOUS
<1>3. a \in ToSet(external) \cup ToSet(internal) /\ b \in ToSet(external) \cup ToSet(internal)
  <2>1. CASE Derive(o, x) = Refused
    <3>1. Derive(o, x).endpoints = <<>>
      BY <2>1 DEF Refused
    <3>2. ToSet(Derive(o, x).endpoints) = {}
      BY <3>1 DEF ToSet
    <3> QED
      BY <3>2
  <2>2. CASE Derive(o, x) # Refused
    <3>1. Derive(o, x) = Following(ExternalOf(o, x), InternalOf(o, x))
      BY <1>1, <2>2, RouteDerived
    <3>2. Derive(o, x).endpoints = external \o internal
      BY <1>2, <3>1 DEF Following
    <3>3. Listed(external) /\ Listed(internal)
      BY <1>1, <1>2, ExternalOfRoute, InternalOfRoute
    <3>4. ToSet(external \o internal) = ToSet(external) \cup ToSet(internal)
      BY <3>3, BothListed
    <3> QED
      BY <3>2, <3>4
  <2> QED
    BY <2>1, <2>2
<1>4. \A ep \in ToSet(internal) : IsBackendOf(ep, o, x) /\ ep.url = NoURL
  BY <1>1, <1>2, InternalOfRoute
<1>5. \A ep \in ToSet(external) :
          /\ ep.url # NoURL
          /\ IF o.kind = "IngressRoute" THEN IsAddressOf(ep, o, x) ELSE IsListenerOf(ep, o, x)
  BY <1>1, <1>2, ExternalOfRoute
<1>6. \A ep \in ToSet(external), op \in ToSet(internal) :
          ep.name = op.name => Suffix(x) = <<>> /\ ep.url # NoURL /\ op.url = NoURL
  BY <1>4, <1>5, ExternalsAreNoBackends
<1>7. CASE a \in ToSet(external) /\ b \in ToSet(external)
  <2>1. CASE o.kind = "IngressRoute"
    BY <1>1, <1>5, <1>7, <2>1, AddressesTell
  <2>2. CASE o.kind # "IngressRoute"
    BY <1>1, <1>5, <1>7, <2>2, ListenersTell
  <2> QED
    BY <2>1, <2>2
<1>8. CASE a \in ToSet(internal) /\ b \in ToSet(internal)
  BY <1>1, <1>4, <1>8, BackendsTell
<1> QED
  BY <1>3, <1>6, <1>7, <1>8

LEMMA OneSpecOneEndpoint ==
    ASSUME NEW o, NEW x, ~IsDescribed(o), NEW a \in ToSet(OwnEndpoints(o, x).endpoints),
           NEW b \in ToSet(OwnEndpoints(o, x).endpoints)
    PROVE  a = b
<1>1. PICK s : SpecsFromAnnotations(o.ann) = <<s>>
  BY RouteSpec
<1>2. PICK host, ports : OwnEndpoints(o, x) = EndpointsFromSpecs(<<s>>, o, x, host, ports)
  BY <1>1 DEF OwnEndpoints
<1>3. PICK endpoints : endpoints = [i \in DOMAIN <<s>> |-> EndpointFromSpec(<<s>>[i], o, x, host, ports)]
  OBVIOUS
<1>4. OwnEndpoints(o, x) = IF \E i \in DOMAIN endpoints : endpoints[i].url = NoURL /\ endpoints[i].port = 0
                             THEN Refused ELSE [endpoints |-> endpoints, failed |-> FALSE]
  BY <1>2, <1>3, Zenon DEF EndpointsFromSpecs
<1>5. DOMAIN endpoints = {1}
  BY <1>3
<1>6. OwnEndpoints(o, x).endpoints = <<>> \/ OwnEndpoints(o, x).endpoints = endpoints
  BY <1>4 DEF Refused
<1>7. ToSet(<<>>) = {} /\ ToSet(endpoints) = {endpoints[1]}
  BY <1>5 DEF ToSet
<1> QED
  BY <1>6, <1>7

(* Gatus keeps history by name: no two endpoints of a route share one, except
   those of backends whose Services are displayed alike and, if the suffix is
   empty, an external and an internal one. *)
THEOREM NamesAreDistinct == Spec => []EndpointNamesAreDistinct
<1>1. CurrentInv => EndpointNamesAreDistinct
  <2> SUFFICES ASSUME CurrentInv, ~IsDescribed(obj),
                      NEW i \in DOMAIN entry.endpoints, NEW j \in DOMAIN entry.endpoints,
                      NEW a, a = entry.endpoints[i], NEW b, b = entry.endpoints[j],
                      a # b, a.name = b.name
               PROVE  \/ /\ a.url = NoURL /\ b.url = NoURL
                         /\ DisplayName(a.host[1]) = DisplayName(b.host[1])
                      \/ Suffix(world) = <<>> /\ (a.url = NoURL <=> b.url # NoURL)
    BY DEF EndpointNamesAreDistinct
  <2>1. PICK x : entry = Derive(obj, x) /\ ServicesOK(x) /\ x.flags = world.flags
    BY DEF CurrentInv, DerivedFrom, SameSettings
  <2>2. IsObject(obj) /\ obj.kind \in Kinds
    BY DEF CurrentInv, IsObject
  <2>3. a \in ToSet(entry.endpoints) /\ b \in ToSet(entry.endpoints)
    BY DEF ToSet
  <2>4. CASE IsDerived(obj, x)
    <3>1. Suffix(x) = Suffix(world)
      BY <2>1 DEF Suffix
    <3> QED
      BY <2>1, <2>2, <2>3, <2>4, <3>1, RouteNamesDiffer
  <2>5. CASE ~IsDerived(obj, x)
    <3>1. entry \notin {Nothing, Refused}
      <4>1. Nothing.endpoints = <<>> /\ Refused.endpoints = <<>>
        BY DEF Nothing, Refused
      <4>2. ToSet(<<>>) = {}
        BY DEF ToSet
      <4> QED
        BY <2>3, <4>1, <4>2
    <3>2. entry = OwnEndpoints(obj, x)
      BY <2>1, <2>2, <2>5, <3>1, OtherDerived
    <3> QED
      BY <2>3, <3>2, OneSpecOneEndpoint
  <2> QED
    BY <2>4, <2>5
<1> QED
  BY <1>1, CurrentAlways, PTL

-----------------------------------------------------------------------------
(* The ports of entry points. *)

(* EntrypointPorts.Port, when it gives one: that of the flag, or else the one
   that all who name the entry point publish, or else the default. *)
LEMMA PortIsCertain ==
    ASSUME NEW o, NEW w, NEW e, PortOf(e, o, w) # 0,
           NEW prefer, prefer = Written(o.ann, "traefikService", <<>>),
           NEW naming, naming = {r \in InScope(w) : /\ prefer \in {<<>>, r}
                                                   /\ e \in DOMAIN Published(w.services[r])}
    PROVE  IF e \in DOMAIN w.flags.entrypointPorts
             THEN PortOf(e, o, w) = w.flags.entrypointPorts[e]
           ELSE IF naming = {}
             THEN prefer = <<>> /\ PortOf(e, o, w) = DefaultEntrypointPorts[e]
           ELSE \A r \in naming : PortOf(e, o, w) = Published(w.services[r])[e]
<1>1. PICK ports, port : ports = PortsPublished(e, prefer, w) /\ port = PortOf(e, o, w)
  OBVIOUS
<1>2. port = IF e \in DOMAIN w.flags.entrypointPorts THEN w.flags.entrypointPorts[e]
             ELSE IF Cardinality(ports) = 1 THEN AnyOf(ports)
             ELSE IF ports = {} /\ prefer = <<>> /\ e \in DOMAIN DefaultEntrypointPorts
               THEN DefaultEntrypointPorts[e]
             ELSE 0
  BY <1>1, Zenon DEF PortOf, EntrypointPort
<1>3. naming = Naming(e, prefer, w)
  BY DEF Naming
<1>4. PICK f : f = [r \in naming |-> Published(w.services[r])[e]]
  OBVIOUS
<1>5. DOMAIN f = naming /\ \A r \in naming : f[r] = Published(w.services[r])[e]
  BY <1>4
<1>6. ports = {f[r] : r \in naming}
  BY <1>1, <1>3, <1>5 DEF PortsPublished
<1>7. IsFiniteSet(ports)
  <2>1. naming \in SUBSET ServiceRefs /\ IsFiniteSet(ServiceRefs)
    BY SourcesAssumption DEF InScope
  <2>2. IsFiniteSet(naming)
    BY <2>1, FS_Subset
  <2> QED
    BY <1>5, <1>6, <2>2, ImageIsFinite
<1>8. CASE e \in DOMAIN w.flags.entrypointPorts
  BY <1>1, <1>2, <1>8
<1>9. CASE e \notin DOMAIN w.flags.entrypointPorts /\ naming = {}
  <2>1. ports = {}
    BY <1>6, <1>9
  <2>2. Cardinality(ports) # 1
    BY <2>1, FS_EmptySet
  <2>3. port = IF ports = {} /\ prefer = <<>> /\ e \in DOMAIN DefaultEntrypointPorts
                 THEN DefaultEntrypointPorts[e] ELSE 0
    BY <1>2, <1>9, <2>2, Zenon
  <2> HIDE DEF DefaultEntrypointPorts
  <2>4. prefer = <<>> /\ port = DefaultEntrypointPorts[e]
    BY <1>1, <2>3, Zenon
  <2> QED
    BY <1>1, <1>9, <2>4, Zenon
<1>10. CASE e \notin DOMAIN w.flags.entrypointPorts /\ naming # {}
  <2>1. ports # {}
    BY <1>6, <1>10
  <2>2. Cardinality(ports) = 1 /\ port = AnyOf(ports)
    BY <1>1, <1>2, <1>10, <2>1, Zenon
  <2>3. PICK p : ports = {p}
    BY <1>7, <2>2, FS_Singleton
  <2>4. AnyOf(ports) = p
    BY <2>3 DEF AnyOf
  <2>5. \A r \in naming : port = Published(w.services[r])[e]
    BY <1>5, <1>6, <2>2, <2>3, <2>4
  <2> QED
    BY <1>1, <1>10, <2>5, Zenon
<1> QED
  BY <1>8, <1>9, <1>10, Zenon

LEMMA PlaceInRows ==
    ASSUME NEW n \in Nat, NEW m \in Nat, NEW k \in 1..n, NEW j \in 1..m
    PROVE  (k - 1) * m + j \in 1..(n * m)
<1>1. PICK a \in Nat, b \in Nat : a = k - 1 /\ b = n - k
  OBVIOUS
<1>2. a * m \in Nat /\ b * m \in Nat
  OBVIOUS
<1>3. n * m = a * m + m + b * m
  <2>1. n = a + 1 + b
    BY <1>1
  <2> QED
    BY <2>1
<1> QED
  BY <1>1, <1>2, <1>3

(* The port checked is the one Traefik's Services publish now: one that all in
   scope agree on, and never that of a Service since gone or changed. *)
THEOREM PortsAreCertain == Spec => []EntryPointPortsAreCertain
<1>1. ASSUME CurrentInv, obj.kind = "IngressRouteTCP", IsDerived(obj, world),
             entry.endpoints # <<>>,
             NEW k \in DOMAIN obj.entryPoints, NEW j \in DOMAIN Targets(obj).hosts,
             NEW e, e = obj.entryPoints[k]
      PROVE  /\ PortOf(e, obj, world) # 0
             /\ entry.endpoints[(k - 1) * Len(Targets(obj).hosts) + j].url[4] = PortOf(e, obj, world)
  <2>1. PICK x : DerivedFrom(x, obj, world, entry)
    BY <1>1 DEF CurrentInv
  <2>2. IsObject(obj) /\ obj.kind \in Kinds
    BY <1>1 DEF CurrentInv, IsObject
  <2>3. entry = Derive(obj, x) /\ SameSettings(x, world) /\ ServicesOK(x) /\ SameTraefik(x, world)
    BY <1>1, <2>1 DEF DerivedFrom
  <2>4. IsDerived(obj, x) /\ Parsable(obj)
    BY <1>1, <2>3 DEF IsDerived, Enabled, SameSettings, Parsable
  <2>5. Derive(obj, x) # Refused
    <3>1. Refused.endpoints = <<>>
      BY DEF Refused
    <3> QED
      BY <1>1, <2>3, <3>1
  <2>6. PICK hosts, s, external, internal :
            /\ hosts = Targets(obj).hosts /\ s = Shortcuts(obj.ann)
            /\ external = ExternalOf(obj, x) /\ internal = InternalOf(obj, x).endpoints
    OBVIOUS
  <2>7. PICK n \in Nat, m \in Nat : /\ n = Len(obj.entryPoints) /\ DOMAIN obj.entryPoints = 1..n
                                    /\ m = Len(hosts) /\ DOMAIN hosts = 1..m
    <3>1. Listed(obj.entryPoints) /\ Listed(hosts)
      BY <2>2, <2>4, <2>6, TargetsListed DEF IsObject
    <3> QED
      BY <3>1, ListIsFunction
  <2>8. /\ Derive(obj, x) = Following(ExternalOf(obj, x), InternalOf(obj, x))
        /\ Targets(obj).hosts # <<>> => PortOf(e, obj, x) # 0
    BY <1>1, <2>2, <2>4, <2>5, RouteDerived
  <2>9. PortOf(e, obj, x) # 0
    <3>1. hosts # <<>>
      BY <1>1, <2>6, <2>7
    <3> QED
      BY <2>6, <2>8, <3>1
  <2>10. PortOf(e, obj, x) = PortOf(e, obj, world)
    BY <2>3, PortNeedsTraefik DEF SameTraefik
  <2>11. entry.endpoints = external \o internal
    BY <2>3, <2>6, <2>8 DEF Following
  <2>12. external = TCPEndpoints(s, obj, x, hosts)
    BY <1>1, <2>6 DEF ExternalOf
  <2>13. Listed(obj.entryPoints) /\ Listed(hosts)
    BY <2>2, <2>4, <2>6, TargetsListed DEF IsObject
  <2>14. PICK i : i = (k - 1) * m + j
    OBVIOUS
  <2>15. /\ Len(external) = n * m
         /\ external[i] = TCPEndpoint(s, obj, x, hosts, e, hosts[j].host)
    <3>1. /\ Len(external) = Len(obj.entryPoints) * Len(hosts)
          /\ \A l \in DOMAIN obj.entryPoints, h \in DOMAIN hosts :
                external[(l - 1) * Len(hosts) + h]
                  = TCPEndpoint(s, obj, x, hosts, obj.entryPoints[l], hosts[h].host)
      BY <2>12, <2>13, TCPListed
    <3>2. i = (k - 1) * Len(hosts) + j /\ j \in DOMAIN hosts
      BY <1>1, <2>6, <2>7, <2>14
    <3>3. external[i] = TCPEndpoint(s, obj, x, hosts, obj.entryPoints[k], hosts[j].host)
      BY <1>1, <3>1, <3>2
    <3> QED
      BY <1>1, <2>7, <3>1, <3>3
  <2>16. i \in 1..Len(external)
    BY <1>1, <2>6, <2>7, <2>14, <2>15, PlaceInRows
  <2>17. Listed(external) /\ Listed(internal)
    BY <2>2, <2>3, <2>4, <2>6, ExternalOfRoute, InternalOfRoute
  <2>18. (external \o internal)[i] = external[i]
    BY <2>16, <2>17, BothListed
  <2>19. external[i].url[4] = PortOf(e, obj, x)
    BY <2>15, TCPShape
  <2>20. entry.endpoints[(k - 1) * Len(Targets(obj).hosts) + j] = external[i]
    BY <2>6, <2>7, <2>11, <2>14, <2>18
  <2> QED
    BY <2>9, <2>10, <2>19, <2>20
<1>2. CurrentInv => EntryPointPortsAreCertain
  <2> SUFFICES ASSUME CurrentInv, obj.kind = "IngressRouteTCP", IsDerived(obj, world),
                      entry.endpoints # <<>>
               PROVE  EntryPointPortsAreCertain
    BY DEF EntryPointPortsAreCertain
  <2> DEFINE prefer == Written(obj.ann, "traefikService", <<>>)
             naming(e) == {r \in InScope(world) : /\ prefer \in {<<>>, r}
                                                 /\ e \in DOMAIN Published(world.services[r])}
             certain(e, port) ==
                 IF e \in DOMAIN world.flags.entrypointPorts
                   THEN port = world.flags.entrypointPorts[e]
                 ELSE IF naming(e) = {}
                   THEN prefer = <<>> /\ port = DefaultEntrypointPorts[e]
                 ELSE \A r \in naming(e) : port = Published(world.services[r])[e]
  <2>1. ASSUME NEW e, PortOf(e, obj, world) # 0 PROVE certain(e, PortOf(e, obj, world))
    <3>1. PICK p, names, port : /\ p = prefer
                                /\ names = naming(e)
                                /\ port = PortOf(e, obj, world)
      OBVIOUS
    <3> HIDE DEF prefer
    <3>2. IF e \in DOMAIN world.flags.entrypointPorts
             THEN PortOf(e, obj, world) = world.flags.entrypointPorts[e]
           ELSE IF names = {}
             THEN p = <<>> /\ PortOf(e, obj, world) = DefaultEntrypointPorts[e]
           ELSE \A r \in names : PortOf(e, obj, world) = Published(world.services[r])[e]
      BY <2>1, <3>1, PortIsCertain DEF prefer
    <3> HIDE DEF naming
    <3> QED
      BY <3>1, <3>2, Zenon
  <2> HIDE DEF certain
  <2>2. \A k \in DOMAIN obj.entryPoints, j \in DOMAIN Targets(obj).hosts :
            certain(obj.entryPoints[k],
                    entry.endpoints[(k - 1) * Len(Targets(obj).hosts) + j].url[4])
    BY <1>1, <2>1
  <2> USE DEF certain
  <2> QED
    BY <2>2, Zenon DEF EntryPointPortsAreCertain
<1> QED
  BY <1>2, CurrentAlways, PTL

-----------------------------------------------------------------------------
(* Excluded rules. *)

(* Two states of an object that differ in their rules alone. *)
SameButRules(o, p) ==
    /\ o.kind = p.kind /\ o.name = p.name /\ o.namespace = p.namespace
    /\ o.ann = p.ann /\ o.entryPoints = p.entryPoints /\ o.tls = p.tls

LEMMA OtherRules ==
    ASSUME NEW o, IsObject(o), NEW rules, NEW p, p = [o EXCEPT !.rules = rules]
    PROVE  SameButRules(o, p) /\ p.rules = rules
BY DEF IsObject, SameButRules

LEMMA SameBase ==
    ASSUME NEW o, NEW p, SameButRules(o, p), NEW s, NEW w
    PROVE  BaseEndpoint(s, o, w) = BaseEndpoint(s, p, w) /\ Title(s, o) = Title(s, p)
BY DEF SameButRules, BaseEndpoint, Title, ResolveGroup

LEMMA SameExternal ==
    ASSUME NEW o, NEW p, SameButRules(o, p), NEW s, NEW w, NEW hosts
    PROVE  ExternalEndpoints(s, o, w, hosts) = ExternalEndpoints(s, p, w, hosts)
<1>1. BaseEndpoint(s, o, w) = BaseEndpoint(s, p, w)
  BY SameBase
<1>2. \A host, total, part :
          ExternalName(s, o, w, host, total, part) = ExternalName(s, p, w, host, total, part)
  BY SameBase, Zenon DEF ExternalName
<1> DEFINE scheme == IF s.scheme = "" THEN "https" ELSE s.scheme
           path(t) == NormalisePath(IF s.path = "" THEN t.path ELSE s.path)
           name(q, t) == ExternalName(s, q, w, t.host, DistinctHosts(hosts), PathPart(t, hosts))
           endpoint(q, t) == [BaseEndpoint(s, q, w) EXCEPT !.name = name(q, t),
                                 !.url = <<scheme, t.host, path(t), 0>>, !.scheme = scheme]
<1>3. ASSUME NEW t PROVE endpoint(o, t) = endpoint(p, t)
  <2>1. name(o, t) = name(p, t)
    BY <1>2
  <2> QED
    BY <1>1, <2>1, Zenon
<1> HIDE DEF endpoint
<1>4. [i \in DOMAIN hosts |-> endpoint(o, hosts[i])] = [i \in DOMAIN hosts |-> endpoint(p, hosts[i])]
  BY <1>3
<1> USE DEF endpoint
<1> QED
  BY <1>4, Zenon DEF ExternalEndpoints

LEMMA SameInternal ==
    ASSUME NEW o, NEW p, SameButRules(o, p), NEW s, NEW w, NEW backends
    PROVE  InternalEndpoints(s, o, w, backends) = InternalEndpoints(s, p, w, backends)
<1>1. BaseEndpoint(s, o, w) = BaseEndpoint(s, p, w)
  BY SameBase
<1>2. \A backend, total : InternalName(s, o, backend, total) = InternalName(s, p, backend, total)
  BY SameBase, Zenon DEF InternalName
<1>3. ASSUME NEW backend, NEW total
      PROVE  InternalEndpoint(s, o, w, backend, total) = InternalEndpoint(s, p, w, backend, total)
  BY <1>1, <1>2, Zenon DEF InternalEndpoint
<1>4. AllInternal(s, o, w, backends) = AllInternal(s, p, w, backends)
  BY <1>3, Zenon DEF AllInternal
<1> QED
  BY <1>4, Zenon DEF InternalEndpoints

LEMMA SameListeners ==
    ASSUME NEW o, NEW p, SameButRules(o, p), NEW s, NEW w, NEW hosts
    PROVE  /\ TCPEndpoints(s, o, w, hosts) = TCPEndpoints(s, p, w, hosts)
           /\ \A e : PortOf(e, o, w) = PortOf(e, p, w)
<1>1. BaseEndpoint(s, o, w) = BaseEndpoint(s, p, w)
  BY SameBase
<1>2. \A host, total, part :
          ExternalName(s, o, w, host, total, part) = ExternalName(s, p, w, host, total, part)
  BY SameBase, Zenon DEF ExternalName
<1>3. o.ann = p.ann /\ o.entryPoints = p.entryPoints /\ o.tls = p.tls
  BY DEF SameButRules
<1>4. \A e : PortOf(e, o, w) = PortOf(e, p, w)
  BY <1>3, Zenon DEF PortOf
<1>5. TCPScheme(s, o) = TCPScheme(s, p)
  BY <1>3, Zenon DEF TCPScheme
<1>6. ASSUME NEW e, NEW host
      PROVE  TCPEndpoint(s, o, w, hosts, e, host) = TCPEndpoint(s, p, w, hosts, e, host)
  <2>1. \A part : ExternalName(s, o, w, host, Len(hosts), part)
                     = ExternalName(s, p, w, host, Len(hosts), part)
    BY <1>2
  <2>2. ListenerPart(o, e) = ListenerPart(p, e)
    BY <1>3, Zenon DEF ListenerPart
  <2>3. ExternalName(s, o, w, host, Len(hosts), ListenerPart(o, e))
          = ExternalName(s, p, w, host, Len(hosts), ListenerPart(p, e))
    BY <2>1, <2>2
  <2> QED
    BY <1>1, <1>4, <1>5, <2>3, Zenon DEF TCPEndpoint, ListenerPart
<1>7. TCPEndpoints(s, o, w, hosts) = TCPEndpoints(s, p, w, hosts)
  <2> DEFINE row(q, i) == [j \in DOMAIN hosts |->
                             TCPEndpoint(s, q, w, hosts, q.entryPoints[i], hosts[j].host)]
  <2>1. \A i : row(o, i) = row(p, i)
    BY <1>3, <1>6
  <2> HIDE DEF row
  <2>2. [i \in DOMAIN o.entryPoints |-> row(o, i)] = [i \in DOMAIN p.entryPoints |-> row(p, i)]
    BY <1>3, <2>1
  <2> USE DEF row
  <2> QED
    BY <2>2, Zenon DEF TCPEndpoints
<1> QED
  BY <1>4, <1>7

(* A route's rules matter through its targets alone. *)
LEMMA RulesMatterByTargets ==
    ASSUME NEW o, NEW p, SameButRules(o, p), NEW w, IsDerived(o, w), Parsable(p),
           Targets(o) = Targets(p)
    PROVE  Derive(o, w) = Derive(p, w)
<1>1. o.kind = p.kind /\ o.name = p.name /\ o.ann = p.ann /\ o.entryPoints = p.entryPoints
  BY DEF SameButRules
<1>2. IsDerived(p, w)
  BY <1>1 DEF IsDerived, Parsable, Enabled, Excluded, IsDescribed
<1>3. ASSUME NEW s PROVE DeriveHTTP(s, o, w, Targets(o)) = DeriveHTTP(s, p, w, Targets(p))
  <2>1. ExternalEndpoints(s, o, w, Targets(o).hosts) = ExternalEndpoints(s, p, w, Targets(o).hosts)
    BY SameExternal
  <2>2. InternalEndpoints(s, o, w, Targets(o).backends) = InternalEndpoints(s, p, w, Targets(o).backends)
    BY SameInternal
  <2> QED
    BY <2>1, <2>2, Zenon DEF DeriveHTTP
<1>4. ASSUME NEW s PROVE DeriveTCP(s, o, w, Targets(o)) = DeriveTCP(s, p, w, Targets(p))
  <2>1. /\ TCPEndpoints(s, o, w, Targets(o).hosts) = TCPEndpoints(s, p, w, Targets(o).hosts)
        /\ \A e : PortOf(e, o, w) = PortOf(e, p, w)
    BY SameListeners
  <2>2. (\E i \in DOMAIN o.entryPoints : PortOf(o.entryPoints[i], o, w) = 0)
          <=> \E i \in DOMAIN p.entryPoints : PortOf(p.entryPoints[i], p, w) = 0
    BY <1>1, <2>1
  <2>3. InternalEndpoints([s EXCEPT !.scheme = "tcp"], o, w, Targets(o).backends)
          = InternalEndpoints([s EXCEPT !.scheme = "tcp"], p, w, Targets(o).backends)
    BY SameInternal
  <2> QED
    BY <2>1, <2>2, <2>3, Zenon DEF DeriveTCP
<1>5. Derive(o, w) = FromRoute(o, w) /\ Derive(p, w) = FromRoute(p, w)
  BY <1>2 DEF IsDerived, Derive
<1>6. FromRoute(o, w) = IF o.kind = "IngressRoute"
                          THEN DeriveHTTP(SpecsFromAnnotations(o.ann)[1], o, w, Targets(o))
                          ELSE DeriveTCP(SpecsFromAnnotations(o.ann)[1], o, w, Targets(o))
  BY DEF FromRoute, IsDerived
<1>7. FromRoute(p, w) = IF p.kind = "IngressRoute"
                          THEN DeriveHTTP(SpecsFromAnnotations(p.ann)[1], p, w, Targets(p))
                          ELSE DeriveTCP(SpecsFromAnnotations(p.ann)[1], p, w, Targets(p))
  BY <1>2 DEF FromRoute, IsDerived
<1> QED
  BY <1>1, <1>3, <1>4, <1>5, <1>6, <1>7, Zenon

LEMMA SameRows ==
    ASSUME NEW o, NEW p, SameButRules(o, p), NEW rule, NEW parsed
    PROVE  HostsIn(o, parsed) = HostsIn(p, parsed) /\ BackendsIn(o, rule, parsed) = BackendsIn(p, rule, parsed)
<1>1. Skipped(o) = Skipped(p) /\ o.namespace = p.namespace
  BY DEF SameButRules, Skipped
<1>2. KeptHosts(o, parsed) = KeptHosts(p, parsed)
  BY <1>1, Zenon DEF KeptHosts
<1>3. IsSkippedWhole(o, parsed) <=> IsSkippedWhole(p, parsed)
  BY <1>1, Zenon DEF IsSkippedWhole
<1>4. \A service, path : BackendOf(service, path, o) = BackendOf(service, path, p)
  BY <1>1, Zenon DEF BackendOf
<1>5. KeptBackends(o, rule, parsed) = KeptBackends(p, rule, parsed)
  BY <1>1, <1>4, Zenon DEF KeptBackends
<1> QED
  BY <1>2, <1>3, <1>5, Zenon DEF HostsIn, BackendsIn

(* What is kept of rows is the rows of what is kept. *)
LEMMA RowsOfKept ==
    ASSUME NEW s, Listed(s), NEW keep, keep \subseteq DOMAIN s, NEW t, t = Subsequence(s, keep),
           NEW rows, DOMAIN rows = DOMAIN s,
           NEW more, more = [q \in DOMAIN t |-> more[q]],
           \A i \in DOMAIN s, q \in DOMAIN t : s[i] = t[q] => rows[i] = more[q]
    PROVE  more = Subsequence(rows, keep)
<1>1. PICK n \in Nat : DOMAIN s = 1..n
  BY ListIsFunction
<1>2. keep \subseteq Nat /\ IsFiniteSet(keep)
  <2>1. keep \in SUBSET (1..n) /\ IsFiniteSet(1..n)
    BY <1>1, FS_Interval
  <2> QED
    BY <2>1, FS_Subset
<1>3. PICK c \in Nat : c = Cardinality(keep)
  BY <1>2, FS_CardinalityType
<1>4. PICK place : place = InOrder(keep) /\ place \in [1..c -> keep]
  BY <1>2, <1>3, OrderOfNumbers
<1>5. t = [q \in 1..c |-> s[place[q]]]
  BY <1>3, <1>4, Zenon DEF Subsequence
<1>6. Subsequence(rows, keep) = [q \in 1..c |-> rows[place[q]]]
  BY <1>3, <1>4, Zenon DEF Subsequence
<1>7. \A q \in 1..c : more[q] = rows[place[q]]
  BY <1>4, <1>5
<1> QED
  BY <1>5, <1>6, <1>7

(* A rule none of whose addresses is left adds nothing. *)
IsSkippedRule(o, rule) ==
    LET parsed == ParseRule[rule.match]
    IN  \/ parsed.path # "" /\ <<parsed.path>> \in Skipped(o)
        \/ /\ parsed.hosts # <<>>
           /\ \A h \in ToSet(parsed.hosts) :
                 {<<h>>, Address(h, parsed.path)} \cap Skipped(o) # {}

LEMMA SkippedRuleAddsNothing ==
    ASSUME NEW o, NEW rule, IsSkippedRule(o, rule)
    PROVE  /\ HostsIn(o, ParseRule[rule.match]) = <<>>
           /\ BackendsIn(o, rule, ParseRule[rule.match]) = <<>>
<1>1. PICK parsed : parsed = ParseRule[rule.match]
  OBVIOUS
<1>2. CASE IsSkippedWhole(o, parsed)
  BY <1>1, <1>2, Zenon DEF HostsIn, BackendsIn
<1>3. CASE ~IsSkippedWhole(o, parsed)
  <2>1. /\ parsed.hosts # <<>>
        /\ \A h \in ToSet(parsed.hosts) : {<<h>>, Address(h, parsed.path)} \cap Skipped(o) # {}
    BY <1>1, <1>3, Zenon DEF IsSkippedRule, IsSkippedWhole
  <2>2. KeptHosts(o, parsed) = <<>>
    <3>1. \A i \in DOMAIN parsed.hosts : parsed.hosts[i] \in ToSet(parsed.hosts)
      BY DEF ToSet
    <3>2. {i \in DOMAIN parsed.hosts :
             {<<parsed.hosts[i]>>, Address(parsed.hosts[i], parsed.path)} \cap Skipped(o) = {}} = {}
      BY <2>1, <3>1
    <3> QED
      BY <3>2, NothingKept DEF KeptHosts
  <2>3. HostsIn(o, parsed) = [i \in DOMAIN <<>> |-> [host |-> <<>>[i], path |-> parsed.path]]
    BY <1>3, <2>2, Zenon DEF HostsIn
  <2>4. HostsIn(o, parsed) = <<>>
    BY <2>3
  <2>5. BackendsIn(o, rule, parsed) = <<>>
    BY <2>1, <2>2, Zenon DEF BackendsIn
  <2> QED
    BY <1>1, <2>4, <2>5
<1> QED
  BY <1>2, <1>3

LEMMA SkippedRulesAddNothing ==
    ASSUME NEW o, IsObject(o), Parsable(o), NEW keep,
           keep = {i \in DOMAIN o.rules : ~IsSkippedRule(o, o.rules[i])},
           NEW p, p = [o EXCEPT !.rules = Subsequence(o.rules, keep)]
    PROVE  Parsable(p) /\ Targets(o) = Targets(p)
<1>1. PICK rest : rest = Subsequence(o.rules, keep)
  OBVIOUS
<1>2. SameButRules(o, p) /\ p.rules = rest
  BY <1>1, OtherRules
<1>3. Listed(o.rules) /\ keep \subseteq DOMAIN o.rules
  BY DEF IsObject
<1>4. ToSet(rest) = {o.rules[i] : i \in keep}
  BY <1>1, <1>3, KeptListed
<1>5. Parsable(p)
  BY <1>2, <1>3, <1>4 DEF Parsable, ToSet
<1>6. PICK rows, more : rows = HostRows(o) /\ more = HostRows(p)
  OBVIOUS
<1>7. PICK backRows, backMore : backRows = BackendRows(o) /\ backMore = BackendRows(p)
  OBVIOUS
<1>8. /\ DOMAIN rows = DOMAIN o.rules
      /\ \A i \in DOMAIN o.rules : rows[i] = HostsIn(o, ParseRule[o.rules[i].match])
      /\ more = [q \in DOMAIN rest |-> more[q]]
      /\ \A q \in DOMAIN rest : more[q] = HostsIn(p, ParseRule[rest[q].match])
  BY <1>2, <1>6 DEF HostRows
<1>9. /\ DOMAIN backRows = DOMAIN o.rules
      /\ \A i \in DOMAIN o.rules :
            backRows[i] = BackendsIn(o, o.rules[i], ParseRule[o.rules[i].match])
      /\ backMore = [q \in DOMAIN rest |-> backMore[q]]
      /\ \A q \in DOMAIN rest : backMore[q] = BackendsIn(p, rest[q], ParseRule[rest[q].match])
  BY <1>2, <1>7 DEF BackendRows
<1>10. more = Subsequence(rows, keep)
  <2>1. \A i \in DOMAIN o.rules, q \in DOMAIN rest : o.rules[i] = rest[q] => rows[i] = more[q]
    BY <1>2, <1>8, SameRows
  <2> QED
    BY <1>1, <1>3, <1>8, <2>1, RowsOfKept
<1>11. backMore = Subsequence(backRows, keep)
  <2>1. \A i \in DOMAIN o.rules, q \in DOMAIN rest : o.rules[i] = rest[q] => backRows[i] = backMore[q]
    BY <1>2, <1>9, SameRows
  <2> QED
    BY <1>1, <1>3, <1>9, <2>1, RowsOfKept
<1>12. FlattenSeq(more) = FlattenSeq(rows)
  <2>1. PICK S : rows \in Seq(Seq(S))
    BY <1>6, RowsAreListed, RowsListed
  <2>2. \A i \in DOMAIN rows \ keep : rows[i] = <<>>
    BY <1>8, SkippedRuleAddsNothing
  <2> QED
    BY <1>3, <1>8, <1>10, <2>1, <2>2, FlattenWithoutEmpty
<1>13. FlattenSeq(backMore) = FlattenSeq(backRows)
  <2>1. PICK S : backRows \in Seq(Seq(S))
    BY <1>7, RowsAreListed, RowsListed
  <2>2. \A i \in DOMAIN backRows \ keep : backRows[i] = <<>>
    BY <1>9, SkippedRuleAddsNothing
  <2> QED
    BY <1>3, <1>9, <1>11, <2>1, <2>2, FlattenWithoutEmpty
<1>14. AllBackends(o) = AllBackends(p)
  BY <1>7, <1>13 DEF AllBackends
<1>15. Targets(o).hosts = Targets(p).hosts /\ Targets(o).backends = Targets(p).backends
  BY <1>6, <1>12, <1>14, TargetsAre, Zenon
<1>16. Targets(o) = Targets(p)
  <2>1. \A q : Targets(q) = [hosts |-> Targets(q).hosts, backends |-> Targets(q).backends]
    BY DEF Targets
  <2> QED
    BY <1>15, <2>1
<1> QED
  BY <1>5, <1>16

(* exclude-route: the object's endpoints are what they would have been had the
   rules it leaves no address of never been written, backends and names included
   (README, routeTargets). *)
THEOREM ExcludedRulesLeaveNoTrace == Spec => []ExcludedRuleIsAsNeverWritten
<1>1. CurrentInv => ExcludedRuleIsAsNeverWritten
  <2> SUFFICES ASSUME CurrentInv, IsDerived(obj, world) PROVE ExcludedRuleIsAsNeverWritten
    BY DEF ExcludedRuleIsAsNeverWritten
  <2>1. PICK keep : keep = {i \in DOMAIN obj.rules : ~IsSkippedRule(obj, obj.rules[i])}
    OBVIOUS
  <2>2. PICK p : p = [obj EXCEPT !.rules = Subsequence(obj.rules, keep)]
    OBVIOUS
  <2>3. IsObject(obj) /\ Parsable(obj)
    BY DEF CurrentInv, IsDerived, Parsable
  <2>4. SameButRules(obj, p)
    BY <2>2, <2>3, OtherRules
  <2>5. Parsable(p) /\ Targets(obj) = Targets(p)
    BY <2>1, <2>2, <2>3, SkippedRulesAddNothing
  <2>6. Derive(obj, world) = Derive(p, world)
    BY <2>4, <2>5, RulesMatterByTargets
  <2> QED
    BY <2>1, <2>2, <2>6, Zenon DEF ExcludedRuleIsAsNeverWritten, IsSkippedRule
<1> QED
  BY <1>1, CurrentAlways, PTL

-----------------------------------------------------------------------------
(* Backends fail alone. *)

IsApart(ep, ref, ns) ==
    /\ ep.host # <<ref[2], ref[1]>>
    /\ ep.host = NoHost \/ ep.host[2] = ns

ApartIn(s, ref, ns) == Subsequence(s, {i \in DOMAIN s : IsApart(s[i], ref, ns)})

LEMMA ApartOfBoth ==
    ASSUME NEW s, Listed(s), NEW t, Listed(t), NEW ref, NEW ns
    PROVE  ApartIn(s \o t, ref, ns) = ApartIn(s, ref, ns) \o ApartIn(t, ref, ns)
<1>1. PICK m \in Nat, n \in Nat : m = Len(s) /\ n = Len(t) /\ DOMAIN s = 1..m /\ DOMAIN t = 1..n
  BY ListIsFunction
<1>2. PICK u : u = s \o t
  OBVIOUS
<1>3. Listed(u) /\ Len(u) = m + n
  BY <1>1, <1>2, BothListed
<1>4. (\A i \in 1..m : u[i] = s[i]) /\ \A i \in 1..n : u[m + i] = t[i]
  BY <1>1, <1>2, BothListed
<1>5. PICK S : s \in Seq(S) /\ t \in Seq(S)
  BY BothListed
<1>6. DOMAIN u = 1..(m + n)
  BY <1>3, ListIsFunction
<1>7. PICK K, L : /\ K = {i \in 1..m : IsApart(s[i], ref, ns)}
                  /\ L = {i \in 1..n : IsApart(t[i], ref, ns)}
  OBVIOUS
<1>8. {i \in 1..(m + n) : IsApart(u[i], ref, ns)} = K \cup {m + j : j \in L}
  <2>1. ASSUME NEW i \in 1..(m + n), IsApart(u[i], ref, ns) PROVE i \in K \cup {m + j : j \in L}
    <3>1. CASE i \in 1..m
      BY <1>4, <1>7, <2>1, <3>1
    <3>2. CASE i \notin 1..m
      <4>1. i - m \in 1..n /\ m + (i - m) = i
        BY <3>2
      <4>2. PICK j \in 1..n : m + j = i
        BY <4>1
      <4>3. j \in L
        BY <1>4, <1>7, <2>1, <4>2
      <4> QED
        BY <4>2, <4>3
    <3> QED
      BY <3>1, <3>2
  <2>2. ASSUME NEW i \in K PROVE i \in 1..(m + n) /\ IsApart(u[i], ref, ns)
    BY <1>4, <1>7
  <2>3. ASSUME NEW j \in L PROVE m + j \in 1..(m + n) /\ IsApart(u[m + j], ref, ns)
    BY <1>4, <1>7
  <2> QED
    BY <2>1, <2>2, <2>3
<1>9. Subsequence(u, K \cup {m + j : j \in L}) = Subsequence(s, K) \o Subsequence(t, L)
  <2>1. K \subseteq DOMAIN s
    BY <1>1, <1>7
  <2>2. L \subseteq DOMAIN t
    BY <1>1, <1>7
  <2>3. Subsequence(s \o t, Behind(K, Len(s), L)) = Subsequence(s, K) \o Subsequence(t, L)
    BY <1>5, <2>1, <2>2, KeptOfBoth
  <2> QED
    BY <1>1, <1>2, <2>3 DEF Behind
<1> QED
  BY <1>1, <1>2, <1>6, <1>7, <1>8, <1>9 DEF ApartIn

(* What the two states of the cluster differ in is one Service, and other
   namespaces. *)
SameNeighbours(o, x, w, ref) ==
    \A q \in ServiceRefs : q[1] = o.namespace /\ q # ref => x.services[q] = w.services[q]

LEMMA ApartBackendIsUnchanged ==
    ASSUME NEW s, NEW o, NEW x, NEW w, SameSettings(x, w), NEW ref, SameNeighbours(o, x, w, ref),
           NEW backend, NEW total,
           NEW ep, ep = InternalEndpoint(s, o, x, backend, total),
           NEW op, op = InternalEndpoint(s, o, w, backend, total)
    PROVE  /\ IsApart(ep, ref, o.namespace) <=> IsApart(op, ref, o.namespace)
           /\ IsApart(ep, ref, o.namespace) => ep = op
<1>1. PICK host : host = <<backend.ref[2], backend.ref[1]>>
  OBVIOUS
<1>2. ep.host = host /\ op.host = host /\ host # NoHost
  BY <1>1, InternalShape
<1>3. ASSUME IsApart(ep, ref, o.namespace) PROVE ep = op
  <2>1. host # <<ref[2], ref[1]>> /\ host[2] = o.namespace
    BY <1>2, <1>3 DEF IsApart
  <2>2. backend.ref # ref /\ backend.ref[1] = o.namespace
    BY <1>1, <2>1
  <2>3. ServiceAt(backend.ref, x) = ServiceAt(backend.ref, w)
    BY <2>2 DEF ServiceAt, SameNeighbours
  <2>4. BaseEndpoint(s, o, x) = BaseEndpoint(s, o, w)
    BY BaseNeedsSettings
  <2> QED
    BY <2>3, <2>4, Zenon DEF InternalEndpoint
<1> QED
  BY <1>2, <1>3 DEF IsApart

LEMMA ApartBackendsAreUnchanged ==
    ASSUME NEW o, IsObject(o), Parsable(o), NEW x, NEW w, SameSettings(x, w), NEW ref,
           SameNeighbours(o, x, w, ref)
    PROVE  ApartIn(InternalOf(o, x).endpoints, ref, o.namespace)
             = ApartIn(InternalOf(o, w).endpoints, ref, o.namespace)
<1>1. PICK backends, s, ns : /\ backends = Targets(o).backends /\ s = SpecOf(o) /\ ns = o.namespace
                             /\ Listed(backends)
  BY TargetsListed
<1>2. PICK n \in Nat : n = Len(backends) /\ DOMAIN backends = 1..n
  BY <1>1, ListIsFunction
<1>3. PICK all, most : all = AllInternal(s, o, x, backends) /\ most = AllInternal(s, o, w, backends)
  OBVIOUS
<1>4. /\ Listed(all) /\ DOMAIN all = 1..n
      /\ \A i \in 1..n : all[i] = InternalEndpoint(s, o, x, backends[i], n)
  BY <1>1, <1>2, <1>3, InternalListed
<1>5. /\ Listed(most) /\ DOMAIN most = 1..n
      /\ \A i \in 1..n : most[i] = InternalEndpoint(s, o, w, backends[i], n)
  BY <1>1, <1>2, <1>3, InternalListed
<1>6. \A i \in 1..n : /\ IsApart(all[i], ref, ns) <=> IsApart(most[i], ref, ns)
                      /\ IsApart(all[i], ref, ns) => all[i] = most[i]
  <2> SUFFICES ASSUME NEW i \in 1..n
               PROVE  /\ IsApart(all[i], ref, ns) <=> IsApart(most[i], ref, ns)
                      /\ IsApart(all[i], ref, ns) => all[i] = most[i]
    OBVIOUS
  <2>1. PICK backend, ep, op : backend = backends[i] /\ ep = all[i] /\ op = most[i]
    OBVIOUS
  <2>2. ep = InternalEndpoint(s, o, x, backend, n)
    BY <1>4, <2>1
  <2>3. op = InternalEndpoint(s, o, w, backend, n)
    BY <1>5, <2>1
  <2>4. /\ IsApart(ep, ref, o.namespace) <=> IsApart(op, ref, o.namespace)
        /\ IsApart(ep, ref, o.namespace) => ep = op
    BY <2>2, <2>3, ApartBackendIsUnchanged
  <2> QED
    BY <1>1, <2>1, <2>4
<1>7. PICK K, L : /\ K = {i \in 1..n : all[i].port # 0}
                  /\ L = {i \in 1..n : most[i].port # 0}
  OBVIOUS
<1>8. PICK G : G = {ep \in ToSet(all) \cup ToSet(most) : IsApart(ep, ref, ns)}
  OBVIOUS
<1>9. PICK u, v : u = Subsequence(all, K) /\ v = Subsequence(most, L)
  OBVIOUS
<1>10. /\ InternalOf(o, x).endpoints = u
       /\ InternalOf(o, w).endpoints = v
  BY <1>1, <1>3, <1>4, <1>5, <1>7, <1>9 DEF InternalOf, InternalEndpoints, Resolved
<1>11. ApartIn(u, ref, ns) = Subsequence(all, {i \in K : all[i] \in G})
  <2>1. ToSet(u) = {all[i] : i \in K}
    BY <1>4, <1>7, <1>9, KeptListed
  <2>2. \A ep \in ToSet(u) : ep \in ToSet(all)
    BY <1>4, <1>7, <2>1 DEF ToSet
  <2>3. {p \in DOMAIN u : IsApart(u[p], ref, ns)} = {p \in DOMAIN u : u[p] \in G}
    <3>1. \A p \in DOMAIN u : u[p] \in ToSet(all)
      BY <2>2 DEF ToSet
    <3> QED
      BY <1>8, <3>1
  <2>4. Subsequence(u, Having(u, DOMAIN u, G)) = Subsequence(all, Having(all, K, G))
    <3>1. all \in Seq(ToSet(all))
      BY <1>4 DEF Listed
    <3>2. K \subseteq DOMAIN all
      BY <1>4, <1>7
    <3> QED
      BY <1>9, <3>1, <3>2, KeptTwice
  <2> QED
    BY <2>3, <2>4 DEF ApartIn, Having
<1>12. ApartIn(v, ref, ns) = Subsequence(most, {i \in L : most[i] \in G})
  <2>1. ToSet(v) = {most[i] : i \in L}
    BY <1>5, <1>7, <1>9, KeptListed
  <2>2. \A ep \in ToSet(v) : ep \in ToSet(most)
    BY <1>5, <1>7, <2>1 DEF ToSet
  <2>3. {p \in DOMAIN v : IsApart(v[p], ref, ns)} = {p \in DOMAIN v : v[p] \in G}
    <3>1. \A p \in DOMAIN v : v[p] \in ToSet(most)
      BY <2>2 DEF ToSet
    <3> QED
      BY <1>8, <3>1
  <2>4. Subsequence(v, Having(v, DOMAIN v, G)) = Subsequence(most, Having(most, L, G))
    <3>1. most \in Seq(ToSet(most))
      BY <1>5 DEF Listed
    <3>2. L \subseteq DOMAIN most
      BY <1>5, <1>7
    <3> QED
      BY <1>9, <3>1, <3>2, KeptTwice
  <2> QED
    BY <2>3, <2>4 DEF ApartIn, Having
<1>13. PICK keep : keep = {i \in K : all[i] \in G}
  OBVIOUS
<1>14. \A i \in 1..n : all[i] \in ToSet(all) /\ most[i] \in ToSet(most)
  BY <1>4, <1>5 DEF ToSet
<1>15. \A i \in 1..n : (all[i] \in G <=> IsApart(all[i], ref, ns))
                        /\ (most[i] \in G <=> IsApart(most[i], ref, ns))
  BY <1>8, <1>14
<1>16. \A i \in 1..n : (i \in K /\ all[i] \in G) <=> (i \in L /\ most[i] \in G)
  BY <1>6, <1>7, <1>15
<1>17. keep = {i \in L : most[i] \in G}
  BY <1>7, <1>13, <1>16
<1>18. keep \subseteq DOMAIN all /\ \A i \in keep : all[i] = most[i]
  BY <1>4, <1>6, <1>7, <1>13, <1>15
<1>19. Subsequence(all, keep) = Subsequence(most, keep)
  BY <1>4, <1>18, KeptAlone DEF Listed
<1> QED
  BY <1>1, <1>10, <1>11, <1>12, <1>13, <1>17, <1>19

(* A Service that publishes no entry point concerns the endpoints at its own
   host alone. *)
LEMMA ApartIsUnchanged ==
    ASSUME NEW o, IsObject(o), o.kind # "Service", NEW x, ServicesOK(x), NEW w, ServicesOK(w),
           SameSettings(x, w), NEW ref, SameNeighbours(o, x, w, ref),
           o.kind = "IngressRouteTCP" => SameTraefik(x, w)
    PROVE  ApartIn(Derive(o, x).endpoints, ref, o.namespace)
             = ApartIn(Derive(o, w).endpoints, ref, o.namespace)
<1>1. o.kind \in Kinds /\ (o.kind # "IngressRoute" => SameTraefik(x, w))
  BY DEF IsObject, Kinds
<1>2. CASE ~IsDerived(o, x)
  <2>1. Derive(o, x) = Derive(o, w)
    BY <1>2, DerivationNeeds
  <2> QED
    BY <2>1
<1>3. CASE IsDerived(o, x)
  <2>1. IsDerived(o, w) /\ Parsable(o)
    BY <1>3 DEF IsDerived, Parsable, SameSettings, Enabled
  <2>2. ASSUME o.kind # "IngressRoute" PROVE \A e : PortOf(e, o, x) = PortOf(e, o, w)
    BY <1>1, <2>2, PortNeedsTraefik DEF SameTraefik
  <2>3. IsUnreachable(o, x) <=> IsUnreachable(o, w)
    BY <2>2 DEF IsUnreachable
  <2>4. ExternalOf(o, x) = ExternalOf(o, w)
    <3>1. CASE o.kind = "IngressRoute"
      <4>1. ExternalEndpoints(Shortcuts(o.ann), o, x, Targets(o).hosts)
              = ExternalEndpoints(Shortcuts(o.ann), o, w, Targets(o).hosts)
        BY ExternalNeedsSettings
      <4> QED
        BY <3>1, <4>1 DEF ExternalOf
    <3>2. CASE o.kind # "IngressRoute"
      <4>1. TCPEndpoints(Shortcuts(o.ann), o, x, Targets(o).hosts)
              = TCPEndpoints(Shortcuts(o.ann), o, w, Targets(o).hosts)
        BY <2>2, <3>2, TCPNeedsTraefik
      <4> QED
        BY <3>2, <4>1 DEF ExternalOf
    <3> QED
      BY <3>1, <3>2
  <2>5. PICK ext, int, nat : /\ ext = ExternalOf(o, x)
                             /\ int = InternalOf(o, x).endpoints
                             /\ nat = InternalOf(o, w).endpoints
    OBVIOUS
  <2>6. Listed(ext) /\ Listed(int) /\ Listed(nat)
    BY <2>1, <2>5, ExternalOfRoute, InternalOfRoute
  <2>7. ApartIn(int, ref, o.namespace) = ApartIn(nat, ref, o.namespace)
    BY <2>1, <2>5, ApartBackendsAreUnchanged
  <2>8. ApartIn(ext \o int, ref, o.namespace) = ApartIn(ext \o nat, ref, o.namespace)
    <3>1. ApartIn(ext \o int, ref, o.namespace)
            = ApartIn(ext, ref, o.namespace) \o ApartIn(int, ref, o.namespace)
      BY <2>6, ApartOfBoth
    <3>2. ApartIn(ext \o nat, ref, o.namespace)
            = ApartIn(ext, ref, o.namespace) \o ApartIn(nat, ref, o.namespace)
      BY <2>6, ApartOfBoth
    <3> QED
      BY <2>7, <3>1, <3>2, Zenon
  <2>9. CASE IsUnreachable(o, x)
    BY <1>1, <1>3, <2>1, <2>3, <2>9, RouteIs
  <2>10. CASE ~IsUnreachable(o, x)
    <3>1. Derive(o, x) = Following(ExternalOf(o, x), InternalOf(o, x))
      BY <1>1, <1>3, <2>10, RouteIs
    <3>2. Derive(o, w) = Following(ExternalOf(o, w), InternalOf(o, w))
      BY <1>1, <2>1, <2>3, <2>10, RouteIs
    <3>3. \A s, f : Following(s, f).endpoints = s \o f.endpoints
      BY DEF Following
    <3>4. Derive(o, x).endpoints = ext \o int /\ Derive(o, w).endpoints = ext \o nat
      BY <2>4, <2>5, <3>1, <3>2, <3>3, Zenon
    <3> QED
      BY <2>8, <3>4, Zenon
  <2> QED
    BY <2>9, <2>10
<1> QED
  BY <1>2, <1>3

(* Every change that an object's endpoints depend on has it derived again: what
   the registry holds is what would be derived now, but for the endpoints of
   backends in another namespace. *)
THEOREM EntriesStayCurrent == Spec => []EntryIsCurrent
<1>1. CurrentInv => EntryIsCurrent
  <2> SUFFICES ASSUME CurrentInv, entry # Derive(obj, world)
               PROVE  /\ IsDerived(obj, world)
                      /\ \E backend \in ToSet(Targets(obj).backends) : backend.ref[1] # obj.namespace
                      /\ Followed(entry.endpoints) = Followed(Derive(obj, world).endpoints)
    BY DEF EntryIsCurrent
  <2>1. PICK x : DerivedFrom(x, obj, world, entry)
    BY DEF CurrentInv
  <2>2. SameSettings(x, world) /\ entry = Derive(obj, x) /\ ServicesOK(x)
    BY <2>1 DEF DerivedFrom
  <2>3. obj.kind # "Service"
    BY <2>2, ServiceNeedsSettings
  <2>4. IsObject(obj) /\ ServicesOK(world)
    BY DEF CurrentInv
  <2>5. obj.kind # "IngressRoute" => SameTraefik(x, world)
    BY <2>1, <2>3, <2>4 DEF IsObject, Kinds, DerivedFrom
  <2>6. IsDerived(obj, x) /\ ~SameBackends(obj, x, world)
    BY <2>2, <2>3, <2>5, DerivationNeeds
  <2>7. IsDerived(obj, world)
    BY <2>2, <2>6 DEF IsDerived, Enabled, SameSettings
  <2>8. PICK i \in DOMAIN Targets(obj).backends :
               Targets(obj).backends[i].ref[1] # obj.namespace
    BY <2>1, <2>6 DEF SameBackends, ServiceAt, DerivedFrom
  <2>9. PICK ref : ref = Targets(obj).backends[i].ref
    OBVIOUS
  <2>10. SameNeighbours(obj, x, world, ref)
    BY <2>1 DEF SameNeighbours, DerivedFrom
  <2>11. ApartIn(Derive(obj, x).endpoints, ref, obj.namespace)
           = ApartIn(Derive(obj, world).endpoints, ref, obj.namespace)
    BY <2>2, <2>3, <2>4, <2>5, <2>10, ApartIsUnchanged
  <2>12. \A endpoints : Followed(endpoints) = ApartIn(endpoints, ref, obj.namespace)
    <3> TAKE endpoints
    <3>1. ref[1] # obj.namespace
      BY <2>8, <2>9
    <3>2. \A j \in DOMAIN endpoints :
             IsApart(endpoints[j], ref, obj.namespace)
               <=> endpoints[j].host = NoHost \/ endpoints[j].host[2] = obj.namespace
      BY <3>1 DEF IsApart, NoHost
    <3>3. {j \in DOMAIN endpoints : IsApart(endpoints[j], ref, obj.namespace)}
            = {j \in DOMAIN endpoints : \/ endpoints[j].host = NoHost
                                        \/ endpoints[j].host[2] = obj.namespace}
      BY <3>2
    <3> QED
      BY <3>3 DEF Followed, ApartIn
  <2>13. Followed(entry.endpoints) = Followed(Derive(obj, world).endpoints)
    BY <2>2, <2>11, <2>12
  <2>14. \E backend \in ToSet(Targets(obj).backends) : backend.ref[1] # obj.namespace
    BY <2>8 DEF ToSet
  <2> QED
    BY <2>7, <2>13, <2>14
<1> QED
  BY <1>1, CurrentAlways, PTL

(* A Service that publishes no entry point, before or after it changes, changes
   nothing else of what Traefik publishes. *)
LEMMA TraefikIsUnchanged ==
    ASSUME NEW x, NEW w, NEW v, NEW ref \in ServiceRefs, SameSettings(w, v), SameTraefik(x, w),
           \A q \in ServiceRefs : q # ref => v.services[q] = w.services[q],
           ~IsTraefik(ref, w.services[ref], w.flags), ~IsTraefik(ref, v.services[ref], w.flags)
    PROVE  SameTraefik(x, v)
<1>1. ref \notin InScope(w) /\ ref \notin InScope(v)
  BY DEF InScope, SameSettings
<1>2. \A q \in ServiceRefs : q \in InScope(w) <=> q \in InScope(v)
  BY <1>1 DEF InScope, SameSettings
<1>3. InScope(w) = InScope(v)
  BY <1>2 DEF InScope
<1>4. InScope(x) = InScope(w) /\ \A q \in InScope(x) : x.services[q] = w.services[q]
  BY DEF SameTraefik
<1>5. \A q \in InScope(w) : v.services[q] = w.services[q]
  BY <1>1 DEF InScope
<1> QED
  BY <1>3, <1>4, <1>5 DEF SameTraefik

(* "One bad backend does not take the others down with it" (internalEndpoints):
   what happens to one backend's Service leaves every other endpoint, name
   included, as it was. *)
THEOREM OneBackendFailsAlone == Spec => BackendsFailAlone
<1> DEFINE Plain(ref) == /\ world'.services[ref] # world.services[ref]
                         /\ ~IsTraefik(ref, world.services[ref], world.flags)
                         /\ ~IsTraefik(ref, world'.services[ref], world.flags)
<1>1. ASSUME CurrentInv, NEW q \in ServiceRefs, NEW service, IsService(service),
             EditService(q, service), NEW ref \in ServiceRefs, Plain(ref)
      PROVE  Apart(ref)' = Apart(ref)
  <2>1. /\ obj' = obj /\ obj.kind # "Service" /\ SameSettings(world, world')
        /\ world'.services[q] = service
        /\ \A r \in ServiceRefs : r # q => world'.services[r] = world.services[r]
    BY <1>1, OneServiceChanges DEF CurrentInv
  <2>2. q = ref
    BY <1>1, <2>1
  <2>3. IsObject(obj) /\ ServicesOK(world')
    BY <1>1, <2>1 DEF CurrentInv, ServicesOK
  <2>4. PICK x : DerivedFrom(x, obj, world, entry)
    BY <1>1 DEF CurrentInv
  <2>5. /\ SameSettings(x, world') /\ ServicesOK(x)
        /\ SameNeighbours(obj, x, world', ref)
    BY <2>1, <2>2, <2>4 DEF DerivedFrom, SameSettings, SameNeighbours
  <2>6. obj.kind = "IngressRouteTCP" => SameTraefik(x, world')
    BY <1>1, <2>1, <2>2, <2>4, TraefikIsUnchanged DEF DerivedFrom
  <2>7. ApartIn(Derive(obj, x).endpoints, ref, obj.namespace)
          = ApartIn(Derive(obj, world').endpoints, ref, obj.namespace)
    BY <2>1, <2>3, <2>5, <2>6, ApartIsUnchanged
  <2>8. entry' = entry \/ entry' = Derive(obj, world')
    BY <1>1 DEF EditService
  <2>9. ApartIn(entry.endpoints, ref, obj.namespace) = ApartIn(entry'.endpoints, ref, obj'.namespace)
    BY <2>1, <2>4, <2>7, <2>8 DEF DerivedFrom
  <2> QED
    BY <2>9 DEF Apart, ApartIn, IsApart
<1>2. ASSUME CurrentInv, [Next]_vars, NEW ref \in ServiceRefs, Plain(ref)
      PROVE  Apart(ref)' = Apart(ref)
  <2>1. world' # world
    BY <1>2
  <2>2. ASSUME NEW o PROVE ~Edit(o)
    BY <2>1 DEF Edit
  <2>3. ASSUME NEW group PROVE ~EditNamespace(group)
    <3>1. EditNamespace(group) => world'.services = world.services
      BY <1>2 DEF EditNamespace, CurrentInv, WorldShape
    <3> QED
      BY <1>2, <3>1
  <2>4. PICK q \in ServiceRefs : \E service \in ServicesOf[obj.kind][q] : EditService(q, service)
    BY <1>2, <2>1, <2>2, <2>3
       DEF Next, vars, Annotate, AppendRule, DropRule, EditListeners, EditOwnService
  <2>5. PICK service \in ServicesOf[obj.kind][q] : EditService(q, service)
    BY <2>4
  <2>6. IsService(service)
    BY <1>2, <2>5, SourcesAssumption DEF CurrentInv, IsObject
  <2> QED
    BY <1>1, <1>2, <2>5, <2>6
<1>3. CurrentInv /\ [Next]_vars =>
        [\A ref \in ServiceRefs : Plain(ref) => Apart(ref)' = Apart(ref)]_vars
  BY <1>2
<1> QED
  BY <1>3, CurrentAlways, PTL DEF Spec, BackendsFailAlone, Plain

-----------------------------------------------------------------------------
(* Names survive. *)

(* t goes on where s ends. *)
GoesOn(s, t) == \A i \in DOMAIN s : i \in DOMAIN t /\ t[i] = s[i]

LEMMA DistinctGoesOn ==
    ASSUME NEW s, Listed(s), NEW t, Listed(t)
    PROVE  GoesOn(Distinct(s), Distinct(s \o t))
<1>1. PICK m \in Nat, n \in Nat : m = Len(s) /\ n = Len(t) /\ DOMAIN s = 1..m /\ DOMAIN t = 1..n
  BY ListIsFunction
<1>2. PICK u : u = s \o t
  OBVIOUS
<1>3. Listed(u) /\ Len(u) = m + n
  BY <1>1, <1>2, BothListed
<1>4. \A i \in 1..m : u[i] = s[i]
  BY <1>1, <1>2, BothListed
<1>5. PICK S : s \in Seq(S) /\ t \in Seq(S)
  BY BothListed
<1>6. DOMAIN u = 1..(m + n)
  BY <1>3, ListIsFunction
<1>7. PICK K, L : /\ K = {i \in 1..m : \A j \in 1..(i - 1) : s[j] # s[i]}
                  /\ L = {i \in 1..n : \A j \in 1..((m + i) - 1) : u[j] # u[m + i]}
  OBVIOUS
<1>8. {i \in 1..(m + n) : \A j \in 1..(i - 1) : u[j] # u[i]} = Behind(K, m, L)
  <2>1. ASSUME NEW i \in 1..m PROVE (\A j \in 1..(i - 1) : u[j] # u[i]) <=> i \in K
    <3>1. \A j \in 1..(i - 1) : j \in 1..m
      OBVIOUS
    <3> QED
      BY <1>4, <1>7, <3>1
  <2>2. ASSUME NEW i \in 1..(m + n), i \notin 1..m PROVE \E k \in 1..n : i = m + k
    <3>1. i - m \in 1..n /\ i = m + (i - m)
      BY <2>2
    <3> QED
      BY <3>1
  <2>3. ASSUME NEW i \in 1..(m + n), \A j \in 1..(i - 1) : u[j] # u[i] PROVE i \in Behind(K, m, L)
    <3>1. CASE i \in 1..m
      BY <2>1, <2>3, <3>1 DEF Behind
    <3>2. CASE i \notin 1..m
      <4>1. PICK k \in 1..n : i = m + k
        BY <2>2, <3>2
      <4>2. k \in L
        BY <1>7, <2>3, <4>1
      <4> QED
        BY <4>1, <4>2 DEF Behind
    <3> QED
      BY <3>1, <3>2
  <2>4. ASSUME NEW i \in K PROVE i \in 1..(m + n) /\ \A j \in 1..(i - 1) : u[j] # u[i]
    <3>1. i \in 1..m
      BY <1>7
    <3> QED
      BY <2>1, <3>1
  <2>5. ASSUME NEW k \in L
        PROVE  m + k \in 1..(m + n) /\ \A j \in 1..((m + k) - 1) : u[j] # u[m + k]
    BY <1>7
  <2> QED
    BY <2>3, <2>4, <2>5 DEF Behind
<1>9. K \subseteq DOMAIN s /\ L \subseteq DOMAIN t
  BY <1>1, <1>7
<1>10. Subsequence(s \o t, Behind(K, Len(s), L)) = Subsequence(s, K) \o Subsequence(t, L)
  BY <1>5, <1>9, KeptOfBoth
<1>11. PICK first, rest : first = Subsequence(s, K) /\ rest = Subsequence(t, L)
  OBVIOUS
<1>12. Distinct(s) = first /\ Distinct(u) = first \o rest
  BY <1>1, <1>2, <1>6, <1>7, <1>8, <1>10, <1>11 DEF Distinct, Firsts
<1>13. Listed(first) /\ Listed(rest)
  BY <1>9, <1>11, KeptListed
<1>14. PICK all : all = first \o rest
  OBVIOUS
<1>15. IsJoined(all, first, rest)
  BY <1>13, <1>14, Joined
<1>16. GoesOn(first, all)
  <2>1. DOMAIN first = 1..Len(first) /\ Len(first) \in Nat
    BY <1>13, ListIsFunction
  <2>2. DOMAIN all = 1..Len(all) /\ Len(all) = Len(first) + Len(rest) /\ Len(rest) \in Nat
    BY <1>13, <1>15, ListIsFunction DEF IsJoined
  <2>3. \A i \in 1..Len(first) : all[i] = first[i]
    BY <1>15 DEF IsJoined
  <2> QED
    BY <2>1, <2>2, <2>3 DEF GoesOn
<1> QED
  BY <1>2, <1>12, <1>14, <1>16

(* A rule more adds addresses behind those there are. *)
LEMMA AddressesGoOn ==
    ASSUME NEW o, IsObject(o), NEW rule, IsRule(rule),
           NEW p, p = [o EXCEPT !.rules = Append(o.rules, rule)], Parsable(p)
    PROVE  /\ IsObject(p) /\ Parsable(o) /\ SameButRules(o, p)
           /\ GoesOn(Targets(o).hosts, Targets(p).hosts)
<1>1. IsObject(p) /\ SameButRules(o, p) /\ p.rules = Append(o.rules, rule)
  BY WithMoreRules, OtherRules
<1>2. PICK n \in Nat : n = Len(o.rules) /\ DOMAIN o.rules = 1..n
  BY ListIsFunction DEF IsObject
<1>3. PICK m \in Nat : m = n + 1
  OBVIOUS
<1>4. /\ DOMAIN p.rules = 1..m
      /\ \A i \in 1..n : p.rules[i] = o.rules[i]
  <2>1. o.rules \in Seq(ToSet(o.rules) \cup {rule})
    <3>1. o.rules \in Seq(ToSet(o.rules))
      BY DEF IsObject, Listed
    <3> QED
      BY <3>1, SeqMonotonic
  <2>2. rule \in ToSet(o.rules) \cup {rule}
    OBVIOUS
  <2> QED
    BY <1>1, <1>2, <1>3, <2>1, <2>2, AppendProperties, LenProperties
<1>5. Parsable(o)
  BY <1>2, <1>3, <1>4 DEF Parsable
<1>6. PICK rows, more : rows = HostRows(o) /\ more = HostRows(p)
  OBVIOUS
<1>7. PICK row : row = more[m]
  OBVIOUS
<1>8. /\ Listed(rows) /\ DOMAIN rows = 1..n /\ \A i \in 1..n : Listed(rows[i])
      /\ Listed(more) /\ DOMAIN more = 1..m /\ \A i \in 1..m : Listed(more[i])
  <2>1. DOMAIN rows = 1..n
    BY <1>2, <1>6 DEF HostRows
  <2>2. DOMAIN more = 1..m
    BY <1>4, <1>6 DEF HostRows
  <2>3. Listed(rows) /\ \A i \in DOMAIN rows : Listed(rows[i])
    BY <1>5, <1>6, RowsAreListed
  <2>4. Listed(more) /\ \A i \in DOMAIN more : Listed(more[i])
    BY <1>1, <1>6, RowsAreListed
  <2> QED
    BY <2>1, <2>2, <2>3, <2>4
<1>9. \A i \in 1..n : more[i] = rows[i]
  <2> SUFFICES ASSUME NEW i \in 1..n PROVE more[i] = rows[i]
    OBVIOUS
  <2>1. PICK parsed : parsed = ParseRule[o.rules[i].match]
    OBVIOUS
  <2>2. rows[i] = HostsIn(o, parsed)
    BY <1>2, <1>6, <2>1 DEF HostRows
  <2>3. more[i] = HostsIn(p, parsed)
    BY <1>3, <1>4, <1>6, <2>1 DEF HostRows
  <2>4. HostsIn(o, parsed) = HostsIn(p, parsed)
    BY <1>1, SameRows
  <2> QED
    BY <2>2, <2>3, <2>4
<1>10. PICK S : more \in Seq(Seq(S))
  BY <1>8, RowsListed
<1>11. /\ more = [i \in 1..m |-> more[i]] /\ Len(more) = m
       /\ rows = [i \in 1..n |-> rows[i]] /\ Len(rows) = n
  BY <1>8, ListIsFunction
<1>12. \A i \in 1..m : more[i] \in Seq(S)
  BY <1>10, <1>11, ElementOfSeq
<1>13. rows \in Seq(Seq(S)) /\ row \in Seq(S)
  <2>1. \A i \in 1..n : rows[i] \in Seq(S)
    BY <1>3, <1>9, <1>12
  <2>2. rows \in [1..n -> Seq(S)]
    BY <1>11, <2>1
  <2>3. rows \in Seq(Seq(S))
    BY <2>2, IsASeq
  <2> QED
    BY <1>3, <1>7, <1>12, <2>3
<1>14. more = Append(rows, row)
  <2>1. PICK longer : longer = Append(rows, row)
    OBVIOUS
  <2>2. /\ longer \in Seq(Seq(S)) /\ Len(longer) = m
        /\ \A i \in 1..n : longer[i] = rows[i]
        /\ longer[m] = row
    BY <1>3, <1>11, <1>13, <2>1, AppendProperties
  <2>3. longer = [i \in 1..m |-> longer[i]]
    BY <2>2, LenProperties
  <2>4. \A i \in 1..m : longer[i] = more[i]
    <3> SUFFICES ASSUME NEW i \in 1..m PROVE longer[i] = more[i]
      OBVIOUS
    <3>1. CASE i = m
      BY <1>7, <2>2, <3>1
    <3>2. CASE i # m
      <4>1. i \in 1..n
        BY <1>3, <3>2
      <4> QED
        BY <1>9, <2>2, <4>1
    <3> QED
      BY <3>1, <3>2
  <2> QED
    BY <1>11, <2>1, <2>3, <2>4
<1>15. FlattenSeq(more) = FlattenSeq(rows) \o row
  BY <1>13, <1>14, FlattenAppend
<1>16. Listed(FlattenSeq(rows)) /\ Listed(row)
  BY <1>3, <1>7, <1>8, FlattenListed
<1>17. GoesOn(Distinct(FlattenSeq(rows)), Distinct(FlattenSeq(rows) \o row))
  BY <1>16, DistinctGoesOn
<1>18. Targets(o).hosts = Distinct(FlattenSeq(rows)) /\ Targets(p).hosts = Distinct(FlattenSeq(more))
  BY <1>6, TargetsAre
<1> QED
  BY <1>1, <1>5, <1>15, <1>17, <1>18

(* The endpoints of a route begin with those of its addresses, and no other has
   a URL. *)
AddressesFirst(s, o, w, hosts, endpoints) ==
    /\ External(endpoints) = DOMAIN hosts
    /\ \A i \in DOMAIN hosts :
          /\ endpoints[i].url[2] = hosts[i].host
          /\ endpoints[i].name = ExternalName(s, o, w, hosts[i].host, DistinctHosts(hosts),
                                               PathPart(hosts[i], hosts))

LEMMA RouteBeginsWithAddresses ==
    ASSUME NEW o, IsObject(o), o.kind = "IngressRoute", NEW x, ServicesOK(x), IsDerived(o, x)
    PROVE  AddressesFirst(Shortcuts(o.ann), o, x, Targets(o).hosts, Derive(o, x).endpoints)
<1>1. Parsable(o) /\ o.kind \in Kinds
  BY DEF IsDerived, Parsable, IsObject
<1>2. PICK hosts, s : hosts = Targets(o).hosts /\ s = Shortcuts(o.ann) /\ Listed(hosts)
  BY <1>1, TargetsListed
<1>3. PICK ext, int : ext = ExternalOf(o, x) /\ int = InternalOf(o, x).endpoints
  OBVIOUS
<1>4. ext = ExternalEndpoints(s, o, x, hosts)
  BY <1>2, <1>3 DEF ExternalOf
<1>5. /\ Listed(ext) /\ Len(ext) = Len(hosts) /\ DOMAIN ext = DOMAIN hosts
      /\ \A i \in DOMAIN hosts :
            /\ ext[i].name = ExternalName(s, o, x, hosts[i].host, DistinctHosts(hosts),
                                          PathPart(hosts[i], hosts))
            /\ ext[i].url # NoURL /\ ext[i].url[2] = hosts[i].host
  BY <1>2, <1>4, ExternalShape
<1>6. Listed(int) /\ \A ep \in ToSet(int) : ep.url = NoURL
  BY <1>1, <1>3, InternalOfRoute
<1>7. PICK all : all = ext \o int
  OBVIOUS
<1>8. Derive(o, x).endpoints = all
  <2>1. Derive(o, x) = Following(ExternalOf(o, x), InternalOf(o, x))
    BY <1>1, RouteIs DEF IsUnreachable
  <2>2. \A q, f : Following(q, f).endpoints = q \o f.endpoints
    BY DEF Following
  <2> QED
    BY <1>3, <1>7, <2>1, <2>2, Zenon
<1>9. IsJoined(all, ext, int)
  BY <1>5, <1>6, <1>7, Joined
<1>10. PICK n \in Nat, m \in Nat : /\ n = Len(ext) /\ DOMAIN ext = 1..n
                                   /\ m = Len(int) /\ DOMAIN int = 1..m
  BY <1>5, <1>6, ListIsFunction
<1>11. /\ DOMAIN all = 1..(n + m)
       /\ \A i \in 1..n : all[i] = ext[i]
       /\ \A i \in 1..m : all[n + i] = int[i]
  BY <1>9, <1>10, ListIsFunction DEF IsJoined
<1>12. ASSUME NEW i \in 1..(n + m), all[i].url # NoURL PROVE i \in 1..n
  <2> SUFFICES ASSUME i \notin 1..n PROVE FALSE
    OBVIOUS
  <2>1. i - n \in 1..m /\ i = n + (i - n)
    OBVIOUS
  <2>2. PICK j \in 1..m : i = n + j
    BY <2>1
  <2>3. all[i] = int[j] /\ int[j] \in ToSet(int)
    BY <1>10, <1>11, <2>2 DEF ToSet
  <2> QED
    BY <1>6, <1>12, <2>3
<1>13. External(all) = DOMAIN hosts
  <2>1. \A i \in 1..n : i \in 1..(n + m) /\ all[i].url # NoURL
    BY <1>5, <1>10, <1>11
  <2> QED
    BY <1>5, <1>10, <1>11, <1>12, <2>1 DEF External
<1>14. \A i \in DOMAIN hosts : all[i] = ext[i]
  BY <1>5, <1>10, <1>11
<1>15. AddressesFirst(s, o, x, hosts, all)
  BY <1>5, <1>13, <1>14 DEF AddressesFirst
<1> QED
  BY <1>2, <1>8, <1>15

LEMMA HostsCheckedAre ==
    ASSUME NEW s, NEW o, NEW w, NEW hosts, NEW endpoints, AddressesFirst(s, o, w, hosts, endpoints)
    PROVE  DistinctHosts(hosts) = Cardinality(HostsChecked(endpoints))
<1>1. HostsChecked(endpoints) = {hosts[i].host : i \in DOMAIN hosts}
  BY DEF HostsChecked, AddressesFirst
<1> QED
  BY <1>1 DEF DistinctHosts

(* The endpoints e and f, of addresses of hosts, are called alike if they have
   no path. *)
BareNamesAgree(hosts, e, f) ==
    \A i \in External(e) : hosts[i].path = "" => f[i].name = e[i].name

LEMMA BareNameSurvives ==
    ASSUME NEW o, NEW p, SameButRules(o, p), NEW s, NEW hosts, NEW more, GoesOn(hosts, more),
           NEW w, NEW x, w.flags = x.flags,
           NEW e, AddressesFirst(s, o, w, hosts, e), NEW f, AddressesFirst(s, p, x, more, f),
           NEW checked, checked = HostsChecked(e), checked = HostsChecked(f)
    PROVE  BareNamesAgree(hosts, e, f)
<1> SUFFICES ASSUME NEW i \in External(e), hosts[i].path = ""
             PROVE  f[i].name = e[i].name
  BY DEF BareNamesAgree
<1>1. i \in DOMAIN hosts /\ i \in DOMAIN more /\ more[i] = hosts[i]
  BY DEF AddressesFirst, GoesOn
<1>2. DistinctHosts(hosts) = DistinctHosts(more)
  <2>1. DistinctHosts(hosts) = Cardinality(HostsChecked(e))
    BY HostsCheckedAre, Zenon
  <2>2. DistinctHosts(more) = Cardinality(HostsChecked(f))
    BY HostsCheckedAre, Zenon
  <2> QED
    BY <2>1, <2>2
<1>3. PathPart(hosts[i], hosts) = <<>> /\ PathPart(more[i], more) = <<>>
  BY <1>1 DEF PathPart
<1>4. e[i].name = ExternalName(s, o, w, hosts[i].host, DistinctHosts(hosts), <<>>)
  BY <1>1, <1>3 DEF AddressesFirst
<1>5. f[i].name = ExternalName(s, p, x, hosts[i].host, DistinctHosts(hosts), <<>>)
  BY <1>1, <1>2, <1>3 DEF AddressesFirst
<1>6. Title(s, o) = Title(s, p)
  BY SameBase
<1> QED
  BY <1>4, <1>5, <1>6, Zenon DEF ExternalName, Suffix

(* "Only the paths are suffixed, never the bare host" (externalEndpoints): a
   path more leaves the names of the addresses without one alone. *)
THEOREM BareHostsKeepTheirNames == Spec => BareNamesSurvive
<1> DEFINE Kept == \A i \in External(entry.endpoints) :
                       Targets(obj).hosts[i].path = "" => KeepsName(i)
<1>1. ASSUME CurrentInv, PathAdded, NEW rule, IsRule(rule), AppendRule(rule) PROVE Kept
  <2>1. PICK p : p = [obj EXCEPT !.rules = Append(obj.rules, rule)]
    OBVIOUS
  <2>2. obj' = p /\ world' = world /\ entry' = Derive(p, world)
    BY <1>1, <2>1 DEF AppendRule, Edit
  <2>3. PICK x : DerivedFrom(x, obj, world, entry)
    BY <1>1 DEF CurrentInv
  <2>4. IsObject(obj) /\ obj.kind = "IngressRoute" /\ IsDerived(obj, world)
    BY <1>1 DEF CurrentInv, PathAdded
  <2>5. IsDerived(obj, x) /\ ServicesOK(x) /\ ServicesOK(world)
    BY <1>1, <2>3, <2>4 DEF CurrentInv, DerivedFrom, SameSettings, IsDerived, Enabled
  <2>6. AddressesFirst(Shortcuts(obj.ann), obj, x, Targets(obj).hosts, entry.endpoints)
    BY <2>3, <2>4, <2>5, RouteBeginsWithAddresses DEF DerivedFrom
  <2>7. IsObject(p) /\ SameButRules(obj, p)
    BY <1>1, <2>1, <2>4, WithMoreRules, OtherRules
  <2>8. CASE Parsable(p)
    <3>1. GoesOn(Targets(obj).hosts, Targets(p).hosts)
      BY <1>1, <2>1, <2>4, <2>8, AddressesGoOn
    <3>2. p.kind = "IngressRoute" /\ p.ann = obj.ann /\ IsDerived(p, world)
      BY <2>4, <2>7, <2>8
         DEF SameButRules, IsDerived, Parsable, Enabled, Excluded, IsDescribed
    <3>3. AddressesFirst(Shortcuts(obj.ann), p, world, Targets(p).hosts, entry'.endpoints)
      BY <2>2, <2>5, <2>7, <3>2, RouteBeginsWithAddresses
    <3>4. HostsChecked(entry'.endpoints) = HostsChecked(entry.endpoints)
      BY <1>1 DEF PathAdded
    <3>5. PICK e, f : e = entry.endpoints /\ f = entry'.endpoints
      OBVIOUS
    <3>6. \A i \in External(e) : Targets(obj).hosts[i].path = "" => f[i].name = e[i].name
      <4>1. PICK s, hosts, more : /\ s = Shortcuts(obj.ann)
                                  /\ hosts = Targets(obj).hosts /\ more = Targets(p).hosts
        OBVIOUS
      <4>2. /\ AddressesFirst(s, obj, x, hosts, e) /\ AddressesFirst(s, p, world, more, f)
            /\ GoesOn(hosts, more)
        BY <2>6, <3>1, <3>3, <3>5, <4>1
      <4>3. HostsChecked(f) = HostsChecked(e)
        BY <3>4, <3>5
      <4>4. x.flags = world.flags
        BY <2>3 DEF DerivedFrom, SameSettings
      <4>5. BareNamesAgree(hosts, e, f)
        BY <2>7, <4>2, <4>3, <4>4, BareNameSurvives
      <4> QED
        BY <4>1, <4>5 DEF BareNamesAgree
    <3> QED
      BY <3>5, <3>6 DEF KeepsName
  <2>9. CASE ~Parsable(p)
    <3>1. Derive(p, world) = Refused
      BY <2>4, <2>7, <2>9
         DEF SameButRules, IsDerived, Parsable, Derive, FromRoute, Enabled, Excluded, IsDescribed
    <3>2. HostsChecked(entry'.endpoints) = {}
      BY <2>2, <3>1 DEF Refused, HostsChecked, External
    <3>3. HostsChecked(entry.endpoints) = {}
      BY <1>1, <3>2 DEF PathAdded
    <3>4. External(entry.endpoints) = {}
      BY <3>3 DEF HostsChecked
    <3> QED
      BY <3>4
  <2> QED
    BY <2>8, <2>9
<1>2. ASSUME CurrentInv, [Next]_vars, PathAdded PROVE Kept
  <2>1. Len(obj'.rules) > Len(obj.rules)
    BY <1>2 DEF PathAdded
  <2>2. ~UNCHANGED obj /\ Len(obj.rules) \in Nat /\ IsObject(obj)
    BY <1>2, <2>1, ListIsFunction DEF CurrentInv, IsObject
  <2>3. ASSUME NEW o, o.rules = obj.rules PROVE ~Edit(o)
    BY <2>1, <2>2, <2>3 DEF Edit
  <2>4. ASSUME NEW ann PROVE ~Annotate(ann)
    <3>1. [obj EXCEPT !.ann = ann].rules = obj.rules
      BY <2>2 DEF IsObject
    <3> QED
      BY <2>3, <3>1 DEF Annotate
  <2>5. ASSUME NEW l PROVE ~EditListeners(l)
    <3>1. [obj EXCEPT !.entryPoints = l.entryPoints, !.tls = l.tls].rules = obj.rules
      BY <2>2 DEF IsObject
    <3> QED
      BY <2>3, <3>1 DEF EditListeners
  <2>6. ASSUME NEW own PROVE ~EditOwnService(own)
    <3>1. [obj EXCEPT !.own = own].rules = obj.rules
      BY <2>2 DEF IsObject
    <3> QED
      BY <2>3, <3>1 DEF EditOwnService
  <2>7. ASSUME NEW i \in DOMAIN obj.rules PROVE ~DropRule(i)
    <3>1. PICK o : o = [obj EXCEPT !.rules = RemoveAt(obj.rules, i)]
      OBVIOUS
    <3>2. o.rules = RemoveAt(obj.rules, i)
      BY <2>2, <3>1, OtherRules
    <3>3. Listed(RemoveAt(obj.rules, i)) /\ Len(RemoveAt(obj.rules, i)) < Len(obj.rules)
      BY <2>2, RemovedListed DEF IsObject
    <3>4. Len(o.rules) \in Nat /\ Len(o.rules) < Len(obj.rules)
      BY <3>2, <3>3, ListIsFunction
    <3>5. ~Edit(o)
      BY <2>1, <2>2, <3>4 DEF Edit
    <3> QED
      BY <3>1, <3>5 DEF DropRule
  <2>8. ASSUME NEW group PROVE ~EditNamespace(group)
    BY <2>2 DEF EditNamespace
  <2>9. ASSUME NEW ref, NEW service PROVE ~EditService(ref, service)
    BY <2>2 DEF EditService
  <2>10. PICK rule \in RulesOf[obj.kind] : AppendRule(rule)
    BY <1>2, <2>2, <2>4, <2>5, <2>6, <2>7, <2>8, <2>9 DEF Next, vars
  <2>11. IsRule(rule)
    BY <2>2, <2>10, SourcesAssumption DEF IsObject
  <2> QED
    BY <1>1, <1>2, <2>10, <2>11
<1>3. CurrentInv /\ [Next]_vars => [PathAdded => Kept]_vars
  BY <1>2
<1> QED
  BY <1>3, CurrentAlways, PTL DEF Spec, BareNamesSurvive, Kept

-----------------------------------------------------------------------------
(* Hosts are served. *)

(* The matchers kept of t, under an even or an odd number of negations. *)
Positive(t, negated) == ToSet(Walk[t][negated])

LEMMA PositiveIs ==
    ASSUME NEW t \in Trees, NEW negated \in BOOLEAN, NEW sign, sign = (t.not # negated)
    PROVE  /\ t.is \in Branches =>
                 Positive(t, negated) = Positive(t.left, sign) \cup Positive(t.right, sign)
           /\ t.is \notin Branches => Positive(t, negated) = IF sign THEN {} ELSE {t}
<1>1. Walk[t][negated] = IF t.is \in Branches THEN Walk[t.left][sign] \o Walk[t.right][sign]
                         ELSE IF sign THEN <<>> ELSE <<t>>
  <2>1. Walk[t] = LeavesBy(Walk, t)
    BY WalkIs
  <2> QED
    BY <2>1 DEF LeavesBy
<1>2. CASE t.is \in Branches
  <2>1. t.left \in Trees /\ t.right \in Trees /\ sign \in BOOLEAN
    BY <1>2, TreesAssumption
  <2>2. PICK p, q : p = Walk[t.left][sign] /\ q = Walk[t.right][sign]
    OBVIOUS
  <2>3. Listed(p) /\ Listed(q)
    BY <2>1, <2>2, WalkTyped, ElementsListed
  <2>4. ToSet(p \o q) = ToSet(p) \cup ToSet(q)
    BY <2>3, BothListed
  <2> QED
    BY <1>1, <1>2, <2>2, <2>4 DEF Positive
<1>3. CASE t.is \notin Branches
  <2>1. ToSet(<<>>) = {} /\ ToSet(<<t>>) = {t}
    BY DEF ToSet
  <2> QED
    BY <1>1, <1>3, <2>1 DEF Positive
<1> QED
  BY <1>2, <1>3

AssertedBy(f, t) ==
    [negated \in BOOLEAN |->
        LET sign == t.not # negated
        IN  IF t.is \in Branches THEN f[t.left][sign] \cup f[t.right][sign]
            ELSE IF sign THEN {} ELSE {t}]

(* They are those that the properties count as asserted. *)
LEMMA AssertedIs ==
    ASSUME NEW t \in Trees, NEW negated \in BOOLEAN
    PROVE  Asserted[t][negated] = Positive(t, negated)
<1> DEFINE f == [u \in Trees |-> [n \in BOOLEAN |-> Positive(u, n)]]
<1>1. ASSUME NEW u \in Trees PROVE f[u] = AssertedBy(f, u)
  <2>1. ASSUME NEW n \in BOOLEAN, NEW sign, sign = (u.not # n)
        PROVE  Positive(u, n) = IF u.is \in Branches THEN f[u.left][sign] \cup f[u.right][sign]
                                ELSE IF sign THEN {} ELSE {u}
    <3>1. sign \in BOOLEAN
      BY <2>1
    <3>2. CASE u.is \in Branches
      <4>1. u.left \in Trees /\ u.right \in Trees
        BY <3>2, TreesAssumption
      <4>2. f[u.left][sign] = Positive(u.left, sign) /\ f[u.right][sign] = Positive(u.right, sign)
        BY <3>1, <4>1
      <4> QED
        BY <2>1, <3>2, <4>2, PositiveIs
    <3>3. CASE u.is \notin Branches
      BY <2>1, <3>3, PositiveIs
    <3> QED
      BY <3>2, <3>3
  <2>2. f[u] = [n \in BOOLEAN |-> Positive(u, n)]
    OBVIOUS
  <2> HIDE DEF f
  <2> QED
    BY <2>1, <2>2 DEF AssertedBy
<1>2. f = [u \in Trees |-> AssertedBy(f, u)]
  BY <1>1
<1>3. Asserted = [u \in Trees |-> AssertedBy(Asserted, u)]
  <2>1. Asserted = CHOOSE g : g = [u \in Trees |-> AssertedBy(g, u)]
    BY Zenon DEF Asserted, AssertedBy
  <2>2. \E g : g = [u \in Trees |-> AssertedBy(g, u)]
    <3> HIDE DEF f
    <3> QED
      BY <1>2
  <2> QED
    BY <2>1, <2>2, Zenon
<1> DEFINE B == {u \in Trees : Asserted[u] # f[u]}
<1>4. ASSUME B # {} PROVE FALSE
  <2>1. PICK u : LowestIn(u, B)
    BY <1>4, LowestExists
  <2>2. /\ u \in Trees /\ Asserted[u] # f[u]
        /\ u.is \in Branches => Asserted[u.left] = f[u.left] /\ Asserted[u.right] = f[u.right]
    <3> HIDE DEF f
    <3> QED
      BY <2>1 DEF LowestIn
  <2> HIDE DEF f
  <2>3. AssertedBy(Asserted, u) = AssertedBy(f, u)
    BY <2>2, Zenon DEF AssertedBy
  <2>4. Asserted[u] = AssertedBy(Asserted, u) /\ f[u] = AssertedBy(f, u)
    BY <1>1, <1>3, <2>2
  <2> QED
    BY <2>2, <2>3, <2>4
<1>5. Asserted[t] = f[t]
  <2> HIDE DEF f
  <2> QED
    BY <1>4
<1> QED
  BY <1>5

Says(asked, on, leaf) ==
    \/ HostsOf(leaf) \cap asked # {}
    \/ IsOpen(leaf) /\ Matcher(leaf) \in on

HoldsBy(asked, on, f, t) ==
    t.not # (IF t.is = "and" THEN f[t.left] /\ f[t.right]
             ELSE IF t.is = "or" THEN f[t.left] \/ f[t.right]
             ELSE Says(asked, on, t))

LEMMA HoldsIs ==
    ASSUME NEW asked, NEW on
    PROVE  Holds(asked, on) = [t \in Trees |-> HoldsBy(asked, on, Holds(asked, on), t)]
<1> DEFINE both(t, x, y) == t.not # (IF t.is = "and" THEN x /\ y ELSE x \/ y)
           base == [t \in Trees |-> t.not # Says(asked, on, t)]
           comb == [t \in Trees |-> [x \in BOOLEAN |-> [y \in BOOLEAN |-> both(t, x, y)]]]
<1>1. Folding(BOOLEAN, base, comb)
  BY DEF Folding, Says
<1>2. PICK f \in [Trees -> BOOLEAN] : f = [t \in Trees |-> FoldStep(base, comb, f, t)]
  <2> HIDE DEF base, comb
  <2> QED
    BY <1>1, FoldExists
<1>3. ASSUME NEW t \in Trees PROVE FoldStep(base, comb, f, t) = HoldsBy(asked, on, f, t)
  <2>1. CASE t.is \in Branches
    <3>1. f[t.left] \in BOOLEAN /\ f[t.right] \in BOOLEAN
      BY <1>2, <2>1, TreesAssumption
    <3>2. FoldStep(base, comb, f, t) = both(t, f[t.left], f[t.right])
      <4> HIDE DEF both
      <4> QED
        BY <2>1, <3>1 DEF FoldStep
    <3>3. CASE t.is = "and"
      BY <3>2, <3>3 DEF HoldsBy
    <3>4. CASE t.is = "or"
      BY <3>2, <3>4 DEF HoldsBy
    <3> QED
      BY <2>1, <3>3, <3>4 DEF Branches
  <2>2. CASE t.is \notin Branches
    BY <2>2 DEF FoldStep, HoldsBy, Branches
  <2> QED
    BY <2>1, <2>2
<1>4. f = [t \in Trees |-> HoldsBy(asked, on, f, t)]
  BY <1>2, <1>3
<1>5. Holds(asked, on) = CHOOSE g : g = [t \in Trees |-> HoldsBy(asked, on, g, t)]
  BY Zenon DEF Holds, HoldsBy, Says
<1> QED
  BY <1>4, <1>5, Zenon

(* The value of t, or of its negation. *)
Truth(asked, on, t, negated) == Holds(asked, on)[t] # negated

(* Under that many negations a branch needs both its parts. *)
NeedsBoth(t, sign) == (t.is = "and") # sign

LEMMA TruthIs ==
    ASSUME NEW t \in Trees, NEW negated \in BOOLEAN, NEW sign, sign = (t.not # negated),
           NEW asked, NEW on
    PROVE  /\ t.is \in Branches =>
                 (Truth(asked, on, t, negated) <=>
                     IF NeedsBoth(t, sign)
                       THEN Truth(asked, on, t.left, sign) /\ Truth(asked, on, t.right, sign)
                       ELSE Truth(asked, on, t.left, sign) \/ Truth(asked, on, t.right, sign))
           /\ t.is \notin Branches => (Truth(asked, on, t, negated) <=> Says(asked, on, t) # sign)
<1>1. PICK v : v = Holds(asked, on)
  OBVIOUS
<1>2. v[t] = HoldsBy(asked, on, v, t) /\ t.not \in BOOLEAN
  BY <1>1, HoldsIs, TreesAssumption
<1>3. CASE t.is \in Branches
  <2>1. t.left \in Trees /\ t.right \in Trees
    BY <1>3, TreesAssumption
  <2>2. v[t.left] \in BOOLEAN /\ v[t.right] \in BOOLEAN
    <3>1. v[t.left] = HoldsBy(asked, on, v, t.left) /\ v[t.right] = HoldsBy(asked, on, v, t.right)
      BY <1>1, <2>1, HoldsIs
    <3> QED
      BY <3>1 DEF HoldsBy
  <2>3. PICK x \in BOOLEAN, y \in BOOLEAN : x = v[t.left] /\ y = v[t.right]
    BY <2>2
  <2>4. CASE t.is = "and"
    <3>1. v[t] = (t.not # (x /\ y))
      BY <1>2, <2>3, <2>4 DEF HoldsBy
    <3> QED
      BY <1>1, <1>2, <2>3, <2>4, <3>1 DEF Truth, NeedsBoth, Branches
  <2>5. CASE t.is = "or"
    <3>1. v[t] = (t.not # (x \/ y))
      BY <1>2, <2>3, <2>5 DEF HoldsBy
    <3> QED
      BY <1>1, <1>2, <2>3, <2>5, <3>1 DEF Truth, NeedsBoth, Branches
  <2> QED
    BY <1>3, <2>4, <2>5 DEF Branches
<1>4. CASE t.is \notin Branches
  <2>1. PICK says \in BOOLEAN : says = Says(asked, on, t)
    BY DEF Says
  <2>2. v[t] = (t.not # says)
    BY <1>2, <1>4, <2>1 DEF HoldsBy, Branches
  <2> QED
    BY <1>1, <1>2, <1>4, <2>1, <2>2 DEF Truth
<1> QED
  BY <1>3, <1>4

(* A host that no matcher kept names makes nothing true. *)
LEMMA OthersNeverServe ==
    ASSUME NEW t \in Trees, NEW h, NEW on,
           \A leaf \in Positive(t, FALSE) : h \notin HostsOf(leaf),
           Truth({h}, on, t, FALSE)
    PROVE  Truth({}, on, t, FALSE)
<1> DEFINE Nameless(u, n) == \A leaf \in Positive(u, n) : h \notin HostsOf(leaf)
           Antitone(u, n) == Nameless(u, n) /\ Truth({h}, on, u, n) => Truth({}, on, u, n)
           B == {u \in Trees : \E n \in BOOLEAN : ~Antitone(u, n)}
<1>1. ASSUME B # {} PROVE FALSE
  <2>1. PICK u : LowestIn(u, B)
    BY <1>1, LowestExists
  <2>2. /\ u \in Trees
        /\ u.is \in Branches => \A n \in BOOLEAN : Antitone(u.left, n) /\ Antitone(u.right, n)
    BY <2>1 DEF LowestIn
  <2>3. PICK n \in BOOLEAN : ~Antitone(u, n)
    BY <2>1 DEF LowestIn
  <2>4. PICK sign \in BOOLEAN : sign = (u.not # n)
    OBVIOUS
  <2>5. Nameless(u, n) /\ Truth({h}, on, u, n) /\ ~Truth({}, on, u, n)
    BY <2>3
  <2>6. CASE u.is \in Branches
    <3>1. Nameless(u.left, sign) /\ Nameless(u.right, sign)
      BY <2>2, <2>4, <2>5, <2>6, PositiveIs
    <3>2. /\ Truth({h}, on, u.left, sign) => Truth({}, on, u.left, sign)
          /\ Truth({h}, on, u.right, sign) => Truth({}, on, u.right, sign)
      BY <2>2, <2>6, <3>1
    <3> QED
      BY <2>2, <2>4, <2>5, <2>6, <3>2, TruthIs
  <2>7. CASE u.is \notin Branches
    <3>1. sign \/ h \notin HostsOf(u)
      BY <2>2, <2>4, <2>5, <2>7, PositiveIs
    <3>2. Says({h}, on, u) # sign
      BY <2>2, <2>4, <2>5, <2>7, TruthIs
    <3>3. ~(Says({}, on, u) # sign)
      BY <2>2, <2>4, <2>5, <2>7, TruthIs
    <3>4. Says({}, on, u) => Says({h}, on, u)
      BY DEF Says
    <3>5. h \notin HostsOf(u) => (Says({h}, on, u) => Says({}, on, u))
      BY DEF Says
    <3> QED
      BY <3>1, <3>2, <3>3, <3>4, <3>5 DEF Says
  <2> QED
    BY <2>6, <2>7
<1> QED
  BY <1>1

(* The parts that must hold together let other hosts in, or name h. *)
Agrees(h, part, sign) ==
    \/ \A leaf \in Asserted[part][sign] : IsOpen(leaf)
    \/ \E leaf \in Asserted[part][sign] : h \in HostsOf(leaf)

PartsAgree(h, t, sign) ==
    NeedsBoth(t, sign) => Agrees(h, t.left, sign) /\ Agrees(h, t.right, sign)

AgreedBy(h, f, t) ==
    [negated \in BOOLEAN |->
        LET sign == t.not # negated
        IN  t.is \in Branches =>
                /\ f[t.left][sign] /\ f[t.right][sign]
                /\ PartsAgree(h, t, sign)]

Signed == [BOOLEAN -> BOOLEAN]

LEMMA AgreedIs == ASSUME NEW h PROVE Agreed(h) = [t \in Trees |-> AgreedBy(h, Agreed(h), t)]
<1> DEFINE both(t, x, y) == [negated \in BOOLEAN |->
                                LET sign == t.not # negated
                                IN  x[sign] /\ y[sign] /\ PartsAgree(h, t, sign)]
           base == [t \in Trees |-> [negated \in BOOLEAN |-> TRUE]]
           comb == [t \in Trees |-> [x \in Signed |-> [y \in Signed |-> both(t, x, y)]]]
<1>1. ASSUME NEW t \in Trees, NEW x \in Signed, NEW y \in Signed PROVE both(t, x, y) \in Signed
  BY DEF Signed
<1>2. Folding(Signed, base, comb)
  <2>1. base \in [Trees -> Signed]
    BY DEF Signed
  <2> HIDE DEF both
  <2> QED
    BY <1>1, <2>1 DEF Folding
<1>3. PICK f \in [Trees -> Signed] : f = [t \in Trees |-> FoldStep(base, comb, f, t)]
  <2> HIDE DEF base, comb
  <2> QED
    BY <1>2, FoldExists
<1>4. ASSUME NEW t \in Trees PROVE FoldStep(base, comb, f, t) = AgreedBy(h, f, t)
  <2>1. CASE t.is \in Branches
    <3>1. f[t.left] \in Signed /\ f[t.right] \in Signed
      BY <1>3, <2>1, TreesAssumption
    <3>2. FoldStep(base, comb, f, t) = both(t, f[t.left], f[t.right])
      <4> HIDE DEF both
      <4> QED
        BY <2>1, <3>1 DEF FoldStep
    <3>3. \A sign \in BOOLEAN : f[t.left][sign] \in BOOLEAN /\ f[t.right][sign] \in BOOLEAN
      BY <3>1 DEF Signed
    <3>4. both(t, f[t.left], f[t.right]) = AgreedBy(h, f, t)
      BY <2>1, Zenon DEF AgreedBy
    <3> QED
      BY <3>2, <3>4
  <2>2. CASE t.is \notin Branches
    <3>1. FoldStep(base, comb, f, t) = [negated \in BOOLEAN |-> TRUE]
      BY <2>2 DEF FoldStep
    <3>2. AgreedBy(h, f, t) = [negated \in BOOLEAN |-> TRUE]
      BY <2>2 DEF AgreedBy
    <3> QED
      BY <3>1, <3>2
  <2> QED
    BY <2>1, <2>2
<1>5. f = [t \in Trees |-> AgreedBy(h, f, t)]
  BY <1>3, <1>4
<1>6. Agreed(h) = CHOOSE g : g = [t \in Trees |-> AgreedBy(h, g, t)]
  BY Zenon DEF Agreed, AgreedBy, PartsAgree, NeedsBoth, Agrees
<1> QED
  BY <1>5, <1>6, Zenon

LEMMA AgreedParts ==
    ASSUME NEW h, NEW t \in Trees, t.is \in Branches, NEW negated \in BOOLEAN,
           NEW sign, sign = (t.not # negated), Agreed(h)[t][negated]
    PROVE  Agreed(h)[t.left][sign] /\ Agreed(h)[t.right][sign] /\ PartsAgree(h, t, sign)
<1>1. PICK f : f = Agreed(h)
  OBVIOUS
<1>2. f[t] = AgreedBy(h, f, t)
  BY <1>1, AgreedIs
<1>3. f[t][negated] = (f[t.left][sign] /\ f[t.right][sign] /\ PartsAgree(h, t, sign))
  BY <1>2 DEF AgreedBy
<1> QED
  BY <1>1, <1>3

(* Nothing stands against h: the matchers kept are true, and none of those
   turned round is, or it stands for more than h. *)
Unopposed(h, on, kept, turned) ==
    /\ \A leaf \in kept : Matcher(leaf) \in on
    /\ \A leaf \in turned : ~Says({h}, on, leaf)

(* What agrees on h can be true of it. *)
LEMMA AgreedServe ==
    ASSUME NEW h, NEW on, NEW t \in Trees,
           Unopposed(h, on, Positive(t, FALSE), Positive(t, TRUE)),
           Agreed(h)[t][FALSE], Agrees(h, t, FALSE)
    PROVE  Truth({h}, on, t, FALSE)
<1> DEFINE Ready(u, n) == /\ Unopposed(h, on, Positive(u, n), Positive(u, ~n))
                          /\ Agreed(h)[u][n] /\ Agrees(h, u, n)
           B == {u \in Trees : \E n \in BOOLEAN : Ready(u, n) /\ ~Truth({h}, on, u, n)}
<1>1. ASSUME B # {} PROVE FALSE
  <2>1. PICK u : LowestIn(u, B)
    BY <1>1, LowestExists
  <2>2. /\ u \in Trees
        /\ u.is \in Branches =>
              /\ u.left \in Trees /\ u.right \in Trees
              /\ \A n \in BOOLEAN : /\ Ready(u.left, n) => Truth({h}, on, u.left, n)
                                    /\ Ready(u.right, n) => Truth({h}, on, u.right, n)
    BY <2>1, TreesAssumption DEF LowestIn
  <2>3. PICK n \in BOOLEAN : Ready(u, n) /\ ~Truth({h}, on, u, n)
    BY <2>1 DEF LowestIn
  <2>4. PICK sign \in BOOLEAN, off \in BOOLEAN : sign = (u.not # n) /\ off = ~sign
    OBVIOUS
  <2>5. u.not \in BOOLEAN /\ off = (u.not # ~n) /\ (~n) \in BOOLEAN
    <3>1. u.not \in BOOLEAN
      BY <2>2, TreesAssumption
    <3> QED
      BY <2>4, <3>1
  <2>6. CASE u.is \in Branches
    <3>1. /\ Positive(u, n) = Positive(u.left, sign) \cup Positive(u.right, sign)
          /\ Positive(u, ~n) = Positive(u.left, off) \cup Positive(u.right, off)
      <4>1. Positive(u, n) = Positive(u.left, sign) \cup Positive(u.right, sign)
        BY <2>2, <2>4, <2>6, PositiveIs
      <4>2. PICK other \in BOOLEAN : other = ~n /\ off = (u.not # other)
        BY <2>5
      <4>3. Positive(u, other) = Positive(u.left, off) \cup Positive(u.right, off)
        <5>1. u \in Trees /\ u.is \in Branches
          BY <2>2, <2>6
        <5>2. other \in BOOLEAN /\ off = (u.not # other)
          BY <4>2
        <5> QED
          BY ONLY <5>1, <5>2, PositiveIs
      <4> QED
        BY ONLY <4>1, <4>2, <4>3
    <3>2. /\ Unopposed(h, on, Positive(u.left, sign), Positive(u.left, off))
          /\ Unopposed(h, on, Positive(u.right, sign), Positive(u.right, off))
      BY <2>3, <3>1 DEF Unopposed
    <3>3. Agreed(h)[u.left][sign] /\ Agreed(h)[u.right][sign] /\ PartsAgree(h, u, sign)
      BY <2>2, <2>3, <2>4, <2>6, AgreedParts
    <3>4. /\ Agrees(h, u.left, sign) => Truth({h}, on, u.left, sign)
          /\ Agrees(h, u.right, sign) => Truth({h}, on, u.right, sign)
      BY <2>2, <2>4, <2>6, <3>2, <3>3
    <3>5. CASE NeedsBoth(u, sign)
      BY <2>2, <2>3, <2>4, <2>6, <3>3, <3>4, <3>5, TruthIs DEF PartsAgree
    <3>6. CASE ~NeedsBoth(u, sign)
      <4>1. /\ Asserted[u][n] = Asserted[u.left][sign] \cup Asserted[u.right][sign]
        BY <2>2, <2>4, <2>6, <3>1, AssertedIs
      <4>2. Agrees(h, u.left, sign) \/ Agrees(h, u.right, sign)
        BY <2>3, <4>1 DEF Agrees
      <4> QED
        BY <2>2, <2>3, <2>4, <2>6, <3>4, <3>6, <4>2, TruthIs
    <3> QED
      BY <3>5, <3>6
  <2>7. CASE u.is \notin Branches
    <3>1. Says({h}, on, u) <=> sign
      <4>1. ~(Says({h}, on, u) # sign)
        BY <2>2, <2>3, <2>4, <2>7, TruthIs
      <4> QED
        BY <4>1 DEF Says
    <3>2. CASE sign
      <4>1. Positive(u, ~n) = {u}
        BY <2>2, <2>4, <2>5, <2>7, <3>2, PositiveIs
      <4>2. ~Says({h}, on, u)
        BY <2>3, <4>1 DEF Unopposed
      <4> QED
        BY <3>1, <3>2, <4>2
    <3>3. CASE ~sign
      <4>1. Positive(u, n) = {u}
        BY <2>2, <2>4, <2>7, <3>3, PositiveIs
      <4>2. Matcher(u) \in on
        BY <2>3, <4>1 DEF Unopposed
      <4>3. IsOpen(u) \/ h \in HostsOf(u)
        BY <2>2, <2>3, <4>1, AssertedIs DEF Agrees
      <4>4. Says({h}, on, u)
        BY <4>2, <4>3 DEF Says
      <4> QED
        BY <3>1, <3>3, <4>4
    <3> QED
      BY <3>2, <3>3
  <2> QED
    BY <2>6, <2>7
<1>2. Ready(t, FALSE)
  OBVIOUS
<1> QED
  BY <1>1, <1>2

LEMMA NothingIsLost ==
    ASSUME NEW s, Listed(s)
    PROVE  ToSet(Distinct(s)) = ToSet(s)
<1>1. PICK n \in Nat : n = Len(s) /\ DOMAIN s = 1..n
  BY ListIsFunction
<1>2. PICK keep : keep = {i \in 1..n : \A j \in 1..(i - 1) : s[j] # s[i]}
  OBVIOUS
<1>3. Distinct(s) = Subsequence(s, keep) /\ keep \subseteq DOMAIN s
  BY <1>1, <1>2 DEF Distinct, Firsts
<1>4. ToSet(Distinct(s)) = {s[i] : i \in keep}
  BY <1>3, KeptListed
<1>5. ASSUME NEW x \in ToSet(s) PROVE \E i \in keep : s[i] = x
  <2>1. PICK T : T = {i \in 1..n : s[i] = x}
    OBVIOUS
  <2>2. T \subseteq Nat /\ T # {}
    BY <1>1, <2>1 DEF ToSet
  <2>3. PICK i \in T : \A j \in T : i <= j
    BY <2>2, LeastNatural
  <2>4. i \in 1..n /\ s[i] = x
    BY <2>1, <2>3
  <2>5. ASSUME NEW j \in 1..(i - 1) PROVE s[j] # x
    <3>1. j \in 1..n /\ ~(i <= j)
      BY <2>4
    <3> QED
      BY <2>1, <2>3, <3>1
  <2> QED
    BY <1>2, <2>4, <2>5
<1>6. \A i \in keep : s[i] \in ToSet(s)
  BY <1>3 DEF ToSet
<1> QED
  BY <1>4, <1>5, <1>6

LEMMA FlattenKeepsAll ==
    ASSUME NEW rows, Listed(rows), \A i \in DOMAIN rows : Listed(rows[i]),
           NEW k \in DOMAIN rows, NEW x \in ToSet(rows[k])
    PROVE  x \in ToSet(FlattenSeq(rows))
<1>1. PICK n \in Nat : n = Len(rows) /\ DOMAIN rows = 1..n
  BY ListIsFunction
<1>2. PICK S : rows \in Seq(Seq(S))
  BY RowsListed
<1> DEFINE upTo(i) == FlattenSeq(SubSeq(rows, 1, i))
<1>3. upTo(n) = FlattenSeq(rows)
  BY <1>1, <1>2, FlattenRows
<1>4. ASSUME NEW i \in 1..n
      PROVE  /\ upTo(i - 1) \in Seq(S) /\ rows[i] \in Seq(S)
             /\ upTo(i) = upTo(i - 1) \o rows[i]
  BY <1>1, <1>2, FlattenRows
<1> HIDE DEF upTo
<1>5. ASSUME NEW i \in 1..n PROVE ToSet(upTo(i)) = ToSet(upTo(i - 1)) \cup ToSet(rows[i])
  <2>1. PICK s, r : s = upTo(i - 1) /\ r = rows[i]
    OBVIOUS
  <2>2. Listed(s) /\ Listed(r)
    BY <1>4, <2>1, ElementsListed
  <2>3. ToSet(s \o r) = ToSet(s) \cup ToSet(r)
    BY <2>2, BothListed
  <2> QED
    BY <1>4, <2>1, <2>3
<1> DEFINE T == {i \in k..n : x \notin ToSet(upTo(i))}
<1>6. ASSUME T # {} PROVE FALSE
  <2>1. k \in 1..n /\ T \subseteq Nat
    BY <1>1
  <2>2. PICK i \in T : \A j \in T : i <= j
    BY <1>6, <2>1, LeastNatural
  <2>3. CASE i = k
    BY <1>5, <2>1, <2>3
  <2>4. CASE i # k
    <3>1. i \in 1..n /\ i - 1 \in k..n /\ ~(i <= i - 1)
      BY <2>1, <2>4
    <3>2. x \in ToSet(upTo(i - 1))
      BY <2>2, <3>1
    <3> QED
      BY <1>5, <3>1, <3>2
  <2> QED
    BY <2>3, <2>4
<1>7. n \in k..n
  BY <1>1
<1> QED
  BY <1>3, <1>6, <1>7

IsNamed(h, leaves, sort) ==
    \E leaf \in ToSet(leaves) : leaf.is = sort /\ h \in ToSet(leaf.values) \ Wildcards

LEMMA NamedAre ==
    ASSUME NEW leaves, leaves \in Seq(Matchers), NEW sort, NEW h,
           NEW named, named = Named(leaves, sort)
    PROVE  (\E i \in DOMAIN named : h \in ToSet(named[i])) <=> IsNamed(h, leaves, sort)
<1>1. PICK keep : keep = {i \in DOMAIN leaves : leaves[i].is = sort}
  OBVIOUS
<1>2. PICK ofSort : ofSort = Subsequence(leaves, keep)
  OBVIOUS
<1>3. keep \subseteq DOMAIN leaves /\ Listed(leaves)
  BY <1>1, ElementsListed
<1>4. ToSet(ofSort) = {leaves[i] : i \in keep}
  BY <1>2, <1>3, KeptListed
<1>5. ToSet(ofSort) = {leaf \in ToSet(leaves) : leaf.is = sort}
  BY <1>1, <1>4 DEF ToSet
<1>6. ofSort \in Seq(Matchers)
  BY <1>2, <1>3, Keeps
<1>7. DOMAIN named = DOMAIN ofSort /\ \A i \in DOMAIN ofSort : named[i] = Addresses(ofSort[i].values)
  BY <1>1, <1>2 DEF Named
<1>8. ASSUME NEW leaf \in ToSet(ofSort) PROVE ToSet(Addresses(leaf.values)) = ToSet(leaf.values) \ Wildcards
  <2>1. PICK values, kept : /\ values = leaf.values
                            /\ kept = {i \in DOMAIN values : values[i] \notin Wildcards}
    OBVIOUS
  <2>2. leaf \in Matchers
    BY <1>6, ElementsListed
  <2>3. Listed(values)
    BY <2>1, <2>2, TreesAssumption DEF Matchers
  <2>4. ToSet(Subsequence(values, kept)) = {values[i] : i \in kept}
    BY <2>1, <2>3, KeptListed
  <2>5. {values[i] : i \in kept} = ToSet(values) \ Wildcards
    BY <2>1 DEF ToSet
  <2> QED
    BY <2>1, <2>4, <2>5 DEF Addresses
<1>9. (\E i \in DOMAIN named : h \in ToSet(named[i]))
        <=> \E leaf \in ToSet(ofSort) : h \in ToSet(Addresses(leaf.values))
  <2>1. \A i \in DOMAIN ofSort : ofSort[i] \in ToSet(ofSort)
    BY DEF ToSet
  <2>2. \A leaf \in ToSet(ofSort) : \E i \in DOMAIN ofSort : leaf = ofSort[i]
    BY DEF ToSet
  <2> QED
    BY <1>7, <2>1, <2>2
<1> QED
  BY <1>5, <1>8, <1>9 DEF IsNamed

(* What parseRule has monitored of an expression: the hosts its positive
   matchers name. *)
LEMMA MonitoredAre ==
    ASSUME NEW t \in Trees, NEW h
    PROVE  h \in ToSet(ParseRule[t].hosts) <=>
             \E leaf \in Positive(t, FALSE) : leaf.is = "host" /\ h \in ToSet(leaf.values) \ Wildcards
<1>1. PICK leaves : leaves = PositiveLeaves[t]
  OBVIOUS
<1>2. leaves \in Seq(Matchers) /\ t # Blank
  BY <1>1, LeavesTyped, TreesAssumption
<1>3. PICK named : named = Named(leaves, "host")
  OBVIOUS
<1>4. ParseRule[t].hosts = Distinct(FlattenSeq(named))
  <2>1. t \in Trees \cup {Blank}
    OBVIOUS
  <2> QED
    BY <1>1, <1>2, <1>3, <2>1, Zenon DEF ParseRule
<1>5. Listed(named) /\ \A i \in DOMAIN named : Listed(named[i])
  BY <1>2, <1>3, NamedListed
<1>6. Listed(FlattenSeq(named))
      /\ \A x \in ToSet(FlattenSeq(named)) : \E i \in DOMAIN named : x \in ToSet(named[i])
  BY <1>5, FlattenListed
<1>7. ToSet(ParseRule[t].hosts) = ToSet(FlattenSeq(named))
  BY <1>4, <1>6, NothingIsLost
<1>8. h \in ToSet(FlattenSeq(named)) <=> \E i \in DOMAIN named : h \in ToSet(named[i])
  BY <1>5, <1>6, FlattenKeepsAll
<1>9. (\E i \in DOMAIN named : h \in ToSet(named[i])) <=> IsNamed(h, leaves, "host")
  BY <1>2, <1>3, NamedAre
<1>10. ToSet(leaves) = Positive(t, FALSE)
  <2>1. PositiveLeaves = [u \in Trees |-> Walk[u][FALSE]]
    BY Zenon DEF PositiveLeaves, Walk, LeavesBy
  <2> QED
    BY <1>1, <2>1 DEF Positive
<1> QED
  BY <1>7, <1>8, <1>9, <1>10 DEF IsNamed

LEMMA TruthIsValue ==
    ASSUME NEW t \in Trees, NEW asked, NEW on
    PROVE  Holds(asked, on)[t] <=> Truth(asked, on, t, FALSE)
<1>1. Holds(asked, on)[t] = HoldsBy(asked, on, Holds(asked, on), t)
  BY HoldsIs
<1>2. Holds(asked, on)[t] \in BOOLEAN
  BY <1>1 DEF HoldsBy
<1> QED
  BY <1>2 DEF Truth

(* No host that a rule serves by its name is missed, and every host monitored
   can be served, unless the rule names it in one part and rules it out in
   another, however the negations nest (parseRule, walkTree). *)
THEOREM MonitoredAreServed == Spec => []HostsAreServed
<1>1. ASSUME NEW t \in Trees, NEW h, ServesByName(t, h) PROVE h \in ToSet(ParseRule[t].hosts)
  <2>1. PICK on : Truth({h}, on, t, FALSE) /\ ~Truth({}, on, t, FALSE)
    BY <1>1, TruthIsValue DEF ServesByName
  <2>2. PICK leaf \in Positive(t, FALSE) : h \in HostsOf(leaf)
    BY <2>1, OthersNeverServe
  <2> QED
    BY <2>2, MonitoredAre DEF HostsOf
<1>2. ASSUME NEW t \in Trees, NEW h \in ToSet(ParseRule[t].hosts),
             ~Contradicted(t, h), Agreed(h)[t][FALSE]
      PROVE  CanServe(t, h)
  <2>1. PICK leaf \in Positive(t, FALSE) : h \in HostsOf(leaf)
    BY <1>2, MonitoredAre DEF HostsOf
  <2>2. PICK on : on = {Matcher(l) : l \in Positive(t, FALSE)}
    OBVIOUS
  <2>3. Asserted[t][FALSE] = Positive(t, FALSE) /\ Asserted[t][TRUE] = Positive(t, TRUE)
    BY AssertedIs
  <2>4. Agrees(h, t, FALSE)
    BY <2>1, <2>3 DEF Agrees
  <2>5. Unopposed(h, on, Positive(t, FALSE), Positive(t, TRUE))
    <3>1. ASSUME NEW l \in Positive(t, TRUE) PROVE ~Says({h}, on, l)
      BY <1>2, <2>2, <2>3 DEF Contradicted, Says
    <3> QED
      BY <2>2, <3>1 DEF Unopposed
  <2>6. Holds({h}, on)[t]
    BY <1>2, <2>4, <2>5, AgreedServe, TruthIsValue
  <2>7. on \in SUBSET MatchersOf(t)
    BY <2>2, <2>3 DEF MatchersOf
  <2> QED
    BY <2>6, <2>7 DEF CanServe
<1>3. HostsAreServed
  BY <1>1, <1>2 DEF HostsAreServed
<1> QED
  BY <1>3, PTL

-----------------------------------------------------------------------------
(* Objects: recursion over them ends too.  Merged and Values are both found by
   one recursion. *)

MergeAt(f, dst, src, k) ==
    IF k \notin DOMAIN src THEN dst[k]
    ELSE IF k \in DOMAIN dst /\ IsMap(dst[k]) /\ IsMap(src[k])
      THEN [is |-> "map", of |-> f[dst[k].of][src[k].of]]
    ELSE src[k]
MergeBy(f, dst) ==
    [src \in Objects |-> [k \in DOMAIN dst \cup DOMAIN src |-> MergeAt(f, dst, src, k)]]

(* A path and a value, a level further down. *)
Deeper(k, p) == <<k>> \o p
Sunk(k, v) == <<Deeper(k, v[1]), v[2]>>
Under(k, S) == {Sunk(k, v) : v \in S}

Upper(k) == <<<<k>>, AMap>>
ValuesAt(f, o, k) ==
    IF IsMap(o[k]) THEN {Upper(k)} \cup Under(k, f[o[k].of]) ELSE {<<<<k>>, o[k]>>}
ValuesBy(f, o) == UNION {ValuesAt(f, o, k) : k \in DOMAIN o}

PartsOf(o) == {o[k].of : k \in {l \in DOMAIN o : IsMap(o[l])}}

LEMMA PartsAreObjects ==
    ASSUME NEW o \in Objects, NEW k \in DOMAIN o, IsMap(o[k])
    PROVE  /\ o[k].of \in PartsOf(o) /\ o[k].of \in Objects
           /\ Depth[o[k].of] \in Nat /\ Depth[o] \in Nat /\ Depth[o[k].of] < Depth[o]
BY ObjectsAssumption DEF PartsOf

LEMMA MergeNeedsParts ==
    ASSUME NEW o, NEW f, NEW g, \A p \in PartsOf(o) : f[p] = g[p]
    PROVE  MergeBy(f, o) = MergeBy(g, o)
<1>1. ASSUME NEW src, NEW k PROVE MergeAt(f, o, src, k) = MergeAt(g, o, src, k)
  BY DEF MergeAt, PartsOf
<1> QED
  BY <1>1, Zenon DEF MergeBy

LEMMA ValuesNeedParts ==
    ASSUME NEW o, NEW f, NEW g, \A p \in PartsOf(o) : f[p] = g[p]
    PROVE  ValuesBy(f, o) = ValuesBy(g, o)
<1>1. ASSUME NEW k \in DOMAIN o PROVE ValuesAt(f, o, k) = ValuesAt(g, o, k)
  <2>1. IsMap(o[k]) => f[o[k].of] = g[o[k].of]
    BY DEF PartsOf
  <2> QED
    BY <2>1, Zenon DEF ValuesAt
<1> QED
  BY <1>1, Zenon DEF ValuesBy

BothBy(f, o) == [merged |-> MergeBy([p \in Objects |-> f[p].merged], o),
                 values |-> ValuesBy([p \in Objects |-> f[p].values], o)]

LEMMA BothNeedParts ==
    ASSUME NEW o \in Objects, NEW f, NEW g, \A p \in PartsOf(o) : f[p] = g[p]
    PROVE  BothBy(f, o) = BothBy(g, o)
<1>1. PICK fm : fm = [p \in Objects |-> f[p].merged]
  OBVIOUS
<1>2. PICK gm : gm = [p \in Objects |-> g[p].merged]
  OBVIOUS
<1>3. PICK fv : fv = [p \in Objects |-> f[p].values]
  OBVIOUS
<1>4. PICK gv : gv = [p \in Objects |-> g[p].values]
  OBVIOUS
<1>5. PartsOf(o) \subseteq Objects
  BY ObjectsAssumption DEF PartsOf
<1>6. \A p \in PartsOf(o) : fm[p] = gm[p] /\ fv[p] = gv[p]
  BY <1>1, <1>2, <1>3, <1>4, <1>5
<1>7. MergeBy(fm, o) = MergeBy(gm, o) /\ ValuesBy(fv, o) = ValuesBy(gv, o)
  BY <1>6, MergeNeedsParts, ValuesNeedParts
<1>8. BothBy(f, o) = [merged |-> MergeBy(fm, o), values |-> ValuesBy(fv, o)]
  BY <1>1, <1>3 DEF BothBy
<1>9. BothBy(g, o) = [merged |-> MergeBy(gm, o), values |-> ValuesBy(gv, o)]
  BY <1>2, <1>4 DEF BothBy
<1> QED
  BY <1>7, <1>8, <1>9

(* An object with no part in B. *)
ShallowestIn(o, B) == o \in B /\ \A p \in PartsOf(o) : p \in Objects \ B

LEMMA ShallowestExists ==
    ASSUME NEW B, B \subseteq Objects, B # {}
    PROVE  \E o : ShallowestIn(o, B)
<1> DEFINE T == {Depth[o] : o \in B}
<1>1. T \subseteq Nat /\ T # {}
  BY ObjectsAssumption
<1>2. PICK l \in T : \A j \in T : l <= j
  <2> HIDE DEF T
  <2> QED
    BY <1>1, LeastNatural
<1>3. PICK o \in B : l = Depth[o]
  BY <1>2
<1>4. ASSUME NEW p \in PartsOf(o) PROVE p \in Objects \ B
  <2>1. PICK k \in DOMAIN o : IsMap(o[k]) /\ p = o[k].of
    BY DEF PartsOf
  <2>2. p \in Objects /\ Depth[p] \in Nat /\ Depth[o] \in Nat /\ Depth[p] < Depth[o]
    BY <1>3, <2>1, PartsAreObjects
  <2>3. Depth[p] \notin T
    <3> HIDE DEF T
    <3> QED
      BY <1>2, <1>3, <2>2
  <2> QED
    BY <2>2, <2>3
<1> QED
  BY <1>3, <1>4 DEF ShallowestIn

Shallow(h) == {o \in Objects : Depth[o] < h}
BothTo(f, h) == \A o \in Shallow(h) : f[o] = BothBy(f, o)

LEMMA PartsAreShallow ==
    ASSUME NEW h \in Nat, NEW o \in Shallow(h), NEW p \in PartsOf(o)
    PROVE  p \in Shallow(h) /\ Depth[p] \in Nat /\ Depth[p] < Depth[o]
<1>1. o \in Objects /\ Depth[o] < h
  BY DEF Shallow
<1>2. PICK k \in DOMAIN o : IsMap(o[k]) /\ p = o[k].of
  BY DEF PartsOf
<1>3. p \in Objects /\ Depth[p] \in Nat /\ Depth[o] \in Nat /\ Depth[p] < Depth[o]
  BY <1>1, <1>2, PartsAreObjects
<1> QED
  BY <1>1, <1>3 DEF Shallow

LEMMA BothAgree ==
    ASSUME NEW h \in Nat, NEW k \in Nat, NEW f, NEW g, BothTo(f, h), BothTo(g, k)
    PROVE  \A o \in Shallow(h) \cap Shallow(k) : f[o] = g[o]
<1> DEFINE B == {o \in Shallow(h) \cap Shallow(k) : f[o] # g[o]}
<1>1. ASSUME B # {} PROVE FALSE
  <2>1. PICK o : ShallowestIn(o, B)
    BY <1>1, ShallowestExists DEF Shallow
  <2>2. o \in Shallow(h) \cap Shallow(k) /\ f[o] # g[o] /\ o \in Objects
    BY <2>1 DEF ShallowestIn, Shallow
  <2>3. f[o] = BothBy(f, o) /\ g[o] = BothBy(g, o)
    BY <2>2 DEF BothTo
  <2>4. ASSUME NEW p \in PartsOf(o) PROVE f[p] = g[p]
    <3>1. p \in Shallow(h) \cap Shallow(k)
      BY <2>2, PartsAreShallow
    <3> QED
      BY <2>1, <3>1 DEF ShallowestIn
  <2> QED
    BY <2>2, <2>3, <2>4, BothNeedParts
<1> QED
  BY <1>1

LEMMA BothReach == ASSUME NEW h \in Nat PROVE \E f : BothTo(f, h)
<1> DEFINE T == {k \in Nat : ~\E f : BothTo(f, k)}
<1>1. ASSUME T # {} PROVE FALSE
  <2>1. PICK k \in T : \A j \in T : k <= j
    BY <1>1, LeastNatural
  <2>2. CASE k = 0
    <3>1. Shallow(0) = {}
      BY ObjectsAssumption DEF Shallow
    <3>2. BothTo({}, 0)
      BY <3>1 DEF BothTo
    <3> QED
      BY <2>2, <3>2
  <2>3. CASE k # 0
    <3>1. k - 1 \in Nat /\ k - 1 \notin T
      BY <2>1, <2>3
    <3>2. PICK p \in Nat : p = k - 1
      BY <3>1
    <3>3. PICK f : BothTo(f, p)
      BY <3>1, <3>2
    <3>4. PICK g : g = [o \in Objects |-> BothBy(f, o)]
      OBVIOUS
    <3>5. ASSUME NEW o \in Shallow(k) PROVE g[o] = BothBy(g, o)
      <4>1. o \in Objects /\ Depth[o] < k /\ k \in Nat
        BY DEF Shallow
      <4>2. ASSUME NEW q \in PartsOf(o) PROVE f[q] = g[q]
        <5>1. q \in Objects /\ Depth[q] \in Nat /\ Depth[o] \in Nat /\ Depth[q] < Depth[o]
          BY <4>1, ObjectsAssumption, PartsAreShallow DEF Shallow
        <5>2. q \in Shallow(p)
          BY <3>2, <4>1, <5>1 DEF Shallow
        <5> QED
          BY <3>3, <3>4, <5>1, <5>2 DEF BothTo
      <4> QED
        BY <3>4, <4>1, <4>2, BothNeedParts
    <3>6. BothTo(g, k)
      BY <3>5 DEF BothTo
    <3> QED
      BY <3>6
  <2> QED
    BY <2>2, <2>3
<1> QED
  BY <1>1

LEMMA BothExist == \E f : f = [o \in Objects |-> BothBy(f, o)]
<1> DEFINE upTo(h) == CHOOSE f : BothTo(f, h)
           F == [o \in Objects |-> upTo(Depth[o] + 1)[o]]
<1>1. \A h \in Nat : BothTo(upTo(h), h)
  BY BothReach, Zenon
<1> HIDE DEF upTo
<1>2. \A o \in Objects : F[o] = upTo(Depth[o] + 1)[o] /\ Depth[o] + 1 \in Nat
  BY ObjectsAssumption
<1>3. F = [o \in Objects |-> F[o]]
  OBVIOUS
<1> HIDE DEF F
<1>4. ASSUME NEW o \in Objects PROVE F[o] = BothBy(F, o)
  <2>1. PICK h \in Nat : h = Depth[o] + 1 /\ o \in Shallow(h)
    BY ObjectsAssumption DEF Shallow
  <2>2. PICK f : f = upTo(h)
    OBVIOUS
  <2>3. BothTo(f, h)
    BY <1>1, <2>2
  <2>4. F[o] = BothBy(f, o)
    BY <1>2, <2>1, <2>2, <2>3 DEF BothTo
  <2>5. ASSUME NEW p \in PartsOf(o) PROVE f[p] = F[p]
    <3>1. p \in Shallow(h) /\ Depth[p] \in Nat
      BY <2>1, PartsAreShallow
    <3>2. PICK k \in Nat : k = Depth[p] + 1
      BY <3>1
    <3>3. p \in Shallow(h) \cap Shallow(k) /\ p \in Objects
      BY <3>1, <3>2 DEF Shallow
    <3>4. BothTo(upTo(k), k)
      BY <1>1
    <3>5. f[p] = upTo(k)[p]
      BY <2>3, <3>3, <3>4, BothAgree
    <3> QED
      BY <1>2, <3>2, <3>3, <3>5
  <2> QED
    BY <2>4, <2>5, BothNeedParts
<1>5. F = [o \in Objects |-> BothBy(F, o)]
  BY <1>3, <1>4
<1> QED
  BY <1>5

LEMMA MergedIs == Merged = [dst \in Objects |-> MergeBy(Merged, dst)]
<1>1. PICK f : f = [o \in Objects |-> BothBy(f, o)]
  BY BothExist
<1>2. PICK g : g = [p \in Objects |-> f[p].merged]
  OBVIOUS
<1>3. ASSUME NEW o \in Objects PROVE g[o] = MergeBy(g, o)
  <2>1. f[o] = BothBy(f, o)
    BY <1>1
  <2>2. f[o].merged = MergeBy(g, o)
    BY <1>2, <2>1 DEF BothBy
  <2> QED
    BY <1>2, <2>2
<1>4. g = [dst \in Objects |-> MergeBy(g, dst)]
  BY <1>2, <1>3
<1>5. Merged = CHOOSE h : h = [dst \in Objects |-> MergeBy(h, dst)]
  BY Zenon DEF Merged, MergeBy, MergeAt
<1> QED
  BY <1>4, <1>5, Zenon

LEMMA ValuesIs == Values = [o \in Objects |-> ValuesBy(Values, o)]
<1>1. PICK f : f = [o \in Objects |-> BothBy(f, o)]
  BY BothExist
<1>2. PICK g : g = [p \in Objects |-> f[p].values]
  OBVIOUS
<1>3. ASSUME NEW o \in Objects PROVE g[o] = ValuesBy(g, o)
  <2>1. f[o] = BothBy(f, o)
    BY <1>1
  <2>2. f[o].values = ValuesBy(g, o)
    BY <1>2, <2>1 DEF BothBy
  <2> QED
    BY <1>2, <2>2
<1>4. g = [o \in Objects |-> ValuesBy(g, o)]
  BY <1>2, <1>3
<1>5. Values = CHOOSE h : h = [o \in Objects |-> ValuesBy(h, o)]
  BY Zenon DEF Values, ValuesBy, ValuesAt, Under, Upper, Sunk, Deeper
<1> QED
  BY <1>4, <1>5, Zenon
-----------------------------------------------------------------------------
(* Paths of keys. *)

Keys == UNION {DOMAIN o : o \in Objects}
IsPath(p) == p \in Seq(Keys) /\ Len(p) > 0

LEMMA PrefixIs ==
    ASSUME NEW p \in Seq(Keys), NEW q \in Seq(Keys)
    PROVE  IsPrefix(p, q) <=> Len(p) <= Len(q) /\ \A i \in 1..Len(p) : p[i] = q[i]
<1>1. p \in [1..Len(p) -> Keys] /\ Len(p) \in Nat /\ Len(q) \in Nat
  BY LenProperties
<1>2. SubSeq(p, 1, Len(p)) = [i \in 1..Len(p) |-> p[i]]
  BY <1>1
<1>3. SubSeq(q, 1, Len(p)) = [i \in 1..Len(p) |-> q[i]]
  BY <1>1
<1>4. [i \in 1..Len(p) |-> p[i]] = [i \in 1..Len(p) |-> q[i]] <=> \A i \in 1..Len(p) : p[i] = q[i]
  OBVIOUS
<1> QED
  BY <1>2, <1>3, <1>4 DEF IsPrefix

LEMMA ThisKey ==
    ASSUME NEW k \in Keys
    PROVE  IsPath(<<k>>) /\ Len(<<k>>) = 1 /\ <<k>>[1] = k
<1>1. <<k>> \in Seq(Keys) /\ Len(<<k>>) = 1
  OBVIOUS
<1> QED
  BY <1>1 DEF IsPath

IsDeeper(k, p, u) ==
    /\ IsPath(u) /\ Len(u) = Len(p) + 1 /\ u[1] = k
    /\ \A i \in 1..Len(p) : u[i + 1] = p[i]

LEMMA KeyBefore ==
    ASSUME NEW k \in Keys, NEW p, IsPath(p)
    PROVE  IsDeeper(k, p, Deeper(k, p))
<1>0. PICK u : u = Deeper(k, p)
  OBVIOUS
<1>1. PICK s : s = <<k>> /\ s \in Seq(Keys) /\ Len(s) = 1 /\ s[1] = k
  <2>1. <<k>> \in Seq(Keys) /\ Len(<<k>>) = 1 /\ <<k>>[1] = k
    OBVIOUS
  <2> QED
    BY <2>1
<1>2. p \in Seq(Keys) /\ Len(p) \in Nat
  BY LenProperties DEF IsPath
<1>3. u = s \o p
  BY <1>0, <1>1 DEF Deeper
<1>4. /\ u \in Seq(Keys) /\ Len(u) = Len(s) + Len(p)
      /\ \A i \in 1..Len(u) : u[i] = IF i <= Len(s) THEN s[i] ELSE p[i - Len(s)]
  BY <1>1, <1>2, <1>3, ConcatProperties
<1>5. Len(u) = Len(p) + 1
  BY <1>1, <1>2, <1>4
<1>6. \A i \in 1..Len(u) : u[i] = IF i <= 1 THEN s[1] ELSE p[i - 1]
  BY <1>1, <1>4
<1>7. u[1] = k
  BY <1>1, <1>2, <1>5, <1>6
<1>8. ASSUME NEW i \in 1..Len(p) PROVE u[i + 1] = p[i]
  <2>1. i + 1 \in 1..Len(u) /\ ~(i + 1 <= 1) /\ (i + 1) - 1 = i
    BY <1>2, <1>5
  <2> QED
    BY <1>6, <2>1
<1>9. IsPath(u)
  BY <1>2, <1>4, <1>5 DEF IsPath
<1> QED
  BY <1>0, <1>5, <1>7, <1>8, <1>9 DEF IsDeeper

LEMMA PrefixesShareKey ==
    ASSUME NEW p, IsPath(p), NEW q, IsPath(q), IsPrefix(p, q)
    PROVE  p[1] = q[1]
<1>1. p \in Seq(Keys) /\ q \in Seq(Keys) /\ Len(p) > 0 /\ Len(p) \in Nat
  BY LenProperties DEF IsPath
<1> QED
  BY <1>1, PrefixIs

LEMMA PrefixBelow ==
    ASSUME NEW k \in Keys, NEW p, IsPath(p), NEW q, IsPath(q)
    PROVE  IsPrefix(Deeper(k, p), Deeper(k, q)) <=> IsPrefix(p, q)
<1>1. PICK u : u = Deeper(k, p)
  OBVIOUS
<1>2. PICK v : v = Deeper(k, q)
  OBVIOUS
<1>3. IsPath(u) /\ Len(u) = Len(p) + 1 /\ u[1] = k /\ \A i \in 1..Len(p) : u[i + 1] = p[i]
  BY <1>1, KeyBefore DEF IsDeeper
<1>4. IsPath(v) /\ Len(v) = Len(q) + 1 /\ v[1] = k /\ \A i \in 1..Len(q) : v[i + 1] = q[i]
  BY <1>2, KeyBefore DEF IsDeeper
<1>5. /\ p \in Seq(Keys) /\ q \in Seq(Keys) /\ u \in Seq(Keys) /\ v \in Seq(Keys)
      /\ Len(p) \in Nat /\ Len(q) \in Nat
  BY <1>3, <1>4, LenProperties DEF IsPath
<1>6. /\ IsPrefix(p, q) <=> Len(p) <= Len(q) /\ \A i \in 1..Len(p) : p[i] = q[i]
      /\ IsPrefix(u, v) <=> Len(u) <= Len(v) /\ \A i \in 1..Len(u) : u[i] = v[i]
  BY <1>5, PrefixIs
<1>7. ASSUME IsPrefix(p, q) PROVE IsPrefix(u, v)
  <2>1. Len(u) <= Len(v)
    BY <1>3, <1>4, <1>5, <1>6, <1>7
  <2>2. ASSUME NEW i \in 1..Len(u), i # 1 PROVE u[i] = v[i]
    <3>1. PICK j \in 1..Len(p) : i = j + 1
      <4>1. i - 1 \in 1..Len(p) /\ i = (i - 1) + 1
        BY <1>3, <1>5, <2>2
      <4> QED
        BY <4>1
    <3>2. j \in 1..Len(q) /\ p[j] = q[j]
      BY <1>5, <1>6, <1>7
    <3> QED
      BY <1>3, <1>4, <3>1, <3>2
  <2> QED
    BY <1>3, <1>4, <1>6, <2>1, <2>2
<1>8. ASSUME IsPrefix(u, v) PROVE IsPrefix(p, q)
  <2>1. Len(p) <= Len(q)
    BY <1>3, <1>4, <1>5, <1>6, <1>8
  <2>2. ASSUME NEW i \in 1..Len(p) PROVE p[i] = q[i]
    <3>1. i \in 1..Len(q) /\ i + 1 \in 1..Len(u)
      BY <1>3, <1>5, <2>1
    <3> QED
      BY <1>3, <1>4, <1>6, <1>8, <3>1
  <2> QED
    BY <1>6, <2>1, <2>2
<1> QED
  BY <1>1, <1>2, <1>7, <1>8

LEMMA KeyIsPrefix ==
    ASSUME NEW k \in Keys, NEW p, IsPath(p)
    PROVE  IsPrefix(<<k>>, p) <=> p[1] = k
<1>1. PICK s : s = <<k>>
  OBVIOUS
<1>2. IsPath(s) /\ Len(s) = 1 /\ s[1] = k
  BY <1>1, ThisKey
<1>3. s \in Seq(Keys) /\ p \in Seq(Keys) /\ Len(p) > 0 /\ Len(p) \in Nat
  BY <1>2, LenProperties DEF IsPath
<1>4. IsPrefix(s, p) <=> Len(s) <= Len(p) /\ \A i \in 1..Len(s) : s[i] = p[i]
  BY <1>3, PrefixIs
<1> QED
  BY <1>1, <1>2, <1>3, <1>4

LEMMA NothingAboveKey ==
    ASSUME NEW k \in Keys, NEW p, IsPath(p)
    PROVE  ~IsPrefix(Deeper(k, p), <<k>>)
<1>1. PICK s : s = <<k>>
  OBVIOUS
<1>2. PICK u : u = Deeper(k, p)
  OBVIOUS
<1>3. IsPath(s) /\ Len(s) = 1
  BY <1>1, ThisKey
<1>4. IsPath(u) /\ Len(u) = Len(p) + 1
  BY <1>2, KeyBefore DEF IsDeeper
<1>5. u \in Seq(Keys) /\ s \in Seq(Keys) /\ Len(p) > 0 /\ Len(p) \in Nat
  BY <1>3, <1>4, LenProperties DEF IsPath
<1>6. ~(Len(u) <= Len(s))
  BY <1>3, <1>4, <1>5
<1>7. ~IsPrefix(u, s)
  BY <1>5, <1>6, PrefixIs
<1> QED
  BY <1>1, <1>2, <1>7

-----------------------------------------------------------------------------
(* The values of a merged object. *)

AreFound(S) == \A v \in S : IsPath(v[1])
FoundAt(k, S) == \A v \in S : IsPath(v[1]) /\ v[1][1] = k

LEMMA KeyOf == ASSUME NEW o \in Objects, NEW k \in DOMAIN o PROVE k \in Keys
BY DEF Keys

LEMMA UnderFound ==
    ASSUME NEW k \in Keys, NEW S, AreFound(S)
    PROVE  FoundAt(k, {Upper(k)} \cup Under(k, S))
<1>1. IsPath(Upper(k)[1]) /\ Upper(k)[1][1] = k
  BY ThisKey DEF Upper
<1>2. ASSUME NEW v \in S PROVE IsPath(Sunk(k, v)[1]) /\ Sunk(k, v)[1][1] = k
  <2>1. IsDeeper(k, v[1], Deeper(k, v[1]))
    BY KeyBefore DEF AreFound
  <2> QED
    BY <2>1 DEF IsDeeper, Sunk
<1> QED
  BY <1>1, <1>2 DEF FoundAt, Under

LEMMA ValuesAtFound ==
    ASSUME NEW o \in Objects, NEW k \in DOMAIN o, IsMap(o[k]) => AreFound(Values[o[k].of])
    PROVE  FoundAt(k, ValuesAt(Values, o, k))
<1>1. k \in Keys
  BY KeyOf
<1>2. CASE IsMap(o[k])
  BY <1>1, <1>2, UnderFound DEF ValuesAt
<1>3. CASE ~IsMap(o[k])
  <2>1. ValuesAt(Values, o, k) = {<<<<k>>, o[k]>>}
    BY <1>3 DEF ValuesAt
  <2>2. IsPath(<<k>>) /\ <<k>>[1] = k
    BY <1>1, ThisKey
  <2> QED
    BY <2>1, <2>2 DEF FoundAt
<1> QED
  BY <1>2, <1>3

LEMMA ValuesAre ==
    ASSUME NEW o \in Objects
    PROVE  Values[o] = UNION {ValuesAt(Values, o, k) : k \in DOMAIN o}
BY ValuesIs DEF ValuesBy

LEMMA ValuesFound == \A o \in Objects : AreFound(Values[o])
<1> DEFINE B == {o \in Objects : ~AreFound(Values[o])}
<1>1. ASSUME B # {} PROVE FALSE
  <2>1. PICK o : ShallowestIn(o, B)
    BY <1>1, ShallowestExists
  <2>2. o \in Objects /\ ~AreFound(Values[o])
    BY <2>1 DEF ShallowestIn
  <2>3. ASSUME NEW k \in DOMAIN o PROVE FoundAt(k, ValuesAt(Values, o, k))
    <3>1. IsMap(o[k]) => AreFound(Values[o[k].of])
      BY <2>1, <2>2, PartsAreObjects DEF ShallowestIn
    <3> QED
      BY <2>2, <3>1, ValuesAtFound
  <2>4. AreFound(Values[o])
    BY <2>2, <2>3, ValuesAre DEF AreFound, FoundAt
  <2> QED
    BY <2>2, <2>4
<1> QED
  BY <1>1

LEMMA ValuesFoundAt ==
    ASSUME NEW o \in Objects, NEW k \in DOMAIN o
    PROVE  FoundAt(k, ValuesAt(Values, o, k))
<1>1. IsMap(o[k]) => AreFound(Values[o[k].of])
  BY ValuesFound, PartsAreObjects
<1> QED
  BY <1>1, ValuesAtFound

LEMMA OverridesBelow ==
    ASSUME NEW k \in Keys, NEW v, IsPath(v[1]), NEW w, IsPath(w[1])
    PROVE  /\ Overrides(Sunk(k, w), Sunk(k, v)) <=> Overrides(w, v)
           /\ ~Overrides(Upper(k), Sunk(k, v))
<1>1. /\ IsPrefix(Deeper(k, w[1]), Deeper(k, v[1])) <=> IsPrefix(w[1], v[1])
      /\ IsPrefix(Deeper(k, v[1]), Deeper(k, w[1])) <=> IsPrefix(v[1], w[1])
  BY PrefixBelow
<1>2. ~IsPrefix(Deeper(k, v[1]), <<k>>)
  BY NothingAboveKey
<1>3. Upper(k)[1] = <<k>> /\ IsMap(Upper(k)[2])
  BY DEF Upper, AMap, IsMap
<1>4. /\ Sunk(k, v)[1] = Deeper(k, v[1]) /\ Sunk(k, v)[2] = v[2]
      /\ Sunk(k, w)[1] = Deeper(k, w[1]) /\ Sunk(k, w)[2] = w[2]
  BY DEF Sunk
<1> QED
  BY <1>1, <1>2, <1>3, <1>4 DEF Overrides

LEMMA MapsOverlay ==
    ASSUME NEW k \in Keys, NEW V, AreFound(V), NEW W, AreFound(W)
    PROVE  {Upper(k)} \cup Under(k, Overlaid(V, W)) =
               Overlaid({Upper(k)} \cup Under(k, V), {Upper(k)} \cup Under(k, W))
<1>1. ASSUME NEW v \in V, \A w \in W : ~Overrides(w, v), NEW x \in {Upper(k)} \cup Under(k, W)
      PROVE  ~Overrides(x, Sunk(k, v))
  <2>1. CASE x = Upper(k)
    BY <2>1, OverridesBelow DEF AreFound
  <2>2. CASE x \in Under(k, W)
    <3>1. PICK w \in W : x = Sunk(k, w)
      BY <2>2 DEF Under
    <3> QED
      BY <1>1, <3>1, OverridesBelow DEF AreFound
  <2> QED
    BY <2>1, <2>2
<1>2. ASSUME NEW v \in V, \A x \in {Upper(k)} \cup Under(k, W) : ~Overrides(x, Sunk(k, v)), NEW w \in W
      PROVE  ~Overrides(w, v)
  <2>1. Sunk(k, w) \in Under(k, W)
    BY DEF Under
  <2> QED
    BY <1>2, <2>1, OverridesBelow DEF AreFound
<1>3. ASSUME NEW x \in {Upper(k)} \cup Under(k, Overlaid(V, W))
      PROVE  x \in Overlaid({Upper(k)} \cup Under(k, V), {Upper(k)} \cup Under(k, W))
  <2>1. CASE x = Upper(k)
    BY <2>1 DEF Overlaid
  <2>2. CASE x \in Under(k, Overlaid(V, W))
    <3>1. PICK v \in Overlaid(V, W) : x = Sunk(k, v)
      BY <2>2 DEF Under
    <3>2. CASE v \in W
      BY <3>1, <3>2 DEF Overlaid, Under
    <3>3. CASE v \notin W
      <4>1. v \in V /\ \A w \in W : ~Overrides(w, v)
        BY <3>1, <3>3 DEF Overlaid
      <4>2. x \in Under(k, V)
        BY <3>1, <4>1 DEF Under
      <4> QED
        BY <1>1, <3>1, <4>1, <4>2 DEF Overlaid
    <3> QED
      BY <3>2, <3>3
  <2> QED
    BY <1>3, <2>1, <2>2
<1>4. ASSUME NEW x \in Overlaid({Upper(k)} \cup Under(k, V), {Upper(k)} \cup Under(k, W))
      PROVE  x \in {Upper(k)} \cup Under(k, Overlaid(V, W))
  <2>1. CASE x \in Under(k, W)
    <3>1. PICK w \in W : x = Sunk(k, w)
      BY <2>1 DEF Under
    <3> QED
      BY <3>1 DEF Overlaid, Under
  <2>2. CASE x \notin Under(k, W) /\ x # Upper(k)
    <3>1. x \in Under(k, V) /\ \A y \in {Upper(k)} \cup Under(k, W) : ~Overrides(y, x)
      BY <1>4, <2>2 DEF Overlaid
    <3>2. PICK v \in V : x = Sunk(k, v)
      BY <3>1 DEF Under
    <3>3. v \in Overlaid(V, W)
      BY <1>2, <3>1, <3>2 DEF Overlaid
    <3> QED
      BY <3>2, <3>3 DEF Under
  <2> QED
    BY <2>1, <2>2
<1> QED
  BY <1>3, <1>4

(* What o has under the key k, if anything. *)
HereIn(o, k) == IF k \in DOMAIN o THEN ValuesAt(Values, o, k) ELSE {}

LEMMA OverlaidByKey ==
    ASSUME NEW d \in Objects, NEW s \in Objects
    PROVE  Overlaid(Values[d], Values[s]) =
               UNION {Overlaid(HereIn(d, k), HereIn(s, k)) : k \in DOMAIN d \cup DOMAIN s}
<1> DEFINE K == DOMAIN d \cup DOMAIN s
<1>1. ASSUME NEW o \in {d, s} PROVE Values[o] = UNION {HereIn(o, k) : k \in K}
  <2>1. Values[o] = UNION {ValuesAt(Values, o, k) : k \in DOMAIN o}
    BY ValuesAre
  <2>2. DOMAIN o \subseteq K
    OBVIOUS
  <2> QED
    BY <2>1, <2>2 DEF HereIn
<1>2. \A o \in {d, s}, k \in K : FoundAt(k, HereIn(o, k))
  BY ValuesFoundAt DEF HereIn, FoundAt
<1> HIDE DEF K
<1>3. ASSUME NEW k \in K, NEW v \in HereIn(d, k), \A w \in HereIn(s, k) : ~Overrides(w, v),
             NEW w \in Values[s]
      PROVE  ~Overrides(w, v)
  <2>1. PICK l \in K : w \in HereIn(s, l)
    BY <1>1
  <2>2. IsPath(v[1]) /\ v[1][1] = k /\ IsPath(w[1]) /\ w[1][1] = l
    BY <1>2, <2>1 DEF FoundAt
  <2>3. CASE k = l
    BY <1>3, <2>1, <2>3
  <2>4. CASE k # l
    BY <2>2, <2>4, PrefixesShareKey DEF Overrides
  <2> QED
    BY <2>3, <2>4
<1>4. ASSUME NEW v \in Overlaid(Values[d], Values[s])
      PROVE  \E k \in K : v \in Overlaid(HereIn(d, k), HereIn(s, k))
  <2>1. CASE v \in Values[s]
    BY <1>1, <2>1 DEF Overlaid
  <2>2. CASE v \notin Values[s]
    <3>1. v \in Values[d] /\ \A w \in Values[s] : ~Overrides(w, v)
      BY <1>4, <2>2 DEF Overlaid
    <3>2. PICK k \in K : v \in HereIn(d, k)
      BY <1>1, <3>1
    <3>3. HereIn(s, k) \subseteq Values[s]
      BY <1>1
    <3> QED
      BY <3>1, <3>2, <3>3 DEF Overlaid
  <2> QED
    BY <2>1, <2>2
<1>5. ASSUME NEW k \in K, NEW v \in Overlaid(HereIn(d, k), HereIn(s, k))
      PROVE  v \in Overlaid(Values[d], Values[s])
  <2>1. HereIn(d, k) \subseteq Values[d] /\ HereIn(s, k) \subseteq Values[s]
    BY <1>1
  <2>2. CASE v \in HereIn(s, k)
    BY <2>1, <2>2 DEF Overlaid
  <2>3. CASE v \notin HereIn(s, k)
    <3>1. v \in HereIn(d, k) /\ \A w \in HereIn(s, k) : ~Overrides(w, v)
      BY <1>5, <2>3 DEF Overlaid
    <3>2. \A w \in Values[s] : ~Overrides(w, v)
      BY <1>3, <3>1
    <3> QED
      BY <2>1, <3>1, <3>2 DEF Overlaid
  <2> QED
    BY <2>2, <2>3
<1>6. Overlaid(Values[d], Values[s]) = UNION {Overlaid(HereIn(d, k), HereIn(s, k)) : k \in K}
  BY <1>4, <1>5
<1> QED
  BY <1>6 DEF K

LEMMA MergedHas ==
    ASSUME NEW d \in Objects, NEW s \in Objects
    PROVE  /\ Merged[d][s] \in Objects
           /\ DOMAIN Merged[d][s] = DOMAIN d \cup DOMAIN s
           /\ \A k \in DOMAIN d \cup DOMAIN s : Merged[d][s][k] = MergeAt(Merged, d, s, k)
<1>1. Merged[d] = MergeBy(Merged, d)
  BY MergedIs
<1>2. Merged[d][s] = [k \in DOMAIN d \cup DOMAIN s |-> MergeAt(Merged, d, s, k)]
  BY <1>1 DEF MergeBy
<1> QED
  BY <1>2, MergedAssumption

(* The merge of d with anything has the values it should. *)
MergesRight(d) ==
    \A s \in Objects : Values[Merged[d][s]] = Overlaid(Values[d], Values[s])

LEMMA MergedAtKey ==
    ASSUME NEW d \in Objects, \A p \in PartsOf(d) : MergesRight(p), NEW s \in Objects,
           NEW m, m = Merged[d][s], NEW k \in DOMAIN d \cup DOMAIN s
    PROVE  ValuesAt(Values, m, k) = Overlaid(HereIn(d, k), HereIn(s, k))
<1>1. m[k] = MergeAt(Merged, d, s, k)
  BY MergedHas
<1>2. k \in Keys
  BY KeyOf
<1>3. CASE k \notin DOMAIN s
  <2>1. m[k] = d[k]
    BY <1>1, <1>3 DEF MergeAt
  <2>2. ValuesAt(Values, m, k) = ValuesAt(Values, d, k)
    BY <2>1, Zenon DEF ValuesAt
  <2>3. HereIn(d, k) = ValuesAt(Values, d, k) /\ HereIn(s, k) = {}
    BY <1>3 DEF HereIn
  <2> QED
    BY <2>2, <2>3 DEF Overlaid
<1>4. CASE k \in DOMAIN s /\ k \notin DOMAIN d
  <2>1. m[k] = s[k]
    BY <1>1, <1>4 DEF MergeAt
  <2>2. ValuesAt(Values, m, k) = ValuesAt(Values, s, k)
    BY <2>1, Zenon DEF ValuesAt
  <2>3. HereIn(s, k) = ValuesAt(Values, s, k) /\ HereIn(d, k) = {}
    BY <1>4 DEF HereIn
  <2> QED
    BY <2>2, <2>3 DEF Overlaid
<1>5. CASE k \in DOMAIN s /\ k \in DOMAIN d /\ IsMap(d[k]) /\ IsMap(s[k])
  <2>1. PICK p, q : p = d[k].of /\ q = s[k].of
    OBVIOUS
  <2>2. p \in PartsOf(d) /\ p \in Objects /\ q \in Objects
    BY <1>5, <2>1, PartsAreObjects
  <2>3. m[k] = [is |-> "map", of |-> Merged[p][q]]
    BY <1>1, <1>5, <2>1 DEF MergeAt
  <2>4. IsMap(m[k]) /\ m[k].of = Merged[p][q]
    BY <2>3 DEF IsMap
  <2>5. ValuesAt(Values, m, k) = {Upper(k)} \cup Under(k, Values[Merged[p][q]])
    BY <2>4, Zenon DEF ValuesAt
  <2>6. Values[Merged[p][q]] = Overlaid(Values[p], Values[q])
    BY <2>2 DEF MergesRight
  <2>7. /\ HereIn(d, k) = {Upper(k)} \cup Under(k, Values[p])
        /\ HereIn(s, k) = {Upper(k)} \cup Under(k, Values[q])
    BY <1>5, <2>1 DEF HereIn, ValuesAt
  <2>8. AreFound(Values[p]) /\ AreFound(Values[q])
    BY <2>2, ValuesFound
  <2> QED
    BY <1>2, <2>5, <2>6, <2>7, <2>8, MapsOverlay
<1>6. CASE k \in DOMAIN s /\ k \in DOMAIN d /\ ~(IsMap(d[k]) /\ IsMap(s[k]))
  <2>1. m[k] = s[k]
    BY <1>1, <1>6 DEF MergeAt
  <2>2. ValuesAt(Values, m, k) = ValuesAt(Values, s, k)
    BY <2>1, Zenon DEF ValuesAt
  <2>3. HereIn(s, k) = ValuesAt(Values, s, k) /\ HereIn(d, k) = ValuesAt(Values, d, k)
    BY <1>6 DEF HereIn
  <2>4. FoundAt(k, HereIn(d, k)) /\ FoundAt(k, HereIn(s, k))
    BY <1>6, <2>3, ValuesFoundAt
  <2>5. ASSUME NEW v \in HereIn(d, k) PROVE \E w \in HereIn(s, k) : Overrides(w, v)
    <3>1. IsPath(v[1]) /\ v[1][1] = k
      BY <2>4 DEF FoundAt
    <3>2. IsPrefix(<<k>>, v[1])
      BY <1>2, <3>1, KeyIsPrefix
    <3>3. CASE ~IsMap(s[k])
      <4>1. PICK w : w = <<<<k>>, s[k]>>
        OBVIOUS
      <4>2. w \in HereIn(s, k) /\ w[1] = <<k>> /\ w[2] = s[k]
        BY <2>3, <3>3, <4>1 DEF ValuesAt
      <4> QED
        BY <3>2, <3>3, <4>2 DEF Overrides
    <3>4. CASE IsMap(s[k]) /\ ~IsMap(d[k])
      <4>1. Upper(k) \in HereIn(s, k) /\ Upper(k)[1] = <<k>>
        BY <2>3, <3>4 DEF ValuesAt, Upper
      <4>2. v[1] = <<k>> /\ v[2] = d[k]
        BY <2>3, <3>4 DEF ValuesAt
      <4> QED
        BY <3>2, <3>4, <4>1, <4>2 DEF Overrides
    <3> QED
      BY <1>6, <3>3, <3>4
  <2>6. Overlaid(HereIn(d, k), HereIn(s, k)) = HereIn(s, k)
    BY <2>5 DEF Overlaid
  <2> QED
    BY <2>2, <2>3, <2>6
<1> QED
  BY <1>3, <1>4, <1>5, <1>6

LEMMA MergeOverlays == \A d \in Objects : MergesRight(d)
<1> DEFINE B == {d \in Objects : ~MergesRight(d)}
<1>1. ASSUME B # {} PROVE FALSE
  <2>1. PICK d : ShallowestIn(d, B)
    BY <1>1, ShallowestExists
  <2>2. d \in Objects /\ ~MergesRight(d) /\ \A p \in PartsOf(d) : MergesRight(p)
    BY <2>1 DEF ShallowestIn
  <2>3. ASSUME NEW s \in Objects PROVE Values[Merged[d][s]] = Overlaid(Values[d], Values[s])
    <3>1. PICK m : m = Merged[d][s]
      OBVIOUS
    <3>2. m \in Objects /\ DOMAIN m = DOMAIN d \cup DOMAIN s
      BY <2>2, <3>1, MergedHas
    <3>3. Values[m] = UNION {ValuesAt(Values, m, k) : k \in DOMAIN d \cup DOMAIN s}
      BY <3>2, ValuesAre
    <3>4. \A k \in DOMAIN d \cup DOMAIN s :
             ValuesAt(Values, m, k) = Overlaid(HereIn(d, k), HereIn(s, k))
      BY <2>2, <3>1, MergedAtKey
    <3>5. Values[m] = UNION {Overlaid(HereIn(d, k), HereIn(s, k)) : k \in DOMAIN d \cup DOMAIN s}
      BY <3>3, <3>4
    <3> QED
      BY <2>2, <3>1, <3>5, OverlaidByKey
  <2> QED
    BY <2>2, <2>3 DEF MergesRight
<1> QED
  BY <1>1

-----------------------------------------------------------------------------
(* Items overlay the object. *)

ValuesOf(patch) == IF patch = Nil THEN {} ELSE Values[patch]

LEMMA WrittenPatch ==
    ASSUME NEW from, NEW key, IsPatch(from, key),
           key \in DOMAIN from /\ from[key] # Null => from[key] # Malformed
    PROVE  /\ Written(from, key, Nil) \in Objects \cup {Nil}
           /\ ValuesIn(from, key) = ValuesOf(Written(from, key, Nil))
<1>1. CASE key \in DOMAIN from /\ from[key] # Null
  BY <1>1 DEF Written, IsPatch, ValuesIn, ValuesOf
<1>2. CASE ~(key \in DOMAIN from /\ from[key] # Null)
  BY <1>2 DEF Written, ValuesIn, ValuesOf
<1> QED
  BY <1>1, <1>2

LEMMA PatchesOverlay ==
    ASSUME NEW base \in Objects \cup {Nil}, NEW own \in Objects \cup {Nil},
           NEW patch, patch = IF base = Nil THEN own ELSE Merge(base, own)
    PROVE  /\ patch \in Objects \cup {Nil}
           /\ ValuesOf(patch) = Overlaid(ValuesOf(base), ValuesOf(own))
<1>1. Nil \notin Objects
  BY ObjectsAssumption
<1>2. CASE base = Nil
  BY <1>2 DEF ValuesOf, Overlaid
<1>3. CASE base # Nil /\ own = Nil
  BY <1>3 DEF ValuesOf, Overlaid, Merge
<1>4. CASE base # Nil /\ own # Nil
  <2>1. patch = Merged[base][own] /\ patch \in Objects
    BY <1>4, MergedAssumption DEF Merge
  <2>2. Values[patch] = Overlaid(Values[base], Values[own])
    BY <1>4, <2>1, MergeOverlays DEF MergesRight
  <2> QED
    BY <1>1, <1>4, <2>1, <2>2 DEF ValuesOf
<1> QED
  BY <1>2, <1>3, <1>4

LEMMA ItemOverlays ==
    ASSUME NEW ann, AreAnnotations(ann), ~AnnotationsFail(ann), Items(ann) # Nil
    PROVE  /\ DOMAIN SpecsFromAnnotations(ann) = DOMAIN Items(ann)
           /\ \A i \in DOMAIN Items(ann) :
                 LET patch == SpecsFromAnnotations(ann)[i].patch
                 IN  /\ patch \in Objects \cup {Nil}
                     /\ ValuesOf(patch) = Overlaid(ValuesIn(ann, "endpoint"),
                                                   ValuesIn(Items(ann)[i], "fields"))
<1>1. SpecsFromAnnotations(ann) =
        [i \in DOMAIN Items(ann) |-> Inherit(ItemSpec(Items(ann)[i]), Shortcuts(ann))]
  BY DEF SpecsFromAnnotations
<1>2. ASSUME NEW i \in DOMAIN Items(ann), NEW patch, patch = SpecsFromAnnotations(ann)[i].patch
      PROVE  /\ patch \in Objects \cup {Nil}
             /\ ValuesOf(patch) = Overlaid(ValuesIn(ann, "endpoint"),
                                           ValuesIn(Items(ann)[i], "fields"))
  <2>1. PICK item : item = Items(ann)[i]
    OBVIOUS
  <2>2. ~IsMalformed(item) /\ Items(ann) \notin {Nil, Malformed}
    BY <2>1 DEF AnnotationsFail
  <2>3. /\ IsPatch(item, "fields")
        /\ "fields" \in DOMAIN item => item["fields"] # Malformed
    BY <2>1, <2>2 DEF AreAnnotations, IsMalformed
  <2>4. /\ IsPatch(ann, "endpoint")
        /\ "endpoint" \in DOMAIN ann /\ ann["endpoint"] # Null => ann["endpoint"] # Malformed
    BY DEF AreAnnotations, AnnotationsFail, Written
  <2>5. PICK base, own : base = Written(ann, "endpoint", Nil) /\ own = Written(item, "fields", Nil)
    OBVIOUS
  <2>6. base \in Objects \cup {Nil} /\ ValuesIn(ann, "endpoint") = ValuesOf(base)
    BY <2>4, <2>5, WrittenPatch
  <2>7. own \in Objects \cup {Nil} /\ ValuesIn(item, "fields") = ValuesOf(own)
    BY <2>3, <2>5, WrittenPatch
  <2>8. Shortcuts(ann).patch = base /\ ItemSpec(item).patch = own
    BY <2>5 DEF Shortcuts, ItemSpec, SpecFrom
  <2>9. patch = IF base = Nil THEN own ELSE Merge(base, own)
    <3>1. patch = Inherit(ItemSpec(item), Shortcuts(ann)).patch
      BY <1>1, <1>2, <2>1
    <3>2. \A s, b : Inherit(s, b).patch = IF b.patch = Nil THEN s.patch ELSE Merge(b.patch, s.patch)
      BY DEF Inherit
    <3> QED
      BY <2>8, <3>1, <3>2
  <2>10. patch \in Objects \cup {Nil} /\ ValuesOf(patch) = Overlaid(ValuesOf(base), ValuesOf(own))
    BY <2>6, <2>7, <2>9, PatchesOverlay
  <2> QED
    BY <2>1, <2>6, <2>7, <2>10
<1> QED
  BY <1>1, <1>2

LEMMA PatchOfSpec ==
    ASSUME NEW s, NEW o, NEW w, NEW host, NEW ports,
           NEW ep, ep = EndpointFromSpec(s, o, w, host, ports)
    PROVE  "patch" \in DOMAIN ep /\ ep.patch = s.patch
<1>1. PICK base : base = BaseEndpoint(s, o, w)
  OBVIOUS
<1>2. "patch" \in DOMAIN base /\ base.patch = s.patch
  BY <1>1 DEF BaseEndpoint
<1>3. PICK url, scheme, path, port :
        ep = IF s.url # NoURL THEN [base EXCEPT !.url = url, !.scheme = scheme]
             ELSE [base EXCEPT !.host = host, !.path = path, !.port = port]
  BY <1>1 DEF EndpointFromSpec
<1> QED
  BY <1>2, <1>3

(* The patch of a listed item has every value of the item, and of the object's
   own patch every value that the item leaves room for: no more is lost or kept
   when they are merged, at any depth (Merge, inherit). *)
THEOREM ItemsOverlay == Spec => []ItemsOverlayTheObject
<1>1. CurrentInv => ItemsOverlayTheObject
  <2> SUFFICES ASSUME CurrentInv, Items(obj.ann) # Nil, NEW i \in DOMAIN entry.endpoints
               PROVE  ValuesIn(entry.endpoints[i], "patch") =
                          Overlaid(ValuesIn(obj.ann, "endpoint"),
                                   ValuesIn(Items(obj.ann)[i], "fields"))
    BY DEF ItemsOverlayTheObject
  <2>1. PICK x : entry = Derive(obj, x)
    BY DEF CurrentInv, DerivedFrom
  <2>2. obj.kind \in Kinds /\ AreAnnotations(obj.ann)
    BY DEF CurrentInv, IsObject
  <2>3. ~IsDerived(obj, x)
    BY DEF IsDerived, IsDescribed, Items, Written
  <2>4. entry.endpoints # <<>>
    OBVIOUS
  <2>5. entry = OwnEndpoints(obj, x) /\ ~AnnotationsFail(obj.ann)
    BY <2>1, <2>2, <2>3, <2>4, OtherDerived DEF Nothing, Refused
  <2>6. PICK specs : specs = SpecsFromAnnotations(obj.ann)
    OBVIOUS
  <2>7. PICK host, ports : entry = EndpointsFromSpecs(specs, obj, x, host, ports)
    BY <2>5, <2>6 DEF OwnEndpoints
  <2>8. PICK endpoints :
          endpoints = [j \in DOMAIN specs |-> EndpointFromSpec(specs[j], obj, x, host, ports)]
    OBVIOUS
  <2>9. entry.endpoints = endpoints
    BY <2>4, <2>7, <2>8 DEF EndpointsFromSpecs, Refused
  <2>10. i \in DOMAIN specs /\ entry.endpoints[i] = EndpointFromSpec(specs[i], obj, x, host, ports)
    BY <2>8, <2>9
  <2>11. PICK ep, patch : ep = entry.endpoints[i] /\ patch = specs[i].patch
    OBVIOUS
  <2>12. "patch" \in DOMAIN ep /\ ep.patch = patch
    BY <2>10, <2>11, PatchOfSpec
  <2>13. /\ patch \in Objects \cup {Nil}
         /\ ValuesOf(patch) = Overlaid(ValuesIn(obj.ann, "endpoint"),
                                       ValuesIn(Items(obj.ann)[i], "fields"))
    BY <2>2, <2>5, <2>6, <2>10, <2>11, ItemOverlays
  <2>14. IsPatch(ep, "patch") \/ patch = Nil
    BY <2>12, <2>13 DEF IsPatch
  <2>15. ValuesIn(ep, "patch") = ValuesOf(patch)
    BY <2>12, <2>13, ObjectsAssumption DEF ValuesIn, ValuesOf, Written
  <2> QED
    BY <2>11, <2>13, <2>15
<1> QED
  BY <1>1, CurrentAlways, PTL
=============================================================================
