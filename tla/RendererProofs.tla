--------------------------- MODULE RendererProofs ----------------------------
(* Proofs about Renderer: what a call returns, whatever the snapshot and the
   templates. *)
EXTENDS Renderer, SubsequenceProofs

-----------------------------------------------------------------------------
(* StableSort. *)

Keys == Nat \X Nat \X Nat

LEMMA PrecedesIs ==
    ASSUME NEW a \in Keys, NEW b \in Keys
    PROVE  Precedes(a, b) <=> \/ a[1] < b[1]
                              \/ a[1] = b[1] /\ a[2] < b[2]
                              \/ a[1] = b[1] /\ a[2] = b[2] /\ a[3] < b[3]
<1>1. 1..3 = {1, 2, 3} /\ 1..(1 - 1) = {} /\ 1..(2 - 1) = {1} /\ 1..(3 - 1) = {1, 2}
  OBVIOUS
<1> DEFINE At(n) == a[n] < b[n] /\ \A m \in 1..(n - 1) : a[m] = b[m]
<1>2. Precedes(a, b) <=> At(1) \/ At(2) \/ At(3)
  <2>1. Precedes(a, b) <=> \E n \in {1, 2, 3} : At(n)
    BY <1>1 DEF Precedes
  <2> HIDE DEF At
  <2> QED
    BY <2>1
<1>3. /\ At(1) <=> a[1] < b[1]
      /\ At(2) <=> a[2] < b[2] /\ a[1] = b[1]
      /\ At(3) <=> a[3] < b[3] /\ a[1] = b[1] /\ a[2] = b[2]
  BY <1>1
<1> HIDE DEF At
<1> QED
  BY <1>2, <1>3

LEMMA PrecedesOrders ==
    ASSUME NEW a \in Keys, NEW b \in Keys, NEW c \in Keys
    PROVE  /\ ~Precedes(a, a)
           /\ Precedes(a, b) /\ Precedes(b, c) => Precedes(a, c)
           /\ a = b \/ Precedes(a, b) \/ Precedes(b, a)
<1>1. PICK a1 \in Nat, a2 \in Nat, a3 \in Nat : a = <<a1, a2, a3>>
  BY DEF Keys
<1>2. PICK b1 \in Nat, b2 \in Nat, b3 \in Nat : b = <<b1, b2, b3>>
  BY DEF Keys
<1>3. PICK c1 \in Nat, c2 \in Nat, c3 \in Nat : c = <<c1, c2, c3>>
  BY DEF Keys
<1>4. /\ Precedes(a, b) <=> a1 < b1 \/ (a1 = b1 /\ a2 < b2) \/ (a1 = b1 /\ a2 = b2 /\ a3 < b3)
      /\ Precedes(b, a) <=> b1 < a1 \/ (b1 = a1 /\ b2 < a2) \/ (b1 = a1 /\ b2 = a2 /\ b3 < a3)
      /\ Precedes(b, c) <=> b1 < c1 \/ (b1 = c1 /\ b2 < c2) \/ (b1 = c1 /\ b2 = c2 /\ b3 < c3)
      /\ Precedes(a, c) <=> a1 < c1 \/ (a1 = c1 /\ a2 < c2) \/ (a1 = c1 /\ a2 = c2 /\ a3 < c3)
      /\ ~Precedes(a, a)
  BY <1>1, <1>2, <1>3, PrecedesIs
<1>5. a1 = b1 /\ a2 = b2 /\ a3 = b3 => a = b
  BY <1>1, <1>2
<1>6. Precedes(a, b) /\ Precedes(b, c) => Precedes(a, c)
  BY <1>4
<1>7. a = b \/ Precedes(a, b) \/ Precedes(b, a)
  BY <1>4, <1>5
<1> QED
  BY <1>4, <1>6, <1>7

LEMMA EarlierIs ==
    ASSUME NEW n \in Nat, NEW key \in [1..n -> Keys], NEW j \in 1..n, NEW i \in 1..n
    PROVE  <<j, i>> \in Earlier(key) <=>
               Precedes(key[j], key[i]) \/ (key[j] = key[i] /\ j < i)
<1> DEFINE e == <<j, i>>
<1>1. DOMAIN key = 1..n /\ e \in (1..n) \X (1..n) /\ e[1] = j /\ e[2] = i
  OBVIOUS
<1> HIDE DEF e
<1>2. e \in Earlier(key) <=> Precedes(key[e[1]], key[e[2]]) \/ (key[e[1]] = key[e[2]] /\ e[1] < e[2])
  BY <1>1 DEF Earlier
<1> QED
  BY <1>1, <1>2 DEF e

LEMMA KeysAreOrdered ==
    ASSUME NEW n \in Nat, NEW key \in [1..n -> Keys]
    PROVE  StrictTotal(1..n, Earlier(key))
<1>1. \A i \in 1..n : key[i] \in Keys
  OBVIOUS
<1>2. \A i \in 1..n : <<i, i>> \notin Earlier(key)
  BY <1>1, PrecedesOrders, EarlierIs
<1>3. ASSUME NEW i \in 1..n, NEW j \in 1..n, NEW k \in 1..n,
             <<i, j>> \in Earlier(key), <<j, k>> \in Earlier(key)
      PROVE  <<i, k>> \in Earlier(key)
  <2>1. key[i] \in Keys /\ key[j] \in Keys /\ key[k] \in Keys
    BY <1>1
  <2>2. /\ Precedes(key[i], key[j]) \/ (key[i] = key[j] /\ i < j)
        /\ Precedes(key[j], key[k]) \/ (key[j] = key[k] /\ j < k)
    BY <1>3, EarlierIs
  <2>3. Precedes(key[i], key[j]) /\ Precedes(key[j], key[k]) => Precedes(key[i], key[k])
    BY <2>1, PrecedesOrders
  <2>4. i < j /\ j < k => i < k
    OBVIOUS
  <2>5. Precedes(key[i], key[k]) \/ (key[i] = key[k] /\ i < k)
    BY <2>2, <2>3, <2>4
  <2> QED
    BY <2>5, EarlierIs
<1>4. ASSUME NEW i \in 1..n, NEW j \in 1..n
      PROVE  i = j \/ <<i, j>> \in Earlier(key) \/ <<j, i>> \in Earlier(key)
  <2>1. key[i] = key[j] \/ Precedes(key[i], key[j]) \/ Precedes(key[j], key[i])
    BY <1>1, PrecedesOrders
  <2>2. i = j \/ i < j \/ j < i
    OBVIOUS
  <2> QED
    BY <2>1, <2>2, EarlierIs
<1> QED
  BY <1>2, <1>3, <1>4 DEF StrictTotal

(* A sorted sequence has the elements of the given one, each at one new place, and
   none with a lower key after one with a higher. *)
IsSorting(n, s, key, place) ==
    /\ place \in [1..n -> 1..n]
    /\ \A p \in 1..n : StableSort(s, key)[p] = s[place[p]]
    /\ \A i \in 1..n : \E p \in 1..n : place[p] = i
    /\ \A p, q \in 1..n : p < q => ~Precedes(key[place[q]], key[place[p]])
    /\ \A p, q \in 1..n : p # q => place[p] # place[q]

LEMMA Sorts ==
    ASSUME NEW n \in Nat, NEW s, DOMAIN s = 1..n, NEW key \in [1..n -> Keys]
    PROVE  \E place : IsSorting(n, s, key, place)
<1> DEFINE place == [p \in 1..n |-> AtRank(1..n, Earlier(key), p)]
<1>1. IsFiniteSet(1..n) /\ Cardinality(1..n) = n
  BY FS_Interval
<1>2. StrictTotal(1..n, Earlier(key))
  BY KeysAreOrdered
<1>3. /\ \A p \in 1..n : AtRank(1..n, Earlier(key), p) \in 1..n
      /\ \A i \in 1..n : \E p \in 1..n : AtRank(1..n, Earlier(key), p) = i
      /\ \A p, q \in 1..n :
            p < q => <<AtRank(1..n, Earlier(key), p), AtRank(1..n, Earlier(key), q)>> \in Earlier(key)
  BY <1>1, <1>2, RanksList
<1>4. /\ place \in [1..n -> 1..n]
      /\ \A i \in 1..n : \E p \in 1..n : place[p] = i
      /\ \A p, q \in 1..n : p < q => <<place[p], place[q]>> \in Earlier(key)
  BY <1>3
<1>5. \A p \in 1..n : StableSort(s, key)[p] = s[place[p]]
  BY DEF StableSort
<1> HIDE DEF place
<1>6. ASSUME NEW p \in 1..n, NEW q \in 1..n, p < q
      PROVE  ~Precedes(key[place[q]], key[place[p]]) /\ place[p] # place[q]
  <2>1. PICK i \in 1..n, j \in 1..n : i = place[p] /\ j = place[q]
    BY <1>4
  <2>2. <<i, j>> \in Earlier(key)
    BY <1>4, <1>6, <2>1
  <2>3. key[i] \in Keys /\ key[j] \in Keys
    OBVIOUS
  <2>4. Precedes(key[i], key[j]) \/ (key[i] = key[j] /\ i < j)
    BY <2>2, EarlierIs
  <2>5. ~Precedes(key[j], key[i])
    BY <2>3, <2>4, PrecedesOrders
  <2>6. i # j
    BY <1>2, <2>2 DEF StrictTotal
  <2> QED
    BY <2>1, <2>5, <2>6
<1>7. ASSUME NEW p \in 1..n, NEW q \in 1..n, p # q
      PROVE  place[p] # place[q]
  <2>1. p < q \/ q < p
    BY <1>7
  <2> QED
    BY <1>6, <2>1
<1>8. \A p, q \in 1..n : p < q => ~Precedes(key[place[q]], key[place[p]])
  BY <1>6
<1> QED
  BY <1>4, <1>5, <1>7, <1>8 DEF IsSorting

-----------------------------------------------------------------------------
(* The inductive invariant. *)

(* What a call works on: Call reads it, and nothing changes it until Return. *)
InputOK ==
    /\ snapshot \in Seq(Elements(snapshot))
    /\ \A ep \in Elements(snapshot) : IsEndpoint(ep)
    /\ IsFiniteSet(DOMAIN templates)

(* What each stage has done so far. *)
StageOK ==
    /\ stage \in {"idle", "sort", "workload", "url", "render", "done"}
    /\ stage \in {"idle", "sort", "done"} => ordered = <<>>
    /\ stage \in {"idle", "sort", "workload", "url"} =>
          seen = {} /\ rendered = <<>> /\ warnings = {}

(* Each rendered endpoint is what its layers give. *)
Records == {[from |-> ep, object |-> RenderOne(ep)] : ep \in Elements(snapshot)}

(* TypeOK, with the types of what a step reads. *)
TypeInv ==
    /\ InputOK
    /\ StageOK
    /\ ordered \in Seq(Elements(snapshot))
    /\ rendered \in Seq(Records)
    /\ seen = Origins
    /\ \A t \in DOMAIN usage : usage[t] \in Nat
    /\ \A w \in warnings : w.about \in Elements(snapshot)

(* Every Service endpoint is treated before every endpoint of a route. *)
ServicesFirst ==
    /\ \A i, j \in DOMAIN ordered :
          i < j /\ ordered[j].source = "Service" => ordered[i].source = "Service"
    /\ \A i \in DOMAIN ordered, s \in seen :
          ordered[i].source = "Service" => s.source = "Service"
    /\ \A w \in warnings :
          w.kind \in {"url", "name"} /\ w.about.source = "Service" =>
              w.because.source = "Service"

(* The endpoints that have not been dropped. *)
Left == Elements(ordered) \cup seen

RoutesGiveWay ==
    stage \in {"url", "render", "done"} =>
        \A s, r \in Left :
            s.source = "Service" /\ s.host # NoHost /\ r.source # "Service" =>
                Address(s) # Address(r)

(* No two have one URL. *)
URLsDiffer ==
    stage \in {"render", "done"} =>
        /\ \A i, j \in DOMAIN ordered : i # j => URLOf(ordered[i]) # URLOf(ordered[j])
        /\ \A i \in DOMAIN ordered, s \in seen : URLOf(ordered[i]) # URLOf(s)
        /\ \A s, t \in seen : s # t => URLOf(s) # URLOf(t)

(* No two rendered endpoints have one group and name. *)
NamesDiffer ==
    \A i, j \in DOMAIN rendered :
        i # j => GroupKey(rendered[i].from) # GroupKey(rendered[j].from)

(* By its URL before the patch. *)
Replaces(o, ep) == Checks(URLOf(o), ep)

(* No endpoint is dropped unless another checks what it asks for. *)
NothingIsLost ==
    stage \in {"workload", "url", "render", "done"} /\ warnings = {} /\ OnePortPerHost =>
        \A ep \in Elements(snapshot) : \E o \in Left : Replaces(o, ep)

RenderInv ==
    /\ TypeInv
    /\ ServicesFirst
    /\ RoutesGiveWay
    /\ URLsDiffer
    /\ NamesDiffer
    /\ NothingIsLost

-----------------------------------------------------------------------------
(* What the operators of the stages return. *)

LEMMA ElementsOf == ASSUME NEW S, NEW s \in Seq(S) PROVE Elements(s) \subseteq S
BY ElementOfSeq, LenProperties DEF Elements

LEMMA SortedElements ==
    ASSUME NEW S, NEW s \in Seq(S), NEW key \in [DOMAIN s -> Keys]
    PROVE  /\ StableSort(s, key) \in Seq(S)
           /\ Elements(StableSort(s, key)) = Elements(s)
<1>1. PICK n \in Nat : n = Len(s)
  BY LenProperties
<1>2. DOMAIN s = 1..n /\ s \in [1..n -> S]
  BY <1>1, LenProperties
<1>3. key \in [1..n -> Keys]
  BY <1>2
<1>4. PICK place : IsSorting(n, s, key, place)
  BY <1>2, <1>3, Sorts
<1>5. DOMAIN StableSort(s, key) = 1..n
  BY <1>2 DEF StableSort
<1>6. StableSort(s, key) = [p \in 1..n |-> s[place[p]]]
  BY <1>2, <1>4 DEF StableSort, IsSorting
<1>7. [p \in 1..n |-> s[place[p]]] \in [1..n -> S]
  BY <1>2, <1>4 DEF IsSorting
<1>8. StableSort(s, key) \in Seq(S)
  BY <1>6, <1>7, SeqDef
<1>9. /\ \A p \in 1..n : place[p] \in 1..n /\ StableSort(s, key)[p] = s[place[p]]
      /\ \A i \in 1..n : \E p \in 1..n : place[p] = i
  BY <1>4 DEF IsSorting
<1>10. ASSUME NEW p \in 1..n PROVE StableSort(s, key)[p] \in Elements(s)
  BY <1>2, <1>9 DEF Elements
<1>11. ASSUME NEW i \in 1..n PROVE s[i] \in Elements(StableSort(s, key))
  <2>1. PICK p \in 1..n : place[p] = i
    BY <1>9
  <2>2. StableSort(s, key)[p] = s[i]
    BY <1>9, <2>1
  <2> QED
    BY <1>5, <2>2 DEF Elements
<1>12. /\ Elements(s) = {s[i] : i \in 1..n}
       /\ Elements(StableSort(s, key)) = {StableSort(s, key)[p] : p \in 1..n}
  BY <1>2, <1>5 DEF Elements
<1> QED
  BY <1>8, <1>10, <1>11, <1>12

LEMMA KeptElements ==
    ASSUME NEW S, NEW s \in Seq(S), NEW keep, keep \subseteq DOMAIN s
    PROVE  /\ Subsequence(s, keep) \in Seq(S)
           /\ Elements(Subsequence(s, keep)) = {s[i] : i \in keep}
<1>1. Subsequence(s, keep) \in Seq(S)
  BY Keeps
<1>2. PICK n, place : IsKeeping(n, s, keep, place)
  BY Keeps
<1>3. DOMAIN Subsequence(s, keep) = 1..n /\ \A p \in 1..n : Subsequence(s, keep)[p] = s[place[p]]
  BY <1>2 DEF IsKeeping
<1>4. ASSUME NEW p \in 1..n PROVE Subsequence(s, keep)[p] \in {s[i] : i \in keep}
  BY <1>2, <1>3 DEF IsKeeping
<1>5. ASSUME NEW i \in keep PROVE s[i] \in Elements(Subsequence(s, keep))
  <2>1. PICK p \in 1..n : place[p] = i
    BY <1>2 DEF IsKeeping
  <2> QED
    BY <1>3, <2>1 DEF Elements
<1>6. Elements(Subsequence(s, keep)) = {Subsequence(s, keep)[p] : p \in 1..n}
  BY <1>3 DEF Elements
<1> QED
  BY <1>1, <1>4, <1>5, <1>6

LEMMA KeysOK ==
    ASSUME NEW ep, IsEndpoint(ep)
    PROVE  RegistryKey(ep) \in Keys /\ DedupKey(ep) \in Keys
<1>1. KindRank[ep.source] \in Nat /\ Priority(ep.source) \in Nat
  BY DEF IsEndpoint, KindRank, Priority
<1>2. ep.ref \in Nat /\ ep.name \in Nat
  BY DEF IsEndpoint
<1> QED
  BY <1>1, <1>2 DEF RegistryKey, DedupKey, Keys

LEMMA OutputKeyOK == ASSUME NEW object PROVE OutputKey(object) \in Keys
<1>1. ASSUME NEW f PROVE FieldOr0(object, f) \in Nat
  BY DEF FieldOr0
<1> QED
  BY <1>1 DEF OutputKey, Keys

(* A URL is at the first of its indices. *)
LEMMA FirstIs ==
    ASSUME NEW n \in Nat, NEW urls, NEW i \in 1..n
    PROVE  /\ First(urls, i) \in 1..i
           /\ urls[First(urls, i)] = urls[i]
           /\ \A k \in 1..(First(urls, i) - 1) : urls[k] # urls[i]
<1> DEFINE T == {j \in 1..i : urls[j] = urls[i]}
<1>1. T \subseteq Nat /\ i \in T
  OBVIOUS
<1>2. PICK j \in T : \A k \in T : j <= k
  BY <1>1, LeastNatural
<1>3. \A k \in 1..(j - 1) : urls[k] # urls[i]
  BY <1>2
<1>4. \E m \in 1..i : urls[m] = urls[i] /\ \A k \in 1..(m - 1) : urls[k] # urls[i]
  BY <1>2, <1>3
<1> QED
  BY <1>4, Zenon DEF First

LEMMA FirstIsFirst ==
    ASSUME NEW n \in Nat, NEW urls, NEW i \in 1..n
    PROVE  /\ First(urls, First(urls, i)) = First(urls, i)
           /\ \A j \in 1..n : urls[i] = urls[j] => First(urls, i) = First(urls, j)
<1>1. ASSUME NEW j \in 1..n, NEW k \in 1..n, urls[j] = urls[k]
      PROVE  First(urls, j) = First(urls, k)
  <2>1. PICK a \in 1..j : a = First(urls, j)
    BY FirstIs
  <2>2. PICK b \in 1..k : b = First(urls, k)
    BY FirstIs
  <2>3. urls[a] = urls[b] /\ urls[a] = urls[k] /\ urls[b] = urls[j]
    BY <1>1, <2>1, <2>2, FirstIs
  <2>4. ~(a < b)
    <3>1. \A m \in 1..(b - 1) : urls[m] # urls[k]
      BY <2>2, FirstIs
    <3> QED
      BY <2>3, <3>1
  <2>5. ~(b < a)
    <3>1. \A m \in 1..(a - 1) : urls[m] # urls[j]
      BY <2>1, FirstIs
    <3> QED
      BY <2>3, <3>1
  <2> QED
    BY <2>1, <2>2, <2>4, <2>5
<1>2. First(urls, i) \in 1..n /\ urls[First(urls, i)] = urls[i]
  <2>1. PICK a \in 1..i : a = First(urls, i)
    BY FirstIs
  <2>2. a \in 1..n
    OBVIOUS
  <2> QED
    BY <2>1, <2>2, FirstIs
<1> QED
  BY <1>1, <1>2

(* Templates and endpoints say the same as long as the templates stay. *)
LEMMA TemplatesStay ==
    ASSUME templates' = templates, NEW ep
    PROVE  /\ ResolveScheme(ep)' = ResolveScheme(ep)
           /\ URLOf(ep)' = URLOf(ep)
<1>1. ASSUME NEW t PROVE SchemeOf(t)' = SchemeOf(t)
  BY DEF SchemeOf
<1>2. ASSUME NEW names PROVE LastScheme(names)' = LastScheme(names)
  <2>1. {i \in DOMAIN names : SchemeOf(names[i]) # NoScheme}'
            = {i \in DOMAIN names : SchemeOf(names[i]) # NoScheme}
    BY <1>1
  <2> QED
    BY <1>1, <2>1 DEF LastScheme
<1>3. ResolveScheme(ep)' = ResolveScheme(ep)
  BY <1>2 DEF ResolveScheme
<1> QED
  BY <1>3 DEF URLOf

LEMMA DefaultsAreListed ==
    ASSUME IsFiniteSet(DOMAIN templates), NEW scheme
    PROVE  \E T : DefaultsFor(scheme) \in Seq(T)
<1> DEFINE S == {t \in DOMAIN templates : scheme \in templates[t].defaultFor}
<1>1. IsFiniteSet(S)
  BY FS_Subset
<1>2. PICK n \in Nat : n = Cardinality(S)
  BY <1>1, FS_CardinalityType
<1> DEFINE T == {InOrder(S)[p] : p \in 1..n}
<1>3. InOrder(S) \in [1..n -> T]
  <2> HIDE DEF S
  <2> QED
    BY <1>2 DEF InOrder
<1>4. InOrder(S) \in Seq(T)
  <2> HIDE DEF S, T
  <2> QED
    BY <1>3, SeqDef
<1> QED
  BY <1>4 DEF DefaultsFor

LEMMA NamesAreListed ==
    ASSUME IsFiniteSet(DOMAIN templates), NEW ep, IsEndpoint(ep), NEW scheme
    PROVE  \E T : /\ TemplateNames(ep, scheme) \in Seq(T)
                  /\ ep.extra \in Seq(T)
                  /\ ep.templates = NoTemplates => DefaultsFor(scheme) \in Seq(T)
                  /\ ep.templates # NoTemplates => ep.templates \in Seq(T)
<1>1. PICK D : DefaultsFor(scheme) \in Seq(D)
  BY DefaultsAreListed
<1> DEFINE T == Nat \cup D
           first == IF ep.templates = NoTemplates THEN DefaultsFor(scheme) ELSE ep.templates
<1>2. Nat \subseteq T /\ D \subseteq T
  OBVIOUS
<1>3. ep.extra \in Seq(Nat) /\ (ep.templates # NoTemplates => ep.templates \in Seq(Nat))
  BY DEF IsEndpoint
<1> HIDE DEF T
<1>4. ep.extra \in Seq(T) /\ DefaultsFor(scheme) \in Seq(T)
  BY <1>1, <1>2, <1>3, SeqMonotonic
<1>5. ep.templates # NoTemplates => ep.templates \in Seq(T)
  BY <1>2, <1>3, SeqMonotonic
<1>6. first \in Seq(T)
  BY <1>4, <1>5
<1> HIDE DEF first
<1>7. first \o ep.extra \in Seq(T)
  BY <1>4, <1>6, ConcatProperties
<1>8. TemplateNames(ep, scheme) \in Seq(T)
  BY <1>7 DEF TemplateNames, first
<1> QED
  BY <1>4, <1>5, <1>8

(* How often a template is named. *)
Count(names, t) == Cardinality({i \in DOMAIN names : names[i] = t})

LEMMA NamesAreCounted ==
    ASSUME IsFiniteSet(DOMAIN templates), NEW ep, IsEndpoint(ep), NEW scheme, NEW t
    PROVE  Count(TemplateNames(ep, scheme), t) \in Nat
<1>1. PICK names : names = TemplateNames(ep, scheme)
  OBVIOUS
<1>2. PICK T : names \in Seq(T)
  BY <1>1, NamesAreListed
<1>3. PICK n \in Nat : DOMAIN names = 1..n
  BY <1>2, LenProperties
<1>4. IsFiniteSet(DOMAIN names)
  BY <1>3, FS_Interval
<1>5. IsFiniteSet({i \in DOMAIN names : names[i] = t})
  BY <1>4, FS_Subset
<1> QED
  BY <1>1, <1>5, FS_CardinalityType DEF Count

(* The head of a sequence, and what follows it. *)
LEMMA HeadAndTail ==
    ASSUME NEW S, NEW s \in Seq(S), s # <<>>
    PROVE  /\ Head(s) = s[1] /\ 1 \in DOMAIN s /\ Head(s) \in S
           /\ Tail(s) \in Seq(S)
           /\ \A i \in DOMAIN Tail(s) : i + 1 \in DOMAIN s /\ Tail(s)[i] = s[i + 1]
           /\ Elements(s) = {Head(s)} \cup Elements(Tail(s))
<1>1. PICK n \in Nat : n = Len(s)
  BY LenProperties
<1>2. DOMAIN s = 1..n /\ n # 0
  <2>1. Len(s) \in Nat \ {0}
    BY EmptySeq
  <2> QED
    BY <1>1, <2>1, LenProperties
<1>3. /\ Head(s) \in S
      /\ Tail(s) \in Seq(S)
      /\ Len(Tail(s)) = n - 1
      /\ \A i \in 1..(n - 1) : Tail(s)[i] = s[i + 1]
  BY <1>1, HeadTailProperties
<1>4. DOMAIN Tail(s) = 1..(n - 1)
  BY <1>3, LenProperties
<1>5. Head(s) = s[1]
  OBVIOUS
<1>6. \A i \in 1..n : i = 1 \/ (i - 1 \in 1..(n - 1) /\ (i - 1) + 1 = i)
  OBVIOUS
<1>7. \A i \in 1..n : i = 1 \/ s[i] = Tail(s)[i - 1]
  BY <1>3, <1>6
<1>8. Elements(s) \subseteq {Head(s)} \cup Elements(Tail(s))
  <2> SUFFICES ASSUME NEW i \in 1..n
               PROVE  s[i] \in {Head(s)} \cup Elements(Tail(s))
    BY <1>2 DEF Elements
  <2>1. CASE i = 1
    BY <1>5, <2>1
  <2>2. CASE i # 1
    <3>1. i - 1 \in DOMAIN Tail(s) /\ s[i] = Tail(s)[i - 1]
      BY <1>4, <1>6, <1>7, <2>2
    <3> QED
      BY <3>1 DEF Elements
  <2> QED
    BY <2>1, <2>2
<1>9. {Head(s)} \cup Elements(Tail(s)) \subseteq Elements(s)
  BY <1>2, <1>3, <1>4, <1>5 DEF Elements
<1> QED
  BY <1>2, <1>3, <1>4, <1>5, <1>8, <1>9

LEMMA Appended ==
    ASSUME NEW S, NEW s \in Seq(S), NEW x
    PROVE  /\ Elements(Append(s, x)) = Elements(s) \cup {x}
           /\ \A i \in DOMAIN Append(s, x) :
                 \/ i \in DOMAIN s /\ Append(s, x)[i] = s[i]
                 \/ i = Len(s) + 1 /\ Append(s, x)[i] = x
<1>1. PICK n \in Nat : n = Len(s)
  BY LenProperties
<1>2. DOMAIN s = 1..n
  BY <1>1, LenProperties
<1> DEFINE T == S \cup {x}
<1>3. s \in Seq(T)
  BY SeqMonotonic
<1>4. /\ Append(s, x) \in Seq(T) /\ Len(Append(s, x)) = n + 1
      /\ \A i \in 1..n : Append(s, x)[i] = s[i]
      /\ Append(s, x)[n + 1] = x
  <2> x \in T
    OBVIOUS
  <2> HIDE DEF T
  <2> QED
    BY <1>1, <1>3, AppendProperties
<1>5. DOMAIN Append(s, x) = 1..(n + 1)
  BY <1>4, LenProperties
<1>6. \A i \in 1..(n + 1) : i \in 1..n \/ i = n + 1
  OBVIOUS
<1>7. Elements(Append(s, x)) \subseteq Elements(s) \cup {x}
  BY <1>2, <1>4, <1>5, <1>6 DEF Elements
<1>8. Elements(s) \cup {x} \subseteq Elements(Append(s, x))
  BY <1>2, <1>4, <1>5 DEF Elements
<1> QED
  BY <1>1, <1>2, <1>4, <1>5, <1>6, <1>7, <1>8

-----------------------------------------------------------------------------
(* Layers. *)

LEMMA MaxIs ==
    ASSUME NEW k \in Nat, NEW S, S \subseteq 1..k, S # {}
    PROVE  Max(S) \in S /\ \A j \in S : j <= Max(S)
<1> DEFINE T == {k - i : i \in S}
<1>1. T \subseteq Nat /\ T # {}
  <2>1. \A i \in S : k - i \in Nat
    OBVIOUS
  <2> QED
    BY <2>1
<1>2. PICK x \in T : \A y \in T : x <= y
  BY <1>1, LeastNatural
<1>3. PICK m \in S : x = k - m
  BY <1>2
<1>4. \A j \in S : m >= j
  <2> SUFFICES ASSUME NEW j \in S PROVE m >= j
    OBVIOUS
  <2>1. k - j \in T
    OBVIOUS
  <2> QED
    BY <1>2, <1>3, <2>1
<1>5. Max(S) \in S /\ \A j \in S : Max(S) >= j
  BY <1>3, <1>4, Zenon DEF Max
<1> QED
  BY <1>5

(* The first k of the templates named, and those of them that set a field. *)
Setters(names, k, f) ==
    {i \in 1..k : Resolves(names[i]) /\ f \in DOMAIN templates[names[i]].body}
FieldsUpTo(names, k) ==
    UNION {DOMAIN templates[names[i]].body : i \in {j \in 1..k : Resolves(names[j])}}
LayeredUpTo(names, k) ==
    [f \in FieldsUpTo(names, k) |-> templates[names[Max(Setters(names, k, f))]].body[f]]

LEMMA FieldsAreSet ==
    ASSUME NEW names, NEW k \in Nat, NEW f
    PROVE  f \in FieldsUpTo(names, k) <=> Setters(names, k, f) # {}
BY DEF FieldsUpTo, Setters

(* One more template does what mergeInto does with it. *)
LEMMA LayersGrow ==
    ASSUME NEW names, NEW k \in Nat, k # 0
    PROVE  LayeredUpTo(names, k) =
               IF Resolves(names[k])
                 THEN Merge(LayeredUpTo(names, k - 1), templates[names[k]].body)
                 ELSE LayeredUpTo(names, k - 1)
<1> DEFINE body == templates[names[k]].body
<1>1. 1..k = 1..(k - 1) \cup {k} /\ k \notin 1..(k - 1) /\ k - 1 \in Nat
  OBVIOUS
<1>2. ASSUME NEW f, ~(Resolves(names[k]) /\ f \in DOMAIN body)
      PROVE  Setters(names, k, f) = Setters(names, k - 1, f)
  BY <1>1, <1>2 DEF Setters
<1>3. ASSUME NEW f, Resolves(names[k]), f \in DOMAIN body
      PROVE  Max(Setters(names, k, f)) = k
  <2>1. Setters(names, k, f) \subseteq 1..k /\ k \in Setters(names, k, f)
    BY <1>1, <1>3 DEF Setters
  <2>2. /\ Max(Setters(names, k, f)) \in Setters(names, k, f)
        /\ k <= Max(Setters(names, k, f))
    BY <2>1, MaxIs
  <2>3. Max(Setters(names, k, f)) \in 1..k
    BY <2>1, <2>2
  <2> QED
    BY <2>2, <2>3
<1>4. CASE ~Resolves(names[k])
  <2>1. FieldsUpTo(names, k) = FieldsUpTo(names, k - 1)
    BY <1>1, <1>4 DEF FieldsUpTo
  <2>2. \A f : Setters(names, k, f) = Setters(names, k - 1, f)
    BY <1>2, <1>4
  <2> QED
    BY <1>4, <2>1, <2>2 DEF LayeredUpTo
<1>5. CASE Resolves(names[k])
  <2>1. FieldsUpTo(names, k) = FieldsUpTo(names, k - 1) \cup DOMAIN body
    BY <1>1, <1>5 DEF FieldsUpTo
  <2>2. \A f \in FieldsUpTo(names, k) :
            LayeredUpTo(names, k)[f] = IF f \in DOMAIN body THEN body[f]
                                       ELSE LayeredUpTo(names, k - 1)[f]
    <3> SUFFICES ASSUME NEW f \in FieldsUpTo(names, k)
                 PROVE  LayeredUpTo(names, k)[f] = IF f \in DOMAIN body THEN body[f]
                                                   ELSE LayeredUpTo(names, k - 1)[f]
      OBVIOUS
    <3>1. CASE f \in DOMAIN body
      BY <1>3, <1>5, <3>1 DEF LayeredUpTo
    <3>2. CASE f \notin DOMAIN body
      <4>1. f \in FieldsUpTo(names, k - 1)
        BY <2>1, <3>2
      <4>2. Setters(names, k, f) = Setters(names, k - 1, f)
        BY <1>2, <3>2
      <4> QED
        BY <3>2, <4>1, <4>2 DEF LayeredUpTo
    <3> QED
      BY <3>1, <3>2
  <2>3. DOMAIN LayeredUpTo(names, k) = FieldsUpTo(names, k)
    BY DEF LayeredUpTo
  <2>4. DOMAIN LayeredUpTo(names, k - 1) = FieldsUpTo(names, k - 1)
    BY DEF LayeredUpTo
  <2>5. LayeredUpTo(names, k) = [f \in FieldsUpTo(names, k) |-> LayeredUpTo(names, k)[f]]
    BY DEF LayeredUpTo
  <2> HIDE DEF body
  <2>6. Merge(LayeredUpTo(names, k - 1), body) =
            [f \in FieldsUpTo(names, k) |-> IF f \in DOMAIN body THEN body[f]
                                            ELSE LayeredUpTo(names, k - 1)[f]]
    BY <2>1, <2>4 DEF Merge
  <2>7. LayeredUpTo(names, k) = Merge(LayeredUpTo(names, k - 1), body)
    BY <2>2, <2>5, <2>6
  <2> QED
    BY <1>5, <2>7 DEF body
<1> QED
  BY <1>4, <1>5

LEMMA NoLayers == ASSUME NEW names PROVE LayeredUpTo(names, 0) = EmptyObject
<1>1. FieldsUpTo(names, 0) = {}
  BY DEF FieldsUpTo
<1> QED
  BY <1>1 DEF LayeredUpTo, EmptyObject

(* The loop of ResolveMany ends with each field as its last setter has it. *)
LEMMA MergedIsLayered ==
    ASSUME NEW names, Len(names) \in Nat
    PROVE  MergedTemplates(names) = LayeredUpTo(names, Len(names))
<1> DEFINE n == Len(names)
           Loop(g) == [k \in 0..n |->
                         IF k = 0 THEN EmptyObject
                         ELSE IF Resolves(names[k]) THEN Merge(g[k - 1], templates[names[k]].body)
                         ELSE g[k - 1]]
           M == [k \in 0..n |-> LayeredUpTo(names, k)]
<1>1. M = Loop(M)
  <2>1. \A k \in 0..n : k # 0 => k - 1 \in 0..n
    OBVIOUS
  <2>2. \A k \in 0..n : M[k] = LayeredUpTo(names, k)
    OBVIOUS
  <2>3. \A k \in 0..n : M[k] = Loop(M)[k]
    <3> SUFFICES ASSUME NEW k \in 0..n
                 PROVE  M[k] = Loop(M)[k]
      OBVIOUS
    <3> HIDE DEF M
    <3>1. CASE k = 0
      BY <2>2, <3>1, NoLayers
    <3>2. CASE k # 0
      BY <2>1, <2>2, <3>2, LayersGrow
    <3> QED
      BY <3>1, <3>2
  <2> QED
    BY <2>3
<1>2. ASSUME NEW g, g = Loop(g)
      PROVE  g = M
  <2> DEFINE T == {k \in 0..n : g[k] # LayeredUpTo(names, k)}
  <2>1. ASSUME T # {} PROVE FALSE
    <3>1. T \subseteq Nat
      OBVIOUS
    <3>2. PICK k \in T : \A j \in T : k <= j
      BY <2>1, <3>1, LeastNatural
    <3>3. k \in 0..n /\ g[k] # LayeredUpTo(names, k)
      OBVIOUS
    <3>4. g[k] = Loop(g)[k]
      BY <1>2
    <3>5. CASE k = 0
      BY <3>3, <3>4, <3>5, NoLayers
    <3>6. CASE k # 0
      <4>1. k - 1 \in 0..n /\ k - 1 \notin T
        BY <3>2, <3>3, <3>6
      <4>2. g[k - 1] = LayeredUpTo(names, k - 1)
        BY <4>1
      <4> QED
        BY <3>3, <3>4, <3>6, <4>2, LayersGrow
    <3> QED
      BY <3>5, <3>6
  <2>2. \A k \in 0..n : g[k] = LayeredUpTo(names, k)
    BY <2>1
  <2>3. g = [k \in 0..n |-> g[k]]
    <3>1. PICK h : h = Loop(g)
      OBVIOUS
    <3>2. h = [k \in 0..n |-> h[k]]
      BY <3>1
    <3> QED
      BY <1>2, <3>1, <3>2
  <2> QED
    BY <2>2, <2>3
<1>3. (CHOOSE g : g = Loop(g)) = M
  <2> HIDE DEF Loop, M
  <2> QED
    BY <1>1, <1>2, Zenon
<1>4. MergedTemplates(names) = (CHOOSE g : g = Loop(g))[n]
  BY DEF MergedTemplates
<1>5. M[n] = LayeredUpTo(names, n)
  OBVIOUS
<1> QED
  BY <1>3, <1>4, <1>5

(* MergedIsLayered, in a form to use of the next state. *)
MergedLayered ==
    \A names : Len(names) \in Nat => MergedTemplates(names) = LayeredUpTo(names, Len(names))

LEMMA MergedIsAlwaysLayered == []MergedLayered
<1>1. MergedLayered
  BY MergedIsLayered DEF MergedLayered
<1> QED
  BY <1>1, PTL

LEMMA NamesHaveLength ==
    ASSUME IsFiniteSet(DOMAIN templates), NEW ep, IsEndpoint(ep), NEW scheme
    PROVE  Len(TemplateNames(ep, scheme)) \in Nat
<1>1. PICK T : TemplateNames(ep, scheme) \in Seq(T)
  BY NamesAreListed
<1> QED
  BY <1>1, LenProperties

LEMMA RenderingStays ==
    ASSUME templates' = templates, IsFiniteSet(DOMAIN templates), NEW ep, IsEndpoint(ep)
    PROVE  RenderOne(ep)' = RenderOne(ep)
<1>0. MergedLayered'
  BY MergedIsAlwaysLayered, PTL
<1>1. ResolveScheme(ep)' = ResolveScheme(ep) /\ URLOf(ep)' = URLOf(ep)
  BY TemplatesStay
<1>2. ASSUME NEW scheme PROVE TemplateNames(ep, scheme)' = TemplateNames(ep, scheme)
  BY DEF TemplateNames, DefaultsFor
<1>3. PICK names : names = TemplateNames(ep, ResolveScheme(ep))
  OBVIOUS
<1>4. names = TemplateNames(ep, ResolveScheme(ep))'
  BY <1>1, <1>2, <1>3
<1>5. Len(names) \in Nat
  BY <1>3, NamesHaveLength
<1>6. MergedTemplates(names) = LayeredUpTo(names, Len(names))
  BY <1>5, MergedIsLayered
<1>7. MergedTemplates(names)' = LayeredUpTo(names, Len(names))'
  BY <1>0, <1>5 DEF MergedLayered
<1>8. LayeredUpTo(names, Len(names))' = LayeredUpTo(names, Len(names))
  <2>1. ASSUME NEW f PROVE Setters(names, Len(names), f)' = Setters(names, Len(names), f)
    BY DEF Setters, Resolves
  <2>2. FieldsUpTo(names, Len(names))' = FieldsUpTo(names, Len(names))
    BY DEF FieldsUpTo, Resolves
  <2> QED
    BY <2>1, <2>2 DEF LayeredUpTo
<1>9. MergedTemplates(names)' = MergedTemplates(names)
  BY <1>6, <1>7, <1>8
<1>10. Identity(ep)' = Identity(ep)
  BY <1>1 DEF Identity
<1>11. RenderOne(ep) = Merge(Merge(MergedTemplates(names), Identity(ep)), ep.patch)
  BY <1>3 DEF RenderOne
<1>12. RenderOne(ep)' = Merge(Merge(MergedTemplates(names)', Identity(ep)'), ep.patch)
  BY <1>4 DEF RenderOne
<1> QED
  BY <1>9, <1>10, <1>11, <1>12

-----------------------------------------------------------------------------
(* Types. *)

LEMMA TypeInit == Init => TypeInv
<1> SUFFICES ASSUME Init PROVE TypeInv
  OBVIOUS
<1>1. snapshot = <<>> /\ ordered = <<>> /\ rendered = <<>> /\ seen = {} /\ warnings = {}
  BY DEF Init
<1>2. Elements(snapshot) = {} /\ Elements(rendered) = {}
  BY <1>1 DEF Elements
<1>3. DOMAIN templates = {} /\ DOMAIN usage = {}
  BY DEF Init, EmptyObject
<1>4. InputOK
  BY <1>1, <1>2, <1>3, EmptySeq, FS_EmptySet DEF InputOK
<1>5. StageOK
  BY <1>1 DEF Init, StageOK
<1>6. ordered \in Seq(Elements(snapshot)) /\ rendered \in Seq(Records)
  BY <1>1, EmptySeq
<1> QED
  BY <1>1, <1>2, <1>3, <1>4, <1>5, <1>6 DEF TypeInv, Origins

LEMMA RecordsStay ==
    ASSUME InputOK, UNCHANGED inputVars
    PROVE  Records' = Records
<1>1. templates' = templates /\ snapshot' = snapshot /\ IsFiniteSet(DOMAIN templates)
  BY DEF inputVars, InputOK
<1>2. \A ep \in Elements(snapshot) : RenderOne(ep)' = RenderOne(ep)
  <2> SUFFICES ASSUME NEW ep \in Elements(snapshot) PROVE RenderOne(ep)' = RenderOne(ep)
    OBVIOUS
  <2>1. IsEndpoint(ep)
    BY DEF InputOK
  <2> QED
    BY <1>1, <2>1, RenderingStays
<1>3. Elements(snapshot)' = Elements(snapshot)
  BY <1>1
<1> QED
  BY <1>2, <1>3 DEF Records

LEMMA InputStays ==
    ASSUME InputOK, UNCHANGED inputVars
    PROVE  InputOK'
BY DEF InputOK, inputVars, Elements

LEMMA SnapshotIs ==
    ASSUME NEW input \in Inputs
    PROVE  LET E == Elements(input.endpoints)
           IN  /\ SnapshotOf(input.endpoints) \in Seq(E)
               /\ Elements(SnapshotOf(input.endpoints)) = E
               /\ \A ep \in E : IsEndpoint(ep)
<1>1. PICK eps : eps = input.endpoints
  OBVIOUS
<1>2. eps \in Seq(Elements(eps)) /\ \A ep \in Elements(eps) : IsEndpoint(ep)
  BY <1>1, InputsAssumption
<1> DEFINE key == [i \in DOMAIN eps |-> RegistryKey(eps[i])]
<1>3. key \in [DOMAIN eps -> Keys]
  <2>1. \A i \in DOMAIN eps : eps[i] \in Elements(eps)
    BY DEF Elements
  <2> QED
    BY <1>2, <2>1, KeysOK
<1>4. SnapshotOf(eps) = StableSort(eps, key)
  BY DEF SnapshotOf
<1> HIDE DEF key
<1>5. StableSort(eps, key) \in Seq(Elements(eps)) /\ Elements(StableSort(eps, key)) = Elements(eps)
  BY <1>2, <1>3, SortedElements
<1> QED
  BY <1>1, <1>2, <1>4, <1>5

LEMMA DedupOrder ==
    ASSUME InputOK
    PROVE  /\ [i \in DOMAIN snapshot |-> DedupKey(snapshot[i])] \in [DOMAIN snapshot -> Keys]
           /\ SortForDedup(snapshot) \in Seq(Elements(snapshot))
           /\ Elements(SortForDedup(snapshot)) = Elements(snapshot)
<1>1. \A i \in DOMAIN snapshot : DedupKey(snapshot[i]) \in Keys
  <2>1. \A i \in DOMAIN snapshot : snapshot[i] \in Elements(snapshot)
    BY DEF Elements
  <2> QED
    BY <2>1, KeysOK DEF InputOK
<1>2. [i \in DOMAIN snapshot |-> DedupKey(snapshot[i])] \in [DOMAIN snapshot -> Keys]
  BY <1>1
<1> QED
  BY <1>2, SortedElements DEF SortForDedup, InputOK

(* What DedupByURL does: the first endpoint with a URL stays. *)
OrderedURLs == [i \in DOMAIN ordered |-> URLOf(ordered[i])]
Firsts == {i \in DOMAIN ordered : First(OrderedURLs, i) = i}

LEMMA DedupByURLDoes ==
    ASSUME DedupByURL
    PROVE  /\ Firsts \subseteq DOMAIN ordered
           /\ ordered' = Subsequence(ordered, Firsts)
           /\ \A w \in warnings' : \E i \in DOMAIN ordered :
                 w.about = ordered[i] /\ w.because = ordered[First(OrderedURLs, i)]
<1> DEFINE urls == [i \in DOMAIN ordered |-> URLOf(ordered[i])]
           dropped == {i \in DOMAIN ordered : First(urls, i) # i}
           reported == {d \in dropped : ~SameObject(ordered[First(urls, d)], ordered[d])}
<1>1. /\ ordered' = Subsequence(ordered, DOMAIN ordered \ dropped)
      /\ warnings' = {Warning("url", ordered[i], ordered[First(urls, i)]) : i \in reported}
  BY DEF DedupByURL
<1>2. DOMAIN ordered \ dropped = Firsts
  BY DEF Firsts, OrderedURLs
<1>3. urls = OrderedURLs /\ reported \subseteq DOMAIN ordered
  BY DEF OrderedURLs
<1> HIDE DEF urls, dropped, reported
<1>4. \A w \in warnings' : \E i \in DOMAIN ordered :
          w.about = ordered[i] /\ w.because = ordered[First(urls, i)]
  BY <1>1, <1>3 DEF Warning
<1> QED
  BY <1>1, <1>2, <1>3, <1>4 DEF Firsts

(* What RenderNext does, with the rendered endpoint named. *)
LEMMA RenderNextDoes ==
    ASSUME TypeInv, RenderNext, NEW ep, ep = Head(ordered)
    PROVE  /\ ep \in Elements(snapshot) /\ IsEndpoint(ep)
           /\ ordered # <<>> /\ ordered' = Tail(ordered)
           /\ Elements(ordered) = {ep} \cup Elements(ordered')
           /\ stage = "render" /\ stage' = "render" /\ UNCHANGED inputVars
           /\ \/ /\ \A s \in seen : GroupKey(s) # GroupKey(ep)
                 /\ rendered' = Append(rendered, [from |-> ep, object |-> RenderOne(ep)])
                 /\ seen' = seen \cup {ep}
              \/ /\ \E s \in seen : GroupKey(s) = GroupKey(ep)
                 /\ rendered' = rendered
                 /\ seen' = seen
           /\ \A w \in warnings' :
                 \/ w \in warnings
                 \/ w.kind = "template" /\ w.about = ep
                 \/ w.kind = "name" /\ w.about = ep /\ w.because \in seen
           /\ warnings \subseteq warnings'
           /\ \A s \in seen : GroupKey(s) = GroupKey(ep) /\ ~SameWorkload(s, ep) =>
                 Warning("name", ep, s) \in warnings'
<1>1. ordered \in Seq(Elements(snapshot)) /\ ordered # <<>> /\ ordered' = Tail(ordered)
  BY DEF TypeInv, RenderNext
<1>2. ep \in Elements(snapshot) /\ Elements(ordered) = {ep} \cup Elements(ordered')
  BY <1>1, HeadAndTail
<1>3. IsEndpoint(ep)
  BY <1>2 DEF TypeInv, InputOK
<1>4. stage = "render" /\ stage' = "render" /\ UNCHANGED inputVars
  BY DEF RenderNext
<1> DEFINE clashes == {s \in seen : GroupKey(s) = GroupKey(ep)}
<1>5. IF clashes = {}
        THEN /\ rendered' = Append(rendered, [from |-> ep, object |-> RenderOne(ep)])
             /\ seen' = seen \cup {ep}
        ELSE rendered' = rendered /\ seen' = seen
  BY DEF RenderNext
<1> DEFINE unresolved(e) == {n \in Elements(TemplateNames(e, ResolveScheme(e))) : ~Resolves(n)}
           added(e) == {Warning("template", e, n) : n \in unresolved(e)}
                       \cup {Warning("name", e, prev) :
                               prev \in {s \in {t \in seen : GroupKey(t) = GroupKey(e)} :
                                           ~SameWorkload(s, e)}}
<1>6. warnings' = warnings \cup added(Head(ordered))
  BY DEF RenderNext
<1>7. warnings' = warnings \cup added(ep)
  <2> HIDE DEF added
  <2> QED
    BY <1>6
<1>8. \A w \in warnings' :
          \/ w \in warnings
          \/ w.kind = "template" /\ w.about = ep
          \/ w.kind = "name" /\ w.about = ep /\ w.because \in seen
  BY <1>7 DEF Warning
<1>9. warnings \subseteq warnings'
  BY <1>7
<1>10. \A s \in seen : GroupKey(s) = GroupKey(ep) /\ ~SameWorkload(s, ep) =>
           Warning("name", ep, s) \in warnings'
  BY <1>7
<1> QED
  BY <1>1, <1>2, <1>3, <1>4, <1>5, <1>8, <1>9, <1>10

LEMMA UsageIsCounted ==
    ASSUME TypeInv, RenderNext
    PROVE  \A t \in DOMAIN usage' : usage'[t] \in Nat
<1>1. PICK ep : ep = Head(ordered)
  OBVIOUS
<1>2. IsEndpoint(ep) /\ IsFiniteSet(DOMAIN templates)
  BY <1>1, RenderNextDoes DEF TypeInv, InputOK
<1>3. usage' = [t \in DOMAIN usage |->
                  IF Resolves(t)
                    THEN usage[t]
                         + Count(TemplateNames(Head(ordered), ResolveScheme(Head(ordered))), t)
                    ELSE usage[t]]
  BY DEF RenderNext, Count
<1>4. \A t : Count(TemplateNames(ep, ResolveScheme(ep)), t) \in Nat
  BY <1>2, NamesAreCounted
<1>5. \A t \in DOMAIN usage : usage[t] \in Nat
  BY DEF TypeInv
<1> QED
  BY <1>1, <1>3, <1>4, <1>5

LEMMA TypeStep == TypeInv /\ [Next]_vars => TypeInv'
<1> SUFFICES ASSUME TypeInv, [Next]_vars PROVE TypeInv'
  OBVIOUS
<1>1. CASE Call
  <2>1. PICK input \in Inputs :
            /\ snapshot' = SnapshotOf(input.endpoints)
            /\ templates' = input.templates
            /\ usage' = [t \in DOMAIN input.templates |-> 0]
    BY <1>1 DEF Call
  <2>2. InputOK'
    <3>1. IsFiniteSet(DOMAIN templates')
      BY <2>1, InputsAssumption
    <3> QED
      BY <2>1, <3>1, SnapshotIs DEF InputOK
  <2>3. /\ stage = "idle" /\ stage' = "sort" /\ ordered' = ordered
        /\ seen' = seen /\ rendered' = rendered /\ warnings' = warnings
    BY <1>1 DEF Call
  <2>4. ordered = <<>> /\ seen = {} /\ rendered = <<>> /\ warnings = {}
    BY <2>3 DEF TypeInv, StageOK
  <2>5. StageOK'
    BY <2>3, <2>4 DEF StageOK
  <2>6. ordered' \in Seq(Elements(snapshot')) /\ rendered' \in Seq(Records')
    BY <2>3, <2>4, EmptySeq
  <2>7. seen' = Origins'
    BY <2>3, <2>4 DEF Origins, Elements
  <2> QED
    BY <2>1, <2>2, <2>3, <2>4, <2>5, <2>6, <2>7 DEF TypeInv
<1>2. ASSUME UNCHANGED inputVars, UNCHANGED <<seen, rendered, usage>>, StageOK',
             ordered' \in Seq(Elements(snapshot)),
             \A w \in warnings' : w.about \in Elements(snapshot)
      PROVE  TypeInv'
  <2>1. InputOK' /\ Records' = Records
    BY <1>2, InputStays, RecordsStay DEF TypeInv
  <2>2. snapshot' = snapshot
    BY <1>2 DEF inputVars
  <2>3. seen' = Origins'
    BY <1>2 DEF Origins, TypeInv
  <2> QED
    BY <1>2, <2>1, <2>2, <2>3 DEF TypeInv
<1>3. CASE Sort
  <2>1. UNCHANGED inputVars /\ UNCHANGED <<seen, rendered, usage>> /\ warnings' = warnings
    BY <1>3 DEF Sort, resultVars
  <2>2. StageOK'
    BY <1>3, <2>1 DEF Sort, TypeInv, StageOK
  <2>3. ordered' \in Seq(Elements(snapshot))
    BY <1>3, DedupOrder DEF Sort, TypeInv
  <2> QED
    BY <1>2, <2>1, <2>2, <2>3 DEF TypeInv
<1>4. CASE DedupByWorkload
  <2>1. UNCHANGED inputVars /\ UNCHANGED <<seen, rendered, usage>> /\ warnings' = warnings
    BY <1>4 DEF DedupByWorkload, resultVars
  <2>2. StageOK'
    BY <1>4, <2>1 DEF DedupByWorkload, TypeInv, StageOK
  <2>3. ordered' \in Seq(Elements(snapshot))
    <3>1. {i \in DOMAIN ordered : ~GivesWay(ordered[i], ordered)} \subseteq DOMAIN ordered
      OBVIOUS
    <3> QED
      BY <1>4, <3>1, KeptElements DEF DedupByWorkload, TypeInv
  <2> QED
    BY <1>2, <2>1, <2>2, <2>3 DEF TypeInv
<1>5. CASE DedupByURL
  <2>1. UNCHANGED inputVars /\ UNCHANGED <<seen, rendered, usage>>
    BY <1>5 DEF DedupByURL
  <2>2. StageOK'
    BY <1>5, <2>1 DEF DedupByURL, TypeInv, StageOK
  <2>3. \E keep : keep \subseteq DOMAIN ordered /\ ordered' = Subsequence(ordered, keep)
    BY <1>5, DedupByURLDoes
  <2>4. ordered' \in Seq(Elements(snapshot))
    BY <2>3, KeptElements DEF TypeInv
  <2>5. \A w \in warnings' : \E i \in DOMAIN ordered : w.about = ordered[i]
    BY <1>5, DedupByURLDoes
  <2>6. \A i \in DOMAIN ordered : ordered[i] \in Elements(snapshot)
    BY ElementOfSeq, LenProperties DEF TypeInv
  <2> QED
    BY <1>2, <2>1, <2>2, <2>4, <2>5, <2>6
<1>6. CASE RenderNext
  <2>1. PICK ep : ep = Head(ordered)
    OBVIOUS
  <2>2. /\ ep \in Elements(snapshot) /\ ordered' = Tail(ordered) /\ ordered # <<>>
        /\ stage = "render" /\ stage' = "render" /\ UNCHANGED inputVars
        /\ \A w \in warnings' : w \in warnings \/ w.about = ep
    BY <1>6, <2>1, RenderNextDoes
  <2>3. InputOK' /\ Records' = Records /\ snapshot' = snapshot
    BY <2>2, InputStays, RecordsStay DEF TypeInv, inputVars
  <2>4. StageOK'
    BY <2>2 DEF StageOK
  <2>5. ordered' \in Seq(Elements(snapshot))
    BY <2>2, HeadAndTail DEF TypeInv
  <2>6. rendered' \in Seq(Records) /\ seen' = Origins'
    <3>1. CASE rendered' = rendered /\ seen' = seen
      BY <3>1 DEF TypeInv, Origins
    <3>2. CASE /\ rendered' = Append(rendered, [from |-> ep, object |-> RenderOne(ep)])
               /\ seen' = seen \cup {ep}
      <4>1. PICK r : r = [from |-> ep, object |-> RenderOne(ep)]
        OBVIOUS
      <4>2. r \in Records /\ r.from = ep
        BY <2>2, <4>1 DEF Records
      <4>3. rendered' \in Seq(Records)
        BY <3>2, <4>1, <4>2, AppendProperties DEF TypeInv
      <4>4. Elements(rendered') = Elements(rendered) \cup {r}
        BY <3>2, <4>1, Appended DEF TypeInv
      <4> QED
        BY <3>2, <4>2, <4>3, <4>4 DEF Origins, TypeInv
    <3> QED
      BY <1>6, <2>1, <3>1, <3>2, RenderNextDoes
  <2>7. \A w \in warnings' : w.about \in Elements(snapshot)
    BY <2>2 DEF TypeInv
  <2>8. \A t \in DOMAIN usage' : usage'[t] \in Nat
    BY <1>6, UsageIsCounted
  <2> QED
    BY <2>3, <2>4, <2>5, <2>6, <2>7, <2>8 DEF TypeInv
<1>7. CASE Finish
  <2>1. /\ UNCHANGED inputVars /\ stage' = "done" /\ ordered = <<>>
        /\ ordered' = ordered /\ seen' = seen /\ usage' = usage /\ warnings' = warnings
    BY <1>7 DEF Finish
  <2>2. InputOK' /\ Records' = Records /\ snapshot' = snapshot
    BY <2>1, InputStays, RecordsStay DEF TypeInv, inputVars
  <2>3. rendered' \in Seq(Records) /\ Elements(rendered') = Elements(rendered)
    <3> DEFINE key == [i \in DOMAIN rendered |-> OutputKey(rendered[i].object)]
    <3>1. key \in [DOMAIN rendered -> Keys]
      BY OutputKeyOK
    <3>2. rendered' = StableSort(rendered, key)
      BY <1>7 DEF Finish
    <3> HIDE DEF key
    <3> QED
      BY <3>1, <3>2, SortedElements DEF TypeInv
  <2>4. seen' = Origins'
    BY <2>1, <2>3 DEF Origins, TypeInv
  <2>5. StageOK'
    BY <2>1 DEF StageOK
  <2> QED
    BY <2>1, <2>2, <2>3, <2>4, <2>5 DEF TypeInv
<1>8. CASE Return
  <2>1. stage = "done" /\ stage' = "idle" /\ ordered' = ordered /\ snapshot' = <<>>
        /\ templates' = EmptyObject /\ seen' = {} /\ rendered' = <<>>
        /\ usage' = EmptyObject /\ warnings' = {}
    BY <1>8 DEF Return
  <2>2. ordered' = <<>>
    BY <2>1 DEF TypeInv, StageOK
  <2>3. Elements(snapshot') = {} /\ Elements(rendered') = {}
    BY <2>1 DEF Elements
  <2>4. DOMAIN templates' = {} /\ DOMAIN usage' = {}
    BY <2>1 DEF EmptyObject
  <2>5. InputOK'
    BY <2>1, <2>3, <2>4, EmptySeq, FS_EmptySet DEF InputOK
  <2>6. StageOK'
    BY <2>1, <2>2 DEF StageOK
  <2>7. ordered' \in Seq(Elements(snapshot')) /\ rendered' \in Seq(Records')
    BY <2>1, <2>2, EmptySeq
  <2> QED
    BY <2>1, <2>3, <2>4, <2>5, <2>6, <2>7 DEF TypeInv, Origins
<1>9. CASE UNCHANGED vars
  <2>1. /\ UNCHANGED inputVars /\ UNCHANGED <<seen, rendered, usage>>
        /\ ordered' = ordered /\ warnings' = warnings /\ stage' = stage
    BY <1>9 DEF vars, resultVars
  <2>2. StageOK'
    BY <2>1 DEF StageOK, TypeInv
  <2> QED
    BY <1>2, <2>1, <2>2 DEF TypeInv
<1> QED
  BY <1>1, <1>3, <1>4, <1>5, <1>6, <1>7, <1>8, <1>9 DEF Next

LEMMA TypeAlways == Spec => []TypeInv
BY TypeInit, TypeStep, PTL DEF Spec

-----------------------------------------------------------------------------
(* The order of treatment. *)

LEMMA KeptInOrder ==
    ASSUME NEW S, NEW s \in Seq(S), NEW keep, keep \subseteq DOMAIN s,
           NEW p \in DOMAIN Subsequence(s, keep), NEW q \in DOMAIN Subsequence(s, keep), p < q
    PROVE  \E i, j \in keep :
               i < j /\ Subsequence(s, keep)[p] = s[i] /\ Subsequence(s, keep)[q] = s[j]
<1>1. PICK n, place : IsKeeping(n, s, keep, place)
  BY Keeps
<1>2. p \in 1..n /\ q \in 1..n
  BY <1>1 DEF IsKeeping
<1>3. PICK i \in keep, j \in keep : i = place[p] /\ j = place[q]
  BY <1>1, <1>2 DEF IsKeeping
<1>4. i < j
  BY <1>1, <1>2, <1>3 DEF IsKeeping
<1>5. Subsequence(s, keep)[p] = s[i] /\ Subsequence(s, keep)[q] = s[j]
  BY <1>1, <1>2, <1>3 DEF IsKeeping
<1> QED
  BY <1>4, <1>5

LEMMA SortPutsServicesFirst ==
    ASSUME TypeInv, Sort
    PROVE  \A i, j \in DOMAIN ordered' :
               i < j /\ ordered'[j].source = "Service" => ordered'[i].source = "Service"
<1> DEFINE key == [i \in DOMAIN snapshot |-> DedupKey(snapshot[i])]
<1>1. PICK n \in Nat : DOMAIN snapshot = 1..n
  BY LenProperties DEF TypeInv, InputOK
<1>2. key \in [1..n -> Keys]
  BY <1>1, DedupOrder DEF TypeInv
<1>3. \A i \in 1..n : key[i][1] = Priority(snapshot[i].source)
  BY <1>1 DEF DedupKey
<1>4. ordered' = StableSort(snapshot, key) /\ DOMAIN ordered' = 1..n
  BY <1>1 DEF Sort, SortForDedup, StableSort
<1> HIDE DEF key
<1>5. PICK place : IsSorting(n, snapshot, key, place)
  BY <1>1, <1>2, Sorts
<1> SUFFICES ASSUME NEW i \in 1..n, NEW j \in 1..n, i < j,
                    ordered'[j].source = "Service", ordered'[i].source # "Service"
             PROVE  FALSE
  BY <1>4
<1>6. PICK a \in 1..n, b \in 1..n : a = place[i] /\ b = place[j]
  BY <1>5 DEF IsSorting
<1>7. snapshot[b].source = "Service" /\ snapshot[a].source # "Service"
  BY <1>4, <1>5, <1>6 DEF IsSorting
<1>8. key[b][1] < key[a][1]
  BY <1>3, <1>7 DEF Priority
<1>9. key[a] \in Keys /\ key[b] \in Keys
  BY <1>2
<1>10. Precedes(key[b], key[a])
  BY <1>8, <1>9, PrecedesIs
<1> QED
  BY <1>5, <1>6, <1>10 DEF IsSorting

LEMMA ServicesStep == TypeInv /\ ServicesFirst /\ [Next]_vars => ServicesFirst'
<1> SUFFICES ASSUME TypeInv, ServicesFirst, [Next]_vars PROVE ServicesFirst'
  OBVIOUS
<1>1. ASSUME UNCHANGED <<ordered, seen, warnings>> PROVE ServicesFirst'
  BY <1>1 DEF ServicesFirst
<1>2. CASE Call
  BY <1>1, <1>2 DEF Call
<1>3. CASE Sort
  <2>1. seen' = {} /\ warnings' = {}
    BY <1>3 DEF Sort, resultVars, TypeInv, StageOK
  <2> QED
    BY <1>3, <2>1, SortPutsServicesFirst DEF ServicesFirst
<1>4. ASSUME NEW keep, keep \subseteq DOMAIN ordered, ordered' = Subsequence(ordered, keep)
      PROVE  \A i, j \in DOMAIN ordered' :
                 i < j /\ ordered'[j].source = "Service" => ordered'[i].source = "Service"
  <2> SUFFICES ASSUME NEW i \in DOMAIN ordered', NEW j \in DOMAIN ordered', i < j,
                      ordered'[j].source = "Service"
               PROVE  ordered'[i].source = "Service"
    OBVIOUS
  <2>1. PICK a \in keep, b \in keep : a < b /\ ordered'[i] = ordered[a] /\ ordered'[j] = ordered[b]
    BY <1>4, KeptInOrder DEF TypeInv
  <2> QED
    BY <1>4, <2>1 DEF ServicesFirst
<1>5. CASE DedupByWorkload
  <2>1. seen' = {} /\ warnings' = {}
    BY <1>5 DEF DedupByWorkload, resultVars, TypeInv, StageOK
  <2>2. \E keep : keep \subseteq DOMAIN ordered /\ ordered' = Subsequence(ordered, keep)
    <3>1. {i \in DOMAIN ordered : ~GivesWay(ordered[i], ordered)} \subseteq DOMAIN ordered
      OBVIOUS
    <3> QED
      BY <1>5, <3>1 DEF DedupByWorkload
  <2> QED
    BY <1>4, <2>1, <2>2 DEF ServicesFirst
<1>6. CASE DedupByURL
  <2>1. seen' = {}
    BY <1>6 DEF DedupByURL, TypeInv, StageOK
  <2>2. PICK n \in Nat : DOMAIN ordered = 1..n
    BY LenProperties DEF TypeInv
  <2>3. ASSUME NEW w \in warnings', w.about.source = "Service"
        PROVE  w.because.source = "Service"
    <3>1. PICK i \in 1..n : w.about = ordered[i] /\ w.because = ordered[First(OrderedURLs, i)]
      BY <1>6, <2>2, DedupByURLDoes
    <3>2. PICK j \in 1..i : j = First(OrderedURLs, i)
      BY FirstIs
    <3>3. j \in DOMAIN ordered /\ (j = i \/ j < i)
      BY <2>2
    <3> QED
      BY <2>2, <2>3, <3>1, <3>2, <3>3 DEF ServicesFirst
  <2> QED
    BY <1>4, <1>6, <2>1, <2>3, DedupByURLDoes DEF ServicesFirst
<1>7. CASE RenderNext
  <2>1. PICK ep : ep = Head(ordered)
    OBVIOUS
  <2>2. /\ ordered # <<>> /\ ordered' = Tail(ordered)
        /\ seen' \subseteq seen \cup {ep}
        /\ \A w \in warnings' :
              \/ w \in warnings
              \/ w.kind = "template" /\ w.about = ep
              \/ w.kind = "name" /\ w.about = ep /\ w.because \in seen
    BY <1>7, <2>1, RenderNextDoes
  <2>3. /\ ep = ordered[1] /\ 1 \in DOMAIN ordered
        /\ \A i \in DOMAIN ordered' : i + 1 \in DOMAIN ordered /\ ordered'[i] = ordered[i + 1]
    BY <2>1, <2>2, HeadAndTail DEF TypeInv
  <2>4. PICK n \in Nat : DOMAIN ordered' = 1..n
    BY <2>2, HeadAndTail, LenProperties DEF TypeInv
  <2>5. \A i, j \in DOMAIN ordered' :
            i < j /\ ordered'[j].source = "Service" => ordered'[i].source = "Service"
    <3>1. \A i, j \in 1..n : i < j => i + 1 < j + 1
      OBVIOUS
    <3> QED
      BY <2>3, <2>4, <3>1 DEF ServicesFirst
  <2>6. ASSUME NEW i \in DOMAIN ordered', NEW s \in seen', ordered'[i].source = "Service"
        PROVE  s.source = "Service"
    <3>1. 1 < i + 1 /\ i + 1 \in DOMAIN ordered /\ ordered[i + 1].source = "Service"
      BY <2>3, <2>4, <2>6
    <3>2. CASE s \in seen
      BY <3>1, <3>2 DEF ServicesFirst
    <3>3. CASE s = ep
      BY <2>3, <3>1, <3>3 DEF ServicesFirst
    <3> QED
      BY <2>2, <3>2, <3>3
  <2>7. ASSUME NEW w \in warnings', w.kind \in {"url", "name"}, w.about.source = "Service"
        PROVE  w.because.source = "Service"
    <3>1. CASE w \in warnings
      BY <2>7, <3>1 DEF ServicesFirst
    <3>2. CASE w.about = ep /\ w.because \in seen
      BY <2>3, <2>7, <3>2 DEF ServicesFirst
    <3> QED
      BY <2>2, <2>7, <3>1, <3>2
  <2> QED
    BY <2>5, <2>6, <2>7 DEF ServicesFirst
<1>8. CASE Finish
  BY <1>1, <1>8 DEF Finish
<1>9. CASE Return
  <2>1. ordered' = <<>> /\ seen' = {} /\ warnings' = {}
    BY <1>9 DEF Return, TypeInv, StageOK
  <2> QED
    BY <2>1 DEF ServicesFirst
<1>10. CASE UNCHANGED vars
  BY <1>1, <1>10 DEF vars, resultVars
<1> QED
  BY <1>2, <1>3, <1>5, <1>6, <1>7, <1>8, <1>9, <1>10 DEF Next

-----------------------------------------------------------------------------
(* Dropping endpoints. *)

LEMMA LeftShrinks ==
    ASSUME TypeInv, DedupByURL \/ RenderNext \/ Finish
    PROVE  Left' \subseteq Left
<1>1. CASE DedupByURL
  <2>1. Elements(ordered') = {ordered[i] : i \in Firsts} /\ Firsts \subseteq DOMAIN ordered
    BY <1>1, DedupByURLDoes, KeptElements DEF TypeInv
  <2>2. Elements(ordered') \subseteq Elements(ordered)
    BY <2>1 DEF Elements
  <2>3. seen' = seen
    BY <1>1 DEF DedupByURL
  <2> QED
    BY <2>2, <2>3 DEF Left
<1>2. CASE RenderNext
  <2>1. PICK ep : ep = Head(ordered)
    OBVIOUS
  <2>2. Elements(ordered) = {ep} \cup Elements(ordered') /\ seen' \subseteq seen \cup {ep}
    BY <1>2, <2>1, RenderNextDoes
  <2> QED
    BY <2>2 DEF Left
<1>3. CASE Finish
  BY <1>3 DEF Finish, Left
<1> QED
  BY <1>1, <1>2, <1>3

LEMMA WorkloadKeeps ==
    ASSUME TypeInv, DedupByWorkload
    PROVE  /\ Left' = {ep \in Elements(ordered) : ~GivesWay(ep, ordered)}
           /\ Left = Elements(ordered)
<1> DEFINE keep == {i \in DOMAIN ordered : ~GivesWay(ordered[i], ordered)}
<1>1. ordered' = Subsequence(ordered, keep) /\ seen' = seen
  BY DEF DedupByWorkload
<1>2. Elements(ordered') = {ordered[i] : i \in keep}
  <2>1. keep \subseteq DOMAIN ordered
    OBVIOUS
  <2> HIDE DEF keep
  <2> QED
    BY <1>1, <2>1, KeptElements DEF TypeInv
<1>3. Elements(ordered') = {ep \in Elements(ordered) : ~GivesWay(ep, ordered)}
  BY <1>2 DEF Elements
<1>4. seen = {}
  BY DEF TypeInv, StageOK, DedupByWorkload
<1> QED
  BY <1>1, <1>3, <1>4 DEF Left

LEMMA RoutesStep == TypeInv /\ RoutesGiveWay /\ [Next]_vars => RoutesGiveWay'
<1> SUFFICES ASSUME TypeInv, RoutesGiveWay, [Next]_vars PROVE RoutesGiveWay'
  OBVIOUS
<1>1. CASE Call \/ Sort \/ Return
  BY <1>1 DEF Call, Sort, Return, RoutesGiveWay
<1>2. CASE DedupByWorkload
  <2> SUFFICES ASSUME NEW s \in Left', NEW r \in Left',
                      s.source = "Service", s.host # NoHost, r.source # "Service",
                      Address(s) = Address(r)
               PROVE  FALSE
    BY DEF RoutesGiveWay
  <2>1. s \in Elements(ordered) /\ ~GivesWay(r, ordered)
    BY <1>2, WorkloadKeeps
  <2>2. Address(r) \in Covered(ordered)
    BY <2>1 DEF Covered
  <2>3. r.host # NoHost
    BY DEF Address
  <2> QED
    BY <2>1, <2>2, <2>3 DEF GivesWay
<1>3. CASE DedupByURL \/ RenderNext \/ Finish
  <2>1. stage \in {"url", "render", "done"}
    BY <1>3 DEF DedupByURL, RenderNext, Finish
  <2>2. Left' \subseteq Left
    BY <1>3, LeftShrinks
  <2> QED
    BY <2>1, <2>2 DEF RoutesGiveWay
<1>4. CASE UNCHANGED vars
  <2>1. stage' = stage /\ Left' = Left
    BY <1>4 DEF vars, Left
  <2> QED
    BY <2>1 DEF RoutesGiveWay
<1> QED
  BY <1>1, <1>2, <1>3, <1>4 DEF Next

LEMMA URLsStep == TypeInv /\ URLsDiffer /\ [Next]_vars => URLsDiffer'
<1> SUFFICES ASSUME TypeInv, URLsDiffer, [Next]_vars PROVE URLsDiffer'
  OBVIOUS
<1>1. CASE Call \/ Sort \/ DedupByWorkload \/ Return
  BY <1>1 DEF Call, Sort, DedupByWorkload, Return, URLsDiffer
<1>2. ASSUME UNCHANGED inputVars, NEW ep PROVE URLOf(ep)' = URLOf(ep)
  BY <1>2, TemplatesStay DEF inputVars
<1>3. CASE DedupByURL
  <2>1. UNCHANGED inputVars /\ seen' = {}
    BY <1>3 DEF DedupByURL, TypeInv, StageOK
  <2>2. PICK n \in Nat : DOMAIN ordered = 1..n
    BY LenProperties DEF TypeInv
  <2>3. \A i \in 1..n : OrderedURLs[i] = URLOf(ordered[i])
    BY <2>2 DEF OrderedURLs
  <2>4. \A i, j \in Firsts : i # j => URLOf(ordered[i]) # URLOf(ordered[j])
    <3> SUFFICES ASSUME NEW i \in Firsts, NEW j \in Firsts, URLOf(ordered[i]) = URLOf(ordered[j])
                 PROVE  i = j
      OBVIOUS
    <3>1. i \in 1..n /\ j \in 1..n /\ First(OrderedURLs, i) = i /\ First(OrderedURLs, j) = j
      BY <2>2 DEF Firsts
    <3>2. OrderedURLs[i] = OrderedURLs[j]
      BY <2>3, <3>1
    <3> QED
      BY <3>1, <3>2, FirstIsFirst
  <2>5. ASSUME NEW p \in DOMAIN ordered', NEW q \in DOMAIN ordered', p < q
        PROVE  URLOf(ordered'[p]) # URLOf(ordered'[q])
    <3>1. PICK i \in Firsts, j \in Firsts :
              i < j /\ ordered'[p] = ordered[i] /\ ordered'[q] = ordered[j]
      BY <1>3, <2>5, DedupByURLDoes, KeptInOrder DEF TypeInv
    <3>2. i \in 1..n /\ j \in 1..n
      BY <2>2 DEF Firsts
    <3>3. i # j
      BY <3>1, <3>2
    <3> QED
      BY <2>4, <3>1, <3>3
  <2>6. \A p, q \in DOMAIN ordered' : p # q => p < q \/ q < p
    <3>1. ordered' \in Seq(Elements(snapshot))
      BY <1>3, DedupByURLDoes, KeptElements DEF TypeInv
    <3>2. PICK m \in Nat : DOMAIN ordered' = 1..m
      BY <3>1, LenProperties
    <3> QED
      BY <3>2
  <2>7. \A p, q \in DOMAIN ordered' : p # q => URLOf(ordered'[p]) # URLOf(ordered'[q])
    BY <2>5, <2>6
  <2> QED
    BY <1>2, <2>1, <2>7 DEF URLsDiffer
<1>4. CASE RenderNext
  <2>1. PICK ep : ep = Head(ordered)
    OBVIOUS
  <2>2. /\ ordered # <<>> /\ ordered' = Tail(ordered) /\ stage = "render"
        /\ UNCHANGED inputVars /\ seen' \subseteq seen \cup {ep}
    BY <1>4, <2>1, RenderNextDoes
  <2>3. /\ ep = ordered[1] /\ 1 \in DOMAIN ordered
        /\ \A i \in DOMAIN ordered' : i + 1 \in DOMAIN ordered /\ ordered'[i] = ordered[i + 1]
    BY <2>1, <2>2, HeadAndTail DEF TypeInv
  <2>4. PICK n \in Nat : DOMAIN ordered' = 1..n
    BY <2>2, HeadAndTail, LenProperties DEF TypeInv
  <2>5. \A i, j \in 1..n : (i # j => i + 1 # j + 1) /\ i + 1 # 1
    OBVIOUS
  <2>6. \A i, j \in DOMAIN ordered' : i # j => URLOf(ordered'[i]) # URLOf(ordered'[j])
    BY <2>2, <2>3, <2>4, <2>5 DEF URLsDiffer
  <2>7. \A i \in DOMAIN ordered', s \in seen' : URLOf(ordered'[i]) # URLOf(s)
    BY <2>2, <2>3, <2>4, <2>5 DEF URLsDiffer
  <2>8. \A s, t \in seen' : s # t => URLOf(s) # URLOf(t)
    BY <2>2, <2>3 DEF URLsDiffer
  <2> QED
    BY <1>2, <2>2, <2>6, <2>7, <2>8 DEF URLsDiffer
<1>5. CASE Finish \/ UNCHANGED vars
  <2>1. UNCHANGED inputVars /\ ordered' = ordered /\ seen' = seen
        /\ (stage' \in {"render", "done"} => stage \in {"render", "done"})
    BY <1>5 DEF Finish, vars
  <2> QED
    BY <1>2, <2>1 DEF URLsDiffer
<1> QED
  BY <1>1, <1>3, <1>4, <1>5 DEF Next

LEMMA NamesStep == TypeInv /\ NamesDiffer /\ [Next]_vars => NamesDiffer'
<1> SUFFICES ASSUME TypeInv, NamesDiffer, [Next]_vars PROVE NamesDiffer'
  OBVIOUS
<1>1. ASSUME rendered' = rendered PROVE NamesDiffer'
  BY <1>1 DEF NamesDiffer
<1>2. CASE Call \/ Sort \/ DedupByWorkload \/ DedupByURL \/ UNCHANGED vars
  BY <1>1, <1>2 DEF Call, Sort, DedupByWorkload, DedupByURL, vars, resultVars
<1>3. CASE RenderNext
  <2>1. PICK ep : ep = Head(ordered)
    OBVIOUS
  <2>2. \/ /\ \A s \in seen : GroupKey(s) # GroupKey(ep)
           /\ rendered' = Append(rendered, [from |-> ep, object |-> RenderOne(ep)])
        \/ rendered' = rendered
    BY <1>3, <2>1, RenderNextDoes
  <2>3. CASE /\ \A s \in seen : GroupKey(s) # GroupKey(ep)
             /\ rendered' = Append(rendered, [from |-> ep, object |-> RenderOne(ep)])
    <3>1. PICK r : r = [from |-> ep, object |-> RenderOne(ep)]
      OBVIOUS
    <3>2. \A i \in DOMAIN rendered' :
              \/ i \in DOMAIN rendered /\ rendered'[i] = rendered[i]
              \/ i = Len(rendered) + 1 /\ rendered'[i] = r
      BY <2>3, <3>1, Appended DEF TypeInv
    <3>3. \A i \in DOMAIN rendered : rendered[i].from \in seen
      BY DEF TypeInv, Origins, Elements
    <3>4. r.from = ep
      BY <3>1
    <3> QED
      BY <2>3, <3>2, <3>3, <3>4 DEF NamesDiffer
  <2> QED
    BY <1>1, <2>2, <2>3
<1>4. CASE Finish
  <2> DEFINE key == [i \in DOMAIN rendered |-> OutputKey(rendered[i].object)]
  <2>1. PICK n \in Nat : DOMAIN rendered = 1..n
    BY LenProperties DEF TypeInv
  <2>2. key \in [1..n -> Keys]
    BY <2>1, OutputKeyOK
  <2>3. rendered' = StableSort(rendered, key)
    BY <1>4 DEF Finish
  <2> HIDE DEF key
  <2>4. DOMAIN rendered' = 1..n
    BY <2>1, <2>3 DEF StableSort
  <2>5. PICK place : IsSorting(n, rendered, key, place)
    BY <2>1, <2>2, Sorts
  <2>6. ASSUME NEW i \in 1..n, NEW j \in 1..n, i # j
        PROVE  GroupKey(rendered'[i].from) # GroupKey(rendered'[j].from)
    <3>1. PICK a \in 1..n, b \in 1..n : a = place[i] /\ b = place[j]
      BY <2>5 DEF IsSorting
    <3>2. a # b
      BY <2>5, <2>6, <3>1 DEF IsSorting
    <3>3. rendered'[i] = rendered[a] /\ rendered'[j] = rendered[b]
      BY <2>3, <2>5, <3>1 DEF IsSorting
    <3> QED
      BY <2>1, <3>2, <3>3 DEF NamesDiffer
  <2> QED
    BY <2>4, <2>6 DEF NamesDiffer
<1>5. CASE Return
  BY <1>5 DEF Return, NamesDiffer
<1> QED
  BY <1>2, <1>3, <1>4, <1>5 DEF Next

-----------------------------------------------------------------------------
(* What is checked. *)

LEMMA ReplacesStay ==
    ASSUME UNCHANGED inputVars, NEW o, NEW ep
    PROVE  Replaces(o, ep)' <=> Replaces(o, ep)
<1>1. URLOf(o)' = URLOf(o) /\ URLOf(ep)' = URLOf(ep)
  BY TemplatesStay DEF inputVars
<1>2. ASSUME NEW address PROVE IsWorkload(address)' <=> IsWorkload(address)
  BY DEF IsWorkload, inputVars
<1>3. PICK address : address = Target(URLOf(ep))
  OBVIOUS
<1>4. address = Target(URLOf(ep))'
  BY <1>1, <1>3
<1> QED
  BY <1>1, <1>2, <1>3, <1>4 DEF Replaces, Checks

LEMMA WorkloadURL ==
    ASSUME NEW ep, IsEndpoint(ep), ep.host # NoHost
    PROVE  Target(URLOf(ep)) = Address(ep)
<1>1. ep.url = NoURL
  BY DEF IsEndpoint
<1>2. URLOf(ep) = <<ResolveScheme(ep), ep.host, ep.port, ep.path>>
  BY <1>1 DEF URLOf, BuildURL
<1> QED
  BY <1>2 DEF Target, Address

(* Whatever one endpoint checks, another at its host and port checks too. *)
LEMMA ReplacedAtAddress ==
    ASSUME InputOK, NEW o \in Elements(snapshot), NEW p \in Elements(snapshot), NEW ep,
           Replaces(o, ep), o.host # NoHost, Address(p) = Address(o)
    PROVE  Replaces(p, ep)
<1>1. p.host # NoHost
  BY DEF Address
<1>2. Target(URLOf(o)) = Address(o) /\ Target(URLOf(p)) = Address(o)
  BY <1>1, WorkloadURL DEF InputOK
<1>3. IsWorkload(Address(o))
  BY DEF IsWorkload
<1>4. Target(URLOf(o)) = Target(URLOf(ep))
  BY DEF Replaces, Checks
<1>5. Target(URLOf(p)) = Target(URLOf(ep)) /\ IsWorkload(Target(URLOf(ep)))
  BY <1>2, <1>3, <1>4
<1> QED
  BY <1>5 DEF Replaces, Checks

LEMMA LeftOfSnapshot == TypeInv => Left \subseteq Elements(snapshot)
<1> SUFFICES ASSUME TypeInv PROVE Left \subseteq Elements(snapshot)
  OBVIOUS
<1>1. Elements(ordered) \subseteq Elements(snapshot)
  BY ElementsOf DEF TypeInv
<1>2. Elements(rendered) \subseteq Records
  BY ElementsOf DEF TypeInv
<1>3. Origins \subseteq Elements(snapshot)
  BY <1>2 DEF Origins, Records
<1> QED
  BY <1>1, <1>3 DEF Left, TypeInv

LEMMA WorkloadLosesNone ==
    ASSUME TypeInv, DedupByWorkload, NEW o \in Left, NEW ep, Replaces(o, ep)
    PROVE  \E p \in Left' : Replaces(p, ep)
<1>1. CASE ~GivesWay(o, ordered)
  BY <1>1, WorkloadKeeps
<1>2. CASE GivesWay(o, ordered)
  <2>1. PICK s \in Elements(ordered) :
            s.source = "Service" /\ s.host # NoHost /\ Address(s) = Address(o)
    BY <1>2 DEF GivesWay, Covered
  <2>2. s \in Left'
    BY <2>1, WorkloadKeeps DEF GivesWay
  <2>3. s \in Elements(snapshot) /\ o \in Elements(snapshot)
    BY <2>1, LeftOfSnapshot DEF Left
  <2>4. o.host # NoHost
    BY <1>2 DEF GivesWay
  <2>5. Replaces(s, ep)
    BY <2>1, <2>3, <2>4, ReplacedAtAddress DEF TypeInv
  <2> QED
    BY <2>2, <2>5
<1> QED
  BY <1>1, <1>2

LEMMA URLLosesNone ==
    ASSUME TypeInv, DedupByURL, NEW o \in Left, NEW ep, Replaces(o, ep)
    PROVE  \E p \in Left' : Replaces(p, ep)
<1>1. PICK n \in Nat : DOMAIN ordered = 1..n
  BY LenProperties DEF TypeInv
<1>2. seen = {}
  BY DEF TypeInv, StageOK, DedupByURL
<1>3. PICK i \in 1..n : o = ordered[i]
  BY <1>1, <1>2 DEF Left, Elements
<1>4. PICK j \in 1..i : j = First(OrderedURLs, i)
  BY FirstIs
<1>5. j \in 1..n
  OBVIOUS
<1>6. First(OrderedURLs, j) = j /\ OrderedURLs[j] = OrderedURLs[i]
  BY <1>4, <1>5, FirstIs, FirstIsFirst
<1>7. j \in Firsts
  BY <1>1, <1>5, <1>6 DEF Firsts
<1>8. URLOf(ordered[j]) = URLOf(o)
  BY <1>1, <1>3, <1>5, <1>6 DEF OrderedURLs
<1>9. Elements(ordered') = {ordered[k] : k \in Firsts}
  BY DedupByURLDoes, KeptElements DEF TypeInv
<1>10. ordered[j] \in Left'
  BY <1>7, <1>9 DEF Left
<1>11. Replaces(ordered[j], ep)
  BY <1>8 DEF Replaces, Checks
<1> QED
  BY <1>10, <1>11

LEMMA RenderLosesNone ==
    ASSUME TypeInv, RenderNext, warnings' = {}, OnePortPerHost,
           NEW o \in Left, NEW ep, Replaces(o, ep)
    PROVE  \E p \in Left' : Replaces(p, ep)
<1>1. PICK h : h = Head(ordered)
  OBVIOUS
<1>2. /\ Elements(ordered) = {h} \cup Elements(ordered')
      /\ \/ seen' = seen \cup {h}
         \/ seen' = seen /\ \E s \in seen : GroupKey(s) = GroupKey(h)
      /\ \A s \in seen : GroupKey(s) = GroupKey(h) /\ ~SameWorkload(s, h) =>
            Warning("name", h, s) \in warnings'
  BY <1>1, RenderNextDoes
<1>3. CASE o \in Left'
  BY <1>3
<1>4. CASE o \notin Left'
  <2>1. o = h
    BY <1>2, <1>4 DEF Left
  <2>2. PICK s \in seen : GroupKey(s) = GroupKey(h)
    BY <1>2, <1>4, <2>1 DEF Left
  <2>3. SameWorkload(s, h)
    BY <1>2, <2>2
  <2>4. s \in Elements(snapshot) /\ h \in Elements(snapshot)
    BY <2>1, LeftOfSnapshot DEF Left
  <2>5. o.host # NoHost /\ Address(s) = Address(o)
    BY <2>1, <2>3, <2>4 DEF SameWorkload, OnePortPerHost, Address
  <2>6. Replaces(s, ep)
    BY <2>1, <2>4, <2>5, ReplacedAtAddress DEF TypeInv
  <2>7. s \in Left'
    BY <1>2 DEF Left
  <2> QED
    BY <2>6, <2>7
<1> QED
  BY <1>3, <1>4

LEMMA LossStep == TypeInv /\ NothingIsLost /\ [Next]_vars => NothingIsLost'
<1> SUFFICES ASSUME TypeInv, NothingIsLost, [Next]_vars PROVE NothingIsLost'
  OBVIOUS
<1>1. CASE Call \/ Return
  BY <1>1 DEF Call, Return, NothingIsLost
<1>2. CASE Sort
  <2>1. Elements(ordered') = Elements(snapshot) /\ UNCHANGED inputVars
    BY <1>2, DedupOrder DEF Sort, TypeInv
  <2>2. snapshot' = snapshot
    BY <2>1 DEF inputVars
  <2>3. \A ep : Replaces(ep, ep)
    BY DEF Replaces, Checks
  <2>4. ASSUME NEW ep PROVE Replaces(ep, ep)'
    BY <2>1, <2>3, ReplacesStay
  <2> QED
    BY <2>1, <2>2, <2>4 DEF NothingIsLost, Left
<1>3. ASSUME UNCHANGED inputVars, stage \in {"workload", "url", "render", "done"},
             warnings \subseteq warnings',
             warnings' = {} /\ OnePortPerHost =>
                 \A o \in Left, ep \in Elements(snapshot) :
                     Replaces(o, ep) => \E p \in Left' : Replaces(p, ep)
      PROVE  NothingIsLost'
  <2>1. snapshot' = snapshot
    BY <1>3 DEF inputVars
  <2>2. OnePortPerHost' <=> OnePortPerHost
    BY <2>1 DEF OnePortPerHost
  <2> SUFFICES ASSUME warnings' = {}, OnePortPerHost, NEW ep \in Elements(snapshot)
               PROVE  \E p \in Left' : Replaces(p, ep)'
    BY <2>1, <2>2 DEF NothingIsLost
  <2>3. PICK o \in Left : Replaces(o, ep)
    BY <1>3 DEF NothingIsLost
  <2>4. PICK p \in Left' : Replaces(p, ep)
    BY <1>3, <2>3
  <2>5. Replaces(p, ep)'
    BY <1>3, <2>4, ReplacesStay
  <2> QED
    BY <2>5
<1>4. CASE DedupByWorkload
  <2>1. UNCHANGED inputVars /\ warnings' = warnings /\ stage = "workload"
    BY <1>4 DEF DedupByWorkload, resultVars
  <2> QED
    BY <1>3, <1>4, <2>1, WorkloadLosesNone
<1>5. CASE DedupByURL
  <2>1. UNCHANGED inputVars /\ warnings = {} /\ stage = "url"
    BY <1>5 DEF DedupByURL, TypeInv, StageOK
  <2> QED
    BY <1>3, <1>5, <2>1, URLLosesNone
<1>6. CASE RenderNext
  <2>1. UNCHANGED inputVars /\ warnings \subseteq warnings' /\ stage = "render"
    BY <1>6, RenderNextDoes
  <2> QED
    BY <1>3, <1>6, <2>1, RenderLosesNone
<1>7. CASE Finish
  <2>1. UNCHANGED inputVars /\ warnings' = warnings /\ stage = "render" /\ Left' = Left
    BY <1>7 DEF Finish, Left
  <2> QED
    BY <1>3, <2>1
<1>8. CASE UNCHANGED vars
  <2>1. UNCHANGED inputVars /\ warnings' = warnings /\ stage' = stage /\ Left' = Left
    BY <1>8 DEF vars, resultVars, Left
  <2>2. CASE stage \in {"workload", "url", "render", "done"}
    BY <1>3, <2>1, <2>2
  <2>3. CASE stage \notin {"workload", "url", "render", "done"}
    BY <2>1, <2>3 DEF NothingIsLost
  <2> QED
    BY <2>2, <2>3
<1> QED
  BY <1>1, <1>2, <1>4, <1>5, <1>6, <1>7, <1>8 DEF Next

LEMMA RenderInit == Init => RenderInv
<1> SUFFICES ASSUME Init PROVE RenderInv
  OBVIOUS
<1>1. stage = "idle" /\ ordered = <<>> /\ seen = {} /\ rendered = <<>> /\ warnings = {}
  BY DEF Init
<1> QED
  BY <1>1, TypeInit
     DEF RenderInv, ServicesFirst, RoutesGiveWay, URLsDiffer, NamesDiffer, NothingIsLost

LEMMA RenderAlways == Spec => []RenderInv
<1>1. RenderInv /\ [Next]_vars => RenderInv'
  BY TypeStep, ServicesStep, RoutesStep, URLsStep, NamesStep, LossStep DEF RenderInv
<1> QED
  BY <1>1, RenderInit, PTL DEF Spec

(* No variable ever leaves its type, and everything speaks of the snapshot. *)
THEOREM TypeCorrect == Spec => []TypeOK
<1>1. TypeInv => TypeOK
  <2> SUFFICES ASSUME TypeInv PROVE TypeOK
    OBVIOUS
  <2>1. Elements(ordered) \cup seen \subseteq Elements(snapshot)
    BY LeftOfSnapshot DEF Left
  <2> QED
    BY <2>1 DEF TypeInv, StageOK, TypeOK
<1> QED
  BY <1>1, TypeAlways, PTL

(* ServiceTakesPrecedence, for every snapshot and all templates: the sort puts
   Services first, so neither a URL nor a name is ever taken by a route before a
   Service asks for it, and no route survives at a Service's address. *)
THEOREM ServicesWin == Spec => []ServiceTakesPrecedence
<1>1. RenderInv => ServiceTakesPrecedence
  <2> SUFFICES ASSUME RenderInv, Done PROVE ServiceTakesPrecedence
    BY DEF ServiceTakesPrecedence
  <2>1. stage = "done" /\ Origins = seen /\ seen \subseteq Left
    BY DEF Done, RenderInv, TypeInv, Left
  <2>2. ASSUME NEW s \in Origins, NEW r \in Origins, s.source = "Service", r.source # "Service"
        PROVE  URLOf(s) # URLOf(r) /\ (s.host # NoHost => Address(s) # Address(r))
    <3>1. s # r
      BY <2>2
    <3>2. URLOf(s) # URLOf(r)
      BY <2>1, <2>2, <3>1 DEF RenderInv, URLsDiffer
    <3>3. s.host # NoHost => Address(s) # Address(r)
      BY <2>1, <2>2 DEF RenderInv, RoutesGiveWay
    <3> QED
      BY <3>2, <3>3
  <2> QED
    BY <2>2 DEF ServiceTakesPrecedence, RenderInv, ServicesFirst
<1> QED
  BY <1>1, RenderAlways, PTL

-----------------------------------------------------------------------------
(* What is rendered. *)

LEMMA RenderedIs ==
    ASSUME TypeInv, NEW i \in DOMAIN rendered
    PROVE  /\ rendered[i].from \in Elements(snapshot) /\ IsEndpoint(rendered[i].from)
           /\ rendered[i].from \in seen
           /\ rendered[i].object = RenderOne(rendered[i].from)
<1>1. rendered[i] \in Records
  BY ElementOfSeq, LenProperties DEF TypeInv
<1>2. PICK ep \in Elements(snapshot) : rendered[i] = [from |-> ep, object |-> RenderOne(ep)]
  BY <1>1 DEF Records
<1>3. rendered[i].from = ep /\ rendered[i].object = RenderOne(ep)
  BY <1>2
<1>4. rendered[i].from \in seen
  BY DEF TypeInv, Origins, Elements
<1> QED
  BY <1>3, <1>4 DEF TypeInv, InputOK

LEMMA URLShows ==
    ASSUME NEW ep, ~Patched(ep, {"url"})
    PROVE  RenderOne(ep)["url"] = URLOf(ep)
<1>1. PICK layer : layer = MergedTemplates(TemplateNames(ep, ResolveScheme(ep)))
  OBVIOUS
<1>2. RenderOne(ep) = Merge(Merge(layer, Identity(ep)), ep.patch)
  BY <1>1 DEF RenderOne
<1>3. "url" \in DOMAIN Identity(ep) /\ Identity(ep)["url"] = URLOf(ep)
  BY DEF Identity, Merge, EmptyObject
<1>4. "url" \notin DOMAIN ep.patch
  BY DEF Patched
<1> QED
  BY <1>2, <1>3, <1>4 DEF Merge

(* NoWarningMeansAllChecked, through every number of endpoints dropped in a row:
   where no host is asked for at two ports, an endpoint that no redirected one
   shares its host and port with is checked, at the URL written to the file. *)
THEOREM SilenceMeansChecked == Spec => []NoWarningMeansAllChecked
<1>1. RenderInv => NoWarningMeansAllChecked
  <2> SUFFICES ASSUME RenderInv, Done, warnings = {}, OnePortPerHost,
                      NEW ep \in Elements(snapshot), ~Redirected(ep)
               PROVE  \E r \in Elements(rendered) : Checks(r.object["url"], ep)
    BY DEF NoWarningMeansAllChecked
  <2>1. stage = "done" /\ ordered = <<>> /\ seen = Origins
    BY DEF Done, RenderInv, TypeInv, StageOK
  <2>2. Left = Origins
    BY <2>1 DEF Left, Elements
  <2>3. PICK o \in Origins : Replaces(o, ep)
    BY <2>1, <2>2 DEF RenderInv, NothingIsLost
  <2>4. PICK i \in DOMAIN rendered : o = rendered[i].from
    BY <2>3 DEF Origins, Elements
  <2>5. o \in Elements(snapshot) /\ rendered[i].object = RenderOne(o)
    BY <2>4, RenderedIs DEF RenderInv
  <2>6. Target(URLOf(o)) = Target(URLOf(ep))
    BY <2>3 DEF Replaces, Checks
  <2>7. ~Patched(o, {"url"})
    BY <2>5, <2>6 DEF Redirected
  <2>8. rendered[i].object["url"] = URLOf(o)
    BY <2>5, <2>7, URLShows
  <2>9. Checks(rendered[i].object["url"], ep)
    BY <2>3, <2>8 DEF Replaces
  <2> QED
    BY <2>9 DEF Elements
<1> QED
  BY <1>1, RenderAlways, PTL

LEMMA IdentityShows ==
    ASSUME NEW ep, IsEndpoint(ep), ~Patched(ep, {"name", "group", "url"}),
           ep.group = 0 => "group" \notin DOMAIN RenderOne(ep)
    PROVE  /\ OutputKey(RenderOne(ep)) = <<ep.group, ep.name, 0>>
           /\ RenderOne(ep)["url"] = URLOf(ep)
<1>1. PICK layer : layer = MergedTemplates(TemplateNames(ep, ResolveScheme(ep)))
  OBVIOUS
<1>2. RenderOne(ep) = Merge(Merge(layer, Identity(ep)), ep.patch)
  BY <1>1 DEF RenderOne
<1>3. /\ {"name", "url"} \subseteq DOMAIN Identity(ep)
      /\ Identity(ep)["name"] = ep.name
      /\ Identity(ep)["url"] = URLOf(ep)
      /\ ep.group # 0 => "group" \in DOMAIN Identity(ep) /\ Identity(ep)["group"] = ep.group
  BY DEF Identity, Merge, EmptyObject
<1>4. \A f \in {"name", "url", "group"} \cap DOMAIN Identity(ep) :
          f \in DOMAIN RenderOne(ep) /\ RenderOne(ep)[f] = Identity(ep)[f]
  BY <1>2 DEF Merge, Patched
<1>5. ep.name \in Nat /\ ep.group \in Nat
  BY DEF IsEndpoint
<1>6. FieldOr0(RenderOne(ep), "name") = ep.name /\ RenderOne(ep)["url"] = URLOf(ep)
  BY <1>3, <1>4, <1>5 DEF FieldOr0
<1>7. FieldOr0(RenderOne(ep), "group") = ep.group
  <2>1. CASE ep.group = 0
    BY <2>1 DEF FieldOr0
  <2>2. CASE ep.group # 0
    BY <1>3, <1>4, <1>5, <2>2 DEF FieldOr0
  <2> QED
    BY <2>1, <2>2
<1> QED
  BY <1>6, <1>7 DEF OutputKey

(* UnpatchedEndpointsAreDistinct, for every snapshot and all templates. *)
THEOREM RenderedAreDistinct == Spec => []UnpatchedEndpointsAreDistinct
<1>1. RenderInv => UnpatchedEndpointsAreDistinct
  <2> SUFFICES ASSUME RenderInv, Done,
                      NEW i \in DOMAIN rendered, NEW j \in DOMAIN rendered, i # j,
                      ~Patched(rendered[i].from, {"name", "group", "url"}),
                      ~Patched(rendered[j].from, {"name", "group", "url"}),
                      rendered[i].from.group = 0 => "group" \notin DOMAIN rendered[i].object,
                      rendered[j].from.group = 0 => "group" \notin DOMAIN rendered[j].object
               PROVE  /\ OutputKey(rendered[i].object) # OutputKey(rendered[j].object)
                      /\ rendered[i].object["url"] # rendered[j].object["url"]
    BY DEF UnpatchedEndpointsAreDistinct
  <2>1. PICK a, b : a = rendered[i].from /\ b = rendered[j].from
    OBVIOUS
  <2>2. /\ a \in seen /\ IsEndpoint(a) /\ rendered[i].object = RenderOne(a)
        /\ b \in seen /\ IsEndpoint(b) /\ rendered[j].object = RenderOne(b)
    BY <2>1, RenderedIs DEF RenderInv
  <2>3. GroupKey(a) # GroupKey(b)
    BY <2>1 DEF RenderInv, NamesDiffer
  <2>4. URLOf(a) # URLOf(b)
    <3>1. a # b
      BY <2>3
    <3> QED
      BY <2>2, <3>1 DEF RenderInv, URLsDiffer, Done
  <2>5. /\ OutputKey(RenderOne(a)) = <<a.group, a.name, 0>> /\ RenderOne(a)["url"] = URLOf(a)
        /\ OutputKey(RenderOne(b)) = <<b.group, b.name, 0>> /\ RenderOne(b)["url"] = URLOf(b)
    BY <2>1, <2>2, IdentityShows
  <2>6. <<a.group, a.name, 0>> # <<b.group, b.name, 0>>
    BY <2>3 DEF GroupKey
  <2> QED
    BY <2>2, <2>4, <2>5, <2>6
<1> QED
  BY <1>1, RenderAlways, PTL

(* The layers by index: the patch, the identity, and the templates from the last
   to the first. *)
IsLayering(ep, names, n) ==
    /\ n \in Nat
    /\ DOMAIN LayersOf(ep) = 1..(n + 2)
    /\ LayersOf(ep)[1] = ep.patch
    /\ LayersOf(ep)[2] = Identity(ep)
    /\ \A k \in 1..n : LayersOf(ep)[n + 3 - k] = TemplateBody(names[k])

LEMMA LayersAre ==
    ASSUME IsFiniteSet(DOMAIN templates), NEW ep, IsEndpoint(ep),
           NEW names, names = TemplateNames(ep, ResolveScheme(ep)),
           NEW n, n = Len(names)
    PROVE  IsLayering(ep, names, n)
<1>1. PICK T : /\ names \in Seq(T)
               /\ ep.extra \in Seq(T)
               /\ ep.templates = NoTemplates => DefaultsFor(ResolveScheme(ep)) \in Seq(T)
               /\ ep.templates # NoTemplates => ep.templates \in Seq(T)
  BY NamesAreListed
<1>2. PICK extra, first : extra = ep.extra /\ first = Selected(ep)
  OBVIOUS
<1>3. extra \in Seq(T) /\ first \in Seq(T) /\ names = first \o extra
  BY <1>1, <1>2 DEF Selected, TemplateNames
<1>4. PICK x \in Nat : x = Len(extra)
  BY <1>3, LenProperties
<1>5. PICK y \in Nat : y = Len(first)
  BY <1>3, LenProperties
<1>6. /\ n = y + x
      /\ \A k \in 1..(y + x) : names[k] = IF k <= y THEN first[k] ELSE extra[k - y]
  BY <1>3, <1>4, <1>5, ConcatProperties
<1>7. DOMAIN extra = 1..x /\ DOMAIN first = 1..y
  BY <1>3, <1>4, <1>5, LenProperties
<1> DEFINE B == {ep.patch, Identity(ep)} \cup {TemplateBody(extra[i]) : i \in 1..x}
                   \cup {TemplateBody(first[i]) : i \in 1..y}
<1>8. PICK top : top = <<ep.patch, Identity(ep)>>
  OBVIOUS
<1>9. PICK u, v : u = LatestFirst(extra) /\ v = LatestFirst(first)
  OBVIOUS
<1>10. /\ u = [i \in 1..x |-> TemplateBody(extra[x + 1 - i])]
       /\ v = [i \in 1..y |-> TemplateBody(first[y + 1 - i])]
  BY <1>4, <1>5, <1>7, <1>9 DEF LatestFirst
<1>11. top \in Seq(B) /\ Len(top) = 2 /\ top[1] = ep.patch /\ top[2] = Identity(ep)
  <2>1. ep.patch \in B /\ Identity(ep) \in B
    OBVIOUS
  <2> HIDE DEF B
  <2> QED
    BY <1>8, <2>1
<1>12. u \in Seq(B) /\ Len(u) = x
  <2>1. \A i \in 1..x : x + 1 - i \in 1..x
    OBVIOUS
  <2>2. \A i \in 1..x : TemplateBody(extra[x + 1 - i]) \in B
    BY <2>1
  <2> HIDE DEF B
  <2>3. u \in [1..x -> B]
    BY <1>10, <2>2
  <2>4. u \in Seq(B)
    BY <2>3, SeqDef
  <2> QED
    BY <2>3, <2>4, LenProperties
<1>13. v \in Seq(B) /\ Len(v) = y
  <2>1. \A i \in 1..y : y + 1 - i \in 1..y
    OBVIOUS
  <2>2. \A i \in 1..y : TemplateBody(first[y + 1 - i]) \in B
    BY <2>1
  <2> HIDE DEF B
  <2>3. v \in [1..y -> B]
    BY <1>10, <2>2
  <2>4. v \in Seq(B)
    BY <2>3, SeqDef
  <2> QED
    BY <2>3, <2>4, LenProperties
<1> HIDE DEF B
<1>14. /\ top \o u \in Seq(B) /\ Len(top \o u) = 2 + x
       /\ \A i \in 1..(2 + x) : (top \o u)[i] = IF i <= 2 THEN top[i] ELSE u[i - 2]
  <2>1. /\ top \o u \in Seq(B) /\ Len(top \o u) = Len(top) + Len(u)
        /\ \A i \in 1..(Len(top) + Len(u)) :
              (top \o u)[i] = IF i <= Len(top) THEN top[i] ELSE u[i - Len(top)]
    BY <1>11, <1>12, ConcatProperties
  <2>2. Len(top) = 2 /\ Len(u) = x
    BY <1>11, <1>12
  <2> QED
    BY <2>1, <2>2
<1>15. PICK tu : tu = top \o u
  OBVIOUS
<1>16. LayersOf(ep) = tu \o v
  BY <1>2, <1>8, <1>9, <1>15 DEF LayersOf
<1>17. /\ tu \o v \in Seq(B) /\ Len(tu \o v) = (2 + x) + y
       /\ \A i \in 1..((2 + x) + y) : (tu \o v)[i] = IF i <= 2 + x THEN tu[i] ELSE v[i - (2 + x)]
  <2>1. tu \in Seq(B) /\ Len(tu) = 2 + x
    BY <1>14, <1>15
  <2>2. /\ tu \o v \in Seq(B) /\ Len(tu \o v) = Len(tu) + Len(v)
        /\ \A i \in 1..(Len(tu) + Len(v)) :
              (tu \o v)[i] = IF i <= Len(tu) THEN tu[i] ELSE v[i - Len(tu)]
    BY <1>13, <2>1, ConcatProperties
  <2>3. Len(v) = y
    BY <1>13
  <2> QED
    BY <2>1, <2>2, <2>3
<1>18. DOMAIN LayersOf(ep) = 1..(n + 2) /\ n \in Nat
  <2>1. DOMAIN (tu \o v) = 1..((2 + x) + y)
    BY <1>17, LenProperties
  <2>2. (2 + x) + y = n + 2
    BY <1>6
  <2> QED
    BY <1>6, <1>16, <2>1, <2>2
<1>19. LayersOf(ep)[1] = ep.patch /\ LayersOf(ep)[2] = Identity(ep)
  BY <1>11, <1>14, <1>15, <1>16, <1>17
<1>20. ASSUME NEW k \in 1..n
       PROVE  LayersOf(ep)[n + 3 - k] = TemplateBody(names[k])
  <2>1. PICK i \in 1..((2 + x) + y) : i = n + 3 - k
    BY <1>6
  <2>2. CASE k <= y
    <3>1. ~(i <= 2 + x) /\ i - (2 + x) \in 1..y /\ y + 1 - (i - (2 + x)) = k
      BY <1>6, <2>1, <2>2
    <3>2. LayersOf(ep)[i] = v[i - (2 + x)]
      BY <1>16, <1>17, <3>1
    <3>3. names[k] = first[k]
      BY <1>6, <2>2
    <3> QED
      BY <1>10, <2>1, <3>1, <3>2, <3>3
  <2>3. CASE ~(k <= y)
    <3>1. i <= 2 + x /\ ~(i <= 2) /\ i \in 1..(2 + x) /\ i - 2 \in 1..x /\ x + 1 - (i - 2) = k - y
      BY <1>6, <2>1, <2>3
    <3>2. LayersOf(ep)[i] = u[i - 2]
      BY <1>14, <1>15, <1>16, <1>17, <3>1
    <3>3. names[k] = extra[k - y]
      BY <1>6, <2>3
    <3> QED
      BY <1>10, <2>1, <3>1, <3>2, <3>3
  <2> QED
    BY <2>2, <2>3
<1> QED
  BY <1>18, <1>19, <1>20 DEF IsLayering

(* RenderOne merges from the last layer up. *)
LEMMA FieldsOf ==
    ASSUME IsFiniteSet(DOMAIN templates), NEW ep, IsEndpoint(ep), NEW f
    PROVE  /\ f \in DOMAIN RenderOne(ep) <=> SetBy(ep, f) # {}
           /\ \A i \in SetBy(ep, f) :
                 (\A j \in SetBy(ep, f) : i <= j) => RenderOne(ep)[f] = LayersOf(ep)[i][f]
<1>1. PICK names : names = TemplateNames(ep, ResolveScheme(ep))
  OBVIOUS
<1>2. PICK n : n = Len(names)
  OBVIOUS
<1>3. /\ n \in Nat
      /\ DOMAIN LayersOf(ep) = 1..(n + 2)
      /\ LayersOf(ep)[1] = ep.patch
      /\ LayersOf(ep)[2] = Identity(ep)
      /\ \A k \in 1..n : LayersOf(ep)[n + 3 - k] = TemplateBody(names[k])
  <2>1. IsLayering(ep, names, n)
    BY <1>1, <1>2, LayersAre
  <2> QED
    BY <2>1 DEF IsLayering
<1>4. PICK layer : layer = LayeredUpTo(names, n)
  OBVIOUS
<1>5. RenderOne(ep) = Merge(Merge(layer, Identity(ep)), ep.patch)
  BY <1>1, <1>2, <1>3, <1>4, MergedIsLayered DEF RenderOne
<1>6. PICK object : object = RenderOne(ep)
  OBVIOUS
<1>7. /\ f \in DOMAIN object <=>
            f \in DOMAIN ep.patch \/ f \in DOMAIN Identity(ep) \/ f \in DOMAIN layer
      /\ f \in DOMAIN ep.patch => object[f] = ep.patch[f]
      /\ f \notin DOMAIN ep.patch /\ f \in DOMAIN Identity(ep) => object[f] = Identity(ep)[f]
      /\ f \notin DOMAIN ep.patch /\ f \notin DOMAIN Identity(ep) /\ f \in DOMAIN layer =>
            object[f] = layer[f]
  BY <1>5, <1>6 DEF Merge
<1>8. f \in DOMAIN layer <=> Setters(names, n, f) # {}
  BY <1>3, <1>4, FieldsAreSet DEF LayeredUpTo
<1>9. \A k \in 1..n : k \in Setters(names, n, f) <=> n + 3 - k \in SetBy(ep, f)
  <2> SUFFICES ASSUME NEW k \in 1..n
               PROVE  k \in Setters(names, n, f) <=> n + 3 - k \in SetBy(ep, f)
    OBVIOUS
  <2>1. n + 3 - k \in 1..(n + 2)
    BY <1>3
  <2>2. k \in Setters(names, n, f) <=> f \in DOMAIN TemplateBody(names[k])
    BY DEF Setters, TemplateBody, EmptyObject
  <2> QED
    BY <1>3, <2>1, <2>2 DEF SetBy
<1>10. /\ 1 \in SetBy(ep, f) <=> f \in DOMAIN ep.patch
       /\ 2 \in SetBy(ep, f) <=> f \in DOMAIN Identity(ep)
       /\ SetBy(ep, f) \subseteq 1..(n + 2)
  <2>1. 1 \in 1..(n + 2) /\ 2 \in 1..(n + 2)
    BY <1>3
  <2> QED
    BY <1>3, <2>1 DEF SetBy
<1>11. \A i \in 1..(n + 2) : i = 1 \/ i = 2 \/ (n + 3 - i \in 1..n /\ n + 3 - (n + 3 - i) = i)
  BY <1>3
<1>12. Setters(names, n, f) \subseteq 1..n
  BY DEF Setters
<1>13. f \in DOMAIN object <=> SetBy(ep, f) # {}
  <2>1. ASSUME NEW i \in SetBy(ep, f) PROVE f \in DOMAIN object
    <3>1. i \in 1..(n + 2)
      BY <1>10
    <3>2. CASE i = 1 \/ i = 2
      BY <1>7, <1>10, <3>2
    <3>3. CASE n + 3 - i \in 1..n /\ n + 3 - (n + 3 - i) = i
      BY <1>7, <1>8, <1>9, <3>3
    <3> QED
      BY <1>11, <3>1, <3>2, <3>3
  <2>2. ASSUME f \in DOMAIN object PROVE SetBy(ep, f) # {}
    <3>1. CASE f \in DOMAIN ep.patch \/ f \in DOMAIN Identity(ep)
      BY <1>10, <3>1
    <3>2. CASE f \in DOMAIN layer
      <4>1. PICK k \in Setters(names, n, f) : TRUE
        BY <1>8, <3>2
      <4> QED
        BY <1>9, <1>12, <4>1
    <3> QED
      BY <1>7, <2>2, <3>1, <3>2
  <2> QED
    BY <2>1, <2>2
<1>14. ASSUME NEW i \in SetBy(ep, f), \A j \in SetBy(ep, f) : i <= j
       PROVE  object[f] = LayersOf(ep)[i][f]
  <2>1. i \in 1..(n + 2)
    BY <1>10
  <2>2. CASE i = 1
    BY <1>3, <1>7, <1>10, <2>2
  <2>3. ASSUME i # 1 PROVE f \notin DOMAIN ep.patch
    <3>1. ~(i <= 1)
      BY <2>1, <2>3
    <3> QED
      BY <1>10, <1>14, <3>1
  <2>4. CASE i = 2
    BY <1>3, <1>7, <1>10, <2>3, <2>4
  <2>5. CASE i # 1 /\ i # 2
    <3>1. f \notin DOMAIN ep.patch /\ f \notin DOMAIN Identity(ep)
      <4>1. ~(i <= 2)
        BY <2>1, <2>5
      <4> QED
        BY <1>10, <1>14, <2>3, <2>5, <4>1
    <3>2. PICK k \in 1..n : k = n + 3 - i /\ n + 3 - k = i
      BY <1>11, <2>1, <2>5
    <3>3. k \in Setters(names, n, f)
      BY <1>9, <3>2
    <3>4. PICK m : m = Max(Setters(names, n, f))
      OBVIOUS
    <3>5. m \in Setters(names, n, f) /\ k <= m
      BY <1>3, <1>12, <3>3, <3>4, MaxIs
    <3>6. m \in 1..n /\ n + 3 - m \in SetBy(ep, f)
      BY <1>9, <1>12, <3>5
    <3>7. i <= n + 3 - m
      BY <1>14, <3>6
    <3>8. m = k
      BY <1>3, <3>2, <3>5, <3>6, <3>7
    <3>9. f \in DOMAIN layer /\ f \in FieldsUpTo(names, n)
      BY <1>3, <1>8, <3>3, FieldsAreSet
    <3>10. layer[f] = templates[names[k]].body[f]
      BY <1>4, <3>4, <3>8, <3>9 DEF LayeredUpTo
    <3>11. TemplateBody(names[k]) = templates[names[k]].body
      BY <3>3 DEF Setters, TemplateBody
    <3> QED
      BY <1>3, <1>7, <3>1, <3>2, <3>9, <3>10, <3>11
  <2> QED
    BY <2>2, <2>4, <2>5
<1> QED
  BY <1>6, <1>13, <1>14

(* FieldsFollowPrecedence, for any number of templates and of fields they set. *)
THEOREM LayersInOrder == Spec => []FieldsFollowPrecedence
<1>1. ASSUME TypeInv, NEW r \in Elements(rendered), NEW f
      PROVE  /\ f \in DOMAIN r.object <=> SetBy(r.from, f) # {}
             /\ \A i \in SetBy(r.from, f) :
                   (\A j \in SetBy(r.from, f) : i <= j) => r.object[f] = LayersOf(r.from)[i][f]
  <2>1. PICK n \in DOMAIN rendered : r = rendered[n]
    BY DEF Elements
  <2>2. PICK ep : ep = r.from
    OBVIOUS
  <2>3. IsEndpoint(ep) /\ r.object = RenderOne(ep)
    BY <1>1, <2>1, <2>2, RenderedIs
  <2>4. IsFiniteSet(DOMAIN templates)
    BY <1>1 DEF TypeInv, InputOK
  <2>5. /\ f \in DOMAIN RenderOne(ep) <=> SetBy(ep, f) # {}
        /\ \A i \in SetBy(ep, f) :
              (\A j \in SetBy(ep, f) : i <= j) => RenderOne(ep)[f] = LayersOf(ep)[i][f]
    BY <2>3, <2>4, FieldsOf
  <2> QED
    BY <2>2, <2>3, <2>5
<1>2. TypeInv => FieldsFollowPrecedence
  BY <1>1 DEF FieldsFollowPrecedence
<1> QED
  BY <1>2, TypeAlways, PTL
=============================================================================
