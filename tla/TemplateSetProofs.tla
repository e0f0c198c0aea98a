-------------------------- MODULE TemplateSetProofs --------------------------
(* Proofs about TemplateSet: the caches are right, whatever the templates extend
   and in whatever order they are asked for. *)
EXTENDS TemplateSet, SequenceTheorems, FiniteSetTheorems, WellFoundedInduction, TLAPS

Frames == [name : Names, parents : Seq(AllNames), out : Bodies]
Results == {None} \cup [body : Bodies] \cup [failure : Reasons]

SpecsOK ==
    /\ extends \in [Names -> Seq(AllNames)]
    /\ own \in [Names -> {"sets", "silent", "invalid"}]

(* TypeOK, with the types of what a step reads. *)
TypeInv ==
    /\ SpecsOK
    /\ resolved \in [Names -> Bodies \cup {None}]
    /\ failed \in [AllNames -> Reasons \cup {None}]
    /\ visiting \in AllNames \cup {None}
    /\ returned \in Results
    /\ stack \in Seq(Frames)

(* Each call under way waits for the call above it, or for the visit in hand. *)
WaitsFor(f, n) == f.parents # <<>> /\ Head(f.parents) = n
Waiting ==
    /\ \A i \in 1..(Len(stack) - 1) : WaitsFor(stack[i], stack[i + 1].name)
    /\ stack # <<>> /\ visiting # None => WaitsFor(Top, visiting)
    /\ stack # <<>> /\ returned # None => Top.parents # <<>>
    /\ visiting # None => returned = None

-----------------------------------------------------------------------------
(* The stack. *)

LEMMA TopAndPop ==
    ASSUME stack \in Seq(Frames), stack # <<>>
    PROVE  /\ Len(stack) \in Nat /\ Len(stack) > 0
           /\ Top \in Frames
           /\ Pop \in Seq(Frames) /\ Len(Pop) = Len(stack) - 1
           /\ \A i \in 1..(Len(stack) - 1) : Pop[i] = stack[i]
<1>1. Len(stack) \in Nat /\ Len(stack) > 0
  OBVIOUS
<1>2. Top \in Frames
  BY <1>1 DEF Top
<1> DEFINE n == Len(stack) - 1
<1>3. n \in Nat /\ \A i \in 1..n : stack[i] \in Frames
  BY <1>1
<1>4. Pop = SubSeq(stack, 1, n)
  BY DEF Pop
<1> HIDE DEF n
<1>5. Pop \in Seq(Frames) /\ Len(Pop) = n
  BY <1>3, <1>4, SubSeqProperties
<1>6. \A i \in 1..n : Pop[i] = stack[i]
  BY <1>3, <1>4, SubSeqProperties
<1> QED
  BY <1>1, <1>2, <1>5, <1>6 DEF n

(* The stack with another frame on top of it, or in the place of its top. *)
LEMMA Pushed ==
    ASSUME NEW s \in Seq(Frames), NEW f \in Frames
    PROVE  /\ Append(s, f) \in Seq(Frames) /\ Append(s, f) # <<>>
           /\ Len(Append(s, f)) = Len(s) + 1
           /\ \A i \in 1..Len(s) : Append(s, f)[i] = s[i]
           /\ Append(s, f)[Len(s) + 1] = f
OBVIOUS

LEMMA HeadAndTail ==
    ASSUME NEW S, NEW s \in Seq(S), s # <<>>
    PROVE  /\ Head(s) \in S /\ Head(s) = s[1]
           /\ Tail(s) \in Seq(S) /\ Len(Tail(s)) = Len(s) - 1
           /\ \A i \in 1..Len(Tail(s)) : Tail(s)[i] = s[i + 1]
OBVIOUS

LEMMA ResultKinds ==
    ASSUME returned \in Results
    PROVE  /\ HasFailure(returned) => returned.failure \in Reasons
           /\ returned # None /\ ~HasFailure(returned) => returned.body \in Bodies
BY DEF Results, HasFailure

LEMMA FailureIsResult ==
    ASSUME NEW reason \in Reasons
    PROVE  /\ [failure |-> reason] \in Results /\ [failure |-> reason] # None
           /\ HasFailure([failure |-> reason])
<1>1. [failure |-> reason] \in [failure : Reasons]
  OBVIOUS
<1> QED
  BY <1>1, NamesAssumption DEF Results, HasFailure

LEMMA BodyIsResult ==
    ASSUME NEW body \in Bodies
    PROVE  /\ [body |-> body] \in Results /\ [body |-> body] # None
           /\ ~HasFailure([body |-> body])
<1>1. [body |-> body] \in [body : Bodies]
  OBVIOUS
<1> QED
  BY <1>1, NamesAssumption DEF Results, HasFailure

-----------------------------------------------------------------------------
(* Types. *)

LEMMA TypeInit == Init => TypeInv
BY ParentsAssumption DEF Init, TypeInv, SpecsOK, Results

LEMMA MergedFrame ==
    ASSUME TypeInv, Waiting, MergeParent
    PROVE  [Top EXCEPT !.parents = Tail(@), !.out = Merge(@, returned.body)] \in Frames
<1>1. Top \in Frames /\ Top.parents # <<>>
  BY TopAndPop DEF MergeParent, InLoop, TypeInv, Waiting
<1>2. Tail(Top.parents) \in Seq(AllNames)
  BY <1>1, HeadTailProperties DEF Frames
<1>3. Merge(Top.out, returned.body) \in Bodies
  BY <1>1, ResultKinds DEF TypeInv, MergeParent, Merge, Frames
<1> QED
  BY <1>1, <1>2, <1>3 DEF Frames

LEMMA TypeStep == TypeInv /\ Waiting /\ [Next]_vars => TypeInv'
<1> SUFFICES ASSUME TypeInv, Waiting, [Next]_vars PROVE TypeInv'
  OBVIOUS
<1> USE DEF TypeInv, SpecsOK, specVars, cacheVars
<1>1. ASSUME NEW n \in AllNames, Resolve(n) PROVE TypeInv'
  BY <1>1 DEF Resolve, Results
<1>2. CASE HitResolved
  <2>1. resolved[visiting] \in Bodies
    BY <1>2 DEF HitResolved
  <2> QED
    BY <1>2, <2>1, BodyIsResult DEF HitResolved, Returns
<1>3. CASE HitFailed
  <2>1. failed[visiting] \in Reasons
    BY <1>3 DEF HitFailed
  <2> QED
    BY <1>3, <2>1, FailureIsResult DEF HitFailed, Returns
<1>4. CASE FindCycle
  <2>1. "Cycle" \in Reasons
    BY DEF Reasons
  <2> QED
    BY <1>4, <2>1, FailureIsResult DEF FindCycle, Fails, Returns
<1>5. CASE FindUnknown
  <2>1. "UnknownParent" \in Reasons
    BY DEF Reasons
  <2> QED
    BY <1>5, <2>1, FailureIsResult DEF FindUnknown, Fails, Returns
<1>6. CASE Descend
  <2>1. Frame(visiting) \in Frames
    BY <1>6 DEF Descend, Frame, Frames, Bodies
  <2> QED
    BY <1>6, <2>1, Pushed DEF Descend, Results
<1>7. CASE VisitParent
  <2>1. Head(Top.parents) \in AllNames
    BY <1>7, TopAndPop, HeadAndTail DEF VisitParent, InLoop, Frames
  <2> QED
    BY <1>7, <2>1 DEF VisitParent
<1>8. CASE MergeParent
  <2>1. Pop \in Seq(Frames)
    BY <1>8, TopAndPop DEF MergeParent, InLoop
  <2>2. stack' \in Seq(Frames)
    BY <1>8, <2>1, MergedFrame DEF MergeParent
  <2> QED
    BY <1>8, <2>2 DEF MergeParent, Results
<1>9. CASE ParentFailed
  <2>1. Top \in Frames /\ Pop \in Seq(Frames)
    BY <1>9, TopAndPop DEF ParentFailed, InLoop
  <2>2. returned.failure \in Reasons
    BY <1>9, ResultKinds DEF ParentFailed
  <2> QED
    BY <1>9, <2>1, <2>2, FailureIsResult DEF ParentFailed, Fails, Returns
<1>10. CASE OwnBodyInvalid
  <2>1. Pop \in Seq(Frames) /\ "InvalidEndpoint" \in Reasons
    BY <1>10, TopAndPop DEF OwnBodyInvalid, InLoop, Reasons
  <2> QED
    BY <1>10, <2>1, FailureIsResult DEF OwnBodyInvalid, Fails, Returns
<1>11. CASE MergeOwnBody
  <2> DEFINE body == Merge(Top.out, IF own[Top.name] = "sets" THEN Top.name ELSE Unset)
  <2>1. Top \in Frames /\ Pop \in Seq(Frames)
    BY <1>11, TopAndPop DEF MergeOwnBody, InLoop
  <2>2. body \in Bodies
    BY <2>1 DEF Merge, Frames, Bodies
  <2>3. /\ resolved' = [resolved EXCEPT ![Top.name] = body]
        /\ Returns([body |-> body]) /\ stack' = Pop
        /\ UNCHANGED <<extends, own, failed>>
    BY <1>11 DEF MergeOwnBody
  <2> HIDE DEF body
  <2> QED
    BY <2>1, <2>2, <2>3, BodyIsResult DEF Returns
<1>12. CASE UNCHANGED vars
  BY <1>12 DEF vars
<1> QED
  BY <1>1, <1>2, <1>3, <1>4, <1>5, <1>6, <1>7, <1>8, <1>9, <1>10, <1>11, <1>12 DEF Next

-----------------------------------------------------------------------------
(* What each step does to the stack. *)

LEMMA DescendStack ==
    ASSUME TypeInv, Descend
    PROVE  /\ visiting \in Names \ Stacked /\ visiting # None
           /\ stack' \in Seq(Frames) /\ Len(stack') = Len(stack) + 1
           /\ \A i \in 1..Len(stack) : stack'[i] = stack[i]
           /\ stack'[Len(stack) + 1] = Frame(visiting)
           /\ visiting' = None /\ returned' = None /\ UNCHANGED <<specVars, cacheVars>>
<1>1. Frame(visiting) \in Frames
  BY DEF Descend, TypeInv, SpecsOK, Frame, Frames, Bodies
<1> QED
  BY <1>1, Pushed DEF Descend, Miss, TypeInv

LEMMA MergeStack ==
    ASSUME TypeInv, Waiting, MergeParent
    PROVE  /\ stack # <<>> /\ stack' \in Seq(Frames) /\ Len(stack') = Len(stack)
           /\ \A i \in 1..(Len(stack) - 1) : stack'[i] = stack[i]
           /\ stack'[Len(stack)].name = Top.name
           /\ stack'[Len(stack)].parents = Tail(Top.parents)
           /\ stack'[Len(stack)].out = Merge(Top.out, returned.body)
           /\ visiting = None /\ visiting' = None /\ returned' = None
           /\ UNCHANGED <<specVars, cacheVars>>
<1> DEFINE f == [Top EXCEPT !.parents = Tail(@), !.out = Merge(@, returned.body)]
<1>1. stack # <<>> /\ Top \in Frames
  BY TopAndPop DEF MergeParent, InLoop, TypeInv
<1>2. f \in Frames
  BY MergedFrame
<1>3. /\ f.name = Top.name /\ f.parents = Tail(Top.parents)
      /\ f.out = Merge(Top.out, returned.body)
  BY <1>1 DEF Frames
<1>4. stack' = Append(Pop, f)
  BY DEF MergeParent
<1>5. Len(stack) \in Nat /\ Len(Pop) = Len(stack) - 1 /\ Pop \in Seq(Frames)
  BY <1>1, TopAndPop DEF TypeInv
<1> HIDE DEF f
<1>6. /\ stack' \in Seq(Frames) /\ Len(stack') = Len(stack) /\ stack'[Len(stack)] = f
      /\ \A i \in 1..(Len(stack) - 1) : stack'[i] = Pop[i]
  BY <1>2, <1>4, <1>5, Pushed
<1>7. \A i \in 1..(Len(stack) - 1) : stack'[i] = stack[i]
  BY <1>1, <1>6, TopAndPop DEF TypeInv
<1> QED
  BY <1>1, <1>3, <1>6, <1>7 DEF MergeParent, InLoop

(* What ends a call: its frame goes, and there is a result. *)
Ends == ParentFailed \/ OwnBodyInvalid \/ MergeOwnBody

LEMMA EndStack ==
    ASSUME TypeInv, Ends
    PROVE  /\ stack # <<>> /\ Len(stack) \in Nat /\ Len(stack) > 0
           /\ Top \in Frames /\ Top = stack[Len(stack)]
           /\ stack' \in Seq(Frames) /\ Len(stack') = Len(stack) - 1
           /\ \A i \in 1..(Len(stack) - 1) : stack'[i] = stack[i]
           /\ visiting = None /\ visiting' = None /\ UNCHANGED specVars
<1>1. /\ stack # <<>> /\ visiting = None /\ visiting' = None /\ stack' = Pop
      /\ UNCHANGED specVars
  BY DEF Ends, ParentFailed, OwnBodyInvalid, MergeOwnBody, InLoop, Fails, Returns
<1> QED
  BY <1>1, TopAndPop DEF TypeInv, Top

(* A visit that needs no call of its own. *)
Finds == HitResolved \/ HitFailed \/ FindCycle \/ FindUnknown

LEMMA FindStack ==
    ASSUME TypeInv, Finds
    PROVE  /\ visiting \in AllNames /\ visiting # None /\ visiting' = None
           /\ UNCHANGED <<specVars, resolved, stack>>
BY NamesAssumption DEF TypeInv, Finds, HitResolved, HitFailed, FindCycle, FindUnknown, Miss,
                       Fails, Returns, AllNames, cacheVars

LEMMA WaitingStep == TypeInv /\ Waiting /\ [Next]_vars => Waiting'
<1> SUFFICES ASSUME TypeInv, Waiting, [Next]_vars PROVE Waiting'
  OBVIOUS
<1>a. stack \in Seq(Frames) /\ Len(stack) \in Nat
  BY DEF TypeInv
<1>b. ASSUME UNCHANGED stack PROVE UNCHANGED Top
  BY <1>b DEF Top
<1>1. ASSUME NEW n \in AllNames, Resolve(n) PROVE Waiting'
  BY <1>1, <1>a DEF Resolve, Waiting
<1>2. CASE Finds
  BY <1>2, <1>b, FindStack DEF Waiting, WaitsFor
<1>3. CASE Descend
  <2>1. ASSUME NEW i \in 1..Len(stack) PROVE WaitsFor(stack'[i], stack'[i + 1].name)
    <3>1. CASE i = Len(stack)
      BY <1>3, <1>a, <3>1, DescendStack DEF Waiting, Top, Frame
    <3>2. CASE i # Len(stack)
      BY <1>3, <1>a, <3>2, DescendStack DEF Waiting
    <3> QED
      BY <3>1, <3>2
  <2> QED
    BY <1>3, <1>a, <2>1, DescendStack DEF Waiting
<1>4. CASE VisitParent
  BY <1>4, <1>b DEF VisitParent, InLoop, Waiting, WaitsFor
<1>5. CASE MergeParent
  <2>1. stack'[Len(stack)].name = stack[Len(stack)].name
    BY <1>5, MergeStack DEF Top
  <2> QED
    BY <1>5, <1>a, <2>1, MergeStack DEF Waiting
<1>6. CASE Ends
  <2>1. ASSUME stack' # <<>> PROVE WaitsFor(Top', stack[Len(stack)].name)
    <3>1. Len(stack') \in 1..(Len(stack) - 1)
      BY <1>6, <2>1, EndStack
    <3> QED
      BY <1>6, <3>1, EndStack DEF Waiting, Top
  <2>2. \A i \in 1..(Len(stack') - 1) : WaitsFor(stack'[i], stack'[i + 1].name)
    BY <1>6, EndStack DEF Waiting
  <2> QED
    BY <1>6, <2>1, <2>2, EndStack DEF Waiting, WaitsFor
<1>7. CASE UNCHANGED vars
  BY <1>7, <1>b DEF vars, Waiting
<1> QED
  BY <1>1, <1>2, <1>3, <1>4, <1>5, <1>6, <1>7 DEF Next, Finds, Ends

LEMMA NoRepeatsStep == TypeInv /\ Waiting /\ StackHasNoRepeats /\ [Next]_vars => StackHasNoRepeats'
<1> SUFFICES ASSUME TypeInv, Waiting, StackHasNoRepeats, [Next]_vars PROVE StackHasNoRepeats'
  OBVIOUS
<1>a. stack \in Seq(Frames) /\ Len(stack) \in Nat /\ DOMAIN stack = 1..Len(stack)
  BY DEF TypeInv
<1>1. CASE Descend
  <2>1. DOMAIN stack' = 1..(Len(stack) + 1)
    BY <1>1, DescendStack
  <2>2. \A i \in 1..Len(stack) : stack'[i].name # visiting
    BY <1>1, <1>a, DescendStack DEF Stacked
  <2> QED
    BY <1>1, <1>a, <2>1, <2>2, DescendStack DEF StackHasNoRepeats, Frame
<1>2. CASE MergeParent
  <2>1. \A i \in 1..Len(stack) : stack'[i].name = stack[i].name
    BY <1>2, <1>a, MergeStack DEF Top
  <2>2. DOMAIN stack' = 1..Len(stack)
    BY <1>2, MergeStack
  <2> QED
    BY <1>a, <2>1, <2>2 DEF StackHasNoRepeats
<1>3. CASE Ends
  <2>1. DOMAIN stack' = 1..(Len(stack) - 1)
    BY <1>3, EndStack
  <2> QED
    BY <1>3, <1>a, <2>1, EndStack DEF StackHasNoRepeats
<1>4. CASE UNCHANGED stack
  BY <1>4 DEF StackHasNoRepeats
<1> QED
  BY <1>1, <1>2, <1>3, <1>4, FindStack
     DEF Next, vars, Finds, Ends, Resolve, VisitParent

CoreInv == TypeInv /\ Waiting /\ StackHasNoRepeats

LEMMA CoreAlways == Spec => []CoreInv
<1>1. Init => CoreInv
  BY TypeInit DEF Init, CoreInv, Waiting, StackHasNoRepeats
<1>2. CoreInv /\ [Next]_vars => CoreInv'
  BY TypeStep, WaitingStep, NoRepeatsStep DEF CoreInv
<1> QED
  BY <1>1, <1>2, PTL DEF Spec

-----------------------------------------------------------------------------
(* What the caches hold, against each other, the stack and the templates. *)

Cached(n) == n \in Names /\ resolved[n] # None

(* What the merge of a template's parents and its own body should give. *)
Combined(n, bodies) ==
    IF own[n] = "sets" THEN n
    ELSE LastSet([j \in DOMAIN extends[n] |-> bodies[extends[n][j]]])

(* A cached body is made of cached bodies. *)
ResolvedOK ==
    \A n \in Names : resolved[n] # None =>
        /\ n \in Resolvable
        /\ own[n] # "invalid"
        /\ \A j \in DOMAIN extends[n] : Cached(extends[n][j])
        /\ resolved[n] = Combined(n, resolved)

(* How many parents a call has merged, and that it is these it has merged. *)
Done(f, ext) == Len(ext[f.name]) - Len(f.parents)
FrameFits(f, ext, bodies) ==
    /\ Done(f, ext) \in Nat
    /\ \A j \in 1..Len(f.parents) : f.parents[j] = ext[f.name][Done(f, ext) + j]
    /\ \A j \in 1..Done(f, ext) : LET parent == ext[f.name][j]
                                IN  parent \in Names /\ bodies[parent] # None
    /\ f.out = LastSet([j \in 1..Done(f, ext) |-> bodies[ext[f.name][j]]])
    /\ bodies[f.name] = None
FramesOK == \A i \in DOMAIN stack : FrameFits(stack[i], extends, resolved)

(* A result is what the caches say of the parent it is for. *)
ReturnOK ==
    stack # <<>> /\ returned # None =>
        LET parent == Head(Top.parents)
        IN  IF HasFailure(returned) THEN failed[parent] = returned.failure
                                    ELSE Cached(parent) /\ resolved[parent] = returned.body

(* A failure outside the calls under way is the template's own, or that of the
   first parent without a body. *)
FailsAlone(n) ==
    /\ own[n] = "invalid" /\ failed[n] = "InvalidEndpoint"
    /\ \A j \in DOMAIN extends[n] : Cached(extends[n][j])
FailsWith(n, j) ==
    /\ j \in DOMAIN extends[n] /\ failed[extends[n][j]] = failed[n]
    /\ \A i \in 1..(j - 1) : Cached(extends[n][i])
FailedOK ==
    \A n \in AllNames : failed[n] # None =>
        IF n \notin Names THEN failed[n] = "UnknownParent"
        ELSE /\ resolved[n] = None
             /\ n \notin Stacked => FailsAlone(n) \/ \E j \in DOMAIN extends[n] : FailsWith(n, j)

(* If a call under way already has a failure, it has closed a cycle, and all
   the calls under way are about to fail. *)
CycleOK ==
    \A i \in DOMAIN stack : failed[stack[i].name] # None =>
        /\ failed[stack[i].name] = "Cycle"
        /\ visiting = None /\ HasFailure(returned) /\ returned.failure = "Cycle"

(* The reasons but for cycles lead to their culprits. *)
BecauseUnknown == Because(Unknown \ Names, Blame(Resolvable))
BecauseInvalid ==
    Because({n \in Names \ Resolvable : ParentSet(n) \subseteq Resolvable}, Blame(Resolvable))
ReasonsOK ==
    \A n \in AllNames : /\ failed[n] = "UnknownParent" => n \in BecauseUnknown
                        /\ failed[n] = "InvalidEndpoint" => n \in BecauseInvalid

-----------------------------------------------------------------------------
(* LastSet. *)

LEMMA LeastNatural ==
    ASSUME NEW T, T \subseteq Nat, T # {}
    PROVE  \E x \in T : \A y \in T : x <= y
<1> DEFINE R == OpToRel(<, Nat)
<1>1. IsWellFoundedOn(R, Nat)
  BY NatLessThanWellFounded
<1>2. \E x \in T : \A y \in T : ~(<<y, x>> \in R)
  <2> HIDE DEF R
  <2> QED
    BY <1>1, WFMin
<1>3. \A x, y \in Nat : y < x => <<y, x>> \in R
  BY DEF OpToRel
<1> HIDE DEF R
<1>4. PICK x \in T : \A y \in T : ~(<<y, x>> \in R)
  BY <1>2
<1>5. \A y \in T : ~(y < x)
  BY <1>3, <1>4, Zenon
<1>6. \A y \in T : x <= y
  BY <1>5
<1> QED
  BY <1>6

LEMMA MaxOfSome ==
    ASSUME NEW k \in Nat, NEW S, S \subseteq 1..k, S # {}
    PROVE  Max(S) \in S /\ \A j \in S : j <= Max(S)
<1> DEFINE T == {k - i : i \in S}
<1>1. T \subseteq Nat /\ T # {}
  <2>1. \A i \in S : k - i \in Nat
    OBVIOUS
  <2> QED
    BY <2>1
<1>2. PICK x \in T : \A y \in T : x <= y
  BY <1>1, LeastNatural
<1>3. PICK m \in S : x = k - m
  BY <1>2
<1>4. \A j \in S : m >= j
  <2> SUFFICES ASSUME NEW j \in S PROVE m >= j
    OBVIOUS
  <2>1. k - j \in T
    OBVIOUS
  <2> QED
    BY <1>2, <1>3, <2>1
<1>5. Max(S) \in S /\ \A j \in S : Max(S) >= j
  BY <1>3, <1>4, Zenon DEF Max
<1> QED
  BY <1>5

LEMMA LastOfNone == ASSUME NEW bodies, DOMAIN bodies = 1..0 PROVE LastSet(bodies) = Unset
BY DEF LastSet

(* What one more body does is what mergeInto does with it. *)
LEMMA LastSetGrows ==
    ASSUME NEW k \in Nat, NEW b, NEW c, DOMAIN b = 1..(k + 1), DOMAIN c = 1..k,
           \A j \in 1..k : c[j] = b[j]
    PROVE  LastSet(b) = Merge(LastSet(c), b[k + 1])
<1> DEFINE inB == {i \in DOMAIN b : b[i] # Unset}
           inC == {i \in DOMAIN c : c[i] # Unset}
<1>1. CASE b[k + 1] = Unset
  <2>1. inB = inC
    BY <1>1
  <2>2. CASE inC = {}
    BY <1>1, <2>1, <2>2 DEF LastSet, Merge
  <2>3. CASE inC # {}
    <3>1. Max(inC) \in 1..k
      BY <2>3, MaxOfSome
    <3>2. LastSet(c) = c[Max(inC)] /\ LastSet(b) = b[Max(inB)]
      BY <2>1, <2>3 DEF LastSet
    <3> HIDE DEF inB, inC
    <3> QED
      BY <1>1, <2>1, <3>1, <3>2 DEF Merge
  <2> QED
    BY <2>2, <2>3
<1>2. CASE b[k + 1] # Unset
  <2>1. k + 1 \in inB /\ inB \subseteq 1..(k + 1)
    BY <1>2
  <2>2. /\ Max(inB) \in 1..(k + 1)
        /\ \A j \in inB : j <= Max(inB)
    <3> HIDE DEF inB
    <3>1. k + 1 \in Nat /\ inB # {}
      BY <2>1
    <3>2. Max(inB) \in inB /\ \A j \in inB : j <= Max(inB)
      BY <2>1, <3>1, MaxOfSome
    <3> QED
      BY <2>1, <3>2
  <2>3. Max(inB) = k + 1
    <3> HIDE DEF inB
    <3> QED
      BY <2>1, <2>2
  <2>4. LastSet(b) = b[Max(inB)]
    BY <2>1 DEF LastSet
  <2> QED
    BY <1>2, <2>3, <2>4 DEF Merge
<1> QED
  BY <1>1, <1>2

-----------------------------------------------------------------------------
(* Resolvable and Because, least sets. *)

LEMMA ResolvableIsLeast ==
    ASSUME NEW S, S \subseteq Names, HasEveryBuilt(S)
    PROVE  Resolvable \subseteq S
BY DEF Resolvable

LEMMA ResolvableIsBuilt == HasEveryBuilt(Resolvable)
<1> SUFFICES ASSUME NEW n \in Names, own[n] # "invalid", ParentSet(n) \subseteq Resolvable
             PROVE  n \in Resolvable
  BY DEF HasEveryBuilt
<1>1. ASSUME NEW S \in SUBSET Names, HasEveryBuilt(S) PROVE n \in S
  <2>1. ParentSet(n) \subseteq S
    BY <1>1, ResolvableIsLeast
  <2> QED
    BY <1>1, <2>1 DEF HasEveryBuilt
<1> QED
  BY <1>1 DEF Resolvable

(* A template that resolves is one that is built of others that do. *)
LEMMA ResolvableOnlyBuilt ==
    ASSUME NEW n \in Resolvable
    PROVE  n \in Names /\ own[n] # "invalid" /\ ParentSet(n) \subseteq Resolvable
<1> DEFINE S == {m \in Resolvable : own[m] # "invalid" /\ ParentSet(m) \subseteq Resolvable}
<1>1. S \subseteq Names /\ S \subseteq Resolvable
  BY DEF Resolvable
<1>2. HasEveryBuilt(S)
  <2> SUFFICES ASSUME NEW m \in Names, own[m] # "invalid", ParentSet(m) \subseteq S
               PROVE  m \in S
    BY DEF HasEveryBuilt
  <2>1. ParentSet(m) \subseteq Resolvable
    BY <1>1
  <2>2. m \in Resolvable
    BY <2>1, ResolvableIsBuilt DEF HasEveryBuilt
  <2> QED
    BY <2>1, <2>2
<1>3. Resolvable \subseteq S
  <2> HIDE DEF S
  <2> QED
    BY <1>1, <1>2, ResolvableIsLeast
<1> QED
  BY <1>1, <1>3

LEMMA BlameIs ==
    ASSUME NEW good, NEW b
    PROVE  b \in Blame(good) <=>
               \E n \in Names : \E j \in DOMAIN extends[n] :
                   AtFault(n, j, good) /\ b = <<n, extends[n][j]>>
<1> DEFINE row(n) == {<<n, extends[n][j]>> : j \in {i \in DOMAIN extends[n] : AtFault(n, i, good)}}
<1>1. b \in Blame(good) <=> \E n \in Names : b \in row(n)
  BY DEF Blame
<1>2. \A n : b \in row(n) <=> \E j \in DOMAIN extends[n] :
                                  AtFault(n, j, good) /\ b = <<n, extends[n][j]>>
  OBVIOUS
<1> HIDE DEF row
<1> QED
  BY <1>1, <1>2

LEMMA CulpritsAreBlamed ==
    ASSUME NEW culprits, NEW blame, culprits \subseteq AllNames
    PROVE  culprits \subseteq Because(culprits, blame)
BY DEF Because

LEMMA BlameIsPassedOn ==
    ASSUME NEW culprits, NEW good, NEW n \in Names, NEW j \in DOMAIN extends[n],
           AtFault(n, j, good), extends[n][j] \in Because(culprits, Blame(good))
    PROVE  n \in Because(culprits, Blame(good))
<1>1. <<n, extends[n][j]>> \in Blame(good)
  BY BlameIs
<1>2. ASSUME NEW S \in SUBSET AllNames, culprits \subseteq S, HasEveryBlamer(S, Blame(good))
      PROVE  n \in S
  <2>1. extends[n][j] \in S
    BY <1>2 DEF Because
  <2>2. <<n, extends[n][j]>>[2] = extends[n][j] /\ <<n, extends[n][j]>>[1] = n
    OBVIOUS
  <2> QED
    BY <1>1, <1>2, <2>1, <2>2 DEF HasEveryBlamer
<1> QED
  BY <1>2 DEF Because, AllNames

LEMMA BecauseIsLeast ==
    ASSUME NEW culprits, NEW good, NEW S, S \subseteq AllNames, culprits \subseteq S,
           \A n \in Names : \A j \in DOMAIN extends[n] :
               AtFault(n, j, good) /\ extends[n][j] \in S => n \in S
    PROVE  Because(culprits, Blame(good)) \subseteq S
<1>1. ASSUME NEW b \in Blame(good), b[2] \in S PROVE b[1] \in S
  BY <1>1, BlameIs
<1> QED
  BY <1>1 DEF Because, HasEveryBlamer

LEMMA SpecsAlone ==
    ASSUME UNCHANGED specVars
    PROVE  UNCHANGED <<Resolvable, BecauseUnknown, BecauseInvalid>>
<1>1. UNCHANGED <<extends, own>>
  BY DEF specVars
<1>2. \A n : ParentSet(n)' = ParentSet(n)
  BY <1>1 DEF ParentSet
<1>3. UNCHANGED Resolvable
  BY <1>1, <1>2 DEF Resolvable, HasEveryBuilt
<1>4. UNCHANGED Blame(Resolvable)
  BY <1>1, <1>3 DEF Blame, AtFault
<1> QED
  BY <1>2, <1>3, <1>4 DEF BecauseUnknown, BecauseInvalid, Because, HasEveryBlamer

-----------------------------------------------------------------------------
(* The bodies. *)

LEMMA FrameStays ==
    ASSUME NEW f, NEW ext, NEW before, NEW after, FrameFits(f, ext, before),
           \A n \in Names : before[n] # None => after[n] = before[n],
           after[f.name] = None
    PROVE  FrameFits(f, ext, after)
<1>1. [j \in 1..Done(f, ext) |-> before[ext[f.name][j]]]
        = [j \in 1..Done(f, ext) |-> after[ext[f.name][j]]]
  BY DEF FrameFits
<1> QED
  BY <1>1 DEF FrameFits

LEMMA FrameStarts ==
    ASSUME TypeInv, NEW n \in Names, resolved[n] = None
    PROVE  FrameFits(Frame(n), extends, resolved)
<1>1. Len(extends[n]) \in Nat
  BY DEF TypeInv, SpecsOK
<1>2. Done(Frame(n), extends) = 0
  BY <1>1 DEF Done, Frame
<1>3. LastSet([j \in 1..0 |-> resolved[extends[Frame(n).name][j]]]) = Unset
  BY LastOfNone
<1> QED
  BY <1>1, <1>2, <1>3 DEF FrameFits, Frame

LEMMA FrameGrows ==
    ASSUME NEW ext \in [Names -> Seq(AllNames)], NEW bodies,
           NEW f \in Frames, FrameFits(f, ext, bodies),
           f.parents # <<>>, Head(f.parents) \in Names, bodies[Head(f.parents)] # None,
           NEW g, g.name = f.name, g.parents = Tail(f.parents),
           g.out = Merge(f.out, bodies[Head(f.parents)])
    PROVE  FrameFits(g, ext, bodies)
<1> DEFINE k == Done(f, ext)
           body(j) == bodies[ext[f.name][j]]
<1>1. f.parents \in Seq(AllNames)
  BY DEF Frames
<1>2. /\ Len(f.parents) \in Nat /\ Len(f.parents) > 0 /\ Head(f.parents) = f.parents[1]
      /\ Len(g.parents) = Len(f.parents) - 1
      /\ \A j \in 1..Len(g.parents) : g.parents[j] = f.parents[j + 1]
  BY <1>1, HeadTailProperties
<1>3. k \in Nat
  BY DEF FrameFits
<1>4. Len(ext[f.name]) \in Nat
  BY DEF Frames
<1>5. Done(g, ext) = k + 1
  <2>1. Done(g, ext) = Len(ext[f.name]) - (Len(f.parents) - 1)
    BY <1>2 DEF Done
  <2>2. k = Len(ext[f.name]) - Len(f.parents)
    BY DEF Done
  <2> HIDE DEF k
  <2> QED
    BY <1>2, <1>4, <2>1, <2>2
<1>6. Head(f.parents) = ext[f.name][k + 1]
  BY <1>2, <1>3 DEF FrameFits
<1>7. LastSet([j \in 1..(k + 1) |-> body(j)])
        = Merge(LastSet([j \in 1..k |-> body(j)]), body(k + 1))
  <2> DEFINE b == [j \in 1..(k + 1) |-> body(j)]
             c == [j \in 1..k |-> body(j)]
  <2>1. /\ DOMAIN b = 1..(k + 1) /\ DOMAIN c = 1..k /\ b[k + 1] = body(k + 1)
        /\ \A j \in 1..k : c[j] = b[j]
    BY <1>3
  <2> HIDE DEF b, c, k, body
  <2>2. LastSet(b) = Merge(LastSet(c), b[k + 1])
    BY <1>3, <2>1, LastSetGrows
  <2> QED
    BY <2>1, <2>2 DEF b, c
<1>8. g.out = LastSet([j \in 1..(k + 1) |-> body(j)])
  BY <1>6, <1>7 DEF FrameFits
<1>9. \A j \in 1..(k + 1) : ext[f.name][j] \in Names /\ bodies[ext[f.name][j]] # None
  BY <1>3, <1>6 DEF FrameFits
<1>10. ASSUME NEW j \in 1..Len(g.parents) PROVE g.parents[j] = ext[g.name][k + 1 + j]
  <2>1. j + 1 \in 1..Len(f.parents) /\ g.parents[j] = f.parents[j + 1]
    BY <1>2
  <2>2. f.parents[j + 1] = ext[f.name][k + (j + 1)]
    BY <2>1 DEF FrameFits
  <2>3. k + (j + 1) = k + 1 + j
    BY <1>2, <1>3
  <2> QED
    BY <2>1, <2>2, <2>3
<1>11. bodies[g.name] = None
  BY DEF FrameFits
<1> HIDE DEF k
<1>12. g.out = LastSet([j \in 1..Done(g, ext) |-> bodies[ext[g.name][j]]])
  BY <1>5, <1>8
<1>13. \A j \in 1..Len(g.parents) : g.parents[j] = ext[g.name][Done(g, ext) + j]
  BY <1>5, <1>10
<1>14. /\ Done(g, ext) \in Nat
       /\ \A j \in 1..Done(g, ext) : ext[g.name][j] \in Names /\ bodies[ext[g.name][j]] # None
  BY <1>3, <1>5, <1>9
<1> QED
  BY <1>11, <1>12, <1>13, <1>14, Zenon DEF FrameFits

CacheInv == FramesOK /\ ReturnOK /\ ResolvedOK

LEMMA CacheInit == Init => CacheInv
BY DEF Init, CacheInv, FramesOK, ReturnOK, ResolvedOK

LEMMA QuietKeepsFrames ==
    ASSUME FramesOK, UNCHANGED <<specVars, resolved, stack>>
    PROVE  FramesOK'
BY DEF FramesOK, specVars

LEMMA FramesStep == CoreInv /\ CacheInv /\ [Next]_vars => FramesOK'
<1> SUFFICES ASSUME CoreInv, CacheInv, [Next]_vars PROVE FramesOK'
  OBVIOUS
<1>a. /\ TypeInv /\ Waiting /\ StackHasNoRepeats
      /\ FramesOK /\ ReturnOK
      /\ stack \in Seq(Frames) /\ Len(stack) \in Nat /\ DOMAIN stack = 1..Len(stack)
  BY DEF CoreInv, CacheInv, TypeInv
<1>1. CASE Descend
  <2>1. FrameFits(Frame(visiting), extends, resolved)
    BY <1>1, <1>a, FrameStarts, DescendStack DEF Descend, Miss
  <2>2. DOMAIN stack' = 1..(Len(stack) + 1) /\ UNCHANGED <<extends, resolved>>
    BY <1>1, <1>a, DescendStack DEF specVars, cacheVars
  <2>3. \A i \in 1..Len(stack) : stack'[i] = stack[i] /\ FrameFits(stack[i], extends, resolved)
    BY <1>1, <1>a, DescendStack DEF FramesOK
  <2>4. \A i \in 1..(Len(stack) + 1) : FrameFits(stack'[i], extends, resolved)
    BY <1>1, <1>a, <2>1, <2>3, DescendStack
  <2> QED
    BY <2>2, <2>4 DEF FramesOK
<1>2. CASE MergeParent
  <2>1. /\ Top \in Frames /\ Top = stack[Len(stack)] /\ Len(stack) > 0
        /\ extends \in [Names -> Seq(AllNames)]
    BY <1>2, <1>a, MergeStack, TopAndPop DEF Top, TypeInv, SpecsOK
  <2>2. /\ Top.parents # <<>> /\ Head(Top.parents) \in Names
        /\ resolved[Head(Top.parents)] # None
        /\ returned.body = resolved[Head(Top.parents)]
    BY <1>2, <1>a, MergeStack DEF Waiting, ReturnOK, Cached, MergeParent
  <2>3. FrameFits(Top, extends, resolved)
    BY <1>a, <2>1 DEF FramesOK
  <2>4. FrameFits(stack'[Len(stack)], extends, resolved)
    BY <1>2, <1>a, <2>1, <2>2, <2>3, MergeStack, FrameGrows
  <2>5. DOMAIN stack' = 1..Len(stack) /\ UNCHANGED <<extends, resolved>>
    BY <1>2, <1>a, MergeStack DEF specVars, cacheVars
  <2> QED
    BY <1>2, <1>a, <2>4, <2>5, MergeStack DEF FramesOK
<1>3. CASE ParentFailed \/ OwnBodyInvalid
  <2>1. Ends /\ UNCHANGED <<extends, resolved>>
    BY <1>3 DEF Ends, ParentFailed, OwnBodyInvalid, Fails, specVars
  <2>2. DOMAIN stack' = 1..(Len(stack) - 1)
    BY <1>a, <2>1, EndStack
  <2> QED
    BY <1>a, <2>1, <2>2, EndStack DEF FramesOK
<1>4. CASE MergeOwnBody
  <2>1. Ends /\ UNCHANGED <<extends, own>>
    BY <1>4 DEF Ends, MergeOwnBody, specVars
  <2>2. PICK body : resolved' = [resolved EXCEPT ![Top.name] = body]
    BY <1>4 DEF MergeOwnBody
  <2>3. resolved[Top.name] = None /\ resolved \in [Names -> Bodies \cup {None}]
    <3>1. FrameFits(stack[Len(stack)], extends, resolved)
      BY <1>a, <2>1, EndStack DEF FramesOK
    <3> QED
      BY <1>a, <2>1, <3>1, EndStack DEF FrameFits, TypeInv
  <2>4. \A n \in Names : resolved[n] # None => resolved'[n] = resolved[n]
    BY <2>2, <2>3
  <2>5. ASSUME NEW i \in 1..(Len(stack) - 1) PROVE FrameFits(stack[i], extends, resolved')
    <3>1. stack[i].name # Top.name /\ stack[i] \in Frames
      BY <1>a, <2>1, EndStack DEF StackHasNoRepeats
    <3>2. FrameFits(stack[i], extends, resolved)
      BY <1>a, <2>1, EndStack DEF FramesOK
    <3>3. resolved'[stack[i].name] = None
      BY <2>2, <2>3, <3>1, <3>2 DEF FrameFits, Frames
    <3> QED
      BY <2>4, <3>2, <3>3, FrameStays
  <2>6. DOMAIN stack' = 1..(Len(stack) - 1)
    BY <1>a, <2>1, EndStack
  <2> QED
    BY <1>a, <2>1, <2>5, <2>6, EndStack DEF FramesOK
<1>5. CASE Finds
  BY <1>5, <1>a, FindStack, QuietKeepsFrames
<1>6. CASE VisitParent \/ (\E n \in AllNames : Resolve(n)) \/ UNCHANGED vars
  <2>1. UNCHANGED <<specVars, resolved, stack>>
    BY <1>6 DEF VisitParent, Resolve, vars, cacheVars
  <2> QED
    BY <1>a, <2>1, QuietKeepsFrames
<1> QED
  BY <1>1, <1>2, <1>3, <1>4, <1>5, <1>6 DEF Next, Finds

LEMMA ReturnStep == CoreInv /\ CacheInv /\ [Next]_vars => ReturnOK'
<1> SUFFICES ASSUME CoreInv, CacheInv, [Next]_vars PROVE ReturnOK'
  OBVIOUS
<1>a. TypeInv /\ Waiting /\ FramesOK /\ ReturnOK
  BY DEF CoreInv, CacheInv
<1>b. ASSUME UNCHANGED stack PROVE UNCHANGED Top
  BY <1>b DEF Top
<1>1. CASE Finds /\ stack # <<>>
  <2>1. /\ visiting \in AllNames /\ Head(Top'.parents) = visiting
        /\ UNCHANGED <<specVars, resolved, stack>>
    BY <1>1, <1>a, <1>b, FindStack DEF Waiting, WaitsFor
  <2>2. CASE HitResolved
    <3>1. /\ visiting \in Names /\ resolved[visiting] \in Bodies /\ resolved[visiting] # None
          /\ returned' = [body |-> resolved[visiting]] /\ UNCHANGED resolved
      BY <2>2, <1>a DEF HitResolved, Returns, TypeInv, cacheVars
    <3>2. ~HasFailure(returned') /\ returned'.body = resolved[visiting]
      BY <3>1, BodyIsResult
    <3> QED
      BY <2>1, <3>1, <3>2 DEF ReturnOK, Cached, HasFailure
  <2>3. CASE HitFailed \/ FindCycle \/ FindUnknown
    <3>1. PICK reason \in Reasons : returned' = [failure |-> reason] /\ failed'[visiting] = reason
      BY <2>1, <2>3, <1>a
         DEF HitFailed, FindCycle, FindUnknown, Fails, Returns, TypeInv, Reasons, cacheVars
    <3>2. HasFailure(returned') /\ returned'.failure = reason
      BY <3>1, FailureIsResult
    <3> QED
      BY <2>1, <3>1, <3>2 DEF ReturnOK, HasFailure
  <2> QED
    BY <1>1, <2>2, <2>3 DEF Finds
<1>2. CASE Finds /\ stack = <<>>
  BY <1>2, <1>a, FindStack DEF ReturnOK
<1>3. CASE Ends
  <2>1. CASE stack' = <<>>
    BY <2>1 DEF ReturnOK
  <2>2. CASE stack' # <<>>
    <3>1. Len(stack') \in 1..(Len(stack) - 1)
      BY <1>3, <1>a, <2>2, EndStack
    <3>2. Head(Top'.parents) = Top.name /\ Top.name \in Names
      BY <1>3, <1>a, <3>1, EndStack DEF Top, Waiting, WaitsFor, Frames
    <3>3. CASE ParentFailed \/ OwnBodyInvalid
      <4>1. PICK reason \in Reasons :
                returned' = [failure |-> reason] /\ failed' = [failed EXCEPT ![Top.name] = reason]
        BY <3>3, <1>a, ResultKinds
           DEF ParentFailed, OwnBodyInvalid, Fails, Returns, TypeInv, Reasons
      <4>2. HasFailure(returned') /\ returned'.failure = reason
        BY <4>1, FailureIsResult
      <4>3. failed'[Top.name] = reason
        BY <3>2, <4>1, <1>a DEF TypeInv, AllNames
      <4> QED
        BY <3>2, <4>1, <4>2, <4>3 DEF ReturnOK, HasFailure
    <3>4. CASE MergeOwnBody
      <4> DEFINE body == Merge(Top.out, IF own[Top.name] = "sets" THEN Top.name ELSE Unset)
      <4>1. /\ returned' = [body |-> body]
            /\ resolved' = [resolved EXCEPT ![Top.name] = body]
        BY <3>4 DEF MergeOwnBody, Returns
      <4>2. body \in Bodies /\ body # None
        BY <1>3, <1>a, EndStack, NamesAssumption DEF Merge, Frames, Bodies, AllNames
      <4> HIDE DEF body
      <4>3. ~HasFailure(returned') /\ returned'.body = body
        BY <4>1, <4>2, BodyIsResult
      <4>4. resolved'[Top.name] = body
        BY <3>2, <4>1, <1>a DEF TypeInv
      <4> QED
        BY <3>2, <4>2, <4>3, <4>4 DEF ReturnOK, Cached, HasFailure
    <3> QED
      BY <1>3, <3>3, <3>4 DEF Ends
  <2> QED
    BY <2>1, <2>2
<1>4. CASE Descend \/ MergeParent \/ VisitParent \/ \E n \in AllNames : Resolve(n)
  <2>1. returned' = None
    BY <1>4 DEF Descend, MergeParent, VisitParent, Resolve
  <2> QED
    BY <2>1 DEF ReturnOK
<1>5. CASE UNCHANGED vars
  BY <1>5, <1>a, <1>b DEF vars, cacheVars, ReturnOK, HasFailure, Cached
<1> QED
  BY <1>1, <1>2, <1>3, <1>4, <1>5 DEF Next, Finds, Ends

LEMMA ResolvedStep == CoreInv /\ CacheInv /\ [Next]_vars => ResolvedOK'
<1> SUFFICES ASSUME CoreInv, CacheInv, [Next]_vars PROVE ResolvedOK'
  OBVIOUS
<1>a. TypeInv /\ FramesOK /\ ResolvedOK
  BY DEF CoreInv, CacheInv
<1>1. CASE MergeOwnBody
  <2>t. PICK t \in Names : t = Top.name
    BY <1>1, <1>a, EndStack DEF Ends, Frames
  <2> DEFINE body == Merge(Top.out, IF own[t] = "sets" THEN t ELSE Unset)
  <2>1. Ends /\ UNCHANGED <<specVars, extends, own>> /\ Top.parents = <<>> /\ own[t] # "invalid"
        /\ resolved' = [resolved EXCEPT ![t] = body]
    BY <1>1, <2>t DEF Ends, MergeOwnBody, specVars
  <2>2. UNCHANGED Resolvable
    BY <2>1, SpecsAlone
  <2>3. FrameFits(Top, extends, resolved)
    BY <1>a, <2>1, EndStack DEF FramesOK
  <2>4. Len(extends[t]) \in Nat /\ DOMAIN extends[t] = 1..Len(extends[t])
        /\ Done(Top, extends) = Len(extends[t])
    BY <1>a, <2>1, <2>t DEF Done, TypeInv, SpecsOK
  <2>5. /\ resolved[t] = None
        /\ \A j \in DOMAIN extends[t] : Cached(extends[t][j])
        /\ Top.out = LastSet([j \in DOMAIN extends[t] |-> resolved[extends[t][j]]])
    BY <2>t, <2>3, <2>4 DEF FrameFits, Cached
  <2>6. t \in Resolvable
    <3>1. ParentSet(t) \subseteq Resolvable
      BY <1>a, <2>5 DEF ParentSet, ResolvedOK, Cached
    <3> QED
      BY <2>1, <3>1, ResolvableIsBuilt DEF HasEveryBuilt
  <2>7. /\ \A n : Cached(n) => resolved'[n] = resolved[n] /\ Cached(n)'
        /\ \A n \in Names : n # t => resolved'[n] = resolved[n]
    BY <1>a, <2>1, <2>5 DEF Cached, TypeInv
  <2>8. ASSUME NEW n, \A j \in DOMAIN extends[n] : Cached(extends[n][j])
        PROVE  /\ Combined(n, resolved)' = Combined(n, resolved)
               /\ \A j \in DOMAIN extends[n]' : Cached(extends[n][j])'
    <3>1. [j \in DOMAIN extends[n] |-> resolved'[extends[n][j]]]
            = [j \in DOMAIN extends[n] |-> resolved[extends[n][j]]]
      BY <2>7, <2>8
    <3> QED
      BY <2>1, <2>7, <2>8, <3>1 DEF Combined
  <2>9. body = Combined(t, resolved)
    BY <2>5, NamesAssumption DEF Merge, Combined, AllNames
  <2>10. resolved'[t] = Combined(t, resolved)'
    BY <1>a, <2>1, <2>5, <2>8, <2>9 DEF TypeInv
  <2> SUFFICES ASSUME NEW n \in Names, resolved'[n] # None
               PROVE  /\ n \in Resolvable'
                      /\ own'[n] # "invalid"
                      /\ \A j \in DOMAIN extends[n]' : Cached(extends[n][j])'
                      /\ resolved'[n] = Combined(n, resolved)'
    BY DEF ResolvedOK
  <2>11. CASE n = t
    BY <2>1, <2>2, <2>5, <2>6, <2>8, <2>10, <2>11
  <2>12. CASE n # t
    BY <1>a, <2>1, <2>2, <2>7, <2>8, <2>12 DEF ResolvedOK
  <2> QED
    BY <2>11, <2>12
<1>2. CASE ~MergeOwnBody
  <2>1. UNCHANGED <<specVars, resolved>>
    BY <1>2 DEF Next, vars, cacheVars, Resolve, HitResolved, HitFailed, FindCycle, FindUnknown,
                Descend, VisitParent, MergeParent, ParentFailed, OwnBodyInvalid, Fails
  <2>2. UNCHANGED <<extends, own, resolved, Resolvable>>
    BY <2>1, SpecsAlone DEF specVars
  <2> QED
    BY <1>a, <2>2 DEF ResolvedOK, Cached, Combined
<1> QED
  BY <1>1, <1>2

-----------------------------------------------------------------------------
(* BodyOf is well defined: the recursion ends, for what resolves. *)

LEMMA CombinedNeedsParents ==
    ASSUME NEW n \in Names, NEW f, NEW g, \A p \in ParentSet(n) : f[p] = g[p]
    PROVE  Combined(n, f) = Combined(n, g)
<1>1. [j \in DOMAIN extends[n] |-> f[extends[n][j]]] = [j \in DOMAIN extends[n] |-> g[extends[n][j]]]
  BY DEF ParentSet
<1> QED
  BY <1>1 DEF Combined

(* What BodyOf should be, on a part of its domain. *)
Solves(f, A) ==
    /\ A \subseteq Resolvable
    /\ \A n \in A : ParentSet(n) \subseteq A /\ f[n] = Combined(n, f)

LEMMA SolutionsAgree ==
    ASSUME NEW f, NEW A, Solves(f, A), NEW g, NEW B, Solves(g, B), NEW m \in A \cap B
    PROVE  f[m] = g[m]
<1> DEFINE S == {n \in Resolvable : n \in A \cap B => f[n] = g[n]}
<1>1. S \subseteq Names
  BY DEF Resolvable
<1>2. ASSUME NEW n \in Names, own[n] # "invalid", ParentSet(n) \subseteq S
      PROVE  n \in S
  <2>1. n \in Resolvable
    BY <1>2, ResolvableIsBuilt DEF HasEveryBuilt
  <2>2. ASSUME n \in A \cap B PROVE f[n] = g[n]
    <3>1. \A p \in ParentSet(n) : f[p] = g[p]
      BY <1>2, <2>2 DEF Solves
    <3> QED
      BY <2>2, <3>1, CombinedNeedsParents DEF Solves
  <2> QED
    BY <2>1, <2>2
<1>3. Resolvable \subseteq S
  <2> HIDE DEF S
  <2> QED
    BY <1>1, <1>2, ResolvableIsLeast DEF HasEveryBuilt
<1> QED
  BY <1>3 DEF Solves

LEMMA SolutionExists ==
    \E f : f = [n \in Resolvable |-> Combined(n, f)]
<1> DEFINE Right(n, v) == \E A, f : Solves(f, A) /\ n \in A /\ v = f[n]
           T == {n \in Resolvable : \E v : Right(n, v)}
           F == [n \in T |-> CHOOSE v : Right(n, v)]
<1>1. ASSUME NEW A, NEW f, Solves(f, A), NEW n \in A PROVE n \in T /\ F[n] = f[n]
  <2>1. Right(n, f[n]) /\ n \in T
    BY <1>1 DEF Solves
  <2>2. Right(n, CHOOSE v : Right(n, v))
    <3> HIDE DEF Right
    <3> QED
      BY <2>1, Zenon
  <2>3. F[n] = CHOOSE v : Right(n, v)
    <3> HIDE DEF Right
    <3> QED
      BY <2>1
  <2>4. PICK B, g : Solves(g, B) /\ n \in B /\ F[n] = g[n]
    BY <2>2, <2>3, Zenon
  <2> QED
    BY <1>1, <2>1, <2>4, SolutionsAgree
<1>2. Solves(F, T)
  <2> SUFFICES ASSUME NEW n \in T PROVE ParentSet(n) \subseteq T /\ F[n] = Combined(n, F)
    BY DEF Solves
  <2>1. PICK A, f : Solves(f, A) /\ n \in A
    OBVIOUS
  <2>2. ParentSet(n) \subseteq A /\ n \in Names /\ f[n] = Combined(n, f)
    BY <2>1 DEF Solves, Resolvable
  <2> HIDE DEF F, T
  <2>3. \A p \in ParentSet(n) : p \in T /\ F[p] = f[p]
    BY <1>1, <2>1, <2>2
  <2>4. Combined(n, F) = Combined(n, f)
    BY <2>2, <2>3, CombinedNeedsParents
  <2> QED
    BY <1>1, <2>1, <2>2, <2>3, <2>4
<1>3. HasEveryBuilt(T)
  <2> SUFFICES ASSUME NEW n \in Names, own[n] # "invalid", ParentSet(n) \subseteq T
               PROVE  n \in T
    BY DEF HasEveryBuilt
  <2> DEFINE g == [m \in T \cup {n} |-> IF m \in T THEN F[m] ELSE Combined(n, F)]
  <2>1. T \subseteq Resolvable /\ Resolvable \subseteq Names
    BY DEF Resolvable
  <2>2. n \in Resolvable
    BY <2>1, ResolvableIsBuilt DEF HasEveryBuilt
  <2> HIDE DEF F, T
  <2>3. \A p \in T : g[p] = F[p]
    OBVIOUS
  <2>4. \A m \in T : ParentSet(m) \subseteq T /\ F[m] = Combined(m, F)
    BY <1>2 DEF Solves
  <2>5. \A m \in T : g[m] = Combined(m, g)
    BY <2>1, <2>3, <2>4, CombinedNeedsParents
  <2>6. Combined(n, g) = Combined(n, F)
    BY <2>3, CombinedNeedsParents
  <2>7. CASE n \notin T
    <3>1. g[n] = Combined(n, g)
      BY <2>6, <2>7
    <3> HIDE DEF g
    <3>2. Solves(g, T \cup {n})
      BY <2>1, <2>2, <2>4, <2>5, <3>1 DEF Solves
    <3> QED
      BY <1>1, <3>2
  <2> QED
    BY <2>7
<1>4. T = Resolvable
  <2>1. T \subseteq Names /\ T \subseteq Resolvable
    BY DEF Resolvable
  <2> HIDE DEF T
  <2> QED
    BY <1>3, <2>1, ResolvableIsLeast
<1>5. F = [n \in Resolvable |-> Combined(n, F)]
  <2>1. DOMAIN F = T /\ F = [n \in DOMAIN F |-> F[n]]
    OBVIOUS
  <2> HIDE DEF F, T
  <2> QED
    BY <1>2, <1>4, <2>1 DEF Solves
<1> QED
  BY <1>5, Zenon

LEMMA BodyOfIs == BodyOf = [n \in Resolvable |-> Combined(n, BodyOf)]
<1>1. \E f : f = [n \in Resolvable |->
                     IF own[n] = "sets" THEN n
                     ELSE LastSet([i \in DOMAIN extends[n] |-> f[extends[n][i]]])]
  BY SolutionExists, Zenon DEF Combined
<1>2. BodyOf = [n \in Resolvable |->
                  IF own[n] = "sets" THEN n
                  ELSE LastSet([i \in DOMAIN extends[n] |-> BodyOf[extends[n][i]]])]
  BY <1>1, Zenon DEF BodyOf
<1> QED
  BY <1>2, Zenon DEF Combined

(* From the one-step rule of ResolvedOK to the whole chain. *)
LEMMA BodiesFollow == ResolvedOK => BodiesAreRight
<1> SUFFICES ASSUME ResolvedOK PROVE BodiesAreRight
  OBVIOUS
<1> DEFINE S == {n \in Resolvable : resolved[n] # None => resolved[n] = BodyOf[n]}
<1>1. S \subseteq Names
  BY DEF Resolvable
<1>2. ASSUME NEW n \in Names, own[n] # "invalid", ParentSet(n) \subseteq S
      PROVE  n \in S
  <2>1. n \in Resolvable
    BY <1>2, ResolvableIsBuilt DEF HasEveryBuilt
  <2>2. ASSUME resolved[n] # None PROVE resolved[n] = BodyOf[n]
    <3>1. \A p \in ParentSet(n) : resolved[p] = BodyOf[p]
      BY <1>2, <2>2 DEF ResolvedOK, ParentSet, Cached
    <3>2. Combined(n, resolved) = Combined(n, BodyOf)
      BY <3>1, CombinedNeedsParents
    <3>3. BodyOf[n] = Combined(n, BodyOf)
      BY <2>1, BodyOfIs
    <3> QED
      BY <2>2, <3>2, <3>3 DEF ResolvedOK
  <2> QED
    BY <2>1, <2>2
<1>3. Resolvable \subseteq S
  <2> HIDE DEF S
  <2> QED
    BY <1>1, <1>2, ResolvableIsLeast DEF HasEveryBuilt
<1>4. DOMAIN BodyOf = Resolvable
  BY BodyOfIs
<1> QED
  BY <1>3, <1>4 DEF BodiesAreRight, ResolvedOK

LEMMA CacheAlways == Spec => [](CoreInv /\ CacheInv)
<1>1. CoreInv /\ CacheInv /\ [Next]_vars => CacheInv'
  BY FramesStep, ReturnStep, ResolvedStep DEF CacheInv
<1> QED
  BY <1>1, CoreAlways, CacheInit, PTL DEF Spec

-----------------------------------------------------------------------------
(* The failures. *)

FailInv == FailedOK /\ CycleOK /\ ReasonsOK

LEMMA FailInit == Init => FailInv
BY NamesAssumption DEF Init, FailInv, FailedOK, CycleOK, ReasonsOK, Reasons

(* The parent that a call is at is the first that it has not merged. *)
LEMMA NextParent ==
    ASSUME TypeInv, FramesOK, NEW i \in DOMAIN stack, stack[i].parents # <<>>
    PROVE  \E j \in DOMAIN extends[stack[i].name] :
               /\ Head(stack[i].parents) = extends[stack[i].name][j]
               /\ \A k \in 1..(j - 1) : Cached(extends[stack[i].name][k])
<1> DEFINE n == stack[i].name
           d == Done(stack[i], extends)
<1>0. stack[i] \in Frames
  BY DEF TypeInv
<1>1. stack[i].parents \in Seq(AllNames) /\ n \in Names
  BY <1>0 DEF Frames
<1>2. /\ Len(stack[i].parents) \in Nat /\ Len(stack[i].parents) > 0
      /\ Head(stack[i].parents) = stack[i].parents[1]
  BY <1>1, HeadTailProperties
<1>3. DOMAIN extends[n] = 1..Len(extends[n]) /\ Len(extends[n]) \in Nat
  BY <1>1 DEF TypeInv, SpecsOK
<1>4. FrameFits(stack[i], extends, resolved)
  BY DEF FramesOK
<1>5. d \in Nat /\ d + 1 \in DOMAIN extends[n]
  <2>1. d \in Nat /\ d = Len(extends[n]) - Len(stack[i].parents)
    BY <1>4 DEF FrameFits, Done
  <2>2. PICK all \in Nat : all = Len(extends[n])
    BY <1>3
  <2>3. PICK left \in Nat : left = Len(stack[i].parents) /\ left > 0
    BY <1>2
  <2> HIDE DEF d
  <2>4. d + 1 \in 1..all
    <3>1. d \in Nat /\ d = all - left
      BY <2>1, <2>2, <2>3
    <3>2. all \in Nat /\ left \in Nat /\ left > 0
      BY <2>2, <2>3
    <3> QED
      BY <3>1, <3>2
  <2> QED
    BY <1>3, <2>1, <2>2, <2>4
<1>6. Head(stack[i].parents) = extends[n][d + 1]
  <2>1. 1 \in 1..Len(stack[i].parents)
    BY <1>2
  <2> QED
    BY <1>2, <1>4, <2>1 DEF FrameFits
<1>7. \A k \in 1..d : Cached(extends[n][k])
  BY <1>4 DEF FrameFits, Cached
<1> HIDE DEF d
<1>8. (d + 1) - 1 = d
  BY <1>5
<1> QED
  BY <1>5, <1>6, <1>7, <1>8

(* No template has a failure that could resolve. *)
LEMMA FailedAreBad ==
    ASSUME CoreInv, CacheInv, FailedOK, CycleOK, NEW n \in AllNames, failed[n] # None
    PROVE  n \notin Resolvable
<1>a. TypeInv /\ Waiting /\ FramesOK /\ ReturnOK
  BY DEF CoreInv, CacheInv
<1>b. stack \in Seq(Frames) /\ Len(stack) \in Nat /\ DOMAIN stack = 1..Len(stack)
  BY <1>a DEF TypeInv
<1> DEFINE Sound(m) == failed[m] = None /\ (m \in Stacked => \A o \in Stacked : failed[o] = None)
           S == {m \in Resolvable : Sound(m)}
<1>1. ASSUME NEW m \in Names, own[m] # "invalid", ParentSet(m) \subseteq S
      PROVE  m \in S
  <2>1. m \in Resolvable
    BY <1>1, ResolvableIsBuilt DEF HasEveryBuilt
  <2>2. \A j \in DOMAIN extends[m] : extends[m][j] \in S
    BY <1>1 DEF ParentSet
  <2>3. ASSUME m \in Stacked, NEW o \in Stacked, failed[o] # None PROVE FALSE
    <3>1. PICK i \in 1..Len(stack) : m = stack[i].name
      BY <2>3, <1>b DEF Stacked
    <3>2. HasFailure(returned) /\ returned.failure = "Cycle"
      BY <2>3 DEF CycleOK, Stacked
    <3>3. CASE i = Len(stack)
      <4>1. stack[i] = Top /\ Top.parents # <<>>
        BY <1>a, <1>b, <3>1, <3>2, <3>3 DEF Top, Waiting, HasFailure
      <4>2. PICK j \in DOMAIN extends[m] : Head(Top.parents) = extends[m][j]
        BY <1>a, <1>b, <3>1, <4>1, NextParent
      <4>3. failed[Head(Top.parents)] = "Cycle"
        BY <1>a, <1>b, <3>1, <3>2 DEF ReturnOK, HasFailure
      <4> QED
        BY <2>2, <4>2, <4>3, NamesAssumption DEF Reasons
    <3>4. CASE i # Len(stack)
      <4>1. i \in 1..(Len(stack) - 1) /\ i + 1 \in DOMAIN stack
        <5>1. PICK k \in Nat : k = Len(stack) /\ i \in 1..k /\ i # k /\ DOMAIN stack = 1..k
          BY <1>b, <3>1, <3>4
        <5> QED
          BY <5>1
      <4>2. WaitsFor(stack[i], stack[i + 1].name)
        BY <1>a, <4>1 DEF Waiting
      <4>3. PICK j \in DOMAIN extends[m] : stack[i + 1].name = extends[m][j]
        BY <1>a, <1>b, <3>1, <4>2, NextParent DEF WaitsFor
      <4>4. stack[i + 1].name \in Stacked /\ Sound(stack[i + 1].name)
        BY <2>2, <4>1, <4>3 DEF Stacked
      <4> QED
        BY <2>3, <4>4
    <3> QED
      BY <3>3, <3>4
  <2>4. ASSUME failed[m] # None, m \notin Stacked PROVE FALSE
    <3>1. PICK j \in DOMAIN extends[m] : failed[extends[m][j]] = failed[m]
      BY <1>1, <2>4 DEF FailedOK, FailsAlone, FailsWith, AllNames
    <3> QED
      BY <2>2, <2>4, <3>1
  <2> QED
    BY <2>1, <2>3, <2>4
<1>2. S \subseteq Names
  BY DEF Resolvable
<1>3. Resolvable \subseteq S
  <2> HIDE DEF S
  <2> QED
    BY <1>1, <1>2, ResolvableIsLeast DEF HasEveryBuilt
<1> QED
  BY <1>3

LEMMA CachedAreGood == ASSUME CacheInv, NEW n, Cached(n) PROVE n \in Resolvable
BY DEF CacheInv, ResolvedOK, Cached

(* What a step adds to the caches leaves the reasons of the others as they were. *)
FailsRightly(n) == FailsAlone(n) \/ \E j \in DOMAIN extends[n] : FailsWith(n, j)

LEMMA FailureStays ==
    ASSUME TypeInv, UNCHANGED specVars,
           \A m \in AllNames : failed[m] # None => failed'[m] = failed[m],
           \A m : Cached(m) => Cached(m)',
           NEW n \in Names, failed[n] # None, FailsRightly(n)
    PROVE  FailsRightly(n)'
<1>1. UNCHANGED <<extends, own>> /\ failed'[n] = failed[n]
  BY DEF specVars, AllNames
<1>2. CASE FailsAlone(n)
  BY <1>1, <1>2 DEF FailsRightly, FailsAlone
<1>3. ASSUME NEW j \in DOMAIN extends[n], FailsWith(n, j) PROVE FailsWith(n, j)'
  <2>1. extends[n][j] \in AllNames
    BY DEF TypeInv, SpecsOK
  <2> QED
    BY <1>1, <1>3, <2>1 DEF FailsWith
<1> QED
  BY <1>1, <1>2, <1>3 DEF FailsRightly

LEMMA FailedIs ==
    FailedOK <=>
        \A n \in AllNames : failed[n] # None =>
            IF n \notin Names THEN failed[n] = "UnknownParent"
            ELSE resolved[n] = None /\ (n \notin Stacked => FailsRightly(n))
BY DEF FailedOK, FailsRightly

(* The calls that go on are those whose names stay on the stack. *)
LEMMA EndNames ==
    ASSUME TypeInv, StackHasNoRepeats, Ends
    PROVE  Stacked' = Stacked \ {Top.name} /\ Top.name \in Names /\ Top.name \in Stacked
<1>1. /\ Len(stack) \in Nat /\ Len(stack) > 0 /\ Top = stack[Len(stack)] /\ Top \in Frames
      /\ \A i \in 1..(Len(stack) - 1) : stack'[i] = stack[i]
  BY EndStack
<1>2. DOMAIN stack = 1..Len(stack) /\ DOMAIN stack' = 1..(Len(stack) - 1)
  BY <1>1, EndStack DEF TypeInv
<1>3. \A i \in 1..(Len(stack) - 1) : stack[i].name # Top.name
  BY <1>1, <1>2 DEF StackHasNoRepeats
<1>4. ASSUME NEW n PROVE n \in Stacked' <=> n \in Stacked /\ n # Top.name
  <2>1. n \in Stacked' <=> \E i \in 1..(Len(stack) - 1) : stack[i].name = n
    BY <1>1, <1>2 DEF Stacked
  <2>2. n \in Stacked <=> \E i \in 1..Len(stack) : stack[i].name = n
    BY <1>2 DEF Stacked
  <2>3. \A i \in 1..Len(stack) : i \in 1..(Len(stack) - 1) \/ stack[i] = Top
    BY <1>1
  <2>4. \A i \in 1..(Len(stack) - 1) : i \in 1..Len(stack)
    BY <1>1
  <2> QED
    BY <1>3, <2>1, <2>2, <2>3, <2>4
<1>5. Stacked' = Stacked \ {Top.name}
  BY <1>4
<1>6. Top.name \in Stacked /\ Top.name \in Names
  BY <1>1, <1>2 DEF Stacked, Frames
<1> QED
  BY <1>5, <1>6

(* The names on the stack, for the other steps. *)
LEMMA OtherNames ==
    ASSUME TypeInv, Waiting
    PROVE  /\ Stacked \subseteq Names
           /\ Descend => Stacked' = Stacked \cup {visiting}
           /\ MergeParent \/ UNCHANGED stack => Stacked' = Stacked
<1>1. stack \in Seq(Frames) /\ Len(stack) \in Nat /\ DOMAIN stack = 1..Len(stack)
  BY DEF TypeInv
<1>2. Stacked \subseteq Names
  <2>1. \A i \in DOMAIN stack : stack[i] \in Frames
    BY <1>1
  <2> QED
    BY <2>1 DEF Stacked, Frames
<1>3. ASSUME Descend PROVE Stacked' = Stacked \cup {visiting}
  <2>1. /\ DOMAIN stack' = 1..(Len(stack) + 1) /\ stack'[Len(stack) + 1].name = visiting
        /\ \A i \in 1..Len(stack) : stack'[i] = stack[i]
    BY <1>1, <1>3, DescendStack DEF Frame
  <2>2. \A i : i \in 1..(Len(stack) + 1) <=> i \in 1..Len(stack) \/ i = Len(stack) + 1
    BY <1>1
  <2> QED
    BY <1>1, <2>1, <2>2 DEF Stacked
<1>4. ASSUME MergeParent PROVE Stacked' = Stacked
  <2>1. \A i \in 1..Len(stack) : stack'[i].name = stack[i].name
    BY <1>1, <1>4, MergeStack DEF Top
  <2>2. DOMAIN stack' = 1..Len(stack)
    BY <1>4, MergeStack
  <2> QED
    BY <1>1, <2>1, <2>2 DEF Stacked
<1> QED
  BY <1>2, <1>3, <1>4 DEF Stacked

(* While no call under way has failed, nothing but the end of a call can be wrong. *)
Calm == \A n \in Stacked : failed[n] = None

LEMMA CalmOrCycle ==
    ASSUME CycleOK
    PROVE  \/ Calm
           \/ visiting = None /\ HasFailure(returned) /\ returned.failure = "Cycle"
BY DEF CycleOK, Calm, Stacked

LEMMA CycleIs ==
    CycleOK <=>
        \A n \in Stacked : failed[n] # None =>
            /\ failed[n] = "Cycle"
            /\ visiting = None /\ HasFailure(returned) /\ returned.failure = "Cycle"
BY DEF CycleOK, Stacked

LEMMA CycleStep == CoreInv /\ CycleOK /\ [Next]_vars => CycleOK'
<1> SUFFICES ASSUME CoreInv, CycleOK, [Next]_vars PROVE CycleOK'
  OBVIOUS
<1>a. /\ TypeInv /\ Waiting /\ StackHasNoRepeats
      /\ Stacked \subseteq Names /\ failed \in [AllNames -> Reasons \cup {None}]
  BY OtherNames DEF CoreInv, TypeInv
<1>b. (\A n \in Stacked' : failed'[n] = None) => CycleOK'
  BY DEF CycleOK, Stacked
<1>1. ASSUME NEW n \in AllNames, Resolve(n) PROVE CycleOK'
  BY <1>1, <1>a DEF Resolve, CycleOK, TypeInv
<1>2. CASE Finds
  <2>1. Calm /\ visiting \in AllNames /\ Stacked' = Stacked
    BY <1>2, <1>a, FindStack, OtherNames, CalmOrCycle
  <2>2. CASE FindCycle
    <3>1. /\ failed' = [failed EXCEPT ![visiting] = "Cycle"]
          /\ returned' = [failure |-> "Cycle"] /\ visiting' = None
      BY <2>2 DEF FindCycle, Fails, Returns
    <3>2. "Cycle" \in Reasons /\ HasFailure(returned') /\ returned'.failure = "Cycle"
      BY <3>1, FailureIsResult DEF Reasons
    <3>3. \A n \in Stacked' : failed'[n] \in {None, "Cycle"}
      BY <1>a, <2>1, <3>1 DEF Calm, AllNames
    <3> QED
      BY <3>1, <3>2, <3>3 DEF CycleOK, Stacked, HasFailure
  <2>3. CASE FindUnknown
    <3>1. visiting \notin Stacked /\ \E r : failed' = [failed EXCEPT ![visiting] = r]
      BY <2>3 DEF FindUnknown, Fails
    <3> QED
      BY <1>a, <1>b, <2>1, <3>1 DEF Calm, AllNames
  <2>4. CASE HitResolved \/ HitFailed
    <3>1. UNCHANGED failed
      BY <2>4 DEF HitResolved, HitFailed, cacheVars
    <3> QED
      BY <1>b, <2>1, <3>1 DEF Calm
  <2> QED
    BY <1>2, <2>2, <2>3, <2>4 DEF Finds
<1>3. CASE Descend
  <2>1. visiting # None /\ failed[visiting] = None /\ UNCHANGED failed
    BY <1>3 DEF Descend, Miss, cacheVars
  <2> QED
    BY <1>3, <1>a, <1>b, <2>1, OtherNames, CalmOrCycle DEF Calm
<1>4. CASE VisitParent \/ MergeParent
  <2>1. ~HasFailure(returned) /\ UNCHANGED failed /\ (MergeParent \/ UNCHANGED stack)
    BY <1>4 DEF VisitParent, MergeParent, HasFailure, cacheVars
  <2> QED
    BY <1>a, <1>b, <2>1, OtherNames, CalmOrCycle DEF Calm
<1>5. CASE Ends
  <2>1. Stacked' = Stacked \ {Top.name} /\ Top.name \in AllNames
    BY <1>5, <1>a, EndNames DEF AllNames
  <2>2. \A n \in Stacked' : failed'[n] = failed[n]
    <3>1. failed' = failed \/ \E r : failed' = [failed EXCEPT ![Top.name] = r]
      BY <1>5 DEF Ends, ParentFailed, OwnBodyInvalid, MergeOwnBody, Fails
    <3> QED
      BY <1>a, <2>1, <3>1 DEF AllNames
  <2>3. CASE Calm
    BY <1>b, <2>1, <2>2, <2>3 DEF Calm
  <2>4. CASE ~Calm
    <3>1. HasFailure(returned) /\ returned.failure = "Cycle"
      BY <2>4, CalmOrCycle
    <3>2. returned' = [failure |-> "Cycle"] /\ visiting' = None
      BY <1>5, <3>1 DEF Ends, ParentFailed, OwnBodyInvalid, MergeOwnBody, HasFailure, Fails, Returns
    <3>3. "Cycle" \in Reasons /\ HasFailure(returned') /\ returned'.failure = "Cycle"
      BY <3>2, FailureIsResult DEF Reasons
    <3>4. \A n \in Stacked' : failed'[n] # None => failed'[n] = "Cycle"
      BY <2>1, <2>2, CycleIs
    <3> QED
      BY <3>2, <3>3, <3>4 DEF CycleOK, Stacked, HasFailure
  <2> QED
    BY <2>3, <2>4
<1>6. CASE UNCHANGED vars
  BY <1>6 DEF vars, cacheVars, CycleOK, HasFailure
<1> QED
  BY <1>1, <1>2, <1>3, <1>4, <1>5, <1>6 DEF Next, Finds, Ends

LEMMA ParentFailedAt ==
    ASSUME CoreInv, CacheInv, ParentFailed
    PROVE  \E j \in DOMAIN extends[Top.name] :
               /\ failed[extends[Top.name][j]] = returned.failure
               /\ \A k \in 1..(j - 1) : Cached(extends[Top.name][k])
<1>1. TypeInv /\ Waiting /\ FramesOK /\ ReturnOK
  BY DEF CoreInv, CacheInv
<1>2. /\ stack # <<>> /\ Top = stack[Len(stack)] /\ Len(stack) \in DOMAIN stack
      /\ HasFailure(returned) /\ returned # None
  BY <1>1, EndStack DEF Ends, ParentFailed, HasFailure, TypeInv
<1>3. Top.parents # <<>> /\ failed[Head(Top.parents)] = returned.failure
  BY <1>1, <1>2 DEF Waiting, ReturnOK
<1> QED
  BY <1>1, <1>2, <1>3, NextParent

LEMMA AllMerged ==
    ASSUME CoreInv, CacheInv, Ends, Top.parents = <<>>
    PROVE  \A j \in DOMAIN extends[Top.name] : Cached(extends[Top.name][j])
<1>1. TypeInv /\ FramesOK
  BY DEF CoreInv, CacheInv
<1>2. Top = stack[Len(stack)] /\ Len(stack) \in DOMAIN stack /\ Top.name \in Names
  BY <1>1, EndStack DEF TypeInv, Frames
<1>3. FrameFits(Top, extends, resolved)
  BY <1>1, <1>2 DEF FramesOK
<1>4. /\ Len(extends[Top.name]) \in Nat
      /\ DOMAIN extends[Top.name] = 1..Len(extends[Top.name])
  BY <1>1, <1>2 DEF TypeInv, SpecsOK
<1>5. Done(Top, extends) = Len(extends[Top.name])
  BY <1>4 DEF Done
<1> QED
  BY <1>3, <1>4, <1>5 DEF FrameFits, Cached

(* A call has no body until it ends. *)
LEMMA EndsUncached == ASSUME CoreInv, CacheInv, Ends PROVE resolved[Top.name] = None
<1>1. TypeInv /\ FramesOK
  BY DEF CoreInv, CacheInv
<1>2. Top = stack[Len(stack)] /\ Len(stack) \in DOMAIN stack
  BY <1>1, EndStack DEF TypeInv
<1> QED
  BY <1>1, <1>2 DEF FramesOK, FrameFits

LEMMA FailedStep == CoreInv /\ CacheInv /\ FailInv /\ [Next]_vars => FailedOK'
<1> SUFFICES ASSUME CoreInv, CacheInv, FailInv, [Next]_vars
             PROVE  \A n \in AllNames : failed'[n] # None =>
                        IF n \notin Names THEN failed'[n] = "UnknownParent"
                        ELSE resolved'[n] = None /\ (n \notin Stacked' => FailsRightly(n)')
  BY FailedIs DEF FailedOK, FailsRightly, FailsAlone, FailsWith, Cached
<1>a. /\ TypeInv /\ Waiting /\ StackHasNoRepeats
      /\ failed \in [AllNames -> Reasons \cup {None}] /\ resolved \in [Names -> Bodies \cup {None}]
      /\ Stacked \subseteq Names /\ Names \subseteq AllNames
  BY OtherNames DEF CoreInv, TypeInv, AllNames
<1>b. \A n \in AllNames : failed[n] # None =>
          IF n \notin Names THEN failed[n] = "UnknownParent"
          ELSE resolved[n] = None /\ (n \notin Stacked => FailsRightly(n))
  BY FailedIs DEF FailInv
<1>c. Calm \/ (HasFailure(returned) /\ returned.failure = "Cycle")
  BY CalmOrCycle DEF FailInv
<1>1. CASE FindCycle \/ FindUnknown
  <2>1. PICK reason \in {"Cycle", "UnknownParent"} :
            /\ failed' = [failed EXCEPT ![visiting] = reason]
            /\ visiting \notin Names => reason = "UnknownParent"
    BY <1>1, <1>a DEF FindCycle, FindUnknown, Fails
  <2>2. /\ visiting \in AllNames /\ failed[visiting] = None
        /\ visiting \in Names => resolved[visiting] = None /\ visiting \in Stacked
        /\ UNCHANGED <<specVars, resolved>> /\ Stacked' = Stacked
    BY <1>1, <1>a, FindStack, OtherNames DEF Finds, FindCycle, FindUnknown, Miss
  <2>3. \A m : Cached(m) => Cached(m)'
    BY <2>2 DEF Cached
  <2>4. \A m \in AllNames : failed[m] # None => failed'[m] = failed[m]
    BY <1>a, <2>1, <2>2
  <2> TAKE n \in AllNames
  <2>5. CASE n = visiting
    BY <1>a, <2>1, <2>2, <2>5
  <2>6. CASE n # visiting
    <3>1. failed'[n] = failed[n]
      BY <1>a, <2>1, <2>6
    <3> QED
      BY <1>a, <1>b, <2>2, <2>3, <2>4, <3>1, FailureStays
  <2> QED
    BY <2>5, <2>6
<1>2. CASE ParentFailed \/ OwnBodyInvalid
  <2>e. Ends /\ UNCHANGED <<specVars, extends, own, resolved>>
    BY <1>2 DEF Ends, ParentFailed, OwnBodyInvalid, Fails, specVars
  <2>t. PICK t \in Names : t = Top.name
    BY <1>a, <2>e, EndNames
  <2>1. /\ Stacked' = Stacked \ {t} /\ t \in Names /\ t \in AllNames /\ t \in Stacked
        /\ resolved[t] = None
    BY <1>a, <2>e, <2>t, EndNames, EndsUncached
  <2>2. PICK reason \in Reasons :
            /\ failed' = [failed EXCEPT ![t] = reason]
            /\ ParentFailed => reason = returned.failure
            /\ OwnBodyInvalid => reason = "InvalidEndpoint"
    BY <1>2, <1>a, <2>t, ResultKinds
       DEF ParentFailed, OwnBodyInvalid, Fails, TypeInv, Reasons, HasFailure
  <2>3. failed[t] # None => failed[t] = reason
    <3>1. CASE Calm
      BY <2>1, <3>1 DEF Calm
    <3>2. CASE ~Calm
      <4>1. ParentFailed /\ reason = "Cycle"
        BY <1>2, <1>c, <2>2, <3>2 DEF OwnBodyInvalid, HasFailure
      <4> QED
        BY <2>1, <4>1, CycleIs DEF FailInv
    <3> QED
      BY <3>1, <3>2
  <2>4. \A m \in AllNames : failed[m] # None => failed'[m] = failed[m]
    BY <1>a, <2>1, <2>2, <2>3
  <2>5. \A m : Cached(m)' <=> Cached(m)
    BY <2>e DEF Cached
  <2>6. failed'[t] = reason
    BY <1>a, <2>1, <2>2
  <2>7. ASSUME ParentFailed PROVE FailsRightly(t)'
    <3>1. PICK j \in DOMAIN extends[t] :
              /\ failed[extends[t][j]] = returned.failure
              /\ \A k \in 1..(j - 1) : Cached(extends[t][k])
      BY <2>7, <2>t, ParentFailedAt
    <3>2. extends[t][j] \in AllNames
      BY <1>a, <2>1 DEF TypeInv, SpecsOK
    <3>3. failed'[extends[t][j]] = reason
      BY <1>a, <2>2, <2>4, <2>7, <3>1, <3>2, NamesAssumption
    <3> QED
      BY <2>e, <2>5, <2>6, <3>1, <3>3 DEF FailsRightly, FailsWith
  <2>8. ASSUME OwnBodyInvalid PROVE FailsRightly(t)'
    <3>1. own[t] = "invalid" /\ reason = "InvalidEndpoint"
      BY <2>2, <2>8, <2>t DEF OwnBodyInvalid
    <3>2. \A j \in DOMAIN extends[t] : Cached(extends[t][j])
      BY <2>e, <2>8, <2>t, AllMerged DEF OwnBodyInvalid
    <3> QED
      BY <2>e, <2>5, <2>6, <3>1, <3>2 DEF FailsRightly, FailsAlone
  <2> TAKE n \in AllNames
  <2>9. CASE n = t
    BY <1>2, <2>1, <2>e, <2>7, <2>8, <2>9
  <2>10. CASE n # t
    <3>1. failed'[n] = failed[n]
      BY <1>a, <2>2, <2>10
    <3> QED
      BY <1>a, <1>b, <2>e, <2>1, <2>4, <2>5, <2>10, <3>1, FailureStays
  <2> QED
    BY <2>9, <2>10
<1>3. CASE MergeOwnBody
  <2> DEFINE t == Top.name
  <2>1. /\ Ends /\ UNCHANGED <<specVars, failed>>
        /\ \E body : resolved' = [resolved EXCEPT ![t] = body]
    BY <1>3 DEF Ends, MergeOwnBody
  <2>2. /\ Stacked' = Stacked \ {t} /\ t \in Names /\ t \in Stacked
        /\ resolved[t] = None
    BY <1>a, <2>1, EndNames, EndsUncached
  <2>3. failed[t] = None
    BY <1>3, <1>c, <2>2 DEF MergeOwnBody, HasFailure, Calm
  <2> HIDE DEF t
  <2>4. \A m \in Names : m # t => resolved'[m] = resolved[m]
    BY <1>a, <2>1
  <2>5. \A m : Cached(m) => Cached(m)'
    BY <2>2, <2>4 DEF Cached
  <2> TAKE n \in AllNames
  <2> QED
    BY <1>a, <1>b, <2>1, <2>2, <2>3, <2>4, <2>5, FailureStays
<1>4. CASE ~(FindCycle \/ FindUnknown \/ Ends)
  <2>1. UNCHANGED <<specVars, resolved, failed>>
    BY <1>4 DEF Next, vars, cacheVars, Resolve, HitResolved, HitFailed, Descend, VisitParent,
                MergeParent, Ends
  <2>2. Stacked \subseteq Stacked'
    BY <1>4, <1>a, OtherNames
       DEF Next, vars, Resolve, HitResolved, HitFailed, VisitParent, Ends
  <2>3. \A m : Cached(m) => Cached(m)'
    BY <2>1 DEF Cached
  <2> TAKE n \in AllNames
  <2> QED
    BY <1>a, <1>b, <2>1, <2>2, <2>3, FailureStays
<1> QED
  BY <1>1, <1>2, <1>3, <1>4 DEF Ends

LEMMA ReasonsStep == CoreInv /\ CacheInv /\ FailInv /\ [Next]_vars => ReasonsOK'
<1> SUFFICES ASSUME CoreInv, CacheInv, FailInv, [Next]_vars PROVE ReasonsOK'
  OBVIOUS
<1>a. /\ TypeInv /\ FailedOK /\ CycleOK /\ ReasonsOK
      /\ failed \in [AllNames -> Reasons \cup {None}]
  BY DEF CoreInv, FailInv, TypeInv
<1>b. /\ Unknown \ Names \subseteq AllNames
      /\ {n \in Names \ Resolvable : ParentSet(n) \subseteq Resolvable} \subseteq AllNames
  BY DEF AllNames
<1> DEFINE Explains(n, reason) ==
               /\ reason = "UnknownParent" => n \in BecauseUnknown
               /\ reason = "InvalidEndpoint" => n \in BecauseInvalid
<1>c. ASSUME UNCHANGED specVars, NEW t \in AllNames, NEW reason, Explains(t, reason),
             failed' = [failed EXCEPT ![t] = reason]
      PROVE  ReasonsOK'
  <2>1. UNCHANGED <<BecauseUnknown, BecauseInvalid>>
    BY <1>c, SpecsAlone
  <2>2. \A n \in AllNames : failed'[n] = IF n = t THEN reason ELSE failed[n]
    BY <1>a, <1>c
  <2> QED
    BY <1>a, <1>c, <2>1, <2>2 DEF ReasonsOK
<1>1. CASE FindCycle
  <2>1. visiting \in AllNames /\ UNCHANGED specVars
    BY <1>1, <1>a, FindStack DEF Finds
  <2>2. failed' = [failed EXCEPT ![visiting] = "Cycle"]
    BY <1>1 DEF FindCycle, Fails
  <2> QED
    BY <1>c, <2>1, <2>2
<1>2. CASE FindUnknown
  <2>1. visiting \in Unknown \ Names /\ visiting \in AllNames /\ UNCHANGED specVars
    BY <1>2, <1>a, FindStack DEF Finds, FindUnknown, AllNames
  <2>2. failed' = [failed EXCEPT ![visiting] = "UnknownParent"]
    BY <1>2 DEF FindUnknown, Fails
  <2>3. visiting \in BecauseUnknown
    BY <1>b, <2>1, CulpritsAreBlamed DEF BecauseUnknown
  <2> QED
    BY <1>c, <2>1, <2>2, <2>3
<1>3. CASE ParentFailed
  <2>t. PICK t \in Names : t = Top.name
    BY <1>3, <1>a, EndStack DEF Ends, Frames
  <2>1. UNCHANGED specVars /\ failed' = [failed EXCEPT ![t] = returned.failure]
    BY <1>3, <2>t DEF ParentFailed, Fails
  <2>2. PICK j \in DOMAIN extends[t] :
            /\ failed[extends[t][j]] = returned.failure
            /\ \A k \in 1..(j - 1) : Cached(extends[t][k])
    BY <1>3, <2>t, ParentFailedAt
  <2>3. extends[t][j] \in AllNames /\ failed[extends[t][j]] # None
    BY <1>3, <1>a, <2>2, ResultKinds, NamesAssumption DEF ParentFailed, TypeInv, SpecsOK
  <2>4. AtFault(t, j, Resolvable)
    BY <1>a, <2>2, <2>3, FailedAreBad, CachedAreGood DEF AtFault
  <2>5. Explains(t, returned.failure)
    BY <1>a, <2>2, <2>3, <2>4, BlameIsPassedOn DEF ReasonsOK, BecauseUnknown, BecauseInvalid
  <2> QED
    BY <1>c, <2>1, <2>5 DEF AllNames
<1>4. CASE OwnBodyInvalid
  <2>t. PICK t \in Names : t = Top.name
    BY <1>4, <1>a, EndStack DEF Ends, Frames
  <2>1. /\ Ends /\ Top.parents = <<>> /\ own[t] = "invalid" /\ UNCHANGED specVars
        /\ failed' = [failed EXCEPT ![t] = "InvalidEndpoint"]
    BY <1>4, <2>t DEF Ends, OwnBodyInvalid, Fails
  <2>2. ParentSet(t) \subseteq Resolvable
    BY <2>1, <2>t, AllMerged, CachedAreGood DEF ParentSet
  <2>3. t \notin Resolvable
    BY <2>1, ResolvableOnlyBuilt
  <2>4. t \in BecauseInvalid
    BY <1>b, <2>2, <2>3, CulpritsAreBlamed DEF BecauseInvalid
  <2> QED
    BY <1>c, <2>1, <2>4 DEF AllNames
<1>5. CASE ~(FindCycle \/ FindUnknown \/ ParentFailed \/ OwnBodyInvalid)
  <2>1. UNCHANGED <<specVars, failed>>
    BY <1>5 DEF Next, vars, cacheVars, Resolve, HitResolved, HitFailed, Descend, VisitParent,
                MergeParent, MergeOwnBody
  <2>2. UNCHANGED <<BecauseUnknown, BecauseInvalid>>
    BY <2>1, SpecsAlone
  <2> QED
    BY <1>a, <2>1, <2>2 DEF ReasonsOK
<1> QED
  BY <1>1, <1>2, <1>3, <1>4, <1>5

LEMMA FailAlways == Spec => [](CoreInv /\ CacheInv /\ FailInv)
<1>1. CoreInv /\ CacheInv /\ FailInv /\ [Next]_vars => FailInv'
  BY FailedStep, CycleStep, ReasonsStep DEF FailInv
<1> QED
  BY <1>1, CacheAlways, FailInit, PTL DEF Spec

(* Outside a call, what fails for a reason blames a name that fails for it too. *)
LEMMA BlamesItsReason ==
    ASSUME CoreInv, CacheInv, FailInv, stack = <<>>,
           NEW n \in Names, failed[n] # None, NEW j \in DOMAIN extends[n],
           AtFault(n, j, Resolvable)
    PROVE  failed[extends[n][j]] = failed[n]
<1>1. n \in AllNames /\ Stacked = {} /\ DOMAIN extends[n] = 1..Len(extends[n])
      /\ Len(extends[n]) \in Nat /\ \A i \in DOMAIN extends[n] : extends[n][i] \in AllNames
  BY DEF AllNames, Stacked, CoreInv, TypeInv, SpecsOK
<1>2. FailsRightly(n)
  BY <1>1, FailedIs DEF FailInv
<1>3. ~FailsAlone(n)
  BY CachedAreGood DEF FailsAlone, AtFault
<1>4. PICK i \in DOMAIN extends[n] : FailsWith(n, i)
  BY <1>2, <1>3 DEF FailsRightly
<1>5. extends[n][i] \notin Resolvable
  BY <1>1, <1>4, FailedAreBad DEF FailsWith, FailInv
<1>6. ~(i < j)
  BY <1>1, <1>5 DEF AtFault
<1>7. ~(j < i)
  BY <1>1, <1>4, CachedAreGood DEF AtFault, FailsWith
<1>8. i = j
  BY <1>1, <1>6, <1>7
<1> QED
  BY <1>4, <1>8 DEF FailsWith

LEMMA OthersAreNotBlamed ==
    ASSUME CoreInv, CacheInv, FailInv, stack = <<>>, NEW reason, reason # None,
           NEW culprits, culprits \subseteq AllNames, \A n \in culprits : failed[n] # reason,
           NEW n \in Because(culprits, Blame(Resolvable))
    PROVE  failed[n] # reason
<1> DEFINE S == {m \in AllNames : failed[m] # reason}
<1>1. S \subseteq AllNames /\ culprits \subseteq S
  OBVIOUS
<1>2. ASSUME NEW m \in Names, NEW j \in DOMAIN extends[m],
             AtFault(m, j, Resolvable), extends[m][j] \in S
      PROVE  m \in S
  BY <1>2, BlamesItsReason DEF AllNames
<1> HIDE DEF S
<1>3. Because(culprits, Blame(Resolvable)) \subseteq S
  BY <1>1, <1>2, BecauseIsLeast
<1> QED
  BY <1>3 DEF S

LEMMA FailuresFollow == CoreInv /\ CacheInv /\ FailInv => FailuresAreRight
<1> SUFFICES ASSUME CoreInv, CacheInv, FailInv, NEW n \in AllNames, failed[n] # None
             PROVE  n \notin Resolvable /\ (stack = <<>> => failed[n] = Reason[n])
  BY DEF FailuresAreRight
<1>1. n \notin Resolvable
  BY FailedAreBad DEF FailInv
<1> SUFFICES ASSUME stack = <<>> PROVE failed[n] = Reason[n]
  BY <1>1
<1>2. failed[n] \in Reasons
  BY DEF CoreInv, TypeInv
<1>3. /\ failed[n] = "UnknownParent" => n \in BecauseUnknown
      /\ failed[n] = "InvalidEndpoint" => n \in BecauseInvalid
  BY DEF FailInv, ReasonsOK
<1>4. ASSUME failed[n] \in {"InvalidEndpoint", "Cycle"} PROVE n \notin BecauseUnknown
  <2>1. \A m \in Unknown \ Names : failed[m] # failed[n]
    BY <1>4, NamesAssumption DEF FailInv, FailedOK, AllNames, Reasons
  <2>2. Unknown \ Names \subseteq AllNames
    BY DEF AllNames
  <2> QED
    BY <2>1, <2>2, OthersAreNotBlamed DEF BecauseUnknown
<1>5. ASSUME failed[n] = "Cycle" PROVE n \notin BecauseInvalid
  <2> DEFINE culprits == {m \in Names \ Resolvable : ParentSet(m) \subseteq Resolvable}
  <2>1. ASSUME NEW m \in culprits, failed[m] = "Cycle" PROVE FALSE
    <3>1. m \in Names /\ m \in AllNames /\ m \notin Stacked
      BY DEF AllNames, Stacked
    <3>2. FailsRightly(m)
      BY <2>1, <3>1, FailedIs, NamesAssumption DEF FailInv, Reasons
    <3>3. PICK j \in DOMAIN extends[m] : failed[extends[m][j]] = "Cycle"
      BY <2>1, <3>2 DEF FailsRightly, FailsAlone, FailsWith
    <3>4. extends[m][j] \in AllNames
      BY <3>1 DEF CoreInv, TypeInv, SpecsOK
    <3>5. extends[m][j] \notin Resolvable
      BY <3>3, <3>4, FailedAreBad, NamesAssumption DEF FailInv, Reasons
    <3> QED
      BY <3>1, <3>5 DEF ParentSet
  <2>2. culprits \subseteq AllNames
    BY DEF AllNames
  <2>3. BecauseInvalid = Because(culprits, Blame(Resolvable))
    BY DEF BecauseInvalid
  <2> HIDE DEF culprits
  <2> QED
    BY <1>5, <2>1, <2>2, <2>3, OthersAreNotBlamed
<1>6. Reason[n] = IF n \in BecauseUnknown THEN "UnknownParent"
                  ELSE IF n \in BecauseInvalid THEN "InvalidEndpoint" ELSE "Cycle"
  BY <1>1 DEF Reason, BecauseUnknown, BecauseInvalid
<1> QED
  BY <1>2, <1>3, <1>4, <1>5, <1>6 DEF Reasons

-----------------------------------------------------------------------------
(* Termination. *)

LEMMA WorkIsNatural ==
    ASSUME TypeInv
    PROVE  \A i \in 1..4 : WorkLeft[i] \in Nat
<1>1. Cardinality(Fresh) \in Nat
  <2>1. IsFiniteSet(Fresh)
    BY NamesAssumption, FS_Subset DEF Fresh
  <2> QED
    BY <2>1, FS_CardinalityType
<1>2. Len(stack) \in Nat
  BY DEF TypeInv
<1>3. stack # <<>> => Len(Top.parents) \in Nat
  BY TopAndPop DEF TypeInv, Frames
<1> QED
  BY <1>1, <1>2, <1>3 DEF WorkLeft

(* Only a call that starts visits a template, and it is never visited again. *)
LEMMA FreshIs ==
    ASSUME CoreInv, [Next]_vars
    PROVE  /\ Descend => Fresh' = Fresh \ {visiting} /\ visiting \in Fresh
           /\ ~Descend => Fresh' = Fresh
<1>a. /\ TypeInv /\ Waiting /\ StackHasNoRepeats
      /\ resolved \in [Names -> Bodies \cup {None}] /\ failed \in [AllNames -> Reasons \cup {None}]
      /\ Stacked \subseteq Names /\ Names \subseteq AllNames
  BY OtherNames DEF CoreInv, TypeInv, AllNames
<1>1. CASE Descend
  BY <1>1, <1>a, OtherNames DEF Fresh, Descend, Miss, cacheVars
<1>2. CASE Finds
  <2>1. /\ Stacked' = Stacked /\ UNCHANGED resolved
        /\ UNCHANGED failed \/ \E r : /\ visiting \in Stacked \/ visiting \notin Names
                                      /\ failed' = [failed EXCEPT ![visiting] = r]
    BY <1>2, <1>a, FindStack, OtherNames
       DEF Finds, HitResolved, HitFailed, FindCycle, FindUnknown, Fails, cacheVars
  <2>2. \A n \in Names : n \in Fresh' <=> n \in Fresh
    BY <1>a, <2>1 DEF Fresh
  <2>3. Fresh' = Fresh
    BY <2>2 DEF Fresh
  <2> QED
    BY <1>2, <2>3, FindStack, <1>a DEF Descend
<1>3. CASE Ends
  <2>1. Stacked' = Stacked \ {Top.name} /\ Top.name \in Names /\ Top.name \in Stacked
    BY <1>3, <1>a, EndNames
  <2>2. PICK t \in Names : t = Top.name
    BY <2>1
  <2>3. \/ /\ \E r : r # None /\ failed' = [failed EXCEPT ![t] = r]
           /\ UNCHANGED resolved
        \/ /\ \E body : body # None /\ resolved' = [resolved EXCEPT ![t] = body]
           /\ UNCHANGED failed
    <3>1. CASE ParentFailed \/ OwnBodyInvalid
      BY <1>a, <2>2, <3>1, ResultKinds, NamesAssumption
         DEF ParentFailed, OwnBodyInvalid, Fails, Reasons, TypeInv, HasFailure
    <3>2. CASE MergeOwnBody
      <4> DEFINE body == Merge(Top.out, IF own[t] = "sets" THEN t ELSE Unset)
      <4>1. resolved' = [resolved EXCEPT ![t] = body] /\ UNCHANGED failed
        BY <2>2, <3>2 DEF MergeOwnBody
      <4>2. body # None
        BY <1>3, <1>a, EndStack, NamesAssumption DEF Merge, Frames, Bodies, AllNames
      <4> HIDE DEF body
      <4> QED
        BY <4>1, <4>2
    <3> QED
      BY <1>3, <3>1, <3>2 DEF Ends
  <2>4. \A n \in Names : n \in Fresh' <=> n \in Fresh
    BY <1>a, <2>1, <2>2, <2>3 DEF Fresh
  <2>5. Fresh' = Fresh
    BY <2>4 DEF Fresh
  <2> QED
    BY <1>3, <1>a, <2>5, EndStack DEF Descend, Miss
<1>4. CASE ~(Descend \/ Finds \/ Ends)
  <2>1. UNCHANGED <<resolved, failed>> /\ (MergeParent \/ UNCHANGED stack)
    BY <1>4 DEF Next, vars, cacheVars, Finds, Ends, Resolve, VisitParent, MergeParent
  <2> QED
    BY <1>4, <1>a, <2>1, OtherNames DEF Fresh
<1> QED
  BY <1>1, <1>2, <1>3, <1>4

LEMMA WorkShrinks ==
    ASSUME CoreInv, [Next]_vars, vars' # vars, stack # <<>> \/ visiting # None
    PROVE  IsLess(WorkLeft', WorkLeft)
<1>a. TypeInv /\ Waiting /\ Len(stack) \in Nat
  BY DEF CoreInv, TypeInv
<1>b. UNCHANGED stack => UNCHANGED Top
  BY DEF Top
<1>c. /\ WorkLeft[1] = Cardinality(Fresh) /\ WorkLeft[2] = Len(stack)
      /\ WorkLeft[3] = IF stack = <<>> THEN 0 ELSE Len(Top.parents)
      /\ WorkLeft[4] = IF visiting # None THEN 1 ELSE IF returned # None THEN 0 ELSE 2
  BY DEF WorkLeft
<1>d. /\ WorkLeft'[1] = Cardinality(Fresh') /\ WorkLeft'[2] = Len(stack')
      /\ WorkLeft'[3] = IF stack' = <<>> THEN 0 ELSE Len(Top'.parents)
      /\ WorkLeft'[4] = IF visiting' # None THEN 1 ELSE IF returned' # None THEN 0 ELSE 2
  BY DEF WorkLeft
<1>1. CASE Descend
  <2>1. Fresh' = Fresh \ {visiting} /\ visiting \in Fresh
    BY <1>1, FreshIs
  <2>2. IsFiniteSet(Fresh)
    BY NamesAssumption, FS_Subset DEF Fresh
  <2>3. Cardinality(Fresh') = Cardinality(Fresh) - 1 /\ Cardinality(Fresh) \in Nat
    BY <2>1, <2>2, FS_RemoveElement, FS_CardinalityType
  <2>4. WorkLeft'[1] < WorkLeft[1]
    BY <1>c, <1>d, <2>3
  <2> QED
    BY <2>4 DEF IsLess
<1>2. CASE Finds
  <2>1. Fresh' = Fresh /\ UNCHANGED stack /\ visiting # None /\ visiting' = None
    BY <1>2, <1>a, FindStack, FreshIs DEF Descend
  <2>2. returned' # None
    <3>1. \/ \E body \in Bodies : returned' = [body |-> body]
          \/ \E reason \in Reasons : returned' = [failure |-> reason]
      BY <1>2, <1>a DEF Finds, HitResolved, HitFailed, FindCycle, FindUnknown, Fails, Returns,
                        TypeInv, Reasons
    <3> QED
      BY <3>1, BodyIsResult, FailureIsResult
  <2>3. /\ WorkLeft'[4] < WorkLeft[4]
        /\ WorkLeft'[1] = WorkLeft[1] /\ WorkLeft'[2] = WorkLeft[2] /\ WorkLeft'[3] = WorkLeft[3]
    BY <1>b, <1>c, <1>d, <2>1, <2>2
  <2> HIDE DEF WorkLeft
  <2> QED
    BY <2>3 DEF IsLess
<1>3. CASE VisitParent
  <2>1. /\ UNCHANGED stack /\ visiting = None /\ returned = None /\ visiting' # None
    BY <1>3, <1>a, TopAndPop, HeadAndTail, NamesAssumption
       DEF VisitParent, InLoop, TypeInv, Frames
  <2>2. Fresh' = Fresh
    BY <1>3, <2>1, FreshIs DEF Descend, Miss
  <2>3. /\ WorkLeft'[4] < WorkLeft[4]
        /\ WorkLeft'[1] = WorkLeft[1] /\ WorkLeft'[2] = WorkLeft[2] /\ WorkLeft'[3] = WorkLeft[3]
    BY <1>b, <1>c, <1>d, <2>1, <2>2
  <2> QED
    BY <2>3 DEF IsLess
<1>4. CASE MergeParent
  <2>1. /\ Fresh' = Fresh /\ Len(stack') = Len(stack) /\ Len(stack) > 0
        /\ Top' = stack'[Len(stack)] /\ Top \in Frames /\ Top.parents # <<>>
        /\ Top'.parents = Tail(Top.parents) /\ stack' # <<>>
    BY <1>4, <1>a, MergeStack, TopAndPop, FreshIs
       DEF Descend, Miss, Top, Waiting, MergeParent, TypeInv
  <2>2. Len(Top.parents) \in Nat /\ Len(Top'.parents) = Len(Top.parents) - 1
    BY <2>1, HeadAndTail DEF Frames
  <2>3. WorkLeft'[3] < WorkLeft[3] /\ WorkLeft'[1] = WorkLeft[1] /\ WorkLeft'[2] = WorkLeft[2]
    BY <1>4, <1>c, <1>d, <2>1, <2>2, MergeStack, <1>a
  <2> QED
    BY <2>3 DEF IsLess
<1>5. CASE Ends
  <2>1. Fresh' = Fresh /\ Len(stack') = Len(stack) - 1
    BY <1>5, <1>a, EndStack, FreshIs DEF Descend, Miss
  <2>2. WorkLeft'[2] < WorkLeft[2] /\ WorkLeft'[1] = WorkLeft[1]
    BY <1>a, <1>c, <1>d, <2>1
  <2> QED
    BY <2>2 DEF IsLess
<1>6. ~\E n \in AllNames : Resolve(n)
  BY DEF Resolve
<1> QED
  BY <1>1, <1>2, <1>3, <1>4, <1>5, <1>6 DEF Next, Finds, Ends

(* Every variable keeps its type, whatever the templates extend. *)
THEOREM TypeCorrect == Spec => []TypeOK
<1>1. CoreInv => TypeOK
  <2> SUFFICES ASSUME TypeInv PROVE TypeOK
    BY DEF CoreInv
  <2>1. \A i \in DOMAIN stack : stack[i] \in Frames
    BY DEF TypeInv
  <2> QED
    BY <2>1 DEF TypeInv, TypeOK, Frames
<1> QED
  BY <1>1, CoreAlways, PTL

(* resolve never calls itself for a template whose call is under way, so that
   its recursion is no deeper than there are templates: the search of the stack
   is enough, without a mark on the templates themselves. *)
THEOREM RecursionIsBounded == Spec => []StackHasNoRepeats
<1>1. CoreInv => StackHasNoRepeats
  BY DEF CoreInv
<1> QED
  BY <1>1, CoreAlways, PTL

(* A cached body is the one the extends chain defines, whatever the templates
   extend, in whatever order they are asked for and whatever failed before: the
   merges of the calls under way amount to the recursive rule (resolve.go:63-65). *)
THEOREM CachedBodiesAreRight == Spec => []BodiesAreRight
<1>1. CacheInv => BodiesAreRight
  BY BodiesFollow DEF CacheInv
<1> QED
  BY <1>1, CacheAlways, PTL

(* A failure is cached for nothing that could resolve, and outside a call the
   reason in the cache is the one the templates give, although a call that closes a
   cycle records it under way for the name it met twice: the calls above it end by
   recording the same (resolve.go:85-122). *)
THEOREM CachedFailuresAreRight == Spec => []FailuresAreRight
BY FailAlways, FailuresFollow, PTL

(* Every call returns: each of its steps leaves less to do, in a well-founded
   order, for cycles of any length too. *)
THEOREM EveryCallReturns == Spec => CallsReturn
<1>1. CoreInv /\ [Next]_vars
          => [stack # <<>> \/ visiting # None => IsLess(WorkLeft', WorkLeft)]_vars
  BY WorkShrinks
<1> QED
  BY <1>1, CoreAlways, PTL DEF Spec, CallsReturn
=============================================================================
