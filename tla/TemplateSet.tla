---------------------------- MODULE TemplateSet -----------------------------
(***************************************************************************)
(* internal/config/resolve.go: TemplateSet.Resolve, one visit at a time.   *)
(*                                                                         *)
(* resolve is recursive, with a cache of bodies and a cache of failures    *)
(* that outlive a call, and its stack doubles as the cycle detector.  The  *)
(* Go stack is the variable stack here.                                    *)
(*                                                                         *)
(* Of the merged body one scalar field is kept: it is the template whose   *)
(* own endpoint sets the field, or Unset.                                  *)
(***************************************************************************)
EXTENDS Sequences, Integers, FiniteSetsExt

CONSTANTS Names,   \* templates in the cluster
          Unknown, \* names extended by a template but not in the cluster
          Parents, \* possible values of spec.extends
          None,    \* no name, no result
          Unset    \* a body that does not set the field

AllNames == Names \cup Unknown
Reasons == {"Cycle", "UnknownParent", "InvalidEndpoint"}
Bodies == Names \cup {Unset}

ASSUME NamesAssumption ==
    /\ IsFiniteSet(Names)
    /\ Unset \notin AllNames
    /\ None \notin AllNames \cup Reasons \cup {Unset}
    /\ None \notin [body : Bodies] \cup [failure : Reasons]
ASSUME ParentsAssumption == Parents \subseteq Seq(AllNames)

VARIABLES extends,  \* spec.extends of each template
          own,      \* sets the field, is silent about it, or is no object
          resolved, \* TemplateSet.resolved
          failed,   \* TemplateSet.failed
          stack,    \* calls of resolve under way, innermost last
          visiting, \* the name resolve has just been called with
          returned  \* what the call just ended returned

specVars == <<extends, own>>
cacheVars == <<resolved, failed>>
vars == <<specVars, cacheVars, stack, visiting, returned>>

Init ==
    /\ extends \in [Names -> Parents]
    /\ own \in [Names -> {"sets", "silent", "invalid"}]
    /\ resolved = [n \in Names |-> None]
    /\ failed = [n \in AllNames |-> None]
    /\ stack = <<>>
    /\ visiting = None
    /\ returned = None

(* A frame of resolve: the parents still to merge and the body so far. *)
Frame(n) == [name |-> n, parents |-> extends[n], out |-> Unset]
Top == stack[Len(stack)]
Pop == SubSeq(stack, 1, Len(stack) - 1)
Stacked == {stack[i].name : i \in DOMAIN stack}

Returns(value) == visiting' = None /\ returned' = value
Fails(n, reason) ==
    /\ failed' = [failed EXCEPT ![n] = reason]
    /\ Returns([failure |-> reason])
    /\ UNCHANGED <<specVars, resolved>>

(* Mutant of Merge: what is there already stays. *)
MergeKeeping(dst, src) == IF dst = Unset THEN src ELSE dst

(* mergeInto, for a scalar: what the source sets wins. *)
Merge(dst, src) == IF src = Unset THEN dst ELSE src

-----------------------------------------------------------------------------
(* Resolve, ResolveMany and updateTemplateStatus call resolve with an empty
   stack, in any order. *)
Resolve(n) ==
    /\ stack = <<>>
    /\ visiting = None
    /\ visiting' = n
    /\ returned' = None
    /\ UNCHANGED <<specVars, cacheVars, stack>>

HitResolved ==
    /\ visiting \in Names
    /\ resolved[visiting] # None
    /\ Returns([body |-> resolved[visiting]])
    /\ UNCHANGED <<specVars, cacheVars, stack>>

HitFailed ==
    /\ visiting # None
    /\ failed[visiting] # None
    /\ Returns([failure |-> failed[visiting]])
    /\ UNCHANGED <<specVars, cacheVars, stack>>

Miss == /\ visiting # None
        /\ failed[visiting] = None
        /\ visiting \in Names => resolved[visiting] = None

FindCycle ==
    /\ Miss
    /\ visiting \in Stacked
    /\ Fails(visiting, "Cycle")
    /\ UNCHANGED stack

FindUnknown ==
    /\ Miss
    /\ visiting \notin Stacked \cup Names
    /\ Fails(visiting, "UnknownParent")
    /\ UNCHANGED stack

(* Mutant of Descend: the stack is not searched. *)
DescendBlindly ==
    /\ Miss
    /\ visiting \in Names
    /\ stack' = Append(stack, Frame(visiting))
    /\ visiting' = None
    /\ returned' = None
    /\ UNCHANGED <<specVars, cacheVars>>

Descend ==
    /\ Miss
    /\ visiting \in Names \ Stacked
    /\ stack' = Append(stack, Frame(visiting))
    /\ visiting' = None
    /\ returned' = None
    /\ UNCHANGED <<specVars, cacheVars>>

-----------------------------------------------------------------------------
(* The loop over spec.extends, in the innermost call. *)

InLoop == stack # <<>> /\ visiting = None

VisitParent ==
    /\ InLoop
    /\ returned = None
    /\ Top.parents # <<>>
    /\ visiting' = Head(Top.parents)
    /\ UNCHANGED <<specVars, cacheVars, stack, returned>>

HasFailure(r) == r # None /\ "failure" \in DOMAIN r

(* Mutant of MergeParent: the loop does not advance. *)
MergeParentAgain ==
    /\ InLoop
    /\ returned # None
    /\ ~HasFailure(returned)
    /\ stack' = Append(Pop, [Top EXCEPT !.out = Merge(@, returned.body)])
    /\ returned' = None
    /\ UNCHANGED <<specVars, cacheVars, visiting>>

MergeParent ==
    /\ InLoop
    /\ returned # None
    /\ ~HasFailure(returned)
    /\ stack' = Append(Pop, [Top EXCEPT !.parents = Tail(@),
                                        !.out = Merge(@, returned.body)])
    /\ returned' = None
    /\ UNCHANGED <<specVars, cacheVars, visiting>>

(* Mutants of ParentFailed: the parent's reason is lost; it is always the same. *)
ParentFailedWithoutReason ==
    /\ InLoop
    /\ HasFailure(returned)
    /\ Fails(Top.name, Unset)
    /\ stack' = Pop

ParentFailedUnknown ==
    /\ InLoop
    /\ HasFailure(returned)
    /\ Fails(Top.name, "UnknownParent")
    /\ stack' = Pop

(* The failure is recorded for this template too, with the parent's reason. *)
ParentFailed ==
    /\ InLoop
    /\ HasFailure(returned)
    /\ Fails(Top.name, returned.failure)
    /\ stack' = Pop

OwnBodyInvalid ==
    /\ InLoop
    /\ returned = None
    /\ Top.parents = <<>>
    /\ own[Top.name] = "invalid"
    /\ Fails(Top.name, "InvalidEndpoint")
    /\ stack' = Pop

MergeOwnBody ==
    /\ InLoop
    /\ returned = None
    /\ Top.parents = <<>>
    /\ own[Top.name] # "invalid"
    /\ LET body == Merge(Top.out, IF own[Top.name] = "sets" THEN Top.name ELSE Unset)
       IN /\ resolved' = [resolved EXCEPT ![Top.name] = body]
          /\ Returns([body |-> body])
    /\ stack' = Pop
    /\ UNCHANGED <<specVars, failed>>

Next ==
    \/ \E n \in AllNames : Resolve(n)
    \/ HitResolved \/ HitFailed
    \/ FindCycle \/ FindUnknown \/ Descend
    \/ VisitParent \/ MergeParent \/ ParentFailed
    \/ OwnBodyInvalid \/ MergeOwnBody

Spec == Init /\ [][Next]_vars

-----------------------------------------------------------------------------
(* What the caches should say, from the templates alone. *)

ParentSet(n) == IF n \in Names THEN {extends[n][i] : i \in DOMAIN extends[n]} ELSE {}

(* A template resolves when its body is valid and all it extends resolves.
   Resolvable is the least set with every such template, so that neither a
   template on a cycle nor one that leads to a cycle is in it. *)
HasEveryBuilt(S) ==
    \A n \in Names : own[n] # "invalid" /\ ParentSet(n) \subseteq S => n \in S
Resolvable ==
    LET closed == {S \in SUBSET Names : HasEveryBuilt(S)}
    IN  {n \in Names : \A S \in closed : n \in S}

(* Depth-first, left to right, the nearest definition wins: its own, else the
   last parent's that has one. *)
LastSet(bodies) ==
    LET set == {i \in DOMAIN bodies : bodies[i] # Unset}
    IN  IF set = {} THEN Unset ELSE bodies[Max(set)]

BodyOf[n \in Resolvable] ==
    IF own[n] = "sets" THEN n
    ELSE LastSet([i \in DOMAIN extends[n] |-> BodyOf[extends[n][i]]])

(* A template that extends names that do not resolve blames the first of them. *)
AtFault(n, j, good) ==
    extends[n][j] \notin good /\ \A i \in 1..(j - 1) : extends[n][i] \in good
Blame(good) ==
    UNION {{<<n, extends[n][j]>> : j \in {i \in DOMAIN extends[n] : AtFault(n, i, good)}} :
               n \in Names}

(* The names whose blame, passed on from name to name, ends at a culprit. *)
HasEveryBlamer(S, blame) == \A b \in blame : b[2] \in S => b[1] \in S
Because(culprits, blame) ==
    LET closed == {S \in SUBSET AllNames : culprits \subseteq S /\ HasEveryBlamer(S, blame)}
    IN  {n \in AllNames : \A S \in closed : n \in S}

(* It ends at a name that fails on its own, or else goes round a cycle. *)
Reason ==
    LET good == Resolvable
        blame == Blame(good)
        unknown == Because(Unknown \ Names, blame)
        invalid == Because({n \in Names \ good : ParentSet(n) \subseteq good}, blame)
    IN  [n \in AllNames \ good |->
            IF n \in unknown THEN "UnknownParent"
            ELSE IF n \in invalid THEN "InvalidEndpoint"
            ELSE "Cycle"]

-----------------------------------------------------------------------------
(* Properties. *)

(* Every variable keeps its type. *)
TypeOK ==
    /\ resolved \in [Names -> Bodies \cup {None}]
    /\ failed \in [AllNames -> Reasons \cup {None}]
    /\ visiting \in AllNames \cup {None}
    /\ \A i \in DOMAIN stack : /\ stack[i].name \in Names
                              /\ stack[i].parents \in Seq(AllNames)
                              /\ stack[i].out \in Bodies

(* A body in the cache is the one the extends chain defines, whatever calls
   and failures came before (resolve.go:63-65). *)
BodiesAreRight ==
    LET known == {n \in Names : resolved[n] # None}
        right == BodyOf
    IN  \A n \in known : n \in DOMAIN right /\ resolved[n] = right[n]

(* A failure is recorded only for a template that really cannot resolve, and
   outside a call its reason does not depend on what was resolved before it:
   the negative cache is never wrong, though it is filled in mid-cycle. *)
FailuresAreRight ==
    LET known == {n \in AllNames : failed[n] # None}
        good == Resolvable
        reason == Reason
    IN  \A n \in known : /\ n \notin good
                         /\ stack = <<>> => failed[n] = reason[n]

(* The recursion is no deeper than there are templates, whatever they extend. *)
StackHasNoRepeats ==
    \A i, j \in DOMAIN stack : stack[i].name = stack[j].name => i = j

(* What is left of a call: the templates not visited yet; for these, the calls
   under way; for these, the rest of the innermost loop; and where it stands. *)
Fresh == {n \in Names : resolved[n] = None /\ failed[n] = None /\ n \notin Stacked}
WorkLeft ==
    <<Cardinality(Fresh),
      Len(stack),
      IF stack = <<>> THEN 0 ELSE Len(Top.parents),
      IF visiting # None THEN 1 ELSE IF returned # None THEN 0 ELSE 2>>
IsLess(a, b) == \E i \in 1..4 : a[i] < b[i] /\ \A j \in 1..(i - 1) : a[j] = b[j]

(* Every call returns, with cycles in the templates too: each of its steps leaves
   less to do. *)
CallsReturn ==
    [][stack # <<>> \/ visiting # None => IsLess(WorkLeft', WorkLeft)]_vars
=============================================================================
