-------------------------------- MODULE Rules --------------------------------
(***************************************************************************)
(* internal/discovery/matcher.go: what a Traefik match expression says of  *)
(* the addresses a route serves.                                           *)
(*                                                                         *)
(* An expression is a tree as Traefik's parser returns it.  Its leaves are *)
(* matchers, of hosts, of paths, or of something else, with the values it  *)
(* is given; a regular expression or a "*" among them names no address and *)
(* is one of Wildcards.                                                    *)
(***************************************************************************)
EXTENDS Subsequences, SequencesExt

CONSTANTS Trees,      \* match expressions, with all their parts
          Height,     \* of each: an expression is written down, so it ends
          Unparsable, \* an expression the parser rejects
          Blank,      \* no expression
          Wildcards,  \* values that name no single host or path
          Unrooted    \* paths written without a leading slash

Branches == {"and", "or"}
Listed(s) == s \in Seq(ToSet(s))

ASSUME TreesAssumption ==
    /\ {Unparsable, Blank} \cap Trees = {}
    /\ Height \in [Trees -> Nat]
    /\ \A t \in Trees :
          /\ t.not \in BOOLEAN
          /\ IF t.is \in Branches
               THEN \A part \in {t.left, t.right} : part \in Trees /\ Height[part] < Height[t]
               ELSE Listed(t.values)

(* Mutant of PositiveLeaves: a second negation does not undo the first. *)
PositiveLeavesOnce ==
    LET leaves[t \in Trees] ==
            [negated \in BOOLEAN |->
                LET sign == t.not \/ negated
                IN  IF t.is \in Branches
                      THEN leaves[t.left][sign] \o leaves[t.right][sign]
                      ELSE IF sign THEN <<>> ELSE <<t>>]
    IN  [t \in Trees |-> leaves[t][FALSE]]

(* walkTree: the matchers under an even number of negations, as written. *)
PositiveLeaves ==
    LET leaves[t \in Trees] ==
            [negated \in BOOLEAN |->
                LET sign == t.not # negated
                IN  IF t.is \in Branches
                      THEN leaves[t.left][sign] \o leaves[t.right][sign]
                      ELSE IF sign THEN <<>> ELSE <<t>>]
    IN  [t \in Trees |-> leaves[t][FALSE]]

Addresses(values) == Subsequence(values, {i \in DOMAIN values : values[i] \notin Wildcards})

(* What the leaves of one sort name, leaf by leaf. *)
Named(leaves, sort) ==
    LET ofSort == Subsequence(leaves, {i \in DOMAIN leaves : leaves[i].is = sort})
    IN  [i \in DOMAIN ofSort |-> Addresses(ofSort[i].values)]

(* The elements of s whose key none before them has. *)
Firsts(s, keys) ==
    Subsequence(s, {i \in DOMAIN s : \A j \in 1..(i - 1) : keys[j] # keys[i]})

Distinct(s) == Firsts(s, s)

(* Paths written without a leading slash get one; a bare slash is no path. *)
NormalisePath(p) ==
    IF p \in {"", "/"} THEN "" ELSE IF p \in Unrooted THEN "/" \o p ELSE p

(* What each leaf contributes is its first path; the first of those counts. *)
FirstPath(named) ==
    LET paths == SelectSeq([i \in DOMAIN named |->
                                IF named[i] = <<>> THEN "" ELSE NormalisePath(named[i][1])],
                           LAMBDA p : p # "")
    IN  IF paths = <<>> THEN "" ELSE paths[1]

(* parseRule, of each expression the parser accepts. *)
ParseRule ==
    LET rule(leaves) == [hosts |-> Distinct(FlattenSeq(Named(leaves, "host"))),
                         path |-> FirstPath(Named(leaves, "path"))]
    IN  [match \in Trees \cup {Blank} |->
            rule(IF match = Blank THEN <<>> ELSE PositiveLeaves[match])]
=============================================================================
