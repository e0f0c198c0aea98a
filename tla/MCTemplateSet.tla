--------------------------- MODULE MCTemplateSet ----------------------------
(* Model-checking instances of TemplateSet: every graph in which each template
   extends at most two names, some of them unknown. *)
EXTENDS TemplateSet, TLC

AtMostTwo == {<<>>} \cup {<<m>> : m \in AllNames}
             \cup {<<m, n>> \in AllNames \X AllNames : m # n}

Symmetry == Permutations(Names)
=============================================================================
