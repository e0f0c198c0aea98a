----------------------------- MODULE Annotations -----------------------------
(***************************************************************************)
(* internal/discovery/annotations.go and internal/config/merge.go: the     *)
(* endpoint specs that an object's annotations amount to.                  *)
(*                                                                         *)
(* Annotations are a record of those present, under their names without    *)
(* the prefix (exclude-route is excludeRoute), each with its parsed value: *)
(* text, a port, a URL, a list of names, a Gatus object, a list of items.  *)
(***************************************************************************)
EXTENDS Integers, Sequences, SequencesExt

CONSTANTS Objects,   \* Gatus objects, with all their parts
          Depth,     \* of each: an object is written down, so it ends
          Malformed, \* a value of a type its key does not take, or not YAML
          Null,      \* YAML's null; a list or object that is blank
          Nil        \* Go's nil: no list, no object

(* A value of an object is a map of string keys, or else opaque to merging. *)
IsMap(v) == v.is = "map"

ASSUME ObjectsAssumption ==
    /\ {Malformed, Null, Nil} \cap Objects = {}
    /\ Depth \in [Objects -> Nat]
    /\ \A o \in Objects : \A k \in DOMAIN o :
          IsMap(o[k]) => o[k].of \in Objects /\ Depth[o[k].of] < Depth[o]

-----------------------------------------------------------------------------
(* config.Merge. *)

(* Mutant of Merged: a map replaces the map it is merged over. *)
MergedShallow ==
    [dst \in Objects |->
        [src \in Objects |->
            [k \in DOMAIN dst \cup DOMAIN src |->
                IF k \in DOMAIN src THEN src[k] ELSE dst[k]]]]

(* Maps are merged key by key; any other value replaces what it meets. *)
Merged ==
    LET merged[dst \in Objects] ==
            [src \in Objects |->
                [k \in DOMAIN dst \cup DOMAIN src |->
                    IF k \notin DOMAIN src THEN dst[k]
                    ELSE IF k \in DOMAIN dst /\ IsMap(dst[k]) /\ IsMap(src[k])
                      THEN [is |-> "map", of |-> merged[dst[k].of][src[k].of]]
                    ELSE src[k]]]
    IN  merged

(* Objects has what can be made of its elements. *)
ASSUME MergedAssumption == \A dst, src \in Objects : Merged[dst][src] \in Objects

Merge(dst, src) == IF src = Nil THEN dst ELSE Merged[dst][src]

-----------------------------------------------------------------------------
(* Specs.  A port is a name, a number, or neither. *)

NoPort == [name |-> "", number |-> -1]
NoURL == <<>>

Written(from, key, default) ==
    IF key \in DOMAIN from /\ from[key] # Null THEN from[key] ELSE default

(* splitList: a list with no entry is no list. *)
SplitList(names) == IF names = <<>> THEN Nil ELSE names

(* A spec: what the shortcuts and an item have in common, and the rest. *)
SpecFrom(from, templates, templatesSet, extra, patch) ==
    [name   |-> Written(from, "name", ""),
     url    |-> Written(from, "url", NoURL),
     scheme |-> Written(from, "scheme", ""),
     port   |-> Written(from, "port", NoPort),
     path   |-> Written(from, "path", ""),
     group  |-> Written(from, "group", ""),
     groupSet |-> "group" \in DOMAIN from,
     templates |-> templates, templatesSet |-> templatesSet,
     extra  |-> extra, patch |-> patch]

(* parseShortcuts. *)
Shortcuts(ann) ==
    SpecFrom(ann,
             SplitList(Written(ann, "template", <<>>)), "template" \in DOMAIN ann,
             SplitList(Written(ann, "templateExtra", <<>>)),
             Written(ann, "endpoint", Nil))

(* listField: a list written as text or as a YAML list, which may be empty. *)
ListField(item, key) ==
    LET v == Written(item, key, Nil)
    IN  IF v = Nil THEN Nil ELSE IF v.text THEN SplitList(v.names) ELSE v.names

(* specFromObject: its Gatus fields are the item's patch. *)
ItemSpec(item) ==
    SpecFrom(item,
             ListField(item, "template"), Written(item, "template", Null) # Null,
             ListField(item, "templateExtra"), Written(item, "fields", Nil))

(* inherit.  The name is not inherited: two endpoints must not share it. *)
Inherit(s, base) ==
    [name   |-> s.name,
     url    |-> IF s.url = NoURL THEN base.url ELSE s.url,
     scheme |-> IF s.scheme = "" THEN base.scheme ELSE s.scheme,
     port   |-> IF s.port = NoPort THEN base.port ELSE s.port,
     path   |-> IF s.path = "" THEN base.path ELSE s.path,
     group  |-> IF s.groupSet THEN s.group ELSE base.group,
     groupSet |-> s.groupSet \/ base.groupSet,
     templates |-> IF s.templatesSet THEN s.templates ELSE base.templates,
     templatesSet |-> s.templatesSet \/ base.templatesSet,
     extra  |-> IF s.extra = Nil THEN base.extra ELSE s.extra,
     patch  |-> IF base.patch = Nil THEN s.patch ELSE Merge(base.patch, s.patch)]

IsMalformed(item) ==
    item = Malformed \/ \E key \in DOMAIN item : item[key] = Malformed

(* A present and non-blank endpoints annotation. *)
Items(ann) == Written(ann, "endpoints", Nil)

(* One malformed value, in the object's own annotations or in any item, and
   nothing can be made of the object. *)
AnnotationsFail(ann) ==
    \/ Written(ann, "endpoint", Nil) = Malformed
    \/ Items(ann) = Malformed
    \/ Items(ann) \notin {Nil, Malformed} /\ \E i \in DOMAIN Items(ann) : IsMalformed(Items(ann)[i])

(* What is given for a patch is an object. *)
IsPatch(from, key) == key \in DOMAIN from => from[key] \in Objects \cup {Malformed, Null}
AreAnnotations(ann) ==
    /\ IsPatch(ann, "endpoint")
    /\ Items(ann) \notin {Nil, Malformed} =>
          \A i \in DOMAIN Items(ann) :
              Items(ann)[i] # Malformed => IsPatch(Items(ann)[i], "fields")

(* specsFromAnnotations, of annotations that do not fail. *)
SpecsFromAnnotations(ann) ==
    IF Items(ann) = Nil THEN <<Shortcuts(ann)>>
    ELSE [i \in DOMAIN Items(ann) |-> Inherit(ItemSpec(Items(ann)[i]), Shortcuts(ann))]
=============================================================================
