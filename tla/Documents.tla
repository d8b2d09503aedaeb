----------------------------- MODULE Documents -----------------------------
(***************************************************************************)
(* What a document of one entity looks like to the store and its indexes.  *)
(*                                                                         *)
(* Document bytes are opaque names (Content).  What the extractors of the  *)
(* code find in them is the function Leaves: the scalar leaves of the JSON *)
(* object, each with the last object key on its path (array elements       *)
(* inherit the key of the array), and whether it is a top-level field.     *)
(* Bytes that are not a JSON object have no leaves.  Strings are sequences *)
(* of tokens in which "|" and ":" are tokens of their own, so that keys    *)
(* the code glues together with a separator can collide here when they can *)
(* collide in the code.                                                    *)
(***************************************************************************)
EXTENDS Integers, Sequences

CONSTANTS
    DocID,      \* document ids of the entity (non-empty strings)
    Content,    \* document bytes
    EmptyDoc,   \* the document of length 0
    Absent,     \* no value under this key
    Leaves,     \* Content -> set of leaves
    NotATime    \* num of a string that does not parse as RFC3339

Kind == {"str", "num", "bool"}

\* A scalar: its text as strconv formats it, and its numeric value (for a
\* string: the Unix time it denotes, if it is a timestamp).
IsScalar(v) ==
    /\ DOMAIN v = {"kind", "text", "num"}
    /\ v.kind \in Kind
    /\ v.num \in Int \cup {NotATime}
    /\ v.kind = "num" => v.num \in Int

ASSUME ContentAssumption ==
    /\ Absent \notin Content
    /\ Absent \notin DocID
    /\ NotATime \notin Int
    /\ DOMAIN Leaves = Content
    /\ EmptyDoc \in Content => Leaves[EmptyDoc] = {}
    /\ EmptyDoc # Absent

\* JSON objects have one value per key, so at most one top-level leaf per key.
ASSUME LeavesAssumption ==
    \A c \in Content : \A l \in Leaves[c] :
        /\ DOMAIN l = {"key", "val", "top"}
        /\ IsScalar(l.val)
        /\ l.top \in BOOLEAN
        /\ \A m \in Leaves[c] : l.top /\ m.top /\ l.key = m.key => l = m

ItemKey   == <<"item_id">>
TypeKey   == <<"type">>
AtKey     == <<"at">>
ParentKey == <<"parent">>

Top(c, k) == {l.val : l \in {m \in Leaves[c] : m.top /\ m.key = k}}
TopStr(c, k) == {v \in Top(c, k) : v.kind = "str"}

----------------------------------------------------------------------------
(* What each extractor finds in each content.                              *)

\* index.Extract: every leaf emits its bare text and key:text, never "".
ExtractTerms ==
    [c \in Content |->
        (UNION {{l.val.text, l.key \o <<":">> \o l.val.text} : l \in Leaves[c]})
            \ {<<>>}]

\* Result.Numerics as (path, value) pairs; the numeric index stores each once.
ExtractNumerics ==
    [c \in Content |->
        {<<l.key, l.val.num>> : l \in {m \in Leaves[c] : m.val.kind = "num"}}]

\* A set with the one record of fields, or {} for ok = false.
ParseTemporal ==
    [c \in Content |->
        {[item |-> f[1].text, type |-> f[2].text, at |-> f[3].num] :
            f \in TopStr(c, ItemKey) \X TopStr(c, TypeKey) \X
                    {v \in Top(c, AtKey) : v.kind # "bool" /\ v.num # NotATime}}]

ParseGroupBy ==
    [c \in Content |->
        {[item |-> f[1].text, attr |-> f[2].key, value |-> f[2].val.text] :
            f \in TopStr(c, ItemKey) \X
                    {l \in Leaves[c] : l.top /\ l.key # ItemKey}}]

ParseParent ==
    [c \in Content |-> {v.text : v \in TopStr(c, ParentKey)} \ {<<>>}]

\* A nil document yields nothing.
Terms(c) == IF c \in Content THEN ExtractTerms[c] ELSE {}
Numerics(c) == IF c \in Content THEN ExtractNumerics[c] ELSE {}
temporalFields(c) == IF c \in Content THEN ParseTemporal[c] ELSE {}
groupByFields(c) == IF c \in Content THEN ParseGroupBy[c] ELSE {}
closureParent(c) == IF c \in Content THEN ParseParent[c] ELSE {}

NumericsAt(c, p) == {n[2] : n \in {m \in Numerics(c) : m[1] = p}}

----------------------------------------------------------------------------
\* The keys an index of this entity can hold.
Term == UNION {Terms(c) : c \in Content}
Path == {n[1] : n \in UNION {Numerics(c) : c \in Content}}
Value == {n[2] : n \in UNION {Numerics(c) : c \in Content}}
TemporalFields == UNION {temporalFields(c) : c \in Content}
GroupByFields == UNION {groupByFields(c) : c \in Content}
At == {f.at : f \in TemporalFields}
Item == {f.item : f \in TemporalFields}
RecordType == {f.type : f \in TemporalFields}
Category == DocID \cup UNION {closureParent(c) : c \in Content}
============================================================================
