------------------------------- MODULE Document -------------------------------
(***************************************************************************)
(* Document.cpp, Document.h and Collection::parseValue, seen field by      *)
(* field.                                                                  *)
(*                                                                         *)
(* A document is the JSON object data_ restricted to the fields that may   *)
(* be indexed: a function from Fields to what the object holds there.      *)
(*   - Missing        the object has no such key;                          *)
(*   - a scalar       <<type, value>>, one of Values;                      *)
(*   - Array          a JSON array, whatever it holds: no operation below  *)
(*                    asks more of a top-level array than that it is one;  *)
(*   - an object      one of Objects, compared for equality by $pull.      *)
(***************************************************************************)
EXTENDS Integers

CONSTANTS
    Fields,     \* field names, as numbers in the order std::set sorts them
    Values,     \* JSON scalars, each a pair <<type, value>>
    Objects,    \* JSON objects held in a field
    Array,      \* any JSON array held in a field
    Missing,    \* the field is absent
    IntRange    \* how many values an int has: 2^32 in the build

ASSUME FieldsAssumption == Fields \subseteq Nat

ASSUME IntRangeAssumption == IntRange \in Nat \ {0}

ASSUME ContentsAssumption ==
    /\ Missing \notin Values \cup Objects \cup {Array}
    /\ Array \notin Values \cup Objects
    /\ Values \cap Objects = {}

-------------------------------------------------------------------------------
Compounds == Objects \cup {Array}

\* A JSON value, and what a field of a document may hold.
Contents == Values \cup Compounds

Doc == [Fields -> Contents \cup {Missing}]

\* Document(id, json::object()): what an upsert starts from.
EmptyDoc == [f \in Fields |-> Missing]

hasField(doc, f) == doc[f] # Missing

-------------------------------------------------------------------------------
(***************************************************************************)
(* The text a scalar is indexed under.  A string is its own key, a Boolean *)
(* shares its key with the string of the same spelling, null shares its    *)
(* key with the empty string, and an integer goes through get<int>(),      *)
(* which keeps it modulo IntRange.  encodeIntKey and encodeDoubleKey make  *)
(* 8 big-endian bytes of a number, one-to-one for each of them, so a       *)
(* numeric key is the number itself under a tag of its own.  (An integer   *)
(* and a double have the same bytes only by accident, as -1 and -0.0 do;   *)
(* KeyEncoding has the bytes, for fields of one kind.)  An array or an     *)
(* object has no key: converting it to std::string throws.                 *)
(***************************************************************************)
parseValue(v) ==
    CASE v[1] = "string"  -> <<"text", v[2]>>
      [] v[1] = "integer" -> <<"int8", v[2] % IntRange>>
      [] v[1] = "float"   -> <<"double8", v[2]>>
      [] v[1] = "boolean" -> <<"text", IF v[2] THEN "true" ELSE "false">>
      [] OTHER            -> <<"text", "">>

Keys == {parseValue(v) : v \in Values}

Throws(v) == v \in Compounds

-------------------------------------------------------------------------------
(***************************************************************************)
(* applyUpdate.  An update object maps operators to {field: value}         *)
(* clauses; iterating it visits the operators in the order of their names. *)
(* A clause here is <<field, value>>, and an update has at most one clause *)
(* of each kind.  A key with dots works inside a compound value, which     *)
(* stays compound, or falls back on an existing top-level field, which is  *)
(* the plain $set below; either way it reaches no other document.          *)
(***************************************************************************)
Clauses == Fields \X Contents

Update == [pull : Clauses \cup {<<>>}, push : Clauses \cup {<<>>},
           set  : Clauses \cup {<<>>}, unset : Fields \cup {Missing}]

\* $pull: filter an array; a non-array equal to the value is erased, and any
\* other non-array is overwritten by the value.
Pull(doc, c) ==
    IF c = <<>> THEN doc
    ELSE [doc EXCEPT ![c[1]] = IF @ \in {Missing, Array} THEN @
                               ELSE IF @ = c[2] THEN Missing ELSE c[2]]

\* $push: an absent field takes the value itself, an array grows, and anything
\* else becomes an array of the old and the new value.
Push(doc, c) ==
    IF c = <<>> THEN doc
    ELSE [doc EXCEPT ![c[1]] = IF @ = Missing THEN c[2] ELSE Array]

Set(doc, c) == IF c = <<>> THEN doc ELSE [doc EXCEPT ![c[1]] = c[2]]

Unset(doc, f) == IF f = Missing THEN doc ELSE [doc EXCEPT ![f] = Missing]

applyUpdate(doc, u) == Unset(Set(Push(Pull(doc, u.pull), u.push), u.set), u.unset)

===============================================================================
