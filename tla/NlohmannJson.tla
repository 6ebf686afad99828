---------------------------- MODULE NlohmannJson ----------------------------
(***************************************************************************)
(* nlohmann_json_serializer.cpp: what NlohmannDeserializer and             *)
(* NlohmannSerializer do with a JSON node.                                 *)
(***************************************************************************)
EXTENDS Json

\* The constructor: text that does not parse gives a discarded value, of no kind.
Parse(text) == IF text = Garbage THEN Scalar("discarded", "") ELSE text

Boolean(j) == When(j.kind = "boolean", j)

\* Mutant: any number is taken for an integer.
IntegerFromNumber(j) ==
    When(j.kind \in {"integer", "float"}, Scalar("integer", AsInt64(j.leaf)))

Integer(j) == When(j.kind = "integer", Scalar("integer", AsInt64(j.leaf)))
Number(j) == When(j.kind \in {"integer", "float"}, Scalar("number", AsDouble(j)))
String(j) == When(j.kind = "string", j)

\* json.items(): the elements of an array are keyed by their index, and a
\* scalar is its own only element, with an empty key.
Items(j) ==
    CASE j.kind = "object" -> j.members
      [] j.kind = "array" -> [n \in {ToString(i - 1) : i \in DOMAIN j.items} |->
                                 j.items[CHOOSE i \in DOMAIN j.items : ToString(i - 1) = n]]
      [] j.kind \in {"null", "discarded"} -> NoMembers
      [] OTHER -> [n \in {""} |-> j]

RECURSIVE AnyOf(_)
Object(j) == LET items == Items(j) IN ObjectOf([n \in DOMAIN items |-> AnyOf(items[n])])

\* Mutant: every number becomes a dap::number.
AnyNumber(j) == Number(j)

\* The branches of deserialize(any*) for a number.
AnyNumberOf(j) == IF j.kind = "float" THEN Number(j) ELSE Integer(j)

AnyOf(j) ==
    CASE j.kind \in {"boolean", "string", "null"} -> {j}
      [] j.kind \in {"float", "integer"} -> AnyNumberOf(j)
      [] j.kind = "object" -> Object(j)
      [] j.kind = "array" -> ListOf([i \in DOMAIN j.items |-> AnyOf(j.items[i])])
      [] OTHER -> {}

\* count() and array(): the elements, if this is an array.
Array(j) == When(j.kind = "array", j)

\* field(): find() on an array finds nothing.
Field(j, name) ==
    When(j.kind \in {"object", "array"},
         IF name \in DOMAIN j.members THEN j.members[name] ELSE Missing)

\* serialize(v) into storage that holds json: an object keeps the members it
\* has, an array and a struct start afresh, and a null leaves json as it is.
RECURSIVE Serialize(_, _)
Stored(json, name) == IF name \in DOMAIN json.members THEN json.members[name] ELSE NullNode

SerializeObject(json, v) ==
    Dict("object", [n \in DOMAIN v.members |-> Serialize(Stored(json, n), v.members[n])]
                   @@ json.members)

SerializeArray(v) == List([i \in DOMAIN v.items |-> Serialize(NullNode, v.items[i])])

SerializeStruct(json, v) ==
    Dict("object", [n \in Kept(v) |-> Serialize(NullNode, v.members[n])])

Serialize(json, v) ==
    CASE v.kind \in {"boolean", "integer", "string"} -> v
      [] v.kind = "number" -> Scalar("float", v.leaf)
      [] v.kind = "object" -> SerializeObject(json, v)
      [] v.kind = "array" -> SerializeArray(v)
      [] v.kind = "struct" -> SerializeStruct(json, v)
      [] v.kind = "null" -> json
=============================================================================
