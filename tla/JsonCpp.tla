------------------------------ MODULE JsonCpp -------------------------------
(***************************************************************************)
(* jsoncpp_json_serializer.cpp: what JsonCppDeserializer and               *)
(* JsonCppSerializer do with a JSON node.                                  *)
(***************************************************************************)
EXTENDS Json

\* parse(): text that does not parse aborts the program.
Parse(text) == IF text = Garbage THEN Undefined ELSE text

Boolean(j) == When(j.kind = "boolean", j)

\* isInt64() holds for a double without a fraction too.
IsInt64(j) == \/ j.kind = "integer" /\ j.leaf # "uint64"
              \/ j.kind = "float" /\ j.leaf = "whole"
AsInteger(j) == Scalar("integer", IF j.kind = "float" THEN "int32" ELSE j.leaf)
Integer(j) == When(IsInt64(j), AsInteger(j))
Number(j) == When(j.kind \in {"integer", "float"}, Scalar("number", AsDouble(j)))
String(j) == When(j.kind = "string", j)

\* begin() .. end(): empty for a scalar; the iterator of an array names every
\* element "", so that the last one stays.
Items(j) ==
    CASE j.kind = "object" -> j.members
      [] j.kind = "array" /\ j.items # <<>> -> [n \in {""} |-> j.items[Len(j.items)]]
      [] OTHER -> NoMembers

RECURSIVE AnyOf(_)
Object(j) == LET items == Items(j) IN ObjectOf([n \in DOMAIN items |-> AnyOf(items[n])])

\* deserialize(any*): realValue is tested before isInt64().
AnyOf(j) ==
    CASE j.kind \in {"boolean", "string", "null"} -> {j}
      [] j.kind = "float" -> Number(j)
      [] j.kind = "integer" -> Integer(j)
      [] j.kind = "object" -> Object(j)
      [] j.kind = "array" -> ListOf([i \in DOMAIN j.items |-> AnyOf(j.items[i])])
      [] OTHER -> {}

\* count() and array(): the elements, if this is an array.
Array(j) == When(j.kind = "array", j)

Field(j, name) ==
    When(j.kind = "object", IF name \in DOMAIN j.members THEN j.members[name] ELSE Missing)

\* serialize(v) into storage that holds json: an object keeps the members it
\* has, an array and a struct start afresh, and a null leaves json as it is.
RECURSIVE Serialize(_, _)
Stored(json, name) == IF name \in DOMAIN json.members THEN json.members[name] ELSE NullNode

SerializeObject(json, v) ==
    Dict("object", [n \in DOMAIN v.members |-> Serialize(Stored(json, n), v.members[n])]
                   @@ json.members)

SerializeArray(v) == List([i \in DOMAIN v.items |-> Serialize(NullNode, v.items[i])])

SerializeStruct(v) ==
    Dict("object", [n \in Kept(v) |-> Serialize(NullNode, v.members[n])])

Serialize(json, v) ==
    CASE v.kind \in {"boolean", "integer", "string"} -> v
      [] v.kind = "number" -> Scalar("float", v.leaf)
      [] v.kind = "object" -> SerializeObject(json, v)
      [] v.kind = "array" -> SerializeArray(v)
      [] v.kind = "struct" -> SerializeStruct(v)
      [] v.kind = "null" -> json
=============================================================================
