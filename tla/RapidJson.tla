----------------------------- MODULE RapidJson ------------------------------
(***************************************************************************)
(* rapid_json_serializer.cpp: what RapidDeserializer and RapidSerializer   *)
(* do with a JSON node.  MemberCount() of what is not an object and Size() *)
(* of what is not an array break preconditions of RapidJSON.               *)
(***************************************************************************)
EXTENDS Json

\* The constructor: text that does not parse leaves the document null.
Parse(text) == IF text = Garbage THEN NullNode ELSE text

Boolean(j) == When(j.kind = "boolean", j)

\* Mutant: only the integers that deserialize(any*) accepts.
Integer32(j) == When(j.kind = "integer" /\ j.leaf = "int32", j)

\* IsInt(), IsUint(), IsInt64() and IsUint64() together.
Integer(j) == When(j.kind = "integer", Scalar("integer", AsInt64(j.leaf)))
Number(j) == When(j.kind \in {"integer", "float"}, Scalar("number", AsDouble(j)))

\* GetString() is read as a C string, up to the first NUL.
String(j) == When(j.kind = "string", Scalar("string", "text"))

RECURSIVE AnyOf(_)
Object(j) ==
    IF j.kind = "object" THEN ObjectOf([n \in DOMAIN j.members |-> AnyOf(j.members[n])])
    ELSE {Undefined}

\* deserialize(any*): of the integers only IsInt() is tested.
AnyOf(j) ==
    CASE j.kind \in {"boolean", "null"} -> {j}
      [] j.kind = "float" -> Number(j)
      [] j.kind = "integer" /\ j.leaf = "int32" -> {j}
      [] j.kind = "string" -> String(j)
      [] j.kind = "object" -> Object(j)
      [] j.kind = "array" -> ListOf([i \in DOMAIN j.items |-> AnyOf(j.items[i])])
      [] OTHER -> {}

\* count() and array(): Size() is called before IsArray().
Array(j) == IF j.kind = "array" THEN {j} ELSE {Undefined}

Field(j, name) ==
    When(j.kind = "object", IF name \in DOMAIN j.members THEN j.members[name] ELSE Missing)

\* serialize(v) into storage that holds json: objects and structs keep the
\* members and arrays the elements they have, and a null leaves json as it is.
RECURSIVE Serialize(_, _)
Stored(json, name) == IF name \in DOMAIN json.members THEN json.members[name] ELSE NullNode

SerializeObject(json, v) ==
    Dict("object", [n \in DOMAIN v.members |-> Serialize(Stored(json, n), v.members[n])]
                   @@ json.members)

SerializeArray(json, v) ==
    LET old == json.items
        n == Len(v.items)
    IN List([i \in 1..(IF n > Len(old) THEN n ELSE Len(old)) |->
                CASE i > n -> old[i]
                  [] i <= n /\ i <= Len(old) -> Serialize(old[i], v.items[i])
                  [] OTHER -> Serialize(NullNode, v.items[i])])

SerializeStruct(json, v) ==
    Dict("object", [n \in Kept(v) |-> Serialize(Stored(json, n), v.members[n])]
                   @@ [n \in DOMAIN json.members \ (DOMAIN v.members \ Kept(v)) |-> json.members[n]])

Serialize(json, v) ==
    CASE v.kind \in {"boolean", "integer", "string"} -> v
      [] v.kind = "number" -> Scalar("float", v.leaf)
      [] v.kind = "object" -> SerializeObject(json, v)
      [] v.kind = "array" -> SerializeArray(json, v)
      [] v.kind = "struct" -> SerializeStruct(json, v)
      [] v.kind = "null" -> json
=============================================================================
