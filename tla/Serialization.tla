--------------------------- MODULE Serialization ----------------------------
(***************************************************************************)
(* serialization.h and the field loops of typeof.h: how a value of a       *)
(* declared type is read from JSON and written to it, on top of the        *)
(* deserializer and the serializer of one of the JSON libraries the        *)
(* project can be built with.                                              *)
(***************************************************************************)
EXTENDS Json

\* The type information: for every struct the types of its fields, and those of
\* its other members (see Protocol).
CONSTANTS FieldTypes, OtherTypes

Nlohmann == INSTANCE NlohmannJson
Rapid == INSTANCE RapidJson
JsonCpp == INSTANCE JsonCpp

Libraries == {"nlohmann", "rapid", "jsoncpp"}

\* The overloads of deserialize() for the simple types.  NullDeserializer
\* returns false from each of them, from array() and from field().
Simple(lib, t, j) ==
    CASE j = Missing -> {}
      [] lib = "nlohmann" ->
           (CASE t = "boolean" -> Nlohmann!Boolean(j) [] t = "integer" -> Nlohmann!Integer(j)
              [] t = "number" -> Nlohmann!Number(j)   [] t = "string" -> Nlohmann!String(j)
              [] t = "object" -> Nlohmann!Object(j)   [] t = "any" -> Nlohmann!AnyOf(j))
      [] lib = "rapid" ->
           (CASE t = "boolean" -> Rapid!Boolean(j) [] t = "integer" -> Rapid!Integer(j)
              [] t = "number" -> Rapid!Number(j)   [] t = "string" -> Rapid!String(j)
              [] t = "object" -> Rapid!Object(j)   [] t = "any" -> Rapid!AnyOf(j))
      [] lib = "jsoncpp" ->
           (CASE t = "boolean" -> JsonCpp!Boolean(j) [] t = "integer" -> JsonCpp!Integer(j)
              [] t = "number" -> JsonCpp!Number(j)   [] t = "string" -> JsonCpp!String(j)
              [] t = "object" -> JsonCpp!Object(j)   [] t = "any" -> JsonCpp!AnyOf(j))

Elements(lib, j) ==
    CASE j = Missing -> {}
      [] lib = "nlohmann" -> Nlohmann!Array(j)
      [] lib = "rapid" -> Rapid!Array(j)
      [] lib = "jsoncpp" -> JsonCpp!Array(j)

FieldIn(lib, j, name) ==
    CASE j = Missing -> {}
      [] lib = "nlohmann" -> Nlohmann!Field(j, name)
      [] lib = "rapid" -> Rapid!Field(j, name)
      [] lib = "jsoncpp" -> JsonCpp!Field(j, name)

Parse(lib, text) ==
    CASE lib = "nlohmann" -> Nlohmann!Parse(text)
      [] lib = "rapid" -> Rapid!Parse(text)
      [] lib = "jsoncpp" -> JsonCpp!Parse(text)

Serialize(lib, json, v) ==
    CASE lib = "nlohmann" -> Nlohmann!Serialize(json, v)
      [] lib = "rapid" -> Rapid!Serialize(json, v)
      [] lib = "jsoncpp" -> JsonCpp!Serialize(json, v)

RECURSIVE Deserialize(_, _, _)

\* deserialize(array*): sized by count() before array() tests the kind.
DeserializeArray(lib, T, j) ==
    LET r == Elements(lib, j) IN
    IF r = {j} THEN ListOf([i \in DOMAIN j.items |-> Deserialize(lib, T, j.items[i])]) ELSE r

\* deserialize(optional*) returns true whatever the inner call returns.
DeserializeOptional(lib, T, j) ==
    LET r == Deserialize(lib, T, j) IN IF r = {} THEN {None} ELSE r

\* deserializeFields(): every field has to succeed.
DeserializeFields(lib, s, j) ==
    LET fields == FieldTypes[s] IN
    StructOf([n \in DOMAIN fields |->
                 UNION {Deserialize(lib, fields[n], child) : child \in FieldIn(lib, j, n)}],
             DOMAIN OtherTypes[s])

\* A variant is read into its any.
Deserialize(lib, T, j) ==
    CASE T[1] = "optional" -> DeserializeOptional(lib, T[2], j)
      [] T[1] = "array" -> DeserializeArray(lib, T[2], j)
      [] T[1] = "struct" -> DeserializeFields(lib, T[2], j)
      [] OTHER -> Simple(lib, IF T[1] = "variant" THEN "any" ELSE T[1], j)
=============================================================================
