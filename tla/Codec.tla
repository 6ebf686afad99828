------------------------------- MODULE Codec --------------------------------
(***************************************************************************)
(* A message of the protocol on its way from one program to another and    *)
(* back: built by the library and serialized (or written by a peer that    *)
(* does not use the library), parsed and deserialized by the other side,   *)
(* which may have been built with another JSON library, and serialized     *)
(* again by the receiver.                                                  *)
(***************************************************************************)
EXTENDS Serialization, FiniteSets

CONSTANT
    Messages        \* the structs sent, a subset of DOMAIN FieldTypes

VARIABLES
    writer,         \* the sender's JSON library
    reader,         \* the receiver's
    struct,         \* the struct of the message
    stage,          \* "start", "wire", "got", "echoed"
    origin,         \* "library": serialized by the library; "reused": into a
                    \* Serializer used before; "peer": written by other code
    varied,         \* the type of the field that is not the typical one
    sent,           \* the value serialized
    wire,           \* the document
    got,            \* what deserialize() gave the receiver
    echo            \* what the sender gets when the receiver sends that back

codecVars == <<writer, reader, struct, stage, origin, varied, sent, wire, got, echo>>
-----------------------------------------------------------------------------
\* The values put into messages.

IsOptional(T) == T[1] = "optional"
Inner(T) == IF IsOptional(T) THEN T[2] ELSE T

\* Types whose values carry their own types.
Dynamic(T) == Inner(T)[1] \in {"any", "variant", "object"}

SomeObject(v) == Dict("object", [n \in {"key"} |-> v])

\* A value of type T, with the optional fields of structs set down to depth d.
RECURSIVE Typical(_, _)
TypicalStruct(s, d) ==
    LET fields == FieldTypes[s] IN
    StructNode([n \in DOMAIN fields |->
                   IF IsOptional(fields[n]) /\ d = 0 THEN None
                   ELSE Typical(Inner(fields[n]), IF d = 0 THEN 0 ELSE d - 1)],
               DOMAIN OtherTypes[s])
Typical(T, d) ==
    CASE T[1] = "boolean" -> Scalar("boolean", "true")
      [] T[1] = "integer" -> Scalar("integer", "int32")
      [] T[1] = "number" -> Scalar("number", "fraction")
      [] T[1] = "string" -> Scalar("string", "text")
      [] T[1] = "null" -> NullNode
      [] T[1] = "object" -> SomeObject(Scalar("string", "text"))
      [] T[1] = "any" -> Scalar("boolean", "true")
      [] T[1] = "array" -> List(<<Typical(T[2], d)>>)
      [] T[1] = "variant" -> Typical(CHOOSE A \in T[2] : A[1] \in {"integer", "string"}, d)
      [] T[1] = "struct" -> TypicalStruct(T[2], d)

Leaves ==
    {Scalar("boolean", "true"), Scalar("boolean", "false"), Scalar("integer", "int32"),
     Scalar("integer", "int64"), Scalar("number", "whole"), Scalar("number", "fraction"),
     Scalar("string", "text"), Scalar("string", "nul"), NullNode}

\* The values of type T that a message is tried with.
RECURSIVE Tried(_)
Tried(T) ==
    CASE T[1] \in {"boolean", "integer", "number", "string", "null"} ->
           {v \in Leaves : v.kind = T[1]}
      [] T[1] = "any" -> Leaves
      [] T[1] = "object" -> {Dict("object", NoMembers)} \cup {SomeObject(v) : v \in Leaves}
                            \cup {SomeObject(SomeObject(NullNode)), SomeObject(List(<<NullNode>>))}
      [] T[1] = "array" -> {List(<<>>)} \cup {List(<<Typical(T[2], 1), v>>) : v \in Tried(T[2])}
      [] T[1] = "variant" -> UNION {Tried(A) : A \in T[2]}
      [] T[1] = "struct" -> {Typical(T, 0), Typical(T, 1)}
      [] T[1] = "optional" -> Tried(T[2]) \cup {None}

\* Messages with every field set or only the required ones, except for one
\* field or another member.
Base(s) == {TypicalStruct(s, 2), TypicalStruct(s, 0)}
MemberTypes(s) == FieldTypes[s] @@ OtherTypes[s]
With(v, n, x) == IF n \in DOMAIN v.members THEN [v EXCEPT !.members[n] = x]
                 ELSE [v EXCEPT !.items[1].members[n] = x]
Vary(s) == {<<v, "none">> : v \in Base(s)} \cup
    UNION {{<<With(v, n, x), n>> : v \in Base(s), x \in Tried(MemberTypes(s)[n])}
            : n \in DOMAIN MemberTypes(s)}
TypeVaried(s, n) == IF n = "none" THEN <<"none">> ELSE MemberTypes(s)[n]

\* What a peer may write in place of a field.
Foreign ==
    {NullNode, Scalar("boolean", "true"), Scalar("integer", "int32"), Scalar("integer", "int64"),
     Scalar("integer", "uint64"), Scalar("float", "whole"), Scalar("float", "fraction"),
     Scalar("string", "text"), List(<<>>), List(<<Scalar("integer", "int64")>>),
     List(<<Scalar("string", "text")>>), Dict("object", NoMembers), SomeObject(Scalar("integer", "int64"))}

Without(f, n) == [m \in DOMAIN f \ {n} |-> f[m]]
Documents(s) ==
    LET full == Serialize("nlohmann", NullNode, TypicalStruct(s, 1)).members
    IN {<<j, "none">> : j \in {Dict("object", full), Garbage} \cup Foreign}
       \cup UNION {{<<Dict("object", Without(full, n)), n>>}
                   \cup {<<Dict("object", [full EXCEPT ![n] = j]), n>> : j \in Foreign}
                   : n \in DOMAIN full}
-----------------------------------------------------------------------------
CodecInit ==
    /\ writer \in Libraries /\ reader \in Libraries /\ struct \in Messages
    /\ stage = "start" /\ origin = "none" /\ varied = <<"none">>
    /\ sent = None /\ wire = None /\ got = {} /\ echo = {}

\* The library serializes a message, into a new Serializer or into one that
\* the program has used for another message before.
Send(used) ==
    /\ stage = "start" /\ (used => reader = writer)
    /\ \E m \in Vary(struct) :
         /\ sent' = m[1] /\ varied' = TypeVaried(struct, m[2])
         /\ LET old == IF used THEN Serialize(writer, NullNode, TypicalStruct(struct, 2)) ELSE NullNode
            IN wire' = Serialize(writer, old, m[1])
    /\ origin' = (IF used THEN "reused" ELSE "library") /\ stage' = "wire"
    /\ UNCHANGED <<writer, reader, struct, got, echo>>

\* A peer that is not built with the library writes a document.
PeerSends ==
    /\ stage = "start" /\ reader = writer
    /\ \E m \in Documents(struct) : wire' = m[1] /\ varied' = TypeVaried(struct, m[2])
    /\ origin' = "peer" /\ stage' = "wire"
    /\ UNCHANGED <<writer, reader, struct, sent, got, echo>>

Read(lib, text) ==
    LET j == Parse(lib, text)
    IN IF j = Undefined THEN {Undefined} ELSE Deserialize(lib, <<"struct", struct>>, j)

Receive ==
    /\ stage = "wire"
    /\ got' = Read(reader, wire)
    /\ stage' = "got"
    /\ UNCHANGED <<writer, reader, struct, origin, varied, sent, wire, echo>>

\* The receiver sends what it got back to where it came from.
SendBack ==
    /\ stage = "got" /\ ~Failed(got)
    /\ echo' = UNION {Read(writer, Serialize(reader, NullNode, v)) : v \in got}
    /\ stage' = "echoed"
    /\ UNCHANGED <<writer, reader, struct, origin, varied, sent, wire, got>>

CodecNext == (\E used \in BOOLEAN : Send(used)) \/ PeerSends \/ Receive \/ SendBack
-----------------------------------------------------------------------------
\* Whether a leaf of a class occurs in a value.
RECURSIVE Contains(_, _)
Contains(v, leaf) ==
    \/ v.leaf = leaf
    \/ \E i \in DOMAIN v.items : Contains(v.items[i], leaf)
    \/ \E n \in DOMAIN v.members : Contains(v.members[n], leaf)

\* What RapidDeserializer cannot represent: a string with a NUL inside, and
\* in an any an integer of more than 32 bits.
RapidLoses(v) == \/ Contains(v, "nul")
                 \/ Dynamic(varied) /\ Contains(v, "int64")
Lost(v) == "rapid" \in {writer, reader} /\ RapidLoses(v)

\* A member is set for which there is no DAP_FIELD.
SetsOther(v) == \E n \in DOMAIN v.items[1].members : ~Removed(v.items[1].members[n])

\* The protocol's own notion of a well-formed document of type T.
RECURSIVE Conforms(_, _)
Conforms(T, j) ==
    CASE T[1] = "boolean" -> j.kind = "boolean"
      [] T[1] = "integer" -> j.kind = "integer" /\ j.leaf # "uint64"
      [] T[1] = "number" -> j.kind \in {"integer", "float"}
      [] T[1] = "string" -> j.kind = "string"
      [] T[1] = "null" -> j.kind = "null"
      [] T[1] = "any" -> ~Contains(j, "uint64") /\ j.kind # "garbage"
      [] T[1] = "object" -> j.kind = "object" /\ ~Contains(j, "uint64")
      [] T[1] = "array" -> j.kind = "array" /\ \A i \in DOMAIN j.items : Conforms(T[2], j.items[i])
      [] T[1] = "variant" -> ~Contains(j, "uint64") /\ \E A \in T[2] : Conforms(A, j)
      [] T[1] = "optional" -> Conforms(T[2], j)
      [] T[1] = "struct" ->
           /\ j.kind = "object"
           /\ \A n \in DOMAIN FieldTypes[T[2]] :
                IF n \in DOMAIN j.members THEN Conforms(FieldTypes[T[2]][n], j.members[n])
                ELSE IsOptional(FieldTypes[T[2]][n])

\* What the library sends, the library understands: a message serialized by
\* one program is deserialized as the same value by another, whichever JSON
\* library each is built with, except where RapidJSON's reader loses it
\* (serialization.h, *_json_serializer.cpp) and except for a member without
\* a DAP_FIELD, which is dropped (StackFrameFormat does not list the hex it
\* inherits, protocol_types.cpp:292).  The same is so for a Serializer of
\* nlohmann::json or JsonCpp that held another message before ("the last
\* type and value is stored", serialization.h), and what was accepted, from
\* whomever, is the same again after it was sent back: no null or empty
\* value turns into an absent one.
RoundTrip ==
    /\ (/\ stage = "got" /\ ~Lost(sent)
        /\ origin = "library" \/ (origin = "reused" /\ writer # "rapid"))
       => (got = {sent}) = ~SetsOther(sent)
    /\ stage = "echoed" /\ ~Lost(CHOOSE v \in got : TRUE) => echo = got

\* A document that conforms to the protocol is accepted, without breaking a
\* precondition of the JSON library, and no known field of it is dropped
\* (deserialize(optional*) hides the failure of the inner call).
ConformingIsKept ==
    (/\ stage = "got" /\ origin = "peer" /\ ~Lost(wire)
     /\ Conforms(<<"struct", struct>>, wire))
    => /\ ~Failed(got)
       /\ \A v \in got : DOMAIN Serialize(reader, NullNode, v).members
                           = DOMAIN wire.members \cap DOMAIN FieldTypes[struct]

\* What a deserializer takes for a value of type T: JsonCpp a double without
\* a fraction for an integer, the loops over json.items() and over begin()
\* .. end() anything for an object, a variant any value (it is read into its
\* any), nlohmann's field() an array for a struct in which it then finds no
\* field, and each of them anything for a struct that has none.
RECURSIVE Taken(_, _, _)
Taken(lib, T, j) ==
    CASE T[1] = "integer" -> \/ j.kind = "integer"
                             \/ lib = "jsoncpp" /\ j = Scalar("float", "whole")
      [] T[1] = "object" -> j # Missing /\ (lib = "rapid" => j.kind = "object")
      [] T[1] \in {"any", "variant"} -> j # Missing
      [] T[1] = "array" -> j.kind = "array" /\ \A i \in DOMAIN j.items : Taken(lib, T[2], j.items[i])
      [] T[1] = "optional" -> TRUE
      [] T[1] = "struct" ->
           LET fields == FieldTypes[T[2]]
           IN /\ fields # NoMembers =>
                   j.kind = "object" \/ (lib = "nlohmann" /\ j.kind = "array")
              /\ \A n \in DOMAIN fields :
                   Taken(lib, fields[n], IF n \in DOMAIN j.members THEN j.members[n] ELSE Missing)
      [] OTHER -> Conforms(T, j)

\* Where the library's precondition is broken: a value of another kind in
\* place of an object or an array, in a field that is required or not.
RECURSIVE Misused(_, _)
Misused(T, j) ==
    CASE T[1] = "object" -> j.kind # "object"
      [] T[1] = "array" -> j.kind # "array" \/ \E i \in DOMAIN j.items : Misused(T[2], j.items[i])
      [] T[1] = "optional" -> Misused(T[2], j)
      [] T[1] = "struct" -> \E n \in DOMAIN FieldTypes[T[2]] \cap DOMAIN j.members :
                               Misused(FieldTypes[T[2]][n], j.members[n])
      [] OTHER -> FALSE

\* A message is accepted only if each of its required fields, and of theirs,
\* is there and has a value of its type ("If the stored object is not of the
\* correct type, then these function will return false",
\* serialization.h:44-45), up to the differences that Taken lists; and
\* deserialize() is undefined only for text that is not JSON in JsonCpp and
\* for an object or array field of another kind in RapidJSON
\* (deserializeFields(), NullDeserializer, *_json_serializer.cpp).
RequiredIsChecked ==
    stage = "got" =>
        /\ ~Failed(got) => Taken(reader, <<"struct", struct>>, wire)
        /\ got = {Undefined} =>
              \/ reader = "jsoncpp" /\ wire = Garbage
              \/ reader = "rapid" /\ Misused(<<"struct", struct>>, wire)
=============================================================================
