------------------------------- MODULE Values -------------------------------
(***************************************************************************)
(* The values of the dap types, in memory and on the wire.  Nothing is     *)
(* shared between the storage of anys (AnyStorage) and the serializers     *)
(* (Codec) but the types, so a behaviour is about one of the two.          *)
(***************************************************************************)
EXTENDS Codec, AnyStorage

VARIABLE subject        \* "storage" or "codec"

vars == <<subject, codecVars, storageVars>>

Init ==
    /\ StorageInit
    /\ \/ subject = "codec" /\ CodecInit
       \/ /\ subject = "storage"
          /\ CodecInit /\ writer = "nlohmann" /\ reader = "nlohmann"
          /\ struct = CHOOSE s \in Messages : TRUE

Next ==
    \/ subject = "codec" /\ CodecNext /\ UNCHANGED <<subject, storageVars>>
    \/ subject = "storage" /\ StorageNext /\ UNCHANGED <<subject, codecVars>>

Spec == Init /\ [][Next]_vars
=============================================================================
