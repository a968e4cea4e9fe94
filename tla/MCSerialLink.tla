---------------------------- MODULE MCSerialLink ----------------------------
(***************************************************************************)
(* An instance of SerialLink for TLC: two sessions with ids longer than    *)
(* what the bridge sends of them.                                          *)
(***************************************************************************)
EXTENDS SerialLink

CONSTANTS s1, s2,          \* session ids, and their first 12 characters
          s1_12, s2_12

MCShortId == [id \in Ids |-> IF id = s1 THEN s1_12 ELSE s2_12]

(* Two waiting sessions with long titles do not fit the buffer.            *)
MCLongFrames == {[id \in Ids |-> "waiting"]}
=============================================================================
