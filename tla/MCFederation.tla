---------------------------- MODULE MCFederation ----------------------------
(***************************************************************************)
(* Instances of Federation for TLC.                                        *)
(***************************************************************************)
EXTENDS Federation

CONSTANTS lab, desk        \* two machines

(* Node ids as hostname() makes them: one segment, no slash.               *)
PlainIds == [m \in Machines |-> IF m = lab THEN <<"lab">> ELSE <<"desk">>]

(* Node ids as a config file may give them: "lab" and "lab/desk".          *)
NestedIds == [m \in Machines |-> IF m = lab THEN <<"lab">> ELSE <<"lab", "desk">>]

(* The lab pushes twice, so that its pushes can overtake each other; the   *)
(* desk once.                                                              *)
TwoAndOne == [m \in Machines |-> IF m = lab THEN 2 ELSE 1]

(* The lab reports anything; the desk one row or none.                     *)
AnyRows == [m \in Machines |-> Snapshot]
AnyAndOne ==
  [m \in Machines |->
     IF m = lab THEN Snapshot
     ELSE {r \in Snapshot : r["t"] = Absent /\ r["s"] # "idle"}]
=============================================================================
