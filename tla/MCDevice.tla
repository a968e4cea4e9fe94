------------------------------ MODULE MCDevice ------------------------------
(***************************************************************************)
(* An instance of Device for TLC: two slots and frames of up to three      *)
(* sessions, one unit of time being half a minute.                         *)
(***************************************************************************)
EXTENDS Device

CONSTANTS a, b, c          \* session ids

Row(id, status, quiet) == [id |-> id, status |-> status, quiet |-> quiet]
Frame(rows, dropped, metrics) ==
  [rows |-> rows, dropped |-> dropped, usage |-> Len(rows), metrics |-> metrics]

MCBlackout == Frame(<<>>, 0, 0)

(* No session; one that waits; one at a long build beside an idle one; and *)
(* more of them than the screen has slots and the parser has room for.     *)
MCFrames ==
  {MCBlackout,
   Frame(<<Row(a, "waiting", FALSE)>>, 0, 0),
   Frame(<<Row(b, "idle", FALSE), Row(a, "working", TRUE)>>, 0, 1),
   Frame(<<Row(a, "working", FALSE), Row(b, "working", FALSE),
           Row(c, "idle", FALSE)>>, 1, 1)}
=============================================================================
