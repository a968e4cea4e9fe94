-------------------------------- MODULE Board --------------------------------
(***************************************************************************)
(* What an aggregator promises (the comment on merge in                    *)
(* bridge/src/federation.rs): a notice board with one place per machine.   *)
(* A notice is put up whole, in place of the one before it, is taken down  *)
(* whole when it has hung longer than Lifetime and somebody looks, and     *)
(* nothing a machine does disturbs the notice of another.                  *)
(***************************************************************************)
EXTENDS Naturals

CONSTANTS
  Machines,    (* who puts up notices                                      *)
  SessionIds,  (* what a notice has rows for                               *)
  Statuses,    (* what a row says                                          *)
  Absent,      (* no row; no notice                                        *)
  Lifetime     (* how long a notice hangs at least                         *)

VARIABLES
  now,         (* the time                                                 *)
  board        (* [Machines -> a notice, [rows, at], or Absent]            *)

boardVars == <<now, board>>

Rows == [SessionIds -> Statuses \cup {Absent}]

(* A notice has a row: one that has none is not put up.                    *)
NoRows == [s \in SessionIds |-> Absent]
Notice(rows) == IF rows = NoRows THEN Absent ELSE [rows |-> rows, at |-> now]

Init == now = 0 /\ board = [m \in Machines |-> Absent]

Tick == now' = now + 1 /\ UNCHANGED board

(* A machine puts up a notice in place of its last one.                    *)
PutUp(m) ==
  /\ \E rows \in Rows : board' = [board EXCEPT ![m] = Notice(rows)]
  /\ UNCHANGED now

Overdue(m) == board[m] # Absent /\ now - board[m].at > Lifetime

(* Somebody looks: what is overdue comes down.                             *)
Look ==
  /\ board' = [m \in Machines |-> IF Overdue(m) THEN Absent ELSE board[m]]
  /\ UNCHANGED now

(* The board is lost.                                                      *)
Wipe == board' = [m \in Machines |-> Absent] /\ UNCHANGED now

Next == Tick \/ (\E m \in Machines : PutUp(m)) \/ Look \/ Wipe

Spec == Init /\ [][Next]_boardVars
=============================================================================
