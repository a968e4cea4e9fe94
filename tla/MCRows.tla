------------------------------- MODULE MCRows -------------------------------
(***************************************************************************)
(* derive_rows over every store of three sessions, two of one tool, in two *)
(* projects, and a user who keeps acknowledging the first row.             *)
(***************************************************************************)
EXTENDS DeriveRows

CONSTANTS a, b, d, Ages

ToolOfId == [id \in Ids |-> IF id = d THEN "codex" ELSE "claude"]
NameOrder == [claude |-> 1, codex |-> 2, api |-> 3, web |-> 4]

(* The latest time; the store is older than the epoch by then.             *)
Latest == 9

SomeSession ==
  {[project |-> p, lastActivity |-> Latest - age, waiting |-> w # None,
    waitingSince |-> w, activeTurn |-> active] :
      p \in Projects, age \in Ages, w \in {None, Latest - 2}, active \in BOOLEAN}

StoresOfThree == [Ids -> SomeSession \cup {NoSession}]
=============================================================================
