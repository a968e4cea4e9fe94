------------------------------- MODULE MCHub -------------------------------
(***************************************************************************)
(* Instances of Hub for TLC.                                               *)
(***************************************************************************)
EXTENDS Hub

CONSTANTS c, x, o, h,     \* one session id per agent
          web             \* a project

Claude == {c}
Turns == {x, o, h}   \* the tools whose transcripts say that the user's turn has come

ToolOfId ==
  [id \in Ids |-> CASE id = c -> "claude" [] id = x -> "codex"
                    [] id = o -> "opencode" [] id = h -> "hermes"]

ProjectOfId == [id \in Ids |-> web]

(* Two entries for a transcript in lines, one for a session in a database. *)
LogBound == [id \in Ids |-> IF id \in {o, h} THEN 1 ELSE 2]

(* Clocks that agree; that may run ahead or behind.                        *)
InStep == {0}
OutOfStep == {-1, 2}
=============================================================================
