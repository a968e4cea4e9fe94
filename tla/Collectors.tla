----------------------------- MODULE Collectors -----------------------------
(***************************************************************************)
(* What the four collectors read out of one agent transcript.             *)
(*                                                                         *)
(*   claude    bridge/src/collector.rs           JSONL file, tail read     *)
(*   codex     bridge/src/collector_codex.rs     JSONL rollout, whole read *)
(*   opencode  bridge/src/collector_opencode.rs  SQLite, newest message    *)
(*   hermes    bridge/src/collector_hermes.rs    SQLite, newest message    *)
(*                                                                         *)
(* A transcript is the log of the entries the agent has written, oldest    *)
(* first, with the timestamp the collector takes for the last activity.    *)
(* A log entry is the one thing the collectors tell apart: its kind.       *)
(***************************************************************************)
EXTENDS SessionStore, Sequences
LOCAL INSTANCE SequencesExt

CONSTANTS
  ToolOf,        (* [Ids -> Tools]: the agent that owns the session        *)
  ProjectOf,     (* [Ids -> Projects]: where the session runs              *)
  Unknown,       (* the project "?"                                        *)
  NoFile,        (* no transcript for this id                              *)
  ActiveWindow,  (* collector.rs ACTIVE_WINDOW_SECS                        *)
  TailEntries,   (* entries that fit in collector.rs TAIL_BYTES            *)
  DayLength      (* seconds in a day: Codex files transcripts by day       *)

Tools == {"claude", "codex", "opencode", "hermes"}

(* The entry kinds each agent writes.  For the two databases an entry is   *)
(* the state of a message row: OpenCode's "generating" is an assistant     *)
(* message with time.created and no time.completed.                        *)
Entries(tool) ==
  CASE tool = "claude"   -> {"user", "assistant", "other"}
    [] tool = "codex"    -> {"session_meta", "task_started", "task_complete",
                             "turn_aborted", "agent_message", "user_message"}
    [] tool = "opencode" -> {"user", "generating", "assistant", "other"}
    [] tool = "hermes"   -> {"user", "assistant", "other"}

Entry == UNION {Entries(tool) : tool \in Tools}

(* mtime: file mtime, or the newest timestamp in the session's rows.       *)
(* day: the day directory of a Codex rollout.  archived: the database flag *)
(* of OpenCode and Hermes.  closed: Hermes has set ended_at.               *)
Transcript ==
  [mtime : Nat, log : Seq(Entry), day : Nat, archived : BOOLEAN, closed : BOOLEAN]

DayOf(t) == t \div DayLength

(* The newest entry of log whose kind is in kinds.                         *)
Newest(log, kinds) ==
  LET i == SelectLastInSeq(log, LAMBDA e : e \in kinds)
  IN  IF i = 0 THEN "none" ELSE log[i]

-----------------------------------------------------------------------------
(* tail_lines: only the last entries of a Claude transcript are read.  A   *)
(* last entry longer than the tail, of which nothing would be left, is not *)
(* modelled.                                                               *)
Tail64K(log) ==
  LET first == Len(log) - TailEntries + 1
  IN  SubSeq(log, IF first < 1 THEN 1 ELSE first, Len(log))

(* detect_active_turn: the user (or a tool result) spoke last.             *)
ClaudeActive(log) == Newest(Tail64K(log), {"user", "assistant"}) = "user"

(* parse_rollout: a turn marker decides; without any marker, whoever spoke *)
(* last does.                                                              *)
CodexMarker(log) == Newest(log, {"task_started", "task_complete", "turn_aborted"})
CodexSpeaker(log) == Newest(log, {"agent_message", "user_message"})

CodexWaiting(log) ==
  IF CodexMarker(log) = "none"
  THEN CodexSpeaker(log) = "agent_message"
  ELSE CodexMarker(log) = "task_complete"

CodexActive(log) ==
  IF CodexMarker(log) = "none"
  THEN CodexSpeaker(log) = "user_message"
  ELSE CodexMarker(log) = "task_started"

(* last_message / last_role: the newest row, whatever its kind.            *)
LastRow(log) == IF log = <<>> THEN "none" ELSE log[Len(log)]

-----------------------------------------------------------------------------
(* The transcripts a collector lists when it starts at time t: Codex only  *)
(* looks into the directories of today and yesterday.                      *)
Listed(files, tool, t) ==
  {id \in Ids :
     /\ ToolOf[id] = tool
     /\ files[id] # NoFile
     /\ tool = "codex" => files[id].day \in {DayOf(t) - 1, DayOf(t)}}

(* The collector passes over a transcript that disappeared after it was    *)
(* listed (Claude keeps it, with mtime 0) or that is archived.             *)
Skipped(files, id) ==
  \/ files[id] = NoFile /\ ToolOf[id] # "claude"
  \/ files[id] # NoFile /\ ToolOf[id] \in {"opencode", "hermes"} /\ files[id].archived

(* Mutants of LastActivity: a clock that runs ahead is believed; the age   *)
(* is returned in place of the time.                                       *)
LastActivityUnclamped(files, id, t) ==
  IF files[id] = NoFile THEN 0 ELSE files[id].mtime

LastActivityIsAge(files, id, t) ==
  IF files[id] = NoFile THEN 0 ELSE t - files[id].mtime

(* last_activity, clamped to the time t the collector started.             *)
LastActivity(files, id, t) ==
  IF files[id] = NoFile THEN 0 ELSE Earlier(files[id].mtime, t)

(* What is left to read when the transcript is gone: nothing.              *)
LogOf(files, id) == IF files[id] = NoFile THEN <<>> ELSE files[id].log
ClosedOf(files, id) == files[id] # NoFile /\ files[id].closed

(* active_turn: the agent owes a reply.  last is the session's activity,   *)
(* closed what was read with it, and t the time the collector started.     *)
ActiveTurn(files, id, last, closed, t) ==
  LET log == LogOf(files, id) IN
  \/ ToolOf[id] = "claude" /\ t - last <= ActiveWindow /\ ClaudeActive(log)
  \/ ToolOf[id] = "codex" /\ CodexActive(log)
  \/ ToolOf[id] = "opencode" /\ LastRow(log) \in {"user", "generating"}
  \/ ToolOf[id] = "hermes" /\ LastRow(log) = "user" /\ ~closed

(* Mutant of WaitsForUser: Claude transcripts are treated like the rest.   *)
WaitsForUserAlsoClaude(files, id) ==
  \/ ToolOf[id] = "codex" /\ CodexWaiting(LogOf(files, id))
  \/ ToolOf[id] # "codex" /\ LastRow(LogOf(files, id)) = "assistant"

(* Whether the collector marks the session waiting: the agent spoke last   *)
(* and is done.  Claude sessions are only marked by hooks.                 *)
WaitsForUser(files, id) ==
  LET log == LogOf(files, id) IN
  \/ ToolOf[id] = "codex" /\ CodexWaiting(log)
  \/ ToolOf[id] \in {"opencode", "hermes"} /\ LastRow(log) = "assistant"

(* The project: decoded from the directory or the row, except that Codex   *)
(* says it in the session_meta entry.                                      *)
ProjectFrom(files, id) ==
  IF ToolOf[id] = "codex" /\ Newest(LogOf(files, id), {"session_meta"}) = "none"
  THEN Unknown
  ELSE ProjectOf[id]

=============================================================================
