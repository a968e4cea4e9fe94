-------------------------------- MODULE Hub --------------------------------
(***************************************************************************)
(* The bridge process around the session store: the scan thread            *)
(* (bridge/src/main.rs), the HTTP handlers that change the store           *)
(* (bridge/src/hub.rs), and their environment: agents that write           *)
(* transcripts, hook processes that post events, users that acknowledge.   *)
(*                                                                         *)
(* The scan thread handles one transcript in three steps, because the      *)
(* other threads run between them:                                         *)
(*   Stat        reads the transcript's timestamp, or its database row,    *)
(*   ReadUpsert  reads its content and upserts the session,                *)
(*   Mark        marks it waiting, if the content said so.                 *)
(* Reading the content and upserting are one step: what may happen between *)
(* them and matters to either (a write to the transcript) has the same     *)
(* effect after both, and upsert leaves the waiting flag alone.            *)
(***************************************************************************)
EXTENDS Collectors, FiniteSets

CONSTANTS
  GoneTtl,     (* hub.rs, main.rs GONE_TTL                                 *)
  StartTime,   (* the time at which the bridge first starts                *)
  MaxTime,     (* bound: the clock stops here                              *)
  AgentsUntil, (* bound: agents write nothing after this time              *)
  MaxLog,      (* bound: [Ids -> entries of its transcript]                *)
  MaxAround,   (* bound: sessions in the files or in the store at a time   *)
  Skews,       (* how far a timestamp may be from the bridge's clock       *)
  MaxFaults    (* bound: restarts, panics and failed collectors, together  *)

VARIABLES
  now,       (* SystemTime::now(), in seconds                              *)
  files,     (* [Ids -> Transcript or NoFile]: what the agents wrote       *)
  hooks,     (* hook posts sent and not yet handled                        *)
  sessions,  (* Inner.sessions                                             *)
  lastScan,  (* Inner.last_scan, 0 = never                                 *)
  scan,      (* the scan thread: where it is and its local variables       *)
  faults     (* number of faults so far                                    *)

vars == <<now, files, hooks, sessions, lastScan, scan, faults>>

HookEvents == {"Notification", "Stop"}
Hook == [id : {id \in Ids : ToolOf[id] = "claude"}, event : HookEvents]

(* The scan thread.  started: now_secs() when the current collector began. *)
(* id, last, closed: the transcript at hand, its activity and, for Hermes, *)
(* whether it has ended.                                                   *)
ScanState ==
  [pc      : {"sleep", "list", "read", "mark", "reap"},
   tool    : Tools,
   started : Nat,
   todo    : SUBSET Ids,
   id      : Ids \cup {None},
   last    : Nat,
   closed  : BOOLEAN]

Asleep == [pc |-> "sleep", tool |-> "claude", started |-> 0,
           todo |-> {}, id |-> None, last |-> 0, closed |-> FALSE]

ASSUME HubAssumption ==
  /\ ToolOf \in [Ids -> Tools]
  /\ ProjectOf \in [Ids -> Projects]
  /\ Unknown \in Projects
  /\ NoFile \notin Transcript
  /\ GoneTtl \in Nat /\ StartTime \in Nat /\ MaxTime \in Nat
  /\ ActiveWindow \in Nat /\ MaxLog \in [Ids -> Nat] /\ MaxFaults \in Nat
  /\ MaxAround \in Nat
  /\ TailEntries \in Nat \ {0} /\ DayLength \in Nat \ {0}
  /\ AgentsUntil \in Nat
  /\ Skews \subseteq Int
  /\ \A s \in Skews : StartTime + s \in Nat
  /\ StartTime > GoneTtl + Epsilon   \* the epoch is long gone

Init ==
  /\ now = StartTime
  /\ files = [id \in Ids |-> NoFile]
  /\ hooks = {}
  /\ sessions = EmptyStore
  /\ lastScan = 0
  /\ scan = Asleep
  /\ faults = 0

-----------------------------------------------------------------------------
(* The environment.                                                        *)

Tick ==
  /\ now < MaxTime
  /\ now' = now + 1
  /\ UNCHANGED <<files, hooks, sessions, lastScan, scan, faults>>

AgentWrites(id, transcript) ==
  /\ now <= AgentsUntil
  /\ files' = [files EXCEPT ![id] = transcript]
  /\ UNCHANGED <<now, hooks, sessions, lastScan, scan, faults>>

Around == {id \in Ids : files[id] # NoFile \/ sessions[id] # NoSession}

AgentStarts(id) ==
  /\ files[id] = NoFile
  /\ Cardinality(Around \cup {id}) <= MaxAround
  /\ AgentWrites(id, [mtime |-> now, log |-> <<>>, day |-> DayOf(now),
                      archived |-> FALSE, closed |-> FALSE])

(* A new entry.  The timestamp may come from a clock that differs; for     *)
(* Hermes it is the maximum over the session's rows.                       *)
AgentAppends(id) ==
  /\ files[id] # NoFile
  /\ Len(files[id].log) < MaxLog[id]
  /\ \E e \in Entries(ToolOf[id]), s \in Skews :
       AgentWrites(id, [files[id] EXCEPT
                          !.log   = Append(files[id].log, e),
                          !.mtime = IF ToolOf[id] = "hermes"
                                    THEN Later(files[id].mtime, now + s)
                                    ELSE now + s])

(* A write that completes no entry: a line still being flushed, or         *)
(* OpenCode's time_updated.                                                *)
AgentTouches(id) ==
  /\ files[id] # NoFile
  /\ ToolOf[id] # "hermes"
  /\ files[id].mtime # now
  /\ AgentWrites(id, [files[id] EXCEPT !.mtime = now])

AgentArchives(id) ==
  /\ files[id] # NoFile
  /\ ToolOf[id] \in {"opencode", "hermes"}
  /\ AgentWrites(id, [files[id] EXCEPT !.archived = ~files[id].archived])

(* ended_at is set when a Hermes session ends.                             *)
AgentCloses(id) ==
  /\ files[id] # NoFile
  /\ ToolOf[id] = "hermes"
  /\ ~files[id].closed
  /\ AgentWrites(id, [files[id] EXCEPT !.closed = TRUE,
                                       !.mtime  = Later(files[id].mtime, now)])

AgentDeletes(id) ==
  /\ files[id] # NoFile
  /\ AgentWrites(id, NoFile)

(* Claude Code runs one vibe_hook process per event; each posts once.      *)
HookFires(m) ==
  /\ now <= AgentsUntil
  /\ hooks' = hooks \cup {m}
  /\ UNCHANGED <<now, files, sessions, lastScan, scan, faults>>

(* The post times out or is refused; vibe_hook swallows the error.         *)
HookLost(m) ==
  /\ m \in hooks
  /\ hooks' = hooks \ {m}
  /\ UNCHANGED <<now, files, sessions, lastScan, scan, faults>>

-----------------------------------------------------------------------------
(* The HTTP handlers.                                                      *)

(* hook_handler: posts are handled in any order.                           *)
HandleHook(m) ==
  /\ m \in hooks
  /\ hooks' = hooks \ {m}
  /\ sessions' = IF m.event = "Notification"
                 THEN MarkWaiting(sessions, m.id, now)
                 ELSE Acknowledge(sessions, m.id)
  /\ UNCHANGED <<now, files, lastScan, scan, faults>>

(* ack_handler: any client, any id, any time.                              *)
HandleAck(id) ==
  /\ sessions' = Acknowledge(sessions, id)
  /\ UNCHANGED <<now, files, hooks, lastScan, scan, faults>>

-----------------------------------------------------------------------------
(* The scan thread.                                                        *)

(* A collector starts: it takes the time and lists its transcripts.        *)
Enter(tool, listed) ==
  scan' = [pc |-> "list", tool |-> tool, started |-> now,
           todo |-> listed, id |-> None, last |-> 0, closed |-> FALSE]

(* scan_claude, scan_codex, scan_opencode, scan_hermes, in this order.     *)
Follows(tool) ==
  CASE tool = "claude"   -> "codex"
    [] tool = "codex"    -> "opencode"
    [] tool = "opencode" -> "hermes"
    [] tool = "hermes"   -> "claude"

(* The thread wakes from its two-second sleep.                             *)
StartPass ==
  /\ scan.pc = "sleep"
  /\ Enter("claude", Listed(files, "claude", now))
  /\ UNCHANGED <<now, files, hooks, sessions, lastScan, faults>>

Stat ==
  /\ scan.pc = "list"
  /\ \E id \in scan.todo :
       scan' = IF Skipped(files, id)
               THEN [scan EXCEPT !.todo = scan.todo \ {id}]
               ELSE [scan EXCEPT !.todo   = scan.todo \ {id},
                                 !.pc     = "read",
                                 !.id     = id,
                                 !.last   = LastActivity(files, id, scan.started),
                                 !.closed = ClosedOf(files, id)]
  /\ UNCHANGED <<now, files, hooks, sessions, lastScan, faults>>

(* The session a collector builds from what it read.                       *)
Collected ==
  [project      |-> ProjectFrom(files, scan.id),
   lastActivity |-> scan.last,
   waiting      |-> FALSE,
   waitingSince |-> None,
   activeTurn   |-> ActiveTurn(files, scan.id, scan.last, scan.closed, scan.started)]

BackToList == [scan EXCEPT !.pc = "list", !.id = None, !.last = 0, !.closed = FALSE]

ReadUpsert ==
  /\ scan.pc = "read"
  /\ sessions' = Upsert(sessions, scan.id, Collected)
  /\ lastScan' = now
  /\ scan' = IF WaitsForUser(files, scan.id)
             THEN [scan EXCEPT !.pc = "mark"]
             ELSE BackToList
  /\ UNCHANGED <<now, files, hooks, faults>>

Mark ==
  /\ scan.pc = "mark"
  /\ sessions' = MarkWaiting(sessions, scan.id, scan.last)
  /\ scan' = BackToList
  /\ UNCHANGED <<now, files, hooks, lastScan, faults>>

(* The collector has gone through its list; the next one starts.           *)
NextCollector ==
  /\ scan.pc = "list"
  /\ scan.todo = {}
  /\ IF scan.tool = "hermes"
     THEN scan' = [Asleep EXCEPT !.pc = "reap"]
     ELSE Enter(Follows(scan.tool), Listed(files, Follows(scan.tool), now))
  /\ UNCHANGED <<now, files, hooks, sessions, lastScan, faults>>

Reap ==
  /\ scan.pc = "reap"
  /\ sessions' = RemoveGone(sessions, now, GoneTtl)
  /\ scan' = Asleep
  /\ UNCHANGED <<now, files, hooks, lastScan, faults>>

ScanStep == StartPass \/ Stat \/ ReadUpsert \/ Mark \/ NextCollector \/ Reap

-----------------------------------------------------------------------------
(* Faults.                                                                 *)

Fault ==
  /\ faults < MaxFaults
  /\ faults' = faults + 1

(* The root is missing or the database does not open: the collector        *)
(* returns without having read anything.                                   *)
CollectorFails ==
  /\ Fault
  /\ \/ scan.pc = "sleep" /\ Enter("claude", {})
     \/ /\ scan.pc = "list" /\ scan.todo = {} /\ scan.tool # "hermes"
        /\ Enter(Follows(scan.tool), {})
  /\ UNCHANGED <<now, files, hooks, sessions, lastScan>>

(* A panic is caught around the whole pass: the collectors that follow,    *)
(* and the reaper, do not run this time.                                   *)
ScanPanics ==
  /\ scan.pc # "sleep"
  /\ Fault
  /\ scan' = Asleep
  /\ UNCHANGED <<now, files, hooks, sessions, lastScan>>

(* The process is restarted; the store was only in memory.                 *)
Restart ==
  /\ Fault
  /\ sessions' = EmptyStore
  /\ lastScan' = 0
  /\ scan' = Asleep
  /\ UNCHANGED <<now, files, hooks>>

-----------------------------------------------------------------------------
AgentStep(id) ==
  \/ AgentStarts(id)
  \/ AgentAppends(id)
  \/ AgentTouches(id)
  \/ AgentArchives(id)
  \/ AgentCloses(id)
  \/ AgentDeletes(id)

Next ==
  \/ Tick
  \/ \E id \in Ids : AgentStep(id) \/ HandleAck(id)
  \/ \E m \in Hook : HookFires(m) \/ HookLost(m) \/ HandleHook(m)
  \/ ScanStep
  \/ CollectorFails \/ ScanPanics \/ Restart

Spec == Init /\ [][Next]_vars

(* The scan thread runs for ever and time passes.  Nothing is assumed of   *)
(* agents, hooks, users and faults.                                        *)
FairSpec == Spec /\ WF_vars(ScanStep) /\ WF_vars(Tick)
-----------------------------------------------------------------------------
(* Properties.                                                             *)

(* Every variable holds a value of the program's types.                    *)
TypeOK ==
  /\ now \in Nat
  /\ files \in [Ids -> Transcript \cup {NoFile}]
  /\ hooks \subseteq Hook
  /\ sessions \in SessionMap
  /\ lastScan \in Nat
  /\ scan \in ScanState
  /\ faults \in Nat

(* A session says since when it has been waiting exactly while it waits:   *)
(* derive_rows reports waiting_sec for the one and status for the other,   *)
(* and four writers (two handlers, upsert, the collectors) touch them.     *)
WaitingHasSince ==
  \A id \in Present(sessions) :
    sessions[id].waiting <=> sessions[id].waitingSince # None

(* No timestamp in the store is in the future, even though transcripts may *)
(* carry a clock that runs ahead and a collector clamps to the time it     *)
(* started rather than the time it writes: ages are never negative.        *)
NotFromFuture ==
  \A id \in Present(sessions) :
    /\ sessions[id].lastActivity <= now
    /\ sessions[id].waiting => sessions[id].waitingSince <= now

(* While a session is in the store its activity never goes backwards, even *)
(* when its transcript's timestamp does or its transcript disappears       *)
(* between listing and reading.                                            *)
ActivityNeverRegresses ==
  [][\A id \in Present(sessions) :
       id \in Present(sessions)' =>
         sessions'[id].lastActivity >= sessions[id].lastActivity]_vars

(* A raised waiting flag is lowered by an acknowledgement or a Stop hook   *)
(* for that session and by nothing else.  In particular a scan pass that   *)
(* read the transcript before the hook arrived and upserts after it does   *)
(* not lose the notification.                                              *)
LoweredOnlyOnRequest ==
  [][\A id \in Present(sessions) :
       (sessions[id].waiting /\ id \in Present(sessions)' /\ ~sessions'[id].waiting)
         => \/ HandleAck(id)
            \/ HandleHook([id |-> id, event |-> "Stop"])]_vars

(* A waiting flag is raised by a Notification hook for that session, or by *)
(* the collector of a tool without hooks, for a session whose transcript   *)
(* it has just read.  A Claude session is never marked by the scan thread. *)
RaisedOnlyOnEvidence ==
  [][\A id \in Present(sessions)' :
       (sessions'[id].waiting /\ (id \in Present(sessions) => ~sessions[id].waiting))
         => \/ HandleHook([id |-> id, event |-> "Notification"])
            \/ Mark /\ scan.id = id /\ ToolOf[id] # "claude"]_vars

(* The store forgets a session only when it has been inactive for longer   *)
(* than GONE_TTL, or because the process restarts: what a /state response  *)
(* still shows is never reaped.                                            *)
ForgottenOnlyWhenGone ==
  [][\A id \in Present(sessions) :
       id \notin Present(sessions)' =>
         now - sessions[id].lastActivity > GoneTtl + Epsilon \/ Restart]_vars

-----------------------------------------------------------------------------
(* What the store should say of a transcript that the collectors list.     *)
Reflects(id) ==
  LET last == LastActivity(files, id, now) IN
  /\ id \in Present(sessions)
  /\ sessions[id].lastActivity >= last
  /\ sessions[id].project = ProjectFrom(files, id)
  /\ sessions[id].activeTurn = ActiveTurn(files, id, last, ClosedOf(files, id), now)

Collectable(id) ==
  /\ files[id] # NoFile
  /\ id \in Listed(files, ToolOf[id], now)
  /\ ~Skipped(files, id)
  /\ now - files[id].mtime <= GoneTtl

(* Once the agents are quiet, the store catches up with every transcript   *)
(* that is recent enough to be shown, and stays with it.                   *)
StoreCatchesUp ==
  \A id \in Ids :
    \/ []<><<files' # files>>_vars
    \/ <>[](Collectable(id) => Reflects(id))

(* A session whose transcript shows the agent waiting for its user comes   *)
(* up as waiting, whatever hooks and acknowledgements do meanwhile.        *)
WaitingTurnIsShown ==
  \A id \in Ids :
    <>[](Collectable(id) /\ WaitsForUser(files, id))
      => []<>(id \in Present(sessions) /\ sessions[id].waiting)

(* A session whose transcript is gone for good leaves the store.           *)
DeletedSessionLeaves ==
  \A id \in Ids :
    <>[](files[id] = NoFile) => <>[](id \notin Present(sessions))

=============================================================================
