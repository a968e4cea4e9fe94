-------------------------------- MODULE Usage --------------------------------
(***************************************************************************)
(* The usage gauges and the verdict on whether to start another agent      *)
(* (bridge/src/usage.rs, the 60-second loop of bridge/src/main.rs, and the *)
(* call of capacity in state_handler of bridge/src/hub.rs).                *)
(*                                                                         *)
(* Claude is asked over the network, and may not answer.  Codex leaves a   *)
(* token_count event in the transcript of a session with each request; of  *)
(* the transcripts that have one, the one written to last counts, also     *)
(* when what was written is a prompt or the output of a tool.  A reading   *)
(* is projected to the end of its five-hour window.                        *)
(***************************************************************************)
EXTENDS Naturals

CONSTANTS
  CodexSessions, (* the transcripts of today and yesterday                 *)
  Quota,         (* what a window allows, 100 per cent                     *)
  Window,        (* usage.rs WINDOW_5H_SECS                                *)
  Fresh,         (* usage.rs: 60 s, too short a time to project from       *)
  LogsSeconds,   (* this Codex logs resets_in_seconds, not resets_at       *)
  MaxUse,        (* bound: the largest request                             *)
  MaxClock,      (* bound: the clock stops here                            *)
  Unread         (* no event in a transcript, no reading yet             *)

VARIABLES
  clock,         (* the time                                               *)
  account,       (* [Providers -> the window: used, and when it resets]    *)
  rollouts,      (* [CodexSessions -> the last token_count, or Unread]     *)
  touched,       (* [CodexSessions -> when a line was last written, mtime] *)
  probed,        (* Claude's gauge in a pass that has not read Codex yet   *)
  gauge,         (* Shared: [Providers -> Gauge]                           *)
  seen,          (* history: the accounts as they were when read           *)
  ahead          (* history: the windows of the events that were read, or  *)
                 (* could be, instead of Codex's newest                    *)

usageVars == <<clock, account, rollouts, touched, probed, gauge, seen, ahead>>

Providers == {"claude", "codex"}

ASSUME UsageAssumption ==
  /\ Quota \in Nat \ {0} /\ Window \in Nat /\ Fresh \in Nat
  /\ LogsSeconds \in BOOLEAN
  /\ MaxUse \in Nat /\ MaxClock \in Nat
  /\ Unread \notin [used : Nat, resetAt : Nat, at : Nat]

-----------------------------------------------------------------------------
(* UsageInfo: the default when there is no reading.                        *)
Gauge == [ok : BOOLEAN, used : Nat, resetIn : Nat, exhausts : BOOLEAN]
NoGauge == [ok |-> FALSE, used |-> 0, resetIn |-> 0, exhausts |-> FALSE]

Smaller(i, j) == IF i < j THEN i ELSE j
Remaining(at) == IF at > clock THEN at - clock ELSE 0

(* will_exhaust: the average so far, kept up to the reset, from what is    *)
(* used now.                                                               *)
Exhausts(used, resetIn) ==
  /\ Window > resetIn + Fresh /\ used > 0
  /\ LET elapsed == Window - resetIn IN
     Smaller(used, Quota) * elapsed + used * resetIn >= Quota * elapsed

(* attach_single_call_analytics.                                           *)
Reading(used, resetIn) ==
  [ok |-> TRUE, used |-> used, resetIn |-> resetIn, exhausts |-> Exhausts(used, resetIn)]

(* The account at this moment: a window that is over counts for nothing.   *)
Account(p) ==
  IF clock < account[p].resetAt THEN account[p] ELSE [used |-> 0, resetAt |-> clock]

(* parse_claude_headers.                                                   *)
ClaudeReading == Reading(Account("claude").used, Remaining(Account("claude").resetAt))

(* window_reset_sec.                                                       *)
WindowReset(log) == IF LogsSeconds THEN log.resetAt - log.at ELSE Remaining(log.resetAt)

(* codex_usage: the transcript written to last comes first; those of one   *)
(* second come in any order.  Mutant: without the reverse.                 *)
Logged == {s \in CodexSessions : rollouts[s] # Unread}
CodexOldest ==
  IF Logged = {} THEN {NoGauge}
  ELSE {Reading(rollouts[s].used, WindowReset(rollouts[s])) :
          s \in {r \in Logged : \A q \in Logged : touched[q] >= touched[r]}}
CodexReading ==
  IF Logged = {} THEN {NoGauge}
  ELSE {Reading(rollouts[s].used, WindowReset(rollouts[s])) :
          s \in {r \in Logged : \A q \in Logged : touched[q] <= touched[r]}}

(* The transcripts that came in front of the newest event by a later line. *)
Overtaking ==
  {q \in Logged : \E s \in Logged :
     rollouts[s].at > rollouts[q].at /\ touched[s] <= touched[q]}

(* capacity.                                                               *)
Verdict ==
  IF \E p \in Providers : gauge[p].ok /\ gauge[p].exhausts THEN "throttle"
  ELSE IF \E p \in Providers : gauge[p].ok /\ 10 * gauge[p].used > 7 * Quota THEN "pace"
  ELSE "go"

-----------------------------------------------------------------------------
UsageInit ==
  /\ clock = 1
  /\ account = [p \in Providers |-> [used |-> 0, resetAt |-> 1]]
  /\ rollouts = [s \in CodexSessions |-> Unread]
  /\ touched = [s \in CodexSessions |-> 0]
  /\ probed = Unread
  /\ gauge = [p \in Providers |-> NoGauge]
  /\ seen = [p \in Providers |-> [used |-> 0, resetAt |-> 1, at |-> 1]]
  /\ ahead = {}

(* An agent uses some of its account.  The first request after a window is *)
(* over opens the next.                                                    *)
Charged(p, amount) ==
  IF clock < account[p].resetAt THEN [account[p] EXCEPT !.used = @ + amount]
  ELSE [used |-> amount, resetAt |-> clock + Window]

UseClaude(amount) ==
  /\ clock < MaxClock /\ clock' = clock + 1
  /\ account' = [account EXCEPT !["claude"] = Charged("claude", amount)]
  /\ UNCHANGED <<rollouts, touched, probed, gauge, seen, ahead>>

(* Codex writes down the new state of the account, each time in a second   *)
(* of its own.                                                             *)
UseCodex(s, amount) ==
  /\ clock < MaxClock /\ clock' = clock + 1
  /\ account' = [account EXCEPT !["codex"] = Charged("codex", amount)]
  /\ rollouts' = [rollouts EXCEPT ![s] =
       [used |-> Charged("codex", amount).used,
        resetAt |-> Charged("codex", amount).resetAt, at |-> clock]]
  /\ touched' = [touched EXCEPT ![s] = clock]
  /\ UNCHANGED <<probed, gauge, seen, ahead>>

(* A line without an event: a prompt, the output of a tool.  Before its    *)
(* first event a transcript is passed over, whenever it was written to.    *)
WriteCodex(s) ==
  /\ s \in Logged /\ touched[s] < clock /\ touched' = [touched EXCEPT ![s] = clock]
  /\ UNCHANGED <<clock, account, rollouts, probed, gauge, seen, ahead>>

UsageTick ==
  /\ clock < MaxClock /\ clock' = clock + 1
  /\ UNCHANGED <<account, rollouts, touched, probed, gauge, seen, ahead>>

Sees(p) == [used |-> Account(p).used, resetAt |-> Account(p).resetAt, at |-> clock]

(* claude_usage: an answer, or none.                                       *)
ProbeClaude ==
  /\ probed = Unread
  /\ probed' \in {[gauge |-> ClaudeReading, seen |-> Sees("claude")],
                  [gauge |-> NoGauge, seen |-> Sees("claude")]}
  /\ UNCHANGED <<clock, account, rollouts, touched, gauge, seen, ahead>>

(* codex_usage, and both gauges are published.                             *)
PublishUsage ==
  /\ probed # Unread /\ probed' = Unread
  /\ \E reading \in CodexReading :
       gauge' = [p \in Providers |-> IF p = "claude" THEN probed.gauge ELSE reading]
  /\ seen' = [p \in Providers |-> IF p = "claude" THEN probed.seen ELSE Sees("codex")]
  /\ ahead' = {rollouts[s].resetAt : s \in Overtaking}
  /\ UNCHANGED <<clock, account, rollouts, touched>>

UsageNext ==
  \/ \E amount \in 1 .. MaxUse :
       UseClaude(amount) \/ \E s \in CodexSessions : UseCodex(s, amount)
  \/ \E s \in CodexSessions : WriteCodex(s)
  \/ UsageTick
  \/ ProbeClaude \/ PublishUsage

UsageSpec == UsageInit /\ [][UsageNext]_usageVars

-----------------------------------------------------------------------------
(* At the pace of its window so far, the account as it was read does not   *)
(* last until the reset.                                                   *)
RunsOut(snapshot) ==
  LET elapsed == Window - (snapshot.resetAt - snapshot.at) IN
  /\ elapsed > Fresh /\ snapshot.used > 0
  /\ snapshot.used * Window >= Quota * elapsed

(* The event that was read may be of a window that is over: Codex' newest, *)
(* or one that came in front of it.                                        *)
Outdated(p) ==
  p = "codex" /\ (seen[p].at >= seen[p].resetAt \/ \E reset \in ahead : seen[p].at >= reset)

Newest(p) == p = "codex" => ahead = {}

(* The verdict is "throttle" only when an account that was read would run  *)
(* out before its reset, or an event of a Codex window that is over was    *)
(* read; and whenever an account that was read would run out.  It is "go"  *)
(* only when none that was read is above 70 per cent (usage.rs, the        *)
(* comment on capacity).  The last two are said of Codex only while no     *)
(* later line of another session hides its newest event.                   *)
VerdictIsRight ==
  /\ Verdict = "throttle" =>
       \E p \in Providers : gauge[p].ok /\ (RunsOut(seen[p]) \/ Outdated(p))
  /\ Verdict # "throttle" =>
       \A p \in Providers : gauge[p].ok /\ Newest(p) => ~RunsOut(seen[p])
  /\ Verdict = "go" =>
       \A p \in Providers : gauge[p].ok /\ Newest(p) => 10 * seen[p].used <= 7 * Quota

(* What the comment on the sort claims (usage.rs:248): "the most-recently- *)
(* active session has the freshest rate-limit snapshot".                   *)
FreshestComesFirst ==
  \A s, q \in Logged : touched[s] > touched[q] => rollouts[s].at >= rollouts[q].at
=============================================================================
