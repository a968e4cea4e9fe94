# cydrust in TLA+

cydrust shows on a small touch display what coding agents on one or several
machines are doing. A *bridge* process on each machine reads the transcripts
the agents leave on disk, keeps a map of sessions in memory and answers HTTP
requests; a *device* (an ESP32 with a display) shows what the bridge says and
lets its user acknowledge sessions that wait. This directory models the bridge
(the store, the collectors, the scan thread, the handlers, the derived rows,
the federation of several bridges, the gauges, metrics and titles), the
installer of the hooks, the USB link between bridge and device, the display
loop of the device, its over-the-air update and its e-paper build.

## 1. Inventory

| Component | Source | State | Operations | Talks to |
|---|---|---|---|---|
| session store | `bridge/src/state.rs`, `model.rs` | `HashMap<id, Session>`, `last_scan`, one RwLock | upsert, mark_waiting, ack, snapshot, remove_gone | called by scan thread, handlers, push loop |
| collectors | `collector*.rs` | none between passes | list, stat, read and upsert, mark; one function per agent | transcripts and databases of four agents |
| scan thread | `main.rs:128-143` | position in the pass | four collectors, then the reaper, under one `catch_unwind`; sleep 2 s | store |
| hub handlers | `hub.rs` | none | /state, /metrics, /ack, /hook, /federation/ingest | store, remote store, shared gauges |
| derived rows | `hub.rs:123-217` | none (a function of the store and the time) | filter, group, represent, sort, cap | store |
| hook client | `bin/vibe_hook.rs` | none; one process per event | one POST, errors swallowed | /hook |
| federation | `federation.rs`, `main.rs:193-222` | rows of other machines with receive times | push loop, merge, expiry | /federation/ingest, /state |
| usage gauges | `usage.rs`, the 60 s loop of `main.rs` | the last two gauges, in `Shared` | probe Claude, read Codex's newest event, project, verdict | Anthropic, transcripts, /state |
| metrics, titles | `metrics.rs`, the 120 s loops of `main.rs` | rollup and titles, in `Shared`, replaced whole | read four stores one after the other, roll up; derive titles | transcripts, /state, /metrics |
| serial bridge | `bin/serial_bridge.rs` | receive buffer, port | poll /state, shorten, write a frame; forward acks | hub, device |
| hook installer | `bin/install_hooks.rs` | settings.json, its backup | read, back up, merge, write | Claude Code |
| device loop | `firmware/src/main.rs` | view, tab, sleep, screensaver, last state, settings | touch, poll or read, render, save | serial bridge or hub |
| device parsers | `firmware/src/proto.rs`, `mascot.rs`, `sprite.rs` | none | parse, mood, frames | device loop |
| update | `ota.rs` | two slots, boot partition | mark valid, download, compare versions, validate, switch, restart | image server, boot loader |
| e-paper | `eink.rs` | shared frame, last frame painted, time of the refresh | receive, poll, refresh | serial bridge |
| BLE link | `ble.rs` | line buffer | receive | device loop |

What is hard in it: three kinds of thread share the store (the scan thread,
handlers, the push loop) and hold its lock for one operation at a time, while a
scan handles a transcript in several; the transcripts change under the scan;
clocks of writers differ; hooks are lost and overtake each other; the process
restarts with an empty store; pushes between machines are lost, delayed past
their timeout and reordered; rows group sessions but are acknowledged one id at
a time; a pass over four stores straddles midnight; a projection is made from a
reading that may be old; a file with the user's own hooks is rewritten in
place; a serial line is cut in the middle of a frame; flash is erased before
the new image is known to be whole; the display has no frame buffer, and a loop
that believes it knows what is on it; an e-paper refresh lasts for many frames.
`PROJECT.json` lists these hazards at their lines.

What makes each component correct:

* *scan thread and store*: the waiting flag changes only on evidence and is not
  lost to a scan; times in the store are consistent; sessions come up and leave;
* *rows*: every live session is in one row, the cap keeps the urgent ones, an
  ack on a row is not wasted;
* *federation*: a machine's rows are one whole push, recent, and its own;
* *gauges*: the verdict is right about the accounts it was computed from;
* *metrics and titles*: what is shown as today's is of one day, the breakdown
  adds up, titles do not change under the user;
* *installer*: the user's hooks are in the settings or the backup wherever a run
  stops; running twice is running once;
* *link*: after any interruption the device gets whole frames again, and acks
  come back whole;
* *device*: the glass shows the current state, in the bands that painters share
  unevenly at least nothing of another tab or theme, a touch hits what is drawn, the screen sleeps and lights up when it should, the
  stored settings are always ones the loop can run with;
* *update*: there is always an image to boot, and updating comes to an end;
* *e-paper*: the panel catches up with what arrived during a refresh.

## 2. Modules

| Module | Models | Used by |
|---|---|---|
| `SessionStore` | the operations of `Store`, each one function of the map | `Collectors`, `DeriveRows` |
| `Collectors` | what the four collectors take from a transcript | `Hub` |
| `Hub` | scan thread, /hook, /ack, agents, hooks, faults: the state machine | `MCHub` |
| `DeriveRows` | `derive_rows` and the session list of /state, asked by a user who acknowledges the first row | `MCRows` |
| `Board` | what an aggregator promises: the abstract specification | `Federation` |
| `Federation` | push loops, network, `RemoteStore`, /state's reading of it; `BoardOf` maps it to `Board` | `MCFederation` |
| `Usage` | the gauges, the projection, the verdict | `MCBackground` |
| `Metrics` | the metrics and titles loops | `MCBackground` |
| `InstallHooks` | the installer, its interruptions, the user's edits | `MCBackground` |
| `SerialLink` | `serial_bridge`'s loop, the wire, the firmware's reader, `send_ack` | `MCSerialLink` |
| `Device` | the display loop: touch, sleep, screensaver, repaint, settings | `MCDevice` |
| `Ota` | the update at boot, with failures and power cuts | `MCBuilds` |
| `Eink` | the e-paper loop | `MCBuilds` |
| `HubProofs`, `RowsProofs`, `FederationProofs`, `BackgroundProofs`, `InstallProofs`, `LinkProofs`, `DeviceProofs`, `BuildsProofs` | theorems and proofs | |
| `MC*` | instances for TLC | runs |

`MCBuilds` puts the two optional builds of the firmware into one instance (they
exclude each other), `MCBackground` the three slow loops of the hub and the
installer of the hooks (they share nothing): one of the parts moves and the
others rest.

Operators and variables carry the names of the code. The main correspondences:

* `sessions`, `lastScan` are the fields of `Inner`. A session keeps the fields
  decisions depend on; its tool is a function of its id (`ToolOf`).
* `scan` is the scan thread with its local variables. `StartPass`,
  `NextCollector` and `Reap` walk through `main.rs:131-142`; `Stat`,
  `ReadUpsert`, `Mark` are the three steps at which a collector meets the rest
  of the system: the timestamp or database row is read (`last`, and `closed`
  for Hermes), the content is read and the session upserted, and the session is
  marked if the content said so. A collector clamps with the time at which it
  *started* (`scan.started`), so that the store's times may lag the clock.
* A transcript is a sequence of entry kinds: the collectors look at nothing
  else in a line. `Tail64K` keeps the tail read of Claude transcripts,
  `Newest` the search from the end; Codex markers and the fall-back on who
  spoke last, OpenCode's message that is still generated, and Hermes's
  `ended_at` are all there.
* `CollectorFails` (no root, database does not open), `ScanPanics` (caught
  around the whole pass) and `Restart` (the store was only in memory) are
  bounded by `MaxFaults`, whichever comes.
* `DeriveRows` keeps as a *set* (`reps`) the sessions `min_by` may pick as the
  representative of a row, because the iteration order of the map decides ties.
  The sort is a place for each row (`Place`, `InOrder`): one more than the
  number of rows before it.
* In `Federation` a node id is the sequence of its `/`-separated segments, so
  that prefix tests on keys mean what `starts_with` means on the strings.
  `GiveUp` is the 3 s timeout; the request stays on the wire, up to
  `MaxDelay`. `latest` is history: the last push handled of each machine, with
  its rows and the time it was made. `Reported` says which sets of rows a
  machine may send: the instance lets one machine send any and the other one
  row or none. For
  `Board`, a machine's notice is what the aggregator holds of it, with the time
  it was received; a push without rows takes the notice down.
* In `Usage` an account is a window with what was used of it and when it
  resets, as the provider knows it; `Exhausts` is `will_exhaust` in integers,
  with the division multiplied out. A transcript is its last token_count event
  (`rollouts`) and its mtime (`touched`), which any line moves: `UseCodex` writes
  an event, `WriteCodex` a prompt or the output of a tool, and `CodexReading`
  takes the event of the transcript written to last, as the code sorts by mtime.
  It is a set, as two transcripts may have been written in one second. `seen`
  and `ahead` are history: the account at the time it was read, and the windows
  of the events that were read, or could have been, in place of the newest.
* In `Metrics` the stores of all agents are one sequence of `turns`, and each of
  the four `...Spent` operators is a collector's own rule for what is of today:
  whole files touched since midnight (Claude, Codex), messages since midnight
  (OpenCode), sessions begun since midnight (Hermes). A pass takes midnight
  once (`since`) and reads one store per step (`ReadStore`). A cost is the
  number of tokens that have a price. A transcript is the set of positions its
  turns have among all turns, and `Total` counts a sum unit by unit.
* In `InstallHooks` a file is a function from events to sequences of blocks, or
  one of the unusable contents; copying and writing are two steps each, as both
  truncate first. `wanted` is history: the user's own blocks at the last edit.
* In `SerialLink` a line is two pieces, its beginning and its rest with the
  newline, and an interruption may fall between them: that is all the reader's
  behaviour depends on. `Reader` is the loop over `buf` and the overflow rule
  (a frame of `LongFrames` never fits, and what came in the same read as the
  bytes that do not fit goes with them, newlines too). `Parse` says what
  `parse_state` can make of pieces of several lines: one of the frames, a
  mixture, or nothing. `Tap` begins the `println!` of `send_ack` and `PrintRest`
  ends it; between them a `Reboot` may fall, which leaves half an ack before the
  log of the next boot (of which only the first newline matters), `Disconnect`
  drops any part of what nobody has read, and `Lost` the oldest of it while the
  port is closed. `ForwardAck` is `extract_ack_id` and `post_ack`, and `ShortId`
  is the `take(12)` of `make_mini`.
* In `Device`, `ui` holds the local variables of the loop with the names of the
  code (`prev`, `painted` for `prev_paint`, `engaged`, `mood` for `last_mood`),
  and `Iteration` composes one pass of it from its stages: `Touch`,
  `KeepAwake`, `Timeout`, `Paint`. `touchAge` and `inputAge` are the ages of
  `last_touch` and `art.last_input`. The screen is seven regions, each holding
  what was painted there last and in which palette; `Render` overwrites the
  regions its painter covers and leaves the rest. Besides the tab bar, the
  background and the body there are the ones that painters share unevenly: the
  `margin` (what cards cover and `render_detail` does not fill), the `seams`
  between the cards, the `strip` and the `foot` at the bottom. `marred` is
  history: the list was painted there in place of a detail whose row had gone,
  and nothing has been cleared since. A touch is where it lands
  (tab, slot, chip, switch, button), and `Cards` decides what is in a slot.
  `Iteration` is the code of both loops (WiFi and USB/BLE), which differ only
  in where the frame comes from: `Receive` and `Silent`.
* In `Ota` an image is its version or `Broken`, and an answer says after which
  chunk its descriptor is complete: `Chunk` is one turn of the download loop,
  with the bounded search for the descriptor. Erasing, validating and switching
  are the external operations of the flash layer; `trial` is the state the boot
  loader keeps of the boot partition, as the build enables rollback: `Boot` goes
  back to the other slot when an image was not marked valid in its first run.
* In `Eink` a frame has rows, a usage line and fields that are not drawn
  (`Hidden`); `refreshing` is the frame that the panel is being painted with.

## 3. Runs

All bounds are CONSTANTS of the modules, marked "bound" where they are not of
the code. Times are whole units; the thresholds are scaled down (GONE_TTL to
1-4) and what matters is that the instance can go to either side of each.
Deadlock is not checked where clocks stop at a bound and agents, pushes, edits
and faults run out: the models really stop there. `device` and `link` check it.

| Run | Instance | Shows |
|---|---|---|
| `hub_claude` | one Claude session, two entries with a tail of one, skewed clocks, one fault, 3 s of clock beyond the start, GONE_TTL of 1 s | TypeOK, WaitingHasSince, NotFromFuture, ActivityNeverRegresses, ForgottenOnlyWhenGone; a raised flag is lowered only on request, a lowered one raised only on evidence; the store catches up with the transcript, and a deleted transcript's session leaves (liveness) |
| `hub_turns` | a Codex, an OpenCode or a Hermes session, one at a time but each able to follow another, one fault | the store catches up; a finished turn comes up as waiting again and again, through archived, closed and deleted sessions (liveness) |
| `rows` | all stores of three sessions, two tools, two projects, cap of two rows, ages below, at, between and above GONE_TTL and GONE_TTL+EPSILON | grouping, cap, reaper against filter, and that acks by representative silence everything |
| `federation` | two machines, two sessions with two statuses, three pushes, delay up to a second, one crash or restart, clock beyond the TTL | whole, recent, isolated pushes; the aggregator implements the board (`ImplementsBoard`, a refinement); a dead machine vanishes (liveness) |
| `background` | four sessions, one per tool, two turns with or without tokens, two ids of one model and one of another, three days; two Codex transcripts, requests of one of a quota of two, a window of three units; one hook of the user's, two URLs, two subscribed events and another, five arrangements of blocks, three runs of the installer, two edits, two interruptions | what is shown as spent today is today's, of one day; the breakdown adds up; titles stay; the verdict is right about the accounts it was made from; the user's hooks survive, and a run undoes every registration before it |
| `link` | two sessions, one frame too long for the device, two faults (unplugged, disconnected or reset, in the middle of a line either way), two pieces of lines on the wire | acks are whole, a fault spoils at most one line, the device ends up with the hub's state (liveness) |
| `device` | two slots, four frames of none to three sessions, delays of half a minute and a minute against a sleep of one minute | the screen is what a full repaint would make it, but for bands that hold pieces of the same tab and view, touches hit what is drawn in every view, the screensaver precedes sleep, the screen sleeps and lights up (liveness) |
| `builds` | update: three versions with one unreadable, images of three chunks with the descriptor at, within and beyond the limit, two failures or power cuts, one new image; e-paper: frames of up to two rows of which one is drawn, hidden fields, a throttle of two units | always bootable; updating settles; the panel catches up (liveness) |

One session is enough for most hub properties because they speak of one
session, and the operations of the store touch one id only (the reaper treats
each id by itself). In `hub_turns` there are three, so that the pass goes
through three collectors, but at most `MaxAround` of them is in the files or in
the store at a time: a second one would only multiply the states of the first.
Two entries are enough to have every newest entry before and after every other
one, and to push an entry out of a tail of one. Three sessions make lists
of none to three groups: the cap of two lets two groups stand side by side and
cuts off a third. Two pushes of one machine can
overtake each other; a third, of the other machine, is there to be disturbed.
Two turns are enough to merge two ids of one model, to be on two sides of
midnight, and to have one arrive while a pass reads; the sums are over sets of
any size. A quota of two and requests of one put a reading below and above each
threshold of the verdict, and a clock of five leaves a window of three and
enters the next; two transcripts are enough for a later line of one to hide the
newest event of the other. Two interruptions and three runs let a run be cut
short and the one after it too. Two pieces on the wire let a line be cut behind
another one, and two faults let the second hit the recovery from the first. In
`device` a unit of time is half a minute: the two delays of the screensaver lie
before and at the sleep timeout, so that one of them is invalid once a sleep is
set, and `MaxAge` is beyond both; frames have fewer rows than slots, as many,
and more; any silence counts as offline (`OfflineAfter` is 0). The loop runs at
least once in each unit of time, and as often as it likes. In `builds` three
chunks put one before the descriptor, one with it and one after it, and two
failures let the second fall into the recovery from the first.

These runs look for a counterexample and find it; each is a documented claim
the code does not keep (`findings` in `PROJECT.json` quotes it):

| Run | Claim that fails |
|---|---|
| `nested_node_ids` | a slash in a node id cannot corrupt the keys |
| `usb_ack` | an ack that comes back over serial clears the session's waiting flag |
| `banner_stays` | the offline banner disappears the moment the hub is back |
| `freshest_codex` | the most recently active Codex session has the freshest snapshot of the limits |

More documented claims do not hold and have no run, as a look at the code
settles them:

* docs/architecture.md:185 and docs/api.md:177 say that an ack clears the
  waiting flag; the collectors of Codex, OpenCode and Hermes raise it again two
  seconds later from the same transcript (`Hub!Mark`; `RaisedOnlyOnEvidence`
  allows exactly that).
* collector_codex.rs:226 says the flag of a session that works again decays by
  a TTL: there is none, and `upsert` leaves the flag alone.
* docs/api.md:394 says sessions are never deleted from the store, and the scan
  loop ends every pass with the reaper (`Hub!Reap`).
* docs/api.md:137 calls staleSec the time since the last scan, and only
  `upsert` sets `last_scan`: a machine without sessions looks stale.
* docs/api.md:381 gives the sort order of /state, and `state_handler` appends
  federated rows behind the sorted ones.
* federation.rs:114 says a closed session disappears with the next push; a push
  handled late brings it back until the one after.
* CHANGELOG.md:31 announces a "+N more" row; the USB frame never carries more
  than six rows nor their number.
* install_hooks.rs:87 says that all existing user hooks are preserved;
  `block_is_ours` drops a block whole in which the user has put a command of
  his own next to ours. `HooksSurvive` speaks of blocks without ours.
* main.rs:532 says that the drawn list and the hit test never disagree about
  which slots are cards. They do on the list that is drawn in place of a detail
  whose row has gone: its cards do not open, a touch of one leads back to the
  list proper. `HitTestMatchesScreen` excepts just that case (`RowGone`).
* ota.rs:53 says of the answer "same version" that nothing was written; the
  other slot has been erased by then (`Ota!Begin` comes before `Ota!Chunk`), so
  that there is nothing to fall back to.

In `hub_claude` agents stop before GONE_TTL has passed, so that a deleted
session can leave within the bound of the clock; a transcript whose clock ran
ahead is then still recent enough to be shown, which is what StoreCatchesUp
speaks of there. In `hub_turns` GONE_TTL is longer than the run.

### Fairness

* `Hub!FairSpec`: weak fairness of the scan thread (an endless loop with a two
  second sleep; panics are caught, so it goes on) and of the clock. Nothing is
  assumed of agents, hooks, users and faults: StoreCatchesUp speaks of the
  behaviours in which the agents eventually leave the files alone, and faults
  are bounded, as a scan that panicked on every pass would never catch up.
* `Federation!FairSpec`: time passes, and the loops of running machines push and
  give up; handling a request is not fair, since the network may lose it.
* `SerialLink!FairSpec`: the bridge retries the port, polls a hub that answers,
  finishes the lines it has begun unless it is interrupted, and the reader
  thread reads on: four loops of the code without exit.
* `Device!FairSpec`: the loop, which sleeps 50 ms in each round, runs again, and
  time passes; nothing is assumed of frames and touches.
* `MCBuilds!BuildsSpec`: the firmware goes on from each step of an update to the
  next (`OtaStep`, straight-line code), failures and power cuts being bounded;
  for the e-paper build time passes, and the loop polls again. UpdateSettles and
  PanelCatchesUp assume that the server, or the frames, settle.
* `DeriveRows!Spec` assumes a user who keeps acknowledging the first row: the property is
  about what such a user achieves.

`Usage`, `Metrics` and `InstallHooks` have no liveness property.

## 4. Proofs

TLAPS proves the following for all values of the constants that satisfy the
named assumptions (`StoreAssumption`, `HubAssumption`, `RowsAssumption`,
`FederationAssumption`, `UsageAssumption`, `MetricsAssumption`,
`InstallAssumption`, `LinkAssumption`, `DeviceAssumption`, `OtaAssumption`),
which TLC evaluates in the runs. Every invariant and every action property of a
run that passes is among them.

* **Hub** (`HubProofs`): `TypeCorrect`, `WaitingSinceTogether`, `StoreIsPast`,
  and the action properties `ActivityIsMonotone`, `NotificationsAreKept`,
  `FlagsHaveEvidence`, `SessionsAreKept`. They rest on one inductive invariant
  `IInv`: types; the clock is not before the start (`ClockRuns`); the time a
  collector started, and with it every activity it is about to write, is not
  after the clock (`ScanBehind`) - this is why a clamp at the start of a
  collector is enough; a scan that has left its list holds a real session
  (`ScanHasSession`); and each stored session is sound (`Sound`: its times are
  past, and it waits exactly when it says since when). The module begins with
  the lemmas about the store's operations that the steps cite: what upsert,
  mark, acknowledge and the reaper do to the session at hand, and that they
  leave the others alone.
* **Rows** (`RowsProofs`): `RowsPartition` (OneRowPerGroup),
  `CapSparesTheUrgent` (UrgentRowsSurvive), `ReaperUnseen`
  (ReaperIsInvisible). OneRowPerGroup says of every store that a session is in
  at most one row, its own, and in exactly one if the cap leaves room for all
  groups. The invariant is only that the store is one; the work is in the list. Rows of different groups differ in tool or project (`SameRow`),
  so `RowBefore` is a strict total order on them (`RowsOrdered`, which needs
  that names which compare equal are equal); the places are then a bijection
  from the rows to an initial segment (`PlaceFacts`, `InOrderFacts`), and the
  list cut at the cap has the rows that come first (`RowsList`); that the rows are
  no more than the groups, so that none is cut when these fit, is the
  pigeonhole.
* **Federation** (`FederationProofs`): `TypeCorrect`; and `PushesAreWhole`,
  `ShownRowsAreRecent` and `PushesAreIsolated`, each under `Separated`: no node
  id is a prefix of another, as holds for the ids `hostname()` makes when the
  machines are distinct, and fails in the run `nested_node_ids`. WholePush is
  exact: what is held is the last push handled, every row of it and none beside,
  or nothing, and then there was no push or it has expired. The invariant
  `FInv` adds to the types and `WholePush` that requests on the wire are no
  older than `MaxDelay` and that rows were received within that delay of their
  push.
* **The refinement** (`FederationProofs`): `StoreImplementsBoard`, under
  `Separated`, says that `Federation` implements `Board`. What is on the board
  for a machine is read off the aggregator's map; the invariant `BInv` adds to
  `FInv` that all rows of one machine carry the same receive time (`Together`),
  without which a notice could come down in part. The handling of a push is
  `PutUp` (`IngestPutsUp`), reading /state is `Look` (`ReadStateLooks`), a
  restart of the aggregator is `Wipe`, and everything the network and the
  senders do is a stutter.
* **Metrics** (`BackgroundProofs`): `MetricsCountToday` (TodayIsCounted),
  `MetricsAddUp` (BreakdownAddsUp) and `TitlesHold` (TitlesStay). A sum is the
  number of its cells, so sums are compared by mapping the cells of one to the
  cells of the other: an injection bounds (`TotalInject`), a bijection on groups
  regroups (`TotalGroup`). From this follow what a rollup promises whatever was
  spent (`ProviderAddsUp`, `AllAddsUp`) and that what a store contributes is the
  tokens of a set of turns, a different set for each of the four
  (`ClaudeCounts`, `CodexCounts`, `OpenCodeCounts`, `HermesCounts`). The
  invariant `CountInv` says that turns are in the order of their days, that each
  store a pass has read lies between what was due when the pass began and what
  may be counted by now (`Bounded`), and the same of what is published. Another
  turn leaves the first bound and raises the second (`BoundsGrow`). For the
  titles `TitlesInv` says that what a title was taken from is still there.
* **Gauges** (`BackgroundProofs`): `VerdictHolds`, under `~LogsSeconds`, that
  is, for a Codex that logs when its windows reset. Transcripts are taken in the
  order of their mtimes, so that the event that is read need not be the newest;
  the theorem says what holds all the same. The newest event agrees with the
  account until the next request (`NewestIsCurrent`), any other is of an older
  window or of less use of the same one (`Fits`), and so a reading that was overtaken overstates the account
  only if its window is over. While nothing hides the newest event a gauge says
  what the account said when it was read (`GaugesAreHonest`). The lemma `ProjectionIsAverage` says that projecting what is used over the rest of the
  window, after cutting it off at the quota, finds out the same as comparing the
  average with the quota.
* **Installer** (`InstallProofs`): `UserHooksSurvive` (HooksSurvive) and
  `Idempotent` (InstallIsIdempotent). That `retain` keeps the blocks that are
  not ours, in their order, and that doing it twice or behind an append changes
  nothing, goes through the recursive function `Kept`; as the induction theorems
  of the library cannot be used, induction is a least counterexample
  (`SetInduction`, `Recursion`). The invariant `IInv` says which file holds the
  user's hooks at each step of a run (`Held`): a settings file that is being
  emptied is backed up before, and a backup is overwritten only while the
  settings still have them - unless they have none, as after an interruption.
* **Link** (`LinkProofs`): `TypeCorrect`, `AcksStayWhole` and
  `FaultsSpoilOneLine` (OnePiecePerFault). What is on its way up may have lost
  pieces at its front and hold the half of an ack that a reset cut off. The
  invariant `LinkInv` says that such a half is followed by a newline, its own or
  that of the boot log, or is the one the device is in the middle of
  (`WholeLines`), and that what the bridge has read of a line is not followed by
  a beginning as long as the port stays open (`RestFollows`). So an ack is never glued together from two acks, though
  an id may be read from half a line. A device that booted in silence would
  break this (the mutant `RebootSilently`). On the way down `CutsAreFaults` says
  that there are no more cut lines, in the buffer and on the wire together, than
  there were faults, an open end that nobody is writing on being one.
* **Device** (`DeviceProofs`): `TypeCorrect`, `DelaysFit`, `ScreensaverFirst`
  (ArtComesBeforeSleep), `ScreenIsCurrent` (ScreenFollowsState) and
  `TouchHitsWhatIsDrawn` (HitTestMatchesScreen). The first invariant says that
  the settings fit each other, that the time since the last touch or waiting
  session is never longer than the time since the last touch
  (`touchAge <= inputAge`), and that a lit screen without screensaver has not
  been left alone for longer than the delay (`NotOverdue`; `NotDue` after an
  iteration, which is what lets the clock tick once more). It is carried through
  the stages of an iteration, one lemma each (`TouchSound`, `KeepAwakeSound`,
  `TimeoutSound`, `PaintSound`), and `SnapFits`, `LoadFits` and `TouchFits` say
  that every way to come by settings, a power cut between two keys included,
  snaps the delay. `DelaysFit` has no run: it is a fact about all settings, and
  the proof covers it. For the screen, whose painters cover only parts of it,
  `Glass` says that every region is what a full repaint would have left of the
  frame, tab, view and settings the loop remembers (`Shown`), whatever covers
  it, but for the regions in which the painters of a tab are uneven (`Uneven`):
  there it holds pieces of what that tab and view have shown before, in the
  present palette. `PaintFollows` is the lemma that a partial repaint over such
  a screen leaves one as good as a full one does; `ContentCovers` says what each
  painter covers, and `StillBare` that what nothing covers now was bare before,
  unless the row under the detail has come back - which is what `marred`
  remembers. `TouchHitsWhatIsDrawn` is about all views, the list in place of a
  vanished row included.
* **Update** (`BuildsProofs`): `NeverBricked`, which includes the slot that a
  rollback would go to. The invariant adds `SwitchesLast`: until the switch the
  device runs from its boot partition, so that the slot that is erased is not
  the one it boots from; an update begins only once the image that runs has been
  marked valid, so that it is not the one to roll back to either; and only a
  validated image is switched to.
* **E-paper** (`BuildsProofs`): `PaintedStaysCurrent` (PaintedIsCurrent), the
  safety half of PanelCatchesUp: the loop never takes a frame for painted that
  is not, so that what it has left undone it still sees. The invariant
  `PrevIsPainted` says that the frame it remembers is the one on the panel,
  unless its refresh failed. It has no run of its own: the bug it excludes, to
  remember the frame that came during the refresh, is the mutant of
  PanelCatchesUp.

Only model-checked: everything under fairness (StoreCatchesUp,
WaitingTurnIsShown, DeletedSessionLeaves, QuietNodeVanishes,
AcksSilenceEverything, LinkRecovers, ScreenSleeps, WaitingLightsScreen,
UpdateSettles, PanelCatchesUp), as liveness is out of the prover's reach.

## 5. Not modelled, and why

* **Everywhere**: paths, JSON, time formats and the wording of /metrics are
  abstracted to what decisions depend on; HTTP is its outcomes.
  Authentication is a stateless comparison in front of every handler.
* **Collectors**: the extraction of titles from text is a choice among prompts.
  `tail_lines` drops the first line of the 64 KiB it reads: of a transcript whose
  last line is longer than that nothing is left, and its session counts as not
  working. `Tail64K` leaves at least the last entry.
  SQLite's immutable reads may be behind the agent's commits: `files` is what a
  reader sees. The directories of Codex days are in `Metrics` (`InReach`) but
  not in `Hub`, whose transcripts stay listed. A flag that was raised for a
  session of a tool without hooks stays when the session works again, until an
  ack; `Hub` has this behaviour and no property forbids it.
* **Gauges**: weekly windows, messages and clock strings. For a Codex that logs
  `resets_in_seconds` (`LogsSeconds = TRUE`) VerdictIsRight fails: the seconds
  count from when the line was logged, and are read as if from now. A failed
  probe withdraws Claude's gauge, so that "throttle" turns into "go" until the
  next one; VerdictIsRight speaks of gauges that were read. Codex' events are
  each in a second of their own; that a later line without an event moves
  another transcript in front is modelled (`WriteCodex`), and the parts of
  VerdictIsRight that cannot hold then say so (`Newest`, `Outdated`).
* **Rows**: `hub.rs:24` and `main.rs:21` each define a GONE_TTL, of the same
  value; the model has one, and ReaperIsInvisible is about that value.
* **Metrics**: tokens are not split into in and out, and costs are the number of
  tokens with a price. `local_midnight` subtracts hours, minutes and seconds
  from the present, which is an hour off on the days clocks change and keeps the
  fraction of a second. As files count whole, TodayIsCounted bounds what is
  shown by what the touched sessions ever spent, from above, and by what was
  spent today, from below; Hermes sessions count on the day they began only, and
  have no lower bound. That a cost is complete is examined for the total; of a
  provider only some of whose models have a price BreakdownAddsUp says nothing.
* **Installer**: a second run on a file that an interrupted one left empty
  copies the empty file over the good backup, and an edit between the read and
  the write is lost: `guarded` excludes both from HooksSurvive, as the installer
  promises nothing there. The order of the user's hooks is not compared.
* **Serial bridge**: the gauges and metrics of a frame and the cut at six rows;
  log lines between acks, and the guard of 8 KiB they make necessary. Of the
  boot log the newline that ends a half-printed ack is modelled, and nothing
  after it. While nobody reads the port, what the device prints is taken to be
  lost from its oldest byte on.
* **Device**: brightness, the frame counter of the art, pixel data, and pixels
  below the seven regions: single lines and rounded corners. What may stay on
  the glass is in the model, by region: in the seams the pieces of the line "no
  sessions" that crosses them, after the first cards are drawn over it; in the
  strip a piece of the banner or, on the list in place of a vanished row, of the
  detail's button; in the margin pieces of cards, when a detail is drawn again
  after its row has come back. `ScreenFollowsState` bounds it (`Leftovers`), and
  does not forbid it. Numeric clamping and truncation in `parse_state`. Over
  WiFi /state has no key "i", so a row has no id and a tap sends nothing;
  `SerialLink` is the USB build, and the frames of `Device` have ids
  (`DeviceAssumption`).
* **Update**: what makes an image one that does not get as far as `mark_valid`:
  failures come to an image from outside, and are bounded. An image that always
  failed there would be rolled back, downloaded and started again at every
  second start, for ever; UpdateSettles speaks of images that come up.
* **E-paper**: where on the panel a text goes. A refresh that fails is not tried
  again, which PanelCatchesUp allows, and fields that are not drawn cause
  refreshes, which it allows too.
* **BLE**: advertising and pairing are the stack's; its line buffer behaves as
  the USB reader's, with more room.

## 6. Plan

What a continuation would do, most important first:

1. Compose `SerialLink` with `Hub` and `Device`, so that a tap can be followed
   to the store and a session to the glass, for the USB and the WiFi build (in
   which rows have no id at all), with an abstract `Monitor` (what is on the
   screen was true of the store at most so long ago) that they implement.
2. The parser: clamping and truncation, and the six rows and gauges of
   `make_mini`, as operators checked against reference definitions.
3. Codex across day boundaries in `Hub`; two sessions around at a time.
4. Proofs: an abstract session monitor that `Hub` implements, and the safety
   half of LinkRecovers.
