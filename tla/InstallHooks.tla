---------------------------- MODULE InstallHooks ----------------------------
(***************************************************************************)
(* The installer of the hooks (bridge/src/bin/install_hooks.rs).  It reads *)
(* Claude Code's settings.json, copies it to settings.json.bak, and writes *)
(* it back with its own commands merged in.  The copy and the write each   *)
(* begin by truncating their file, and each may be the last thing the      *)
(* installer does.  The user, or Claude Code, edits the settings too.      *)
(*                                                                         *)
(* Of the settings only the "hooks" are kept: for each event an array of   *)
(* blocks, a block being the set of its commands.  Matchers and the other  *)
(* settings are carried along by the code and left out here.               *)
(***************************************************************************)
EXTENDS Sequences, Naturals

CONSTANTS
  UserCommands,  (* commands of the user's own hooks                       *)
  OurCommands,   (* commands that name vibe_hook, for different URLs       *)
  HookEvents,    (* HOOK_EVENTS                                            *)
  OtherEvents,   (* events that Claude Code has and we do not subscribe to *)
  Missing,       (* the file does not exist                                *)
  Blank,         (* nothing but white space                                *)
  Garbage,       (* not JSON: a torn write, a typing error                 *)
  Scalar,        (* JSON that is not of the shape expected in its place    *)
  Edits,         (* arrays of blocks that an editor may give an event      *)
  MaxEdits,      (* bound: edits of the settings                           *)
  MaxRuns,       (* bound: runs of the installer                           *)
  MaxFaults      (* bound: runs that are interrupted                       *)

VARIABLES
  settings,      (* settings.json                                          *)
  backup,        (* settings.json.bak                                      *)
  run,           (* the installer: where it is and its local variables     *)
  wanted,        (* history: the hooks of the user at the last edit        *)
  guarded,       (* history: no edit fell into a run, and no run took a    *)
                 (* file that another run had emptied for the user's       *)
  count          (* history: edits, runs and faults so far                 *)

vars == <<settings, backup, run, wanted, guarded, count>>

Commands == UserCommands \cup OurCommands
Events == HookEvents \cup OtherEvents
Block == SUBSET Commands

(* What a file may hold besides the unusable: hooks for some events.       *)
Unusable == {Missing, Blank, Garbage, Scalar}
HooksOf(events) == [events -> Seq(Block) \cup {Scalar}]
NoHooks == [ev \in {} |-> <<>>]

ASSUME InstallAssumption ==
  /\ UserCommands \cap OurCommands = {}
  /\ HookEvents \cap OtherEvents = {}
  /\ Scalar \notin Seq(Block)
  /\ \A file \in Unusable, events \in SUBSET Events : file \notin HooksOf(events)
  /\ \A blocks \in Edits : blocks = Scalar \/ blocks \in Seq(Block)
  /\ MaxEdits \in Nat /\ MaxRuns \in Nat /\ MaxFaults \in Nat

-----------------------------------------------------------------------------
(* merge_hooks.                                                            *)

(* One of our commands makes the whole block ours.                         *)
IsOurs(block) == block \cap OurCommands # {}

(* Mutant of Strip: one block is taken to be all there is of ours.         *)
StripHead(blocks) ==
  IF blocks # <<>> /\ IsOurs(Head(blocks)) THEN Tail(blocks) ELSE blocks

(* retain: what is kept of the first n blocks, in their order.             *)
Kept(blocks) ==
  LET kept[n \in 0 .. Len(blocks)] ==
        IF n = 0 THEN <<>>
        ELSE IF IsOurs(blocks[n]) THEN kept[n - 1]
        ELSE Append(kept[n - 1], blocks[n])
  IN kept
Strip(blocks) == Kept(blocks)[Len(blocks)]

(* The array of an event; what is not an array counts for nothing.         *)
Array(hooks, ev) ==
  IF ev \in DOMAIN hooks /\ hooks[ev] # Scalar THEN hooks[ev] ELSE <<>>

(* Events we do not subscribe to that are left without a block go.         *)
Emptied(hooks) ==
  {ev \in DOMAIN hooks \ HookEvents :
     hooks[ev] # Scalar /\ Strip(hooks[ev]) = <<>>}

(* Mutant of Merge: the events we subscribe to are set, not added to.      *)
MergeReplaces(hooks, command) ==
  [ev \in (DOMAIN hooks \ Emptied(hooks)) \cup HookEvents |->
     IF ev \in HookEvents THEN <<{command}>>
     ELSE IF hooks[ev] = Scalar THEN Scalar
     ELSE Strip(hooks[ev])]

Merge(hooks, command) ==
  [ev \in (DOMAIN hooks \ Emptied(hooks)) \cup HookEvents |->
     IF ev \in HookEvents THEN Append(Strip(Array(hooks, ev)), {command})
     ELSE IF hooks[ev] = Scalar THEN Scalar
     ELSE Strip(hooks[ev])]

(* The user's blocks in a file, each with its event.                       *)
UserBlocks(file) ==
  IF file \in Unusable THEN {}
  ELSE {own \in (DOMAIN file) \X Block :
          /\ \E i \in DOMAIN Array(file, own[1]) : Array(file, own[1])[i] = own[2]
          /\ ~IsOurs(own[2])}

-----------------------------------------------------------------------------
Idle == [pc |-> "idle", command |-> CHOOSE c \in OurCommands : TRUE, hooks |-> NoHooks]

Init ==
  /\ settings \in {Missing, Blank, Scalar, NoHooks}
  /\ backup = Missing
  /\ run = Idle
  /\ wanted = {} /\ guarded = TRUE
  /\ count = [edits |-> 0, runs |-> 0, faults |-> 0]

(* The arguments are good and the file parses.  When it is garbage the     *)
(* installer ends here, before it has written anything.                    *)
Read(command) ==
  /\ run.pc = "idle"
  /\ count.runs < MaxRuns
  /\ settings # Garbage
  /\ run' = [pc |-> "back up", command |-> command,
             hooks |-> IF settings \in Unusable THEN NoHooks ELSE settings]
  /\ guarded' = (guarded /\ (settings = Blank => wanted = {}))
  /\ count' = [count EXCEPT !.runs = @ + 1]
  /\ UNCHANGED <<settings, backup, wanted>>

(* fs::copy truncates the backup, if there is something to copy ...        *)
OpenBackup ==
  /\ run.pc = "back up"
  /\ IF settings = Missing
     THEN run' = [run EXCEPT !.pc = "merge"] /\ UNCHANGED backup
     ELSE run' = [run EXCEPT !.pc = "copy"] /\ backup' = Blank
  /\ UNCHANGED <<settings, wanted, guarded, count>>

(* ... and fills it with what the settings are now.                        *)
Copy ==
  /\ run.pc = "copy"
  /\ backup' = settings
  /\ run' = [run EXCEPT !.pc = "merge"]
  /\ UNCHANGED <<settings, wanted, guarded, count>>

(* fs::write truncates the settings ...                                    *)
OpenSettings ==
  /\ run.pc = "merge"
  /\ settings' = Blank
  /\ run' = [run EXCEPT !.pc = "write"]
  /\ UNCHANGED <<backup, wanted, guarded, count>>

(* ... and writes what was merged from what was read at the beginning.     *)
Write ==
  /\ run.pc = "write"
  /\ settings' = Merge(run.hooks, run.command)
  /\ run' = Idle
  /\ UNCHANGED <<backup, wanted, guarded, count>>

(* The installer is killed, or a step of it fails: it ends, and the file   *)
(* it was writing keeps what has got there.                                *)
Interrupted ==
  /\ run.pc # "idle"
  /\ count.faults < MaxFaults
  /\ run' = Idle
  /\ settings' \in IF run.pc = "write" THEN {settings, Garbage} ELSE {settings}
  /\ backup' \in IF run.pc = "copy" THEN {backup, Garbage} ELSE {backup}
  /\ count' = [count EXCEPT !.faults = @ + 1]
  /\ UNCHANGED <<wanted, guarded>>

(* The user or Claude Code sets the array of an event, in the file as it   *)
(* is or in a new one.  Not during the one write call of the installer.    *)
Edit(ev, blocks) ==
  /\ run.pc # "write"
  /\ count.edits < MaxEdits
  /\ LET hooks == IF settings \in Unusable THEN NoHooks ELSE settings
     IN  settings' = [e \in DOMAIN hooks \cup {ev} |->
                        IF e = ev THEN blocks ELSE hooks[e]]
  /\ wanted' = UserBlocks(settings')
  /\ guarded' = (run.pc = "idle")
  /\ count' = [count EXCEPT !.edits = @ + 1]
  /\ UNCHANGED <<backup, run>>

(* After an interrupted run the user puts the backup back.                 *)
Restore ==
  /\ run.pc = "idle"
  /\ settings \in {Blank, Garbage} /\ backup \notin Unusable
  /\ settings' = backup
  /\ UNCHANGED <<backup, run, wanted, guarded, count>>

Next ==
  \/ \E command \in OurCommands : Read(command)
  \/ OpenBackup \/ Copy \/ OpenSettings \/ Write
  \/ Interrupted
  \/ \E ev \in Events, blocks \in Edits : Edit(ev, blocks)
  \/ Restore

Spec == Init /\ [][Next]_vars

-----------------------------------------------------------------------------
(* The user's hooks are never lost: wherever a run stops, they are in the  *)
(* settings or in their backup (install_hooks.rs: existing user hooks are  *)
(* preserved, and the file is backed up first).  Two things are beyond the *)
(* installer and excluded by guarded: an edit between its read and its     *)
(* write, and a second run on a file that a first one left empty, which    *)
(* copies the empty file over the good backup.                             *)
HooksSurvive ==
  guarded => \/ wanted \subseteq UserBlocks(settings)
             \/ wanted \subseteq UserBlocks(backup)

(* A run undoes the registrations of every run before it, of whatever URL, *)
(* and adds one of its own to each event: running twice is running once    *)
(* (install_hooks.rs: the operation is idempotent).                        *)
InstallIsIdempotent ==
  settings \notin Unusable =>
    \A c, d \in OurCommands :
      LET once == Merge(settings, d) IN
      /\ Merge(Merge(settings, c), d) = once
      /\ \A ev \in DOMAIN once :
           LET ours == {i \in DOMAIN Array(once, ev) : IsOurs(once[ev][i])}
           IN  \/ ev \in HookEvents /\ ours = {Len(once[ev])} /\ once[ev][Len(once[ev])] = {d}
               \/ ev \notin HookEvents /\ ours = {}
=============================================================================
