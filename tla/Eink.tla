-------------------------------- MODULE Eink --------------------------------
(***************************************************************************)
(* The e-paper build (firmware/src/eink.rs): a loop polls the frame that   *)
(* the reader thread leaves, and when it differs from the one painted last *)
(* and the last refresh is long enough ago, paints the panel.  A refresh   *)
(* takes seconds, in which frames go on arriving, and may fail.            *)
(***************************************************************************)
EXTENDS Naturals, Sequences

CONSTANTS
  Lines,        (* the session rows as they are drawn: status and project  *)
  MaxRows,      (* rows of a frame                                         *)
  DrawnRows,    (* eink.rs: 7, the rows that are drawn                     *)
  Usages,       (* what the usage line can say                             *)
  Hidden,       (* the fields of a frame that are not drawn                *)
  MinRefresh,   (* eink.rs: 45 s between refreshes, in ticks               *)
  OfflineAfter, (* eink.rs: 6 s without a frame, in ticks                  *)
  Blank         (* nothing painted yet                                     *)

VARIABLES
  shared,       (* the newest frame, DisplayState                          *)
  rxAge,        (* ticks since it arrived, up to OfflineAfter + 1          *)
  prev,         (* the frame of the last refresh                           *)
  sinceRefresh, (* ticks since that refresh, up to MinRefresh              *)
  refreshing,   (* the frame being painted, or Blank                       *)
  panel,        (* the picture on the panel                                *)
  failed        (* the last refresh failed                                 *)

einkVars == <<shared, rxAge, prev, sinceRefresh, refreshing, panel, failed>>

EinkFrames ==
  [rows : UNION {[1 .. n -> Lines] : n \in 0 .. MaxRows}, usage : Usages, hidden : Hidden]
EinkStates ==
  [rows : UNION {[1 .. n -> Lines] : n \in 0 .. MaxRows}, usage : Usages, hidden : Hidden,
   offline : BOOLEAN]

ASSUME EinkAssumption ==
  /\ MaxRows \in Nat /\ DrawnRows \in Nat
  /\ MinRefresh \in Nat /\ OfflineAfter \in Nat
  /\ Usages # {} /\ Hidden # {}
  /\ Blank \notin EinkStates

-----------------------------------------------------------------------------
(* render_status: the rows that fit, or a line instead of them, and the    *)
(* usage.                                                                  *)
Picture(state) ==
  [body  |-> IF state.offline THEN "hub offline"
             ELSE IF state.rows = <<>> THEN "no sessions" ELSE "rows",
   rows  |-> IF state.offline THEN <<>>
             ELSE [i \in 1 .. Len(state.rows) \cap 1 .. DrawnRows |-> state.rows[i]],
   usage |-> state.usage]

(* What a poll finds.                                                      *)
Current ==
  [rows |-> shared.rows, usage |-> shared.usage, hidden |-> shared.hidden,
   offline |-> rxAge > OfflineAfter]

(* The panel comes up.  Soon after power-on the clock cannot be set back,  *)
(* and the first refresh waits as long as any.                             *)
EinkInit ==
  /\ shared = [rows |-> <<>>, usage |-> CHOOSE u \in Usages : TRUE,
               hidden |-> CHOOSE h \in Hidden : TRUE]
  /\ rxAge = 0
  /\ prev = Blank /\ refreshing = Blank
  /\ sinceRefresh \in {0, MinRefresh}
  /\ panel = Blank /\ failed = FALSE

(* The reader thread.                                                      *)
Receive(frame) ==
  /\ shared' = frame /\ rxAge' = 0
  /\ UNCHANGED <<prev, sinceRefresh, refreshing, panel, failed>>

EinkTick ==
  /\ rxAge' = IF rxAge > OfflineAfter THEN rxAge ELSE rxAge + 1
  /\ sinceRefresh' = IF sinceRefresh < MinRefresh THEN sinceRefresh + 1 ELSE sinceRefresh
  /\ UNCHANGED <<shared, prev, refreshing, panel, failed>>

(* A poll that starts a refresh.                                           *)
EinkRefresh ==
  /\ refreshing = Blank
  /\ prev # Current /\ sinceRefresh = MinRefresh
  /\ refreshing' = Current
  /\ UNCHANGED <<shared, rxAge, prev, sinceRefresh, panel, failed>>

(* Seconds later it is done, or an error was logged, which leaves the      *)
(* panel as it was.  Mutant: the frame is read again at the end.           *)
RefreshedLate ==
  /\ refreshing # Blank
  /\ \/ panel' = Picture(refreshing) /\ failed' = FALSE
     \/ UNCHANGED panel /\ failed' = TRUE
  /\ prev' = Current /\ sinceRefresh' = 0 /\ refreshing' = Blank
  /\ UNCHANGED <<shared, rxAge>>
Refreshed ==
  /\ refreshing # Blank
  /\ \/ panel' = Picture(refreshing) /\ failed' = FALSE
     \/ UNCHANGED panel /\ failed' = TRUE
  /\ prev' = refreshing /\ sinceRefresh' = 0 /\ refreshing' = Blank
  /\ UNCHANGED <<shared, rxAge>>

EinkLoop == EinkRefresh \/ Refreshed

EinkNext ==
  \/ \E frame \in EinkFrames : Receive(frame)
  \/ EinkTick
  \/ EinkLoop

EinkSpec == EinkInit /\ [][EinkNext]_einkVars

(* Time passes and the loop never returns.                                 *)
EinkFairSpec == EinkSpec /\ WF_einkVars(EinkTick) /\ WF_einkVars(EinkLoop)

-----------------------------------------------------------------------------
EinkTypeOK ==
  /\ shared \in EinkFrames
  /\ rxAge \in 0 .. (OfflineAfter + 1) /\ sinceRefresh \in 0 .. MinRefresh
  /\ prev \in EinkStates \cup {Blank} /\ refreshing \in EinkStates \cup {Blank}
  /\ panel \in {Picture(state) : state \in EinkStates} \cup {Blank}
  /\ failed \in BOOLEAN

(* The loop takes a frame for painted only when it is: while what it last  *)
(* refreshed is still current and went well, the panel shows the current   *)
(* frame, whatever arrived while the panel was busy.                       *)
PaintedIsCurrent ==
  prev = Current /\ ~failed => panel = Picture(Current)

(* However frames come while the panel is refreshing: what the device      *)
(* stays with, be it "hub offline", is on the panel in the end, unless the *)
(* refresh that was to paint it failed.  It is not tried again.            *)
PanelCatchesUp ==
  \A state \in EinkStates :
    <>[](Current = state) => <>[](panel = Picture(state) \/ failed)
=============================================================================
