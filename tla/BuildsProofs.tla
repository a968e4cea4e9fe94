---------------------------- MODULE BuildsProofs ----------------------------
(***************************************************************************)
(* The two optional builds of the firmware.  The update never bricks the   *)
(* device, for any images, any number of failures and power cuts, and any  *)
(* answers of the server; and the e-paper loop takes a frame for painted   *)
(* only when it is, for any frames at any time and any failed refreshes.   *)
(***************************************************************************)
EXTENDS Ota, Eink, TLAPS

(* Until the switch the device runs from its boot partition; an update     *)
(* begins only when that one has passed its trial, as the other is lost    *)
(* with it; and only a validated image is switched to.                     *)
SwitchesLast ==
  /\ ota.pc \in {"start", "check", "stream", "switch", "main", "stopped"} =>
       boot = running /\ trial # "new"
  /\ ota.pc \in {"stream", "switch"} => trial = "valid"
  /\ ota.pc = "switch" => image[Other(running)] # Broken

OtaInv == OtaTypeOK /\ AlwaysBootable /\ SwitchesLast

LEMMA OtherSlot ==
  ASSUME NEW slot \in Slots
  PROVE  Other(slot) \in Slots /\ Other(slot) # slot
BY DEF Slots, Other

LEMMA InitOtaInv == OtaInit => OtaInv
<1> SUFFICES ASSUME OtaInit PROVE OtaInv
  OBVIOUS
<1>1. OtaTypeOK
  <2>1. ota \in OtaState
    BY DEF OtaInit, OtaState, Places
  <2> QED
    BY <2>1 DEF OtaInit, OtaTypeOK, Trials
<1>2. AlwaysBootable /\ SwitchesLast
  BY DEF OtaInit, AlwaysBootable, SwitchesLast
<1> QED
  BY <1>1, <1>2 DEF OtaInv

(* A step that leaves the flash alone and does not come nearer to the      *)
(* switch.                                                                 *)
LEMMA FlashUntouched ==
  ASSUME OtaInv, OtaTypeOK', UNCHANGED <<image, boot, running>>,
         trial' = trial \/ trial' = "valid",
         \/ ota'.pc \in {"off", "restart"}
         \/ boot = running /\ trial # "new" /\ ota'.pc \notin {"stream", "switch"}
         \/ boot = running /\ trial = "valid" /\ ota'.pc = "stream"
  PROVE  OtaInv'
<1>1. AlwaysBootable'
  BY DEF OtaInv, AlwaysBootable
<1>2. SwitchesLast'
  BY DEF OtaInv, SwitchesLast
<1> QED
  BY <1>1, <1>2 DEF OtaInv

(* The slot that the boot loader starts, be it the one before, is whole.   *)
LEMMA BootOtaInv == OtaInv /\ Boot => OtaInv'
<1> SUFFICES ASSUME OtaInv, Boot PROVE OtaInv'
  OBVIOUS
<1>1. /\ boot \in Slots /\ Other(boot) \in Slots
      /\ trial \in Trials /\ image' = image
      /\ image[boot] # Broken
      /\ trial # "valid" => image[Other(boot)] # Broken
  BY OtherSlot DEF OtaInv, OtaTypeOK, AlwaysBootable, Boot
<1>2. ota' \in OtaState /\ ota'.pc = "start"
  BY DEF OtaInv, OtaTypeOK, Boot, OtaState, Places
<1>3. CASE trial = "pending"
  <2>1. boot' = Other(boot) /\ running' = Other(boot) /\ trial' = "valid"
    BY <1>3 DEF Boot
  <2> QED
    BY <1>1, <1>2, <1>3, <2>1
    DEF OtaInv, OtaTypeOK, Trials, AlwaysBootable, SwitchesLast, Boot
<1>4. CASE trial # "pending"
  <2>1. /\ boot' = boot /\ running' = boot
        /\ trial' = IF trial = "new" THEN "pending" ELSE "valid"
    BY <1>4 DEF Boot
  <2> QED
    BY <1>1, <1>2, <1>4, <2>1
    DEF OtaInv, OtaTypeOK, Trials, AlwaysBootable, SwitchesLast, Boot
<1> QED
  BY <1>3, <1>4

LEMMA MarkOtaInv == OtaInv /\ MarkValid => OtaInv'
<1> SUFFICES ASSUME OtaInv, MarkValid PROVE OtaInv'
  OBVIOUS
<1>1. OtaTypeOK' /\ ota'.pc = "check" /\ boot = running /\ trial # "new"
  BY DEF OtaInv, OtaTypeOK, SwitchesLast, MarkValid, OtaState, Places, Trials
<1> QED
  BY <1>1, FlashUntouched DEF MarkValid

(* Opening the slot the device does not run from spoils that slot only.    *)
LEMMA BeginOtaInv == OtaInv /\ Begin => OtaInv'
<1> SUFFICES ASSUME OtaInv, Begin PROVE OtaInv'
  OBVIOUS
<1>1. /\ boot = running /\ running \in Slots /\ trial = "valid"
      /\ Other(running) \in Slots /\ Other(running) # running
      /\ image \in [Slots -> Versions \cup {Broken}]
  BY OtherSlot DEF OtaInv, OtaTypeOK, SwitchesLast, Begin
<1>2. ota' \in OtaState /\ ota'.pc = "stream"
  BY DEF OtaInv, OtaTypeOK, Begin, OtaState, Places
<1>3. OtaTypeOK'
  BY <1>1, <1>2 DEF OtaInv, OtaTypeOK, Begin
<1>4. AlwaysBootable' /\ SwitchesLast'
  BY <1>1, <1>2 DEF OtaInv, AlwaysBootable, SwitchesLast, Begin
<1> QED
  BY <1>3, <1>4 DEF OtaInv

LEMMA ChunkOtaInv == OtaInv /\ Chunk => OtaInv'
<1> SUFFICES ASSUME OtaInv, Chunk PROVE OtaInv'
  OBVIOUS
<1>1. /\ ota \in OtaState /\ ota.pc = "stream" /\ boot = running /\ trial = "valid"
      /\ ota.got \in Nat /\ ota.header \in Nat /\ ota.checked \in BOOLEAN
  BY DEF OtaInv, OtaTypeOK, OtaState, SwitchesLast, Chunk
<1>2. ota' \in OtaState /\ ota'.pc \in {"stream", "main"}
  <2> DEFINE found == ~ota.checked /\ ota.header + 1 >= ota.body.header
             tried == ~ota.checked /\ ota.header + 1 > HeaderLimit
             checked == ota.checked \/ found \/ tried
             on == [pc |-> "stream", body |-> ota.body, got |-> ota.got + 1,
                    header |-> IF checked THEN 0 ELSE ota.header + 1,
                    checked |-> checked]
  <2>1. ota' = [ota EXCEPT !.pc = "main"] \/ ota' = on
    BY DEF Chunk, GoOn
  <2>2. CASE ota' = [ota EXCEPT !.pc = "main"]
    BY <1>1, <2>2 DEF OtaState, Places
  <2>3. CASE ota' = on
    <3>1. checked \in BOOLEAN
      BY <1>1
    <3>2. (IF checked THEN 0 ELSE ota.header + 1) \in Nat /\ ota.got + 1 \in Nat
      BY <1>1
    <3>3. ota.body \in Answer
      BY <1>1 DEF OtaState
    <3> HIDE DEF checked
    <3> QED
      BY <2>3, <3>1, <3>2, <3>3 DEF OtaState, Places
  <2> QED
    BY <2>1, <2>2, <2>3
<1>3. OtaTypeOK'
  BY <1>2 DEF OtaInv, OtaTypeOK, Chunk
<1> QED
  BY <1>1, <1>2, <1>3, FlashUntouched DEF Chunk

(* Validating leaves a whole image in the other slot, or gives up.         *)
LEMMA EndOtaInv == OtaInv /\ End => OtaInv'
<1> SUFFICES ASSUME OtaInv, End PROVE OtaInv'
  OBVIOUS
<1>1. /\ boot = running /\ running \in Slots /\ trial = "valid"
      /\ Other(running) \in Slots /\ Other(running) # running
      /\ image \in [Slots -> Versions \cup {Broken}]
      /\ ota \in OtaState /\ ota.body.version \in Versions
  BY OtherSlot DEF OtaInv, OtaTypeOK, SwitchesLast, End, OtaState, Answer
<1>2. CASE ota.body.sound
  <2>1. ota' \in OtaState /\ ota'.pc = "switch"
    BY <1>1, <1>2 DEF End, OtaState, Places
  <2>2. /\ image' = [image EXCEPT ![Other(running)] = ota.body.version]
        /\ UNCHANGED <<boot, running, trial>>
    BY <1>2 DEF End
  <2>3. OtaTypeOK'
    BY <1>1, <2>1, <2>2 DEF OtaInv, OtaTypeOK, End
  <2>4. image'[Other(running)] # Broken
    BY <1>1, <2>2, OtaAssumption
  <2>5. AlwaysBootable' /\ SwitchesLast'
    BY <1>1, <2>1, <2>2, <2>4 DEF OtaInv, AlwaysBootable, SwitchesLast
  <2> QED
    BY <2>3, <2>5 DEF OtaInv
<1>3. CASE ~ota.body.sound
  <2>1. ota' \in OtaState /\ ota'.pc = "main" /\ UNCHANGED image
    BY <1>1, <1>3 DEF End, GoOn, OtaState, Places
  <2>2. OtaTypeOK'
    BY <2>1 DEF OtaInv, OtaTypeOK, End
  <2> QED
    BY <1>1, <2>1, <2>2, FlashUntouched DEF End
<1> QED
  BY <1>2, <1>3

LEMMA SwitchOtaInv == OtaInv /\ Switch => OtaInv'
<1> SUFFICES ASSUME OtaInv, Switch PROVE OtaInv'
  OBVIOUS
<1>1. /\ running \in Slots /\ Other(running) \in Slots
      /\ Other(Other(running)) = running
      /\ image[Other(running)] # Broken /\ image[running] # Broken
  BY OtherSlot DEF OtaInv, OtaTypeOK, AlwaysBootable, SwitchesLast, Switch, Other, Slots
<1>2. ota' \in OtaState /\ ota'.pc = "restart"
  BY DEF OtaInv, OtaTypeOK, Switch, OtaState, Places
<1>3. OtaTypeOK'
  BY <1>1, <1>2 DEF OtaInv, OtaTypeOK, Trials, Switch
<1>4. AlwaysBootable' /\ SwitchesLast'
  BY <1>1, <1>2 DEF OtaInv, AlwaysBootable, SwitchesLast, Switch
<1> QED
  BY <1>3, <1>4 DEF OtaInv

LEMMA RestartOtaInv == OtaInv /\ Restart => OtaInv'
<1> SUFFICES ASSUME OtaInv, Restart PROVE OtaInv'
  OBVIOUS
<1>1. OtaTypeOK' /\ ota'.pc = "off"
  BY DEF OtaInv, OtaTypeOK, Restart, OtaState, Places
<1> QED
  BY <1>1, FlashUntouched DEF Restart

(* Failures, power cuts, and the server.                                   *)
LEMMA FailureOtaInv == OtaInv /\ (Offline \/ MarkFails \/ Fails \/ Refused) => OtaInv'
<1> SUFFICES ASSUME OtaInv, Offline \/ MarkFails \/ Fails \/ Refused PROVE OtaInv'
  OBVIOUS
<1>1. /\ OtaTypeOK' /\ UNCHANGED <<image, boot, running, trial>>
      /\ ota'.pc \in {"stopped", "check", "main"}
  BY DEF OtaInv, OtaTypeOK, Offline, MarkFails, Fails, Refused, Cut, GoOn, OtaState, Places
<1>2. boot = running /\ trial # "new"
  BY DEF OtaInv, SwitchesLast, Offline, MarkFails, Fails, Refused
<1> QED
  BY <1>1, <1>2, FlashUntouched

LEMMA FaultOtaInv ==
  OtaInv /\ (PowerCut \/ \E answer \in Answer : Publish(answer)) => OtaInv'
<1> SUFFICES ASSUME OtaInv, PowerCut \/ \E answer \in Answer : Publish(answer)
             PROVE  OtaInv'
  OBVIOUS
<1>1. CASE PowerCut
  <2>1. OtaTypeOK' /\ ota'.pc = "off"
    BY <1>1 DEF OtaInv, OtaTypeOK, PowerCut, Cut, OtaState, Places
  <2> QED
    BY <1>1, <2>1, FlashUntouched DEF PowerCut
<1>2. ASSUME NEW answer \in Answer, Publish(answer) PROVE OtaInv'
  BY <1>2 DEF OtaInv, OtaTypeOK, AlwaysBootable, SwitchesLast, Publish
<1> QED
  BY <1>1, <1>2

LEMMA NextOtaInv == OtaInv /\ [OtaNext]_otaVars => OtaInv'
<1> SUFFICES ASSUME OtaInv, [OtaNext]_otaVars PROVE OtaInv'
  OBVIOUS
<1>1. CASE UNCHANGED otaVars
  BY <1>1 DEF otaVars, OtaInv, OtaTypeOK, AlwaysBootable, SwitchesLast
<1>2. CASE OtaNext
  BY <1>2, BootOtaInv, MarkOtaInv, BeginOtaInv, ChunkOtaInv, EndOtaInv, SwitchOtaInv,
     RestartOtaInv, FailureOtaInv, FaultOtaInv DEF OtaNext, OtaStep
<1> QED
  BY <1>1, <1>2

-----------------------------------------------------------------------------
(* At every moment, and so whenever the power comes back, the boot         *)
(* partition holds a whole image.                                          *)
THEOREM NeverBricked == OtaSpec => []AlwaysBootable
<1>1. OtaInv => AlwaysBootable
  BY DEF OtaInv
<1> QED
  BY <1>1, InitOtaInv, NextOtaInv, PTL DEF OtaSpec

-----------------------------------------------------------------------------
(* The e-paper build.                                                      *)

(* What the loop took for painted is on the panel, unless the refresh that *)
(* was to paint it failed.                                                 *)
PrevIsPainted == prev # Blank /\ ~failed => panel = Picture(prev)

EinkInv == EinkTypeOK /\ PrevIsPainted

LEMMA CurrentIsState ==
  ASSUME EinkTypeOK
  PROVE  Current \in EinkStates /\ Current # Blank
<1>1. Current \in EinkStates
  BY EinkAssumption DEF EinkTypeOK, EinkFrames, EinkStates, Current
<1> QED
  BY <1>1, EinkAssumption

LEMMA InitEinkInv == EinkInit => EinkInv
<1> SUFFICES ASSUME EinkInit PROVE EinkInv
  OBVIOUS
<1>1. shared \in EinkFrames
  <2> DEFINE U == CHOOSE u \in Usages : TRUE
             H == CHOOSE h \in Hidden : TRUE
             R == UNION {[1 .. n -> Lines] : n \in 0 .. MaxRows}
  <2>1. U \in Usages /\ H \in Hidden
    BY EinkAssumption
  <2>2. <<>> \in R
    <3>1. <<>> \in [1 .. 0 -> Lines] /\ 0 \in 0 .. MaxRows
      BY EinkAssumption
    <3> QED
      BY <3>1
  <2>3. shared = [rows |-> <<>>, usage |-> U, hidden |-> H]
    BY DEF EinkInit
  <2> HIDE DEF U, H, R
  <2>4. shared \in [rows : R, usage : Usages, hidden : Hidden]
    BY <2>1, <2>2, <2>3
  <2> QED
    BY <2>4 DEF EinkFrames, R
<1>2. rxAge \in 0 .. (OfflineAfter + 1) /\ sinceRefresh \in 0 .. MinRefresh
  BY EinkAssumption DEF EinkInit
<1> QED
  BY <1>1, <1>2 DEF EinkInit, EinkInv, EinkTypeOK, PrevIsPainted

LEMMA NextEinkInv == EinkInv /\ [EinkNext]_einkVars => EinkInv'
<1> SUFFICES ASSUME EinkInv, [EinkNext]_einkVars PROVE EinkInv'
  OBVIOUS
<1> USE DEF EinkInv
<1>1. ASSUME NEW frame \in EinkFrames, Receive(frame) PROVE EinkInv'
  BY <1>1, EinkAssumption DEF Receive, EinkTypeOK, PrevIsPainted
<1>2. CASE EinkTick
  <2>1. rxAge' \in 0 .. (OfflineAfter + 1) /\ sinceRefresh' \in 0 .. MinRefresh
    BY <1>2, EinkAssumption DEF EinkTick, EinkTypeOK
  <2> QED
    BY <1>2, <2>1 DEF EinkTick, EinkTypeOK, PrevIsPainted
<1>3. CASE EinkRefresh
  BY <1>3, CurrentIsState DEF EinkRefresh, EinkTypeOK, PrevIsPainted
<1>4. CASE Refreshed
  <2>1. refreshing \in EinkStates /\ prev' = refreshing
    BY <1>4 DEF Refreshed, EinkTypeOK
  <2>2. sinceRefresh' \in 0 .. MinRefresh
    BY <1>4, EinkAssumption DEF Refreshed
  <2>3. panel' \in {Picture(state) : state \in EinkStates} \cup {Blank} /\ failed' \in BOOLEAN
    BY <1>4, <2>1 DEF Refreshed, EinkTypeOK
  <2>4. PrevIsPainted'
    BY <1>4, <2>1 DEF Refreshed, PrevIsPainted
  <2> QED
    BY <1>4, <2>1, <2>2, <2>3, <2>4 DEF Refreshed, EinkTypeOK
<1>5. CASE UNCHANGED einkVars
  BY <1>5 DEF einkVars, EinkTypeOK, PrevIsPainted
<1> QED
  BY <1>1, <1>2, <1>3, <1>4, <1>5 DEF EinkNext, EinkLoop

(* A frame that arrives while the panel refreshes, or that a refresh       *)
(* overtakes, is never taken for painted: whatever the frames and however  *)
(* refreshes fail, when the loop sees nothing to paint and the last        *)
(* refresh went well, the current frame is on the panel.                   *)
THEOREM PaintedStaysCurrent == EinkSpec => []PaintedIsCurrent
<1>1. EinkInv => PaintedIsCurrent
  BY CurrentIsState DEF EinkInv, PrevIsPainted, PaintedIsCurrent
<1> QED
  BY <1>1, InitEinkInv, NextEinkInv, PTL DEF EinkSpec
=============================================================================
