------------------------------ MODULE MCBuilds ------------------------------
(***************************************************************************)
(* TLC instance of the two optional builds of the firmware, over-the-air   *)
(* update (WiFi) and e-paper (USB), which exclude each other               *)
(* (firmware/src/main.rs:70).  The part that is not built is not there: it *)
(* rests in one state.                                                     *)
(***************************************************************************)
EXTENDS Ota, Eink

VARIABLE build

allVars == <<build, otaVars, einkVars>>

NoOta ==
  /\ image = [slot \in Slots |-> CHOOSE v \in Versions : TRUE]
  /\ boot = 0 /\ running = 0 /\ trial = "valid"
  /\ served = CHOOSE answer \in Answer : TRUE
  /\ ota = [pc |-> "main", body |-> served, got |-> 0, header |-> 0, checked |-> FALSE]
  /\ tally = [published |-> 0, cuts |-> 0]
NoEink ==
  /\ shared = (CHOOSE frame \in EinkFrames : TRUE)
  /\ rxAge = 0 /\ sinceRefresh = 0 /\ failed = FALSE
  /\ prev = Current /\ refreshing = Blank /\ panel = Picture(prev)

BuildsInit ==
  \/ build = "ota" /\ OtaInit /\ NoEink
  \/ build = "eink" /\ EinkInit /\ NoOta

WithOta == build = "ota" /\ UNCHANGED <<build, einkVars>>
WithEink == build = "eink" /\ UNCHANGED <<build, otaVars>>

BuildsNext ==
  \/ WithOta /\ OtaNext
  \/ WithEink /\ EinkNext

BuildsSpec ==
  /\ BuildsInit /\ [][BuildsNext]_allVars
  /\ WF_allVars(WithOta /\ OtaStep)
  /\ WF_allVars(WithEink /\ EinkTick) /\ WF_allVars(WithEink /\ EinkLoop)

=============================================================================
