-------------------------------- MODULE Ota --------------------------------
(***************************************************************************)
(* The over-the-air update (firmware/src/ota.rs and its caller, the WiFi   *)
(* boot of firmware/src/main.rs).  At every boot the device asks a server  *)
(* for an image, streams it into the slot it does not run from, and makes  *)
(* that slot the one to boot, unless the image has the version that runs.  *)
(*                                                                         *)
(* The flash layer (esp_ota_begin, _write, _end, set_boot_partition) and   *)
(* the boot loader are external: beginning an update spoils the slot it    *)
(* writes to, ending one validates the image, setting the boot partition   *)
(* is atomic.  The build enables rollback (sdkconfig.defaults.ota): an     *)
(* image that is not marked valid in its first run is not started again,   *)
(* and cannot begin an update.                                             *)
(***************************************************************************)
EXTENDS Naturals

CONSTANTS
  Versions,      (* the version strings of images                          *)
  NoVersion,     (* among them: an empty or unreadable version             *)
  Broken,        (* what a slot holds that holds no whole image            *)
  Length,        (* chunks of an image                                     *)
  HeaderLimit,   (* ota.rs: 8192 bytes, in chunks                          *)
  MaxPublished,  (* bound: images that the server comes to offer           *)
  MaxCuts        (* bound: power cuts and failures                         *)

VARIABLES
  image,         (* [Slots -> Versions or Broken]                          *)
  boot,          (* the boot partition                                     *)
  running,       (* the slot the device runs from                          *)
  trial,         (* the state of the boot partition: switched to and not   *)
                 (* started, started and not marked valid, or valid        *)
  served,        (* what the server answers                                *)
  ota,           (* check_and_update: where it is, its local variables     *)
  tally          (* bounds: images published and failures so far           *)

otaVars == <<image, boot, running, trial, served, ota, tally>>

Slots == {0, 1}
Other(slot) == 1 - slot

(* An answer: an image, the chunk with which its descriptor is complete,   *)
(* and whether its digest is right.  The search for a descriptor is given  *)
(* up after the first chunk beyond HeaderLimit.                            *)
Answer == [version : Versions, header : 1 .. (HeaderLimit + 2), sound : BOOLEAN]

(* Where the device is: off, connecting, before the check, reading the     *)
(* answer, before and after the switch, in the main loop, or stopped,      *)
(* because the connection failed.                                          *)
Places == {"off", "start", "check", "stream", "switch", "restart", "main", "stopped"}
Trials == {"new", "pending", "valid"}
OtaState == [pc : Places, body : Answer, got : Nat, header : Nat, checked : BOOLEAN]

ASSUME OtaAssumption ==
  /\ Broken \notin Versions
  /\ Length \in Nat \ {0} /\ HeaderLimit \in Nat
  /\ MaxPublished \in Nat /\ MaxCuts \in Nat

-----------------------------------------------------------------------------
OtaInit ==
  /\ image \in [Slots -> Versions \cup {Broken}]
  /\ boot \in Slots /\ running = boot
  /\ image[boot] # Broken
  /\ trial = "valid"
  /\ served \in Answer
  /\ ota = [pc |-> "off", body |-> served, got |-> 0, header |-> 0, checked |-> FALSE]
  /\ tally = [published |-> 0, cuts |-> 0]

(* The boot loader starts the slot that it is pointed to, the first time   *)
(* on trial; a slot that has not passed its trial is given up for the      *)
(* other.                                                                  *)
Boot ==
  /\ ota.pc = "off"
  /\ boot' = IF trial = "pending" THEN Other(boot) ELSE boot
  /\ running' = boot'
  /\ trial' = IF trial = "new" THEN "pending" ELSE "valid"
  /\ ota' = [ota EXCEPT !.pc = "start"]
  /\ UNCHANGED <<image, served, tally>>

(* WiFi is up: mark_valid.                                                 *)
MarkValid ==
  /\ ota.pc = "start"
  /\ trial' = "valid"
  /\ ota' = [ota EXCEPT !.pc = "check"]
  /\ UNCHANGED <<image, boot, running, served, tally>>

(* check_and_update gives up, and the device carries on with what it runs. *)
GoOn == ota' = [ota EXCEPT !.pc = "main"]

(* The answer is there with status 200: initiate_update opens the slot     *)
(* that does not run.                                                      *)
Begin ==
  /\ ota.pc = "check" /\ trial = "valid"
  /\ image' = [image EXCEPT ![Other(running)] = Broken]
  /\ ota' = [pc |-> "stream", body |-> served, got |-> 0, header |-> 0, checked |-> FALSE]
  /\ UNCHANGED <<boot, running, trial, served, tally>>

(* Mutant of UpToDate: the version of the other slot.                      *)
UpToDateOther == ota.body.version = image[Other(running)]

(* A version that is empty, or that EspOta cannot read, is never current.  *)
UpToDate == ota.body.version = image[running] /\ image[running] # NoVersion

(* One turn of the loop.  Until the descriptor has been found, or the      *)
(* search for it given up, the chunk is added to the header first.         *)
Chunk ==
  /\ ota.pc = "stream" /\ ota.got < Length
  /\ LET found == ~ota.checked /\ ota.header + 1 >= ota.body.header
         tried == ~ota.checked /\ ota.header + 1 > HeaderLimit
     IN  IF found /\ UpToDate
         THEN GoOn
         ELSE ota' = [pc      |-> "stream",
                      body    |-> ota.body,
                      got     |-> ota.got + 1,
                      header  |-> IF ota.checked \/ found \/ tried
                                  THEN 0 ELSE ota.header + 1,
                      checked |-> ota.checked \/ found \/ tried]
  /\ UNCHANGED <<image, boot, running, trial, served, tally>>

(* complete: the image is validated.  Mutant: the outcome is ignored.      *)
EndUnchecked ==
  /\ ota.pc = "stream" /\ ota.got = Length
  /\ image' = [image EXCEPT ![Other(running)] =
                 IF ota.body.sound THEN ota.body.version ELSE Broken]
  /\ ota' = [ota EXCEPT !.pc = "switch"]
  /\ UNCHANGED <<boot, running, trial, served, tally>>
End ==
  /\ ota.pc = "stream" /\ ota.got = Length
  /\ IF ota.body.sound
     THEN /\ image' = [image EXCEPT ![Other(running)] = ota.body.version]
          /\ ota' = [ota EXCEPT !.pc = "switch"]
     ELSE GoOn /\ UNCHANGED image
  /\ UNCHANGED <<boot, running, trial, served, tally>>

(* ... and its slot becomes the boot partition.                            *)
Switch ==
  /\ ota.pc = "switch"
  /\ boot' = Other(running) /\ trial' = "new"
  /\ ota' = [ota EXCEPT !.pc = "restart"]
  /\ UNCHANGED <<image, running, served, tally>>

Restart ==
  /\ ota.pc = "restart"
  /\ ota' = [ota EXCEPT !.pc = "off"]
  /\ UNCHANGED <<image, boot, running, trial, served, tally>>

-----------------------------------------------------------------------------
Cut == tally.cuts < MaxCuts /\ tally' = [tally EXCEPT !.cuts = @ + 1]

(* WiFi does not come up: the firmware ends.                               *)
Offline ==
  /\ Cut
  /\ ota.pc = "start"
  /\ ota' = [ota EXCEPT !.pc = "stopped"]
  /\ UNCHANGED <<image, boot, running, trial, served>>

(* mark_valid fails, which nobody looks at.                                *)
MarkFails ==
  /\ Cut
  /\ ota.pc = "start"
  /\ ota' = [ota EXCEPT !.pc = "check"]
  /\ UNCHANGED <<image, boot, running, trial, served>>

(* A step of the update fails: no answer or another status, a read or a    *)
(* write error, an answer that ends early, no switch.  The update is       *)
(* dropped.                                                                *)
Fails ==
  /\ Cut
  /\ ota.pc \in {"check", "stream", "switch"}
  /\ GoOn
  /\ UNCHANGED <<image, boot, running, trial, served>>

(* The image that runs is not valid: initiate_update refuses.              *)
Refused ==
  /\ ota.pc = "check" /\ trial # "valid"
  /\ GoOn
  /\ UNCHANGED <<image, boot, running, trial, served, tally>>

(* The power goes, at any moment.                                          *)
PowerCut ==
  /\ Cut
  /\ ota.pc # "off"
  /\ ota' = [ota EXCEPT !.pc = "off"]
  /\ UNCHANGED <<image, boot, running, trial, served>>

(* Another image is put on the server.                                     *)
Publish(answer) ==
  /\ tally.published < MaxPublished
  /\ served' = answer
  /\ tally' = [tally EXCEPT !.published = @ + 1]
  /\ UNCHANGED <<image, boot, running, trial, ota>>

OtaStep ==
  Boot \/ MarkValid \/ Begin \/ Refused \/ Chunk \/ End \/ Switch \/ Restart

OtaNext ==
  \/ OtaStep
  \/ Offline \/ MarkFails \/ Fails \/ PowerCut
  \/ \E answer \in Answer : Publish(answer)

OtaSpec == OtaInit /\ [][OtaNext]_otaVars

(* The firmware runs.                                                      *)
OtaFairSpec == OtaSpec /\ WF_otaVars(OtaStep)

-----------------------------------------------------------------------------
OtaTypeOK ==
  /\ image \in [Slots -> Versions \cup {Broken}]
  /\ boot \in Slots /\ running \in Slots /\ trial \in Trials
  /\ served \in Answer
  /\ ota \in OtaState
  /\ tally \in [published : Nat, cuts : Nat]

(* Whatever fails and whenever the power goes, the boot partition holds a  *)
(* whole image, and so does the slot the device runs from, and the slot    *)
(* that a rollback would go to: a failed or partial download never bricks  *)
(* it (ota.rs, the flow at the top; sdkconfig.defaults.ota on rollback).   *)
AlwaysBootable ==
  /\ image[boot] # Broken /\ image[running] # Broken
  /\ trial # "valid" => image[Other(boot)] # Broken

(* When the server goes on offering one image with a version and with a    *)
(* descriptor where it belongs, the device stops updating itself: it does  *)
(* not reboot into the same image for ever.                                *)
UpdateSettles ==
  <>[](served.version # NoVersion /\ served.header <= HeaderLimit + 1)
    => <>[](ota.pc \in {"main", "stopped"})
=============================================================================
