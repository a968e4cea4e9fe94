---------------------------- MODULE DeviceProofs ----------------------------
(***************************************************************************)
(* The display loop: its two delays and its screen, for any offered        *)
(* values, any number of slots and any frames.                             *)
(*                                                                         *)
(* The argument: the clock of the screen is never ahead of the clock of    *)
(* the screensaver (a waiting session resets only the former), the delay   *)
(* of the screensaver is always the shorter one, and the loop runs between *)
(* two ticks.  So when the screen is due to sleep the screensaver has been *)
(* engaged by an earlier iteration.                                        *)
(*                                                                         *)
(* And the screen: after any iteration it shows what a full repaint of the *)
(* current state would, and a touch hits what is drawn.                    *)
(***************************************************************************)
EXTENDS Device, TLAPS

Fields == {"tab", "view", "settings", "sleeping", "touchAge", "inputAge",
           "engaged", "mood", "prev", "painted", "ack", "marred", "screen"}

(* What holds of the variables of the loop between any two of its parts.   *)
SoundTypes(u) ==
  /\ DOMAIN u = Fields
  /\ u.settings \in Settings
  /\ u.tab \in Tabs /\ u.view \in Views
  /\ u.sleeping \in BOOLEAN /\ u.engaged \in BOOLEAN
  /\ u.touchAge \in 0..MaxAge /\ u.inputAge \in 0..MaxAge

SoundDelays(u) ==
  /\ ArtIsValid(u.settings.art, u.settings.sleep)
  /\ u.touchAge <= u.inputAge
  /\ (u.sleeping /\ u.settings.art > 0) => u.engaged

(* A lit screen without screensaver has not been left alone for longer     *)
(* than the delay; after an iteration not even for as long.                *)
NotOverdue(u) ==
  (~u.sleeping /\ ~u.engaged /\ u.settings.art > 0) => u.inputAge <= u.settings.art
NotDue(u) ==
  (~u.sleeping /\ ~u.engaged /\ u.settings.art > 0) => u.inputAge < u.settings.art

Sound(u) == SoundTypes(u) /\ SoundDelays(u) /\ NotOverdue(u)

Inv ==
  /\ shared \in Frames /\ silence \in 0..(OfflineAfter + 1)
  /\ nvs \in Settings /\ ran \in BOOLEAN
  /\ Sound(ui)
  /\ ran => NotDue(ui)

-----------------------------------------------------------------------------
(* snap_art returns an offered delay that fits.                            *)
LEMMA SnapFits ==
  ASSUME NEW art \in ArtVals, NEW sleep \in SleepVals
  PROVE  SnapArt(art, sleep) \in ArtVals /\ ArtIsValid(SnapArt(art, sleep), sleep)
<1> DEFINE offered == {v \in ArtVals : v <= art /\ ArtIsValid(v, sleep)}
<1>1. 0 \in offered
  BY DeviceAssumption DEF ArtIsValid
<1>2. \E v \in offered : \A w \in offered : w <= v
  <2>1. offered \in SUBSET ArtVals /\ offered # {}
    BY <1>1
  <2> QED
    BY <2>1, DeviceAssumption
<1>3. SnapArt(art, sleep) \in offered
  BY <1>2 DEF SnapArt
<1> QED
  BY <1>3

LEMMA LoadFits ==
  ASSUME NEW stored \in Settings
  PROVE  /\ SettingsLoad(stored) \in Settings
         /\ ArtIsValid(SettingsLoad(stored).art, SettingsLoad(stored).sleep)
<1>1. stored.art \in ArtVals /\ stored.sleep \in SleepVals
  BY DEF Settings
<1>2. /\ SnapArt(stored.art, stored.sleep) \in ArtVals
      /\ ArtIsValid(SnapArt(stored.art, stored.sleep), stored.sleep)
  BY <1>1, SnapFits
<1>3. SettingsLoad(stored) = [stored EXCEPT !.art = SnapArt(stored.art, stored.sleep)]
  BY DEF SettingsLoad
<1>4. /\ SettingsLoad(stored) \in Settings
      /\ SettingsLoad(stored).art = SnapArt(stored.art, stored.sleep)
      /\ SettingsLoad(stored).sleep = stored.sleep
  BY <1>2, <1>3 DEF Settings
<1> QED
  BY <1>2, <1>4

(* A touch of the settings keeps them well-formed and fitting.             *)
LEMMA TouchFits ==
  ASSUME NEW set \in Settings, NEW t \in Touches, ArtIsValid(set.art, set.sleep)
  PROVE  /\ SettingsTouch(set, t) \in Settings
         /\ ArtIsValid(SettingsTouch(set, t).art, SettingsTouch(set, t).sleep)
<1> DEFINE new == SettingsTouch(set, t)
<1>1. set.art \in ArtVals /\ set.sleep \in SleepVals
  BY DEF Settings
<1>2. CASE t[1] = "sleep" /\ t[2] # set.sleep
  <2>1. t[2] \in SleepVals
    BY <1>2 DEF Touches
  <2>2. SnapArt(set.art, t[2]) \in ArtVals /\ ArtIsValid(SnapArt(set.art, t[2]), t[2])
    BY <1>1, <2>1, SnapFits
  <2>3. new = [set EXCEPT !.sleep = t[2], !.art = SnapArt(set.art, t[2])]
    BY <1>2 DEF SettingsTouch, Settings
  <2>4. new \in Settings /\ new.art = SnapArt(set.art, t[2]) /\ new.sleep = t[2]
    BY <2>1, <2>2, <2>3 DEF Settings
  <2> QED
    BY <2>2, <2>4
<1>3. CASE t[1] = "theme"
  <2>1. new = [set EXCEPT !.dark = ~set.dark]
    BY <1>3 DEF SettingsTouch
  <2>2. new \in Settings /\ new.art = set.art /\ new.sleep = set.sleep
    BY <2>1 DEF Settings
  <2> QED
    BY <2>2
<1>4. CASE t[1] = "art" /\ ArtIsValid(t[2], set.sleep)
  <2>1. t[2] \in ArtVals
    BY <1>4 DEF Touches
  <2>2. new = [set EXCEPT !.art = t[2]]
    BY <1>4 DEF SettingsTouch
  <2>3. new \in Settings /\ new.art = t[2] /\ new.sleep = set.sleep
    BY <2>1, <2>2 DEF Settings
  <2> QED
    BY <1>4, <2>3
<1>5. CASE /\ ~(t[1] = "sleep" /\ t[2] # set.sleep) /\ t[1] # "theme"
           /\ ~(t[1] = "art" /\ ArtIsValid(t[2], set.sleep))
  <2>1. new = set
    BY <1>5 DEF SettingsTouch
  <2> QED
    BY <2>1
<1> QED
  BY <1>2, <1>3, <1>4, <1>5

(* A device that has just started is sound.                                *)
LEMMA BootSound ==
  ASSUME NEW stored \in Settings
  PROVE  Sound(Boot(SettingsLoad(stored))) /\ ~Boot(SettingsLoad(stored)).sleeping
<1> DEFINE set == SettingsLoad(stored)
<1>1. set \in Settings /\ ArtIsValid(set.art, set.sleep)
  BY LoadFits
<1>2. set.art \in Nat
  BY <1>1, DeviceAssumption DEF Settings
<1> HIDE DEF set
<1>3. SoundTypes(Boot(set))
  BY <1>1, DeviceAssumption DEF SoundTypes, Boot, Fields, Tabs, Views, List
<1>4. SoundDelays(Boot(set)) /\ NotOverdue(Boot(set))
  BY <1>1, <1>2 DEF SoundDelays, NotOverdue, Boot
<1> QED
  BY <1>3, <1>4 DEF Sound, Boot, set

-----------------------------------------------------------------------------
(* What the proofs below need of the constants.                            *)
LEMMA Numbers ==
  /\ SleepVals \subseteq Nat /\ ArtVals \subseteq Nat
  /\ Slots \in Nat /\ Minute \in Nat /\ MaxAge \in Nat
  /\ 0 \in 0..MaxAge /\ 0..MaxAge \subseteq Nat
<1>1. /\ SleepVals \subseteq Nat /\ ArtVals \subseteq Nat
      /\ Slots \in Nat /\ Minute \in Nat /\ MaxAge \in Nat
  BY DeviceAssumption
<1> QED
  BY <1>1

(* Each part of an iteration keeps the variables of the loop sound.        *)

LEMMA LitTouchSound ==
  ASSUME NEW u, NEW st, NEW t \in Touches, Sound(u), ~u.sleeping,
         u.inputAge = 0
  PROVE  Sound(LitTouch(u, st, t))
<1> DEFINE v == LitTouch(u, st, t)
<1>1. u.settings \in Settings /\ u.settings.art \in Nat
  BY Numbers DEF Sound, SoundTypes, Settings
<1>2. CASE t[1] = "tab"
  <2>1. t[2] \in Tabs /\ List \in Views
    BY <1>2, Numbers DEF Touches, List, Views
  <2>2. v = [u EXCEPT !.tab = t[2], !.view = List]
    BY <1>2 DEF LitTouch
  <2> QED
    BY <2>1, <2>2 DEF Sound, SoundTypes, SoundDelays, NotOverdue, Fields
<1>3. CASE t[1] # "tab" /\ u.tab = "Sessions"
  <2>1. SessionsTouch(u.view, st, t) \in Views
    BY Numbers DEF SessionsTouch, Touches, List, Views
  <2>2. v = [u EXCEPT !.view = SessionsTouch(u.view, st, t),
                      !.ack = AckOf(u.view, st, t)]
    BY <1>3 DEF LitTouch
  <2> QED
    BY <2>1, <2>2 DEF Sound, SoundTypes, SoundDelays, NotOverdue, Fields
<1>4. CASE t[1] # "tab" /\ u.tab = "Settings"
  <2> DEFINE set == SettingsTouch(u.settings, t)
  <2>1. set \in Settings /\ ArtIsValid(set.art, set.sleep)
    BY <1>1, TouchFits DEF Sound, SoundDelays
  <2>2. set.art \in Nat
    BY <2>1, Numbers DEF Settings
  <2>3. v = [u EXCEPT !.settings = set,
                      !.prev = IF set.dark # u.settings.dark THEN None ELSE u.prev]
    BY <1>4 DEF LitTouch, SoundTypes, Fields, Sound
  <2> HIDE DEF set
  <2>4. /\ DOMAIN v = Fields /\ v.settings = set /\ v.tab = u.tab /\ v.view = u.view
        /\ v.sleeping = u.sleeping /\ v.engaged = u.engaged
        /\ v.touchAge = u.touchAge /\ v.inputAge = u.inputAge
    BY <2>3 DEF Sound, SoundTypes, Fields
  <2> QED
    BY <2>1, <2>2, <2>4 DEF Sound, SoundTypes, SoundDelays, NotOverdue
<1>5. CASE t[1] # "tab" /\ u.tab \notin {"Sessions", "Settings"}
  <2>1. v = u
    BY <1>5 DEF LitTouch
  <2> QED
    BY <2>1
<1> QED
  BY <1>2, <1>3, <1>4, <1>5

LEMMA TouchSound ==
  ASSUME NEW u, NEW st, NEW t \in Touches \cup {None}, Sound(u)
  PROVE  Sound(Touch(u, st, t))
<1> DEFINE touched == [u EXCEPT !.touchAge = 0, !.inputAge = 0, !.engaged = FALSE]
<1>1. /\ DOMAIN touched = Fields /\ touched.settings = u.settings
      /\ touched.tab = u.tab /\ touched.view = u.view
      /\ touched.sleeping = u.sleeping /\ touched.engaged = FALSE
      /\ touched.touchAge = 0 /\ touched.inputAge = 0
  BY DEF Sound, SoundTypes, Fields
<1>2. u.settings.art \in Nat
  BY Numbers DEF Sound, SoundTypes, Settings
<1>3. CASE t = None
  <2>1. Touch(u, st, t) = u
    BY <1>3 DEF Touch
  <2> QED
    BY <2>1
<1>4. CASE t # None /\ (u.sleeping \/ u.engaged)
  <2> DEFINE v == [touched EXCEPT !.sleeping = FALSE, !.prev = None]
  <2>1. Touch(u, st, t) = v
    BY <1>4 DEF Touch
  <2> HIDE DEF touched
  <2>2. /\ DOMAIN v = Fields /\ v.settings = u.settings /\ v.tab = u.tab
        /\ v.view = u.view /\ v.sleeping = FALSE /\ v.engaged = FALSE
        /\ v.touchAge = 0 /\ v.inputAge = 0
    BY <1>1 DEF Fields
  <2> HIDE DEF v
  <2>3. SoundTypes(v)
    BY <2>2, Numbers DEF Sound, SoundTypes
  <2>4. SoundDelays(v)
    BY <2>2, Numbers DEF Sound, SoundDelays
  <2>5. NotOverdue(v)
    BY <1>2, <2>2 DEF NotOverdue
  <2> QED
    BY <2>1, <2>3, <2>4, <2>5 DEF Sound
<1>5. CASE t # None /\ ~(u.sleeping \/ u.engaged)
  <2>1. Touch(u, st, t) = LitTouch(touched, st, t)
    BY <1>5 DEF Touch
  <2> HIDE DEF touched
  <2>2. SoundTypes(touched)
    BY <1>1, Numbers DEF Sound, SoundTypes
  <2>3. SoundDelays(touched)
    BY <1>1, <1>5, Numbers DEF Sound, SoundDelays
  <2>4. NotOverdue(touched)
    BY <1>1, <1>2 DEF NotOverdue
  <2>5. Sound(LitTouch(touched, st, t))
    BY <1>1, <1>5, <2>2, <2>3, <2>4, LitTouchSound DEF Sound
  <2> QED
    BY <2>1, <2>5
<1> QED
  BY <1>3, <1>4, <1>5

LEMMA KeepAwakeSound ==
  ASSUME NEW u, NEW st, Sound(u)
  PROVE  Sound(KeepAwake(u, st))
<1> DEFINE v == [u EXCEPT !.touchAge = 0, !.sleeping = FALSE,
                          !.prev = IF u.sleeping THEN None ELSE u.prev]
<1>1. /\ DOMAIN v = Fields /\ v.settings = u.settings /\ v.tab = u.tab
      /\ v.view = u.view /\ v.sleeping = FALSE /\ v.engaged = u.engaged
      /\ v.touchAge = 0 /\ v.inputAge = u.inputAge
  BY DEF Sound, SoundTypes, Fields
<1>2. KeepAwake(u, st) = v \/ KeepAwake(u, st) = u
  BY DEF KeepAwake, Sound, SoundTypes, Fields
<1> HIDE DEF v
<1>3. SoundTypes(v)
  BY <1>1, Numbers DEF Sound, SoundTypes
<1>4. SoundDelays(v)
  BY <1>1, Numbers DEF Sound, SoundTypes, SoundDelays
<1>5. CASE u.sleeping
  <2>1. NotOverdue(v)
    BY <1>1, <1>5 DEF Sound, SoundDelays, NotOverdue
  <2> QED
    BY <1>2, <1>3, <1>4, <2>1 DEF Sound
<1>6. CASE ~u.sleeping
  <2>1. NotOverdue(v)
    BY <1>1, <1>6 DEF Sound, NotOverdue
  <2> QED
    BY <1>2, <1>3, <1>4, <2>1 DEF Sound
<1> QED
  BY <1>5, <1>6

(* The screen does not fall asleep before the screensaver has come.        *)
LEMMA TimeoutSound ==
  ASSUME NEW u, Sound(u)
  PROVE  Sound(Timeout(u))
<1> DEFINE v == [u EXCEPT !.sleeping = TRUE]
<1> DEFINE due == u.settings.sleep > 0 /\ u.touchAge >= u.settings.sleep * Minute
<1>1. CASE ~due
  <2>1. Timeout(u) = u
    BY <1>1 DEF Timeout
  <2> QED
    BY <2>1
<1>2. CASE due
  <2>1. Timeout(u) = v
    BY <1>2 DEF Timeout
  <2>2. /\ DOMAIN v = Fields /\ v.settings = u.settings /\ v.tab = u.tab
        /\ v.view = u.view /\ v.sleeping = TRUE /\ v.engaged = u.engaged
        /\ v.touchAge = u.touchAge /\ v.inputAge = u.inputAge
    BY DEF Sound, SoundTypes, Fields
  <2>3. u.settings.art > 0 => u.engaged \/ u.sleeping
    <3> SUFFICES ASSUME u.settings.art > 0, ~u.engaged, ~u.sleeping
                 PROVE  FALSE
      OBVIOUS
    <3> DEFINE limit == u.settings.sleep * Minute
    <3>1. /\ u.settings.art \in Nat /\ u.settings.sleep \in Nat /\ Minute \in Nat
          /\ u.touchAge \in Nat /\ u.inputAge \in Nat
      BY Numbers DEF Sound, SoundTypes, Settings
    <3>2. limit \in Nat
      BY <3>1
    <3>3. u.settings.art < limit
      BY <1>2, <3>1 DEF Sound, SoundDelays, ArtIsValid
    <3>4. u.inputAge <= u.settings.art /\ u.touchAge <= u.inputAge
      BY DEF Sound, SoundDelays, NotOverdue
    <3>5. u.touchAge >= limit
      BY <1>2
    <3> HIDE DEF limit
    <3> QED
      BY <3>1, <3>2, <3>3, <3>4, <3>5
  <2> HIDE DEF v
  <2> QED
    BY <2>1, <2>2, <2>3 DEF Sound, SoundTypes, SoundDelays, NotOverdue
<1> QED
  BY <1>1, <1>2

(* After the rest of the iteration the screensaver is not due any more.    *)
LEMMA PaintSound ==
  ASSUME NEW u, NEW st, NEW frameDue, Sound(u)
  PROVE  Sound(Paint(u, st, frameDue)) /\ NotDue(Paint(u, st, frameDue))
<1> DEFINE w == Paint(u, st, frameDue)
<1>1. u.settings.art \in Nat /\ u.inputAge \in Nat
  BY Numbers DEF Sound, SoundTypes, Settings
<1>2. CASE u.sleeping
  <2>1. w = u
    BY <1>2 DEF Paint
  <2> QED
    BY <1>2, <2>1 DEF NotDue
<1>3. CASE ~u.sleeping
  <2>1. /\ DOMAIN w = Fields /\ w.settings = u.settings /\ w.tab = u.tab
        /\ w.view = u.view /\ w.sleeping = u.sleeping
        /\ w.touchAge = u.touchAge /\ w.inputAge = u.inputAge
        /\ w.engaged = (u.engaged \/ Engages(u))
    BY <1>3 DEF Paint, Sound, SoundTypes, Fields
  <2>2. ~Engages(u) /\ ~u.engaged /\ u.settings.art > 0 => u.inputAge < u.settings.art
    BY <1>1 DEF Engages
  <2>3. Engages(u) \in BOOLEAN
    BY DEF Engages
  <2> HIDE DEF w
  <2>4. SoundTypes(w)
    BY <2>1, <2>3 DEF Sound, SoundTypes
  <2>5. SoundDelays(w) /\ NotOverdue(w) /\ NotDue(w)
    BY <1>1, <1>3, <2>1, <2>2 DEF Sound, SoundDelays, NotOverdue, NotDue
  <2> QED
    BY <2>4, <2>5 DEF Sound, w
<1> QED
  BY <1>2, <1>3

LEMMA IterationSound ==
  ASSUME NEW u, NEW st, NEW t \in Touches \cup {None}, NEW frameDue, Sound(u)
  PROVE  /\ Sound(Iteration(u, st, t, frameDue))
         /\ NotDue(Iteration(u, st, t, frameDue))
<1> DEFINE start == [u EXCEPT !.ack = None]
<1>1. Sound(start)
  BY DEF Sound, SoundTypes, SoundDelays, NotOverdue, Fields
<1> HIDE DEF start
<1>2. Sound(Touch(start, st, t))
  BY <1>1, TouchSound
<1>3. Sound(KeepAwake(Touch(start, st, t), st))
  BY <1>2, KeepAwakeSound
<1>4. Sound(Timeout(KeepAwake(Touch(start, st, t), st)))
  BY <1>3, TimeoutSound
<1> QED
  BY <1>4, PaintSound DEF Iteration, start

-----------------------------------------------------------------------------
(* The invariant holds, whatever the user, the hub and the power do.       *)
LEMMA Invariance == Spec => []Inv
<1>1. Init => Inv
  <2> SUFFICES ASSUME Init
               PROVE  Inv
    OBVIOUS
  <2>1. nvs \in Settings
    BY DeviceAssumption DEF Init, DefaultSettings, Settings
  <2>2. Sound(ui)
    BY <2>1, BootSound DEF Init
  <2>3. shared \in Frames /\ silence \in 0..(OfflineAfter + 1) /\ ran = FALSE
    BY DeviceAssumption DEF Init
  <2> QED
    BY <2>1, <2>2, <2>3 DEF Inv
<1>2. Inv /\ [Next]_vars => Inv'
  <2> SUFFICES ASSUME Inv, [Next]_vars
               PROVE  Inv'
    OBVIOUS
  <2>1. ASSUME NEW t \in Touches \cup {None}, NEW frameDue \in BOOLEAN,
               Iterate(t, frameDue)
        PROVE  Inv'
    <3>1. Sound(ui') /\ NotDue(ui')
      BY <2>1, IterationSound DEF Inv, Iterate
    <3>2. nvs' \in Settings
      BY <2>1, <3>1 DEF Inv, Iterate, Sound, SoundTypes
    <3> QED
      BY <2>1, <3>1, <3>2 DEF Inv, Iterate, Sound, SoundTypes, SoundDelays,
                              NotOverdue, NotDue
  <2>2. ASSUME NEW frame \in Frames, Receive(frame)
        PROVE  Inv'
    BY <2>2, DeviceAssumption DEF Inv, Receive, Sound, SoundTypes, SoundDelays,
                                  NotOverdue, NotDue
  <2>3. CASE Silent
    <3>1. silence' \in 0..(OfflineAfter + 1)
      BY <2>3, DeviceAssumption DEF Inv, Silent
    <3> QED
      BY <2>3, <3>1 DEF Inv, Silent, Sound, SoundTypes, SoundDelays,
                        NotOverdue, NotDue
  <2>4. CASE Tick
    <3>1. /\ DOMAIN ui' = Fields /\ ui'.settings = ui.settings /\ ui'.tab = ui.tab
          /\ ui'.view = ui.view /\ ui'.sleeping = ui.sleeping
          /\ ui'.engaged = ui.engaged
          /\ ui'.touchAge = IF ui.touchAge < MaxAge THEN ui.touchAge + 1
                            ELSE ui.touchAge
          /\ ui'.inputAge = IF ui.inputAge < MaxAge THEN ui.inputAge + 1
                            ELSE ui.inputAge
      BY <2>4 DEF Inv, Tick, Sound, SoundTypes, Fields
    <3>2. /\ ui.touchAge \in 0..MaxAge /\ ui.inputAge \in 0..MaxAge
          /\ ui.settings.art \in Nat
      BY Numbers DEF Inv, Sound, SoundTypes, Settings
    <3>3. ui'.touchAge \in 0..MaxAge /\ ui'.inputAge \in 0..MaxAge
      BY <3>1, <3>2, Numbers
    <3>4. SoundTypes(ui')
      BY <3>1, <3>3 DEF Inv, Sound, SoundTypes
    <3>5. ui'.touchAge <= ui'.inputAge
      BY <3>1, <3>2, Numbers DEF Inv, Sound, SoundDelays
    <3>6. SoundDelays(ui')
      BY <3>1, <3>5 DEF Inv, Sound, SoundDelays
    <3>7. NotDue(ui)
      BY <2>4 DEF Inv, Tick
    <3>8. NotOverdue(ui')
      BY <3>1, <3>2, <3>7, Numbers DEF NotOverdue, NotDue
    <3> QED
      BY <2>4, <3>4, <3>6, <3>8 DEF Inv, Tick, Sound, SoundTypes, SoundDelays,
                                    NotOverdue
  <2>5. ASSUME nvs' \in Settings, Restart
        PROVE  Inv'
    <3>1. Sound(ui')
      BY <2>5, BootSound DEF Restart
    <3>2. shared' \in Frames /\ silence' \in 0..(OfflineAfter + 1) /\ ran' = FALSE
      BY <2>5, DeviceAssumption DEF Restart
    <3> QED
      BY <2>5, <3>1, <3>2 DEF Inv, Sound, SoundTypes, SoundDelays, NotOverdue
  <2>6. CASE PowerCut
    BY <2>5, <2>6 DEF Inv, PowerCut
  <2>7. ASSUME NEW t \in Touches, NEW k \in 1..Len(Keys), CutWhileSaving(t, k)
        PROVE  Inv'
    <3>1. SettingsTouch(ui.settings, t) \in Settings
      BY TouchFits DEF Inv, Sound, SoundTypes, SoundDelays
    <3>2. SavedUpTo(k, nvs, SettingsTouch(ui.settings, t)) \in Settings
      BY <3>1 DEF Inv, SavedUpTo, Settings
    <3> QED
      BY <2>5, <2>7, <3>2 DEF CutWhileSaving
  <2>8. CASE UNCHANGED vars
    BY <2>8 DEF Inv, vars, Sound, SoundTypes, SoundDelays, NotOverdue, NotDue
  <2> QED
    BY <2>1, <2>2, <2>3, <2>4, <2>6, <2>7, <2>8 DEF Next, Loop
<1> QED
  BY <1>1, <1>2, PTL DEF Spec

(* Every variable of the loop keeps its type; the view is the list or an   *)
(* index below the number of slots.                                        *)
THEOREM TypeCorrect == Spec => []TypeOK
<1>1. Inv => TypeOK
  BY DEF Inv, TypeOK, Sound, SoundTypes
<1> QED
  BY <1>1, Invariance, PTL

(* The screensaver's delay is shorter than the screen's in every state the *)
(* settings can reach, power cuts in the middle of a save included.        *)
THEOREM DelaysFit == Spec => []ArtFitsSleep
<1>1. Inv => ArtFitsSleep
  BY DEF Inv, ArtFitsSleep, Sound, SoundDelays
<1> QED
  BY <1>1, Invariance, PTL

(* The screen never sleeps before the screensaver has been on it.          *)
THEOREM ScreensaverFirst == Spec => []ArtComesBeforeSleep
<1>1. Inv => ArtComesBeforeSleep
  BY DEF Inv, ArtComesBeforeSleep, Sound, SoundDelays
<1> QED
  BY <1>1, Invariance, PTL

-----------------------------------------------------------------------------
(* The screen.  No painter covers all of it: what an iteration leaves is   *)
(* right only if what it does not cover was right before.  The invariant   *)
(* says of which painting the screen is, and that since then nothing has   *)
(* changed that the loop would not see in prev, painted or mood.           *)

States == [frame : Frames, offline : BOOLEAN]

(* The tab that was painted last, and the one that the loop should paint.  *)
Drawn(u) == IF u.engaged THEN "Pixel" ELSE u.prev.tab
Shows(u) == IF u.engaged THEN "Pixel" ELSE u.tab

(* The regions that the painters of a tab share, and what is left there.   *)
Shared(tab) ==
  CASE tab = "Usage"    -> {"strip", "foot"}
    [] tab = "Sessions" -> {"margin", "seams", "strip"}
    [] OTHER            -> {}
Patch(picture, tab, view, dark) ==
  picture[1] \in Leftovers(tab, view) /\ picture[2] = dark

Shown(u) ==
  /\ u.prev \in [state : States, tab : Tabs, view : Views, settings : Settings]
  /\ u.prev.settings.dark = u.settings.dark
  /\ u.painted = <<Drawn(u), u.engaged>>
  /\ Drawn(u) = "Pixel" => u.mood = MoodOf(u.prev.state)
  /\ u.marred \subseteq {"margin"}
  /\ Drawn(u) = "Sessions" /\ RowGone(u.prev.view, u.prev.state) => u.marred = {"margin"}
  /\ \A r \in Regions \ Uneven(Drawn(u), u.prev.view, u.prev.state, u.marred) :
       u.screen[r] = Render(u.screen, u.prev.state, Drawn(u), u.prev.view,
                            u.prev.settings, TRUE, u.engaged)[r]
  /\ \A r \in Shared(Drawn(u)) :
       Patch(u.screen[r], Drawn(u), u.prev.view, u.settings.dark)

Glass(u) ==
  /\ DOMAIN u.screen = Regions
  /\ u.prev # None => Shown(u)

(* The screen is as a full repaint of st would leave it.                   *)
Follows(u, st) ==
  /\ \A r \in Regions \ Uneven(Shows(u), u.view, st, u.marred) :
       u.screen[r] = Render(u.screen, st, Shows(u), u.view, u.settings,
                            TRUE, u.engaged)[r]
  /\ u.marred \subseteq {"margin"}
  /\ \A r \in Shared(Shows(u)) : Patch(u.screen[r], Shows(u), u.view, u.settings.dark)

(* What the painter of a tab covers.                                       *)
Covers(tab, view, st) ==
  CASE tab = "Metrics"  -> {"body", "margin", "seams", "strip", "foot"}
    [] tab = "Settings" -> {"body", "strip", "foot"}
    [] tab = "Pixel"    -> {"body"}
    [] tab = "Usage"    -> {"body"} \cup IF st.offline THEN {"strip", "foot"} ELSE {}
    [] tab = "Sessions" ->
         IF DetailShows(view, st) THEN {"body", "seams", "strip", "foot"}
         ELSE {"body", "margin", "foot"}
              \cup (IF st.offline \/ st.frame.rows # <<>> THEN {} ELSE {"seams"})
              \cup (IF st.offline THEN {"strip"} ELSE {})

(* A painting holds its picture in each of its regions, and a picture its  *)
(* parts: facts about records and tuples that the provers need spelled out.*)
LEMMA BannerParts ==
  ASSUME NEW dark
  PROVE  /\ DOMAIN Banner(dark) = {"strip", "foot"}
         /\ \A r \in {"strip", "foot"} : Banner(dark)[r] = <<"hub offline", dark>>
<1> DEFINE picture == <<"hub offline", dark>>
<1>1. Banner(dark) = [strip |-> picture, foot |-> picture]
  BY DEF Banner
<1> HIDE DEF picture
<1>2. /\ DOMAIN Banner(dark) = {"strip", "foot"}
      /\ \A r \in {"strip", "foot"} : Banner(dark)[r] = picture
  BY <1>1
<1> QED
  BY <1>2 DEF picture

LEMMA PairParts ==
  ASSUME NEW picture, NEW a, NEW b, picture = <<a, b>>
  PROVE  picture[1] = a /\ picture[2] = b
OBVIOUS

LEMMA TripleParts ==
  ASSUME NEW picture, NEW a, NEW b, NEW c, picture = <<a, b, c>>
  PROVE  picture[1] = a /\ picture[2] = b /\ picture[3] = c
OBVIOUS

LEMMA QuadrupleParts ==
  ASSUME NEW picture, NEW a, NEW b, NEW c, NEW d, picture = <<a, b, c, d>>
  PROVE  picture[1] = a /\ picture[2] = b /\ picture[3] = c /\ picture[4] = d
OBVIOUS

LEMMA PaintedDomain ==
  ASSUME NEW regions, NEW picture
  PROVE  /\ DOMAIN Painted(regions, picture) = regions
         /\ \A r \in regions : Painted(regions, picture)[r] = picture
BY DEF Painted

(* The pictures that it leaves in the shared regions are of its tab.       *)
LEMMA ContentCovers ==
  ASSUME NEW st, NEW tab \in Tabs, NEW view, NEW set
  PROVE  /\ DOMAIN Content(st, tab, view, set) = Covers(tab, view, st)
         /\ \A r \in Covers(tab, view, st) \cap Shared(tab) :
              Patch(Content(st, tab, view, set)[r], tab, view, set.dark)
<1> DEFINE C == Content(st, tab, view, set)
<1>1. CASE tab \in {"Metrics", "Settings", "Pixel"}
  <2>1. DOMAIN C = Covers(tab, view, st)
    BY <1>1, PaintedDomain DEF Content, RenderMetrics, RenderSettings, RenderPixel, Covers, Regions
  <2>2. Shared(tab) = {}
    BY <1>1 DEF Shared
  <2> QED
    BY <2>1, <2>2
<1>2. CASE tab = "Usage"
  <2> DEFINE banner == IF st.offline THEN Banner(set.dark) ELSE EmptyOf
             top == [body |-> <<"usage", set.dark, st.frame.usage>>]
  <2>1. C = Over(top, banner)
    BY <1>2 DEF Content, RenderUsage
  <2>2. /\ DOMAIN banner = IF st.offline THEN {"strip", "foot"} ELSE {}
        /\ DOMAIN top = {"body"}
        /\ \A r \in DOMAIN banner : banner[r] = <<"hub offline", set.dark>>
    <3> HIDE DEF C
    <3>1. CASE st.offline
      <4>1. banner = Banner(set.dark)
        BY <3>1
      <4> HIDE DEF banner, top
      <4>2. /\ DOMAIN banner = {"strip", "foot"}
            /\ \A r \in {"strip", "foot"} : banner[r] = <<"hub offline", set.dark>>
        BY <4>1, BannerParts
      <4> QED
        BY <3>1, <4>2 DEF top
    <3>2. CASE ~st.offline
      BY <3>2 DEF EmptyOf
    <3> QED
      BY <3>1, <3>2
  <2> HIDE DEF C, banner, top
  <2>3. DOMAIN C = Covers(tab, view, st)
    BY <1>2, <2>1, <2>2 DEF Covers, Over
  <2>4. ASSUME NEW r \in Covers(tab, view, st) \cap Shared(tab)
        PROVE  Patch(C[r], tab, view, set.dark)
    <3>1. r \in DOMAIN banner \ DOMAIN top
      BY <1>2, <2>2 DEF Covers, Shared
    <3>2. C[r] = <<"hub offline", set.dark>>
      BY <2>1, <2>2, <3>1 DEF Over
    <3>3. C[r][1] = "hub offline" /\ C[r][2] = set.dark
      BY <3>2, PairParts
    <3> QED
      BY <3>3, <1>2 DEF Patch, Leftovers
  <2> QED
    BY <2>3, <2>4 DEF C
<1>3. CASE tab = "Sessions" /\ DetailShows(view, st)
  <2> DEFINE row == st.frame.rows[view]
             upper == <<"detail", set.dark, row>>
             lower == <<IF row.status = "waiting" THEN "Clear waiting" ELSE "hint", set.dark>>
             top == Painted({"body", "seams"}, upper)
             under == Painted({"strip", "foot"}, lower)
  <2>1. C = Over(top, under)
    BY <1>3 DEF Content, RenderDetail
  <2>2. /\ DOMAIN top = {"body", "seams"} /\ \A r \in {"body", "seams"} : top[r] = upper
        /\ DOMAIN under = {"strip", "foot"} /\ \A r \in {"strip", "foot"} : under[r] = lower
    BY PaintedDomain
  <2>3. Patch(upper, tab, view, set.dark) /\ Patch(lower, tab, view, set.dark)
    BY <1>3 DEF Patch, Leftovers, DetailShows
  <2> HIDE DEF C, top, under, upper, lower
  <2>4. DOMAIN C = Covers(tab, view, st)
    BY <1>3, <2>1, <2>2 DEF Covers, Over
  <2>5. C["seams"] = upper /\ C["strip"] = lower
    BY <2>1, <2>2 DEF Over
  <2>6. Covers(tab, view, st) \cap Shared(tab) = {"seams", "strip"}
    BY <1>3 DEF Covers, Shared
  <2> QED
    BY <2>3, <2>4, <2>5, <2>6 DEF C
<1>4. CASE tab = "Sessions" /\ ~DetailShows(view, st)
  <2> DEFINE under == IF st.offline THEN Banner(set.dark)
                      ELSE [foot |-> <<"counts", set.dark, Count(st.frame, "working"),
                                       Count(st.frame, "waiting")>>]
             filled == IF st.offline \/ st.frame.rows # <<>> THEN {"body", "margin"}
                       ELSE {"body", "margin", "seams"}
             picture == <<"list", set.dark, st.frame.usage, Cards(st)>>
             top == Painted(filled, picture)
  <2>1. C = Over(top, under)
    BY <1>4 DEF Content, RenderSessions
  <2>2. /\ DOMAIN under = IF st.offline THEN {"strip", "foot"} ELSE {"foot"}
        /\ "strip" \in DOMAIN under => under["strip"] = <<"hub offline", set.dark>>
    BY DEF Banner
  <2>3. DOMAIN top = filled /\ \A r \in filled : top[r] = picture
    BY PaintedDomain
  <2>4. Patch(picture, tab, view, set.dark)
    BY <1>4 DEF Patch, Leftovers
  <2>5. filled \subseteq {"body", "margin", "seams"} /\ "strip" \notin filled
    OBVIOUS
  <2> HIDE DEF C, under, top, picture
  <2>6. DOMAIN C = Covers(tab, view, st)
    BY <1>4, <2>1, <2>2, <2>3 DEF Covers, Over
  <2> HIDE DEF filled
  <2>7. ASSUME NEW r \in Covers(tab, view, st) \cap Shared(tab)
        PROVE  Patch(C[r], tab, view, set.dark)
    <3>1. r \in DOMAIN C /\ r \in {"margin", "seams", "strip"}
      BY <1>4, <2>6, <2>7 DEF Shared
    <3>2. CASE r \in filled
      BY <2>1, <2>3, <2>4, <3>2 DEF Over
    <3>3. CASE r \notin filled
      <4>1. r \in DOMAIN under /\ r = "strip"
        BY <2>1, <2>2, <2>3, <3>1, <3>3 DEF Over
      <4>2. C[r] = <<"hub offline", set.dark>>
        BY <2>1, <2>2, <2>3, <3>3, <4>1 DEF Over
      <4>3. C[r][1] = "hub offline" /\ C[r][2] = set.dark
        BY <4>2, PairParts
      <4> QED
        BY <4>3, <1>4 DEF Patch, Leftovers
    <3> QED
      BY <3>2, <3>3
  <2> QED
    BY <2>6, <2>7 DEF C
<1> QED
  BY <1>1, <1>2, <1>3, <1>4 DEF Tabs

(* What is neither covered nor uneven now was neither when old was shown,  *)
(* unless the row under the detail has come back.                          *)
LEMMA StillBare ==
  ASSUME NEW st, NEW old, NEW tab \in Tabs, NEW view, NEW marred, NEW before,
         before \subseteq marred, marred \subseteq {"margin"}, NEW r \in Regions,
         r \notin Uneven(tab, view, st, marred), r \notin Covers(tab, view, st),
         tab = "Sessions" /\ RowGone(view, old) => marred = {"margin"}
  PROVE  r \notin Uneven(tab, view, old, before) /\ r \notin Covers(tab, view, old)
<1>1. CASE tab # "Sessions"
  BY <1>1 DEF Tabs, Uneven, Covers
<1>2. CASE tab = "Sessions" /\ r \in {"bar", "back"}
  BY <1>2 DEF Uneven, Covers
<1>3. CASE tab = "Sessions" /\ r \notin {"bar", "back"}
  <2>1. DetailShows(view, st) /\ r = "margin" /\ r \notin marred
    BY <1>3 DEF Regions, Uneven, Covers
  <2>2. DetailShows(view, old)
    BY <1>3, <2>1 DEF DetailShows, RowGone
  <2> QED
    BY <1>3, <2>1, <2>2 DEF Uneven, Covers
<1> QED
  BY <1>1, <1>2, <1>3

(* What stays where it was painted, when the state has not changed in what *)
(* the loop compares.                                                      *)
LEMMA SameContent ==
  ASSUME NEW st, NEW old, NEW tab \in Tabs, NEW view, NEW set, NEW oldSet, NEW marred,
         oldSet.dark = set.dark,
         tab = "Settings" => oldSet = set,
         tab = "Metrics" => old.frame.metrics = st.frame.metrics,
         tab = "Pixel" => MoodOf(old) = MoodOf(st),
         tab \in {"Sessions", "Usage"} => old = st
  PROVE  /\ Content(old, tab, view, oldSet) = Content(st, tab, view, set)
         /\ Uneven(tab, view, old, marred) = Uneven(tab, view, st, marred)
<1>1. CASE tab \in {"Metrics", "Settings", "Pixel"}
  <2>1. Content(old, tab, view, oldSet) = Content(st, tab, view, set)
    BY <1>1 DEF Content, RenderMetrics, RenderSettings, RenderPixel
  <2>2. Uneven(tab, view, old, marred) = Uneven(tab, view, st, marred)
    BY <1>1 DEF Uneven
  <2> QED
    BY <2>1, <2>2
<1>2. CASE tab \in {"Sessions", "Usage"}
  BY <1>2 DEF Content
<1> QED
  BY <1>1, <1>2 DEF Tabs

LEMMA PaintFollows ==
  ASSUME NEW u, NEW st \in States, NEW frameDue \in BOOLEAN, Sound(u), Glass(u)
  PROVE  LET w == Paint(u, st, frameDue)
         IN  Glass(w) /\ (~w.sleeping => Follows(w, st))
<1> DEFINE w == Paint(u, st, frameDue)
           engaged == u.engaged \/ Engages(u)
           tab == IF engaged THEN "Pixel" ELSE u.tab
           artDirty == /\ u.engaged \/ u.tab = "Pixel"
                       /\ Engages(u) \/ MoodOf(st) # u.mood \/ frameDue
           clear == \/ u.prev = None \/ u.prev.tab # u.tab \/ u.prev.view # u.view
                    \/ u.painted # <<tab, engaged>>
<1>1. /\ DOMAIN u = Fields /\ u.tab \in Tabs /\ u.view \in Views
      /\ u.settings \in Settings /\ engaged \in BOOLEAN /\ clear \in BOOLEAN
      /\ tab \in Tabs /\ (engaged => tab = "Pixel") /\ DOMAIN u.screen = Regions
  BY DEF Sound, SoundTypes, Glass, Engages, Tabs
<1>2. CASE u.sleeping
  <2>1. w = u
    BY <1>2 DEF Paint
  <2> HIDE DEF w
  <2> QED
    BY <1>2, <2>1 DEF w
<1>3. CASE ~u.sleeping /\ (clear \/ artDirty \/ ContentChanged(u, st))
  <2> DEFINE screen == Render(u.screen, st, tab, u.view, u.settings, clear, engaged)
             prev == [state |-> st, tab |-> u.tab, view |-> u.view,
                      settings |-> u.settings]
             marred == Marred(u, tab, st, clear)
  <2>1. /\ w.screen = screen /\ w.prev = prev /\ w.painted = <<tab, engaged>>
        /\ w.engaged = engaged /\ w.mood = MoodOf(st) /\ w.settings = u.settings
        /\ w.tab = u.tab /\ w.view = u.view /\ w.marred = marred
    BY <1>1, <1>3 DEF Paint, Fields
  <2> HIDE DEF w, engaged
  <2>2. Drawn(w) = tab /\ Shows(w) = tab
    BY <2>1 DEF Drawn, Shows
  <2> HIDE DEF tab, clear, artDirty
  <2> DEFINE bar == Bar(u.settings.dark, tab, engaged)
             painting == Content(st, tab, u.view, u.settings)
             content == Over(painting, bar)
             wiped == Wiped(u.settings.dark)
             covered == Covers(tab, u.view, st)
             uneven == Uneven(tab, u.view, st, marred)
  <2>3. /\ DOMAIN bar = IF engaged THEN {} ELSE {"bar"}
        /\ DOMAIN wiped = Regions
        /\ \A r \in Regions : wiped[r] = <<"blank", u.settings.dark>>
    BY DEF Bar, EmptyOf, Wiped
  <2>4. /\ screen = Over(content, IF clear THEN wiped ELSE u.screen)
        /\ Render(screen, st, tab, u.view, u.settings, TRUE, engaged) = Over(content, wiped)
    BY DEF Render
  <2>5. /\ DOMAIN painting = covered
        /\ \A r \in covered \cap Shared(tab) : Patch(painting[r], tab, u.view, u.settings.dark)
    BY <1>1, ContentCovers
  <2>6. covered \subseteq Regions \ {"bar"}
    BY <1>1 DEF Covers, Regions, Tabs
  <2> HIDE DEF screen, bar, wiped, painting, covered, uneven
  <2>7. /\ DOMAIN content = covered \cup DOMAIN bar /\ DOMAIN content \subseteq Regions
        /\ \A r \in covered : content[r] = painting[r]
    <3>1. DOMAIN bar \subseteq Regions
      BY <2>3 DEF Regions
    <3> QED
      BY <2>5, <2>6, <3>1 DEF Over
  <2> HIDE DEF content
  <2>8. DOMAIN screen = Regions
    BY <1>1, <2>3, <2>4, <2>7 DEF Over
  <2>9. /\ \A r \in DOMAIN content : screen[r] = content[r] /\ Over(content, wiped)[r] = content[r]
        /\ \A r \in Regions \ DOMAIN content :
             /\ screen[r] = IF clear THEN wiped[r] ELSE u.screen[r]
             /\ Over(content, wiped)[r] = wiped[r]
    BY <1>1, <2>3, <2>4, <2>7 DEF Over
  (* Without a clear the screen was of the same tab and view before.       *)
  <2>10. ASSUME ~clear
         PROVE  /\ Shown(u) /\ Drawn(u) = tab /\ u.engaged = engaged /\ u.prev.view = u.view
                /\ u.marred \subseteq marred
                /\ tab = "Sessions" /\ RowGone(u.view, u.prev.state) => marred = {"margin"}
    <3>1. u.prev # None /\ u.prev.view = u.view /\ u.painted = <<tab, engaged>>
      BY <2>10 DEF clear
    <3>2. Shown(u)
      BY <3>1 DEF Glass
    <3>3. <<Drawn(u), u.engaged>> = <<tab, engaged>>
      BY <3>1, <3>2 DEF Shown
    <3>4. /\ u.marred \subseteq marred
          /\ u.marred = {"margin"} => marred = {"margin"}
      BY <2>10 DEF Marred
    <3> QED
      BY <3>1, <3>2, <3>3, <3>4 DEF Shown
  <2>11. /\ marred \subseteq {"margin"}
         /\ tab = "Sessions" /\ RowGone(u.view, st) => marred = {"margin"}
    <3>1. ~clear => u.marred \subseteq {"margin"}
      BY <2>10 DEF Shown
    <3> QED
      BY <3>1 DEF Marred
  <2> HIDE DEF marred
  <2>12. ASSUME NEW r \in Regions, r \notin uneven, r \notin DOMAIN content, ~clear
         PROVE  u.screen[r] = wiped[r]
    <3> DEFINE before == u.prev.state
               set == u.prev.settings
               picture == Content(before, tab, u.view, set)
               old == Over(picture, bar)
    <3>1. /\ Shown(u) /\ Drawn(u) = tab /\ u.engaged = engaged /\ u.prev.view = u.view
          /\ u.marred \subseteq marred
          /\ tab = "Sessions" /\ RowGone(u.view, u.prev.state) => marred = {"margin"}
      BY <2>10, <2>12
    <3>2. r \notin Uneven(tab, u.view, before, u.marred) /\ r \notin Covers(tab, u.view, before)
      <4> HIDE DEF before
      <4>1. r \notin Uneven(tab, u.view, st, marred) /\ r \notin Covers(tab, u.view, st)
        BY <2>7, <2>12 DEF uneven, covered
      <4>2. tab = "Sessions" /\ RowGone(u.view, before) => marred = {"margin"}
        BY <3>1 DEF before
      <4> QED
        BY <1>1, <2>11, <3>1, <4>1, <4>2, StillBare
    <3>3. u.screen[r] = Render(u.screen, u.prev.state, tab, u.view,
                               u.prev.settings, TRUE, engaged)[r]
      BY <2>12, <3>1, <3>2 DEF Shown
    <3>4. Render(u.screen, u.prev.state, tab, u.view, u.prev.settings, TRUE, engaged)
            = Over(old, wiped)
      BY <3>1 DEF Render, Shown, bar, wiped
    <3>5. r \notin DOMAIN old
      <4> HIDE DEF before, set
      <4>1. DOMAIN picture = Covers(tab, u.view, before)
        BY <1>1, ContentCovers
      <4> HIDE DEF picture
      <4>2. r \notin DOMAIN bar
        BY <2>7, <2>12
      <4> QED
        BY <3>2, <4>1, <4>2 DEF Over
    <3> HIDE DEF old
    <3>6. Over(old, wiped)[r] = wiped[r]
      BY <2>3, <3>5 DEF Over
    <3> QED
      BY <3>3, <3>4, <3>6
  <2>13. ASSUME NEW r \in Regions \ uneven
         PROVE  screen[r] = Render(screen, st, tab, u.view, u.settings, TRUE, engaged)[r]
    <3>1. CASE r \in DOMAIN content
      BY <2>4, <2>9, <3>1
    <3>2. CASE r \notin DOMAIN content
      BY <2>4, <2>9, <2>12, <2>13, <3>2
    <3> QED
      BY <3>1, <3>2
  <2>14. ASSUME NEW r \in Shared(tab)
         PROVE  Patch(screen[r], tab, u.view, u.settings.dark)
    <3>1. r \in Regions /\ r \notin {"bar"}
      BY <1>1 DEF Shared, Regions
    <3>2. CASE r \in covered
      BY <2>5, <2>7, <2>9, <2>14, <3>2
    <3>3. CASE r \notin covered
      <4>1. r \in Regions \ DOMAIN content
        BY <2>3, <2>7, <3>1, <3>3
      <4>2. CASE clear
        <5>1. screen[r] = <<"blank", u.settings.dark>>
          BY <2>3, <2>9, <4>1, <4>2
        <5> QED
          BY <5>1 DEF Patch, Leftovers
      <4>3. CASE ~clear
        <5>1. Shown(u) /\ Drawn(u) = tab /\ u.prev.view = u.view
          BY <2>10, <4>3
        <5>2. Patch(u.screen[r], tab, u.view, u.settings.dark)
          BY <2>14, <5>1 DEF Shown
        <5> QED
          BY <2>9, <4>1, <4>3, <5>2
      <4> QED
        BY <4>2, <4>3
    <3> QED
      BY <3>2, <3>3
  <2>15. Follows(w, st)
    BY <2>1, <2>2, <2>11, <2>13, <2>14 DEF Follows, uneven
  <2>16. /\ prev \in [state : States, tab : Tabs, view : Views, settings : Settings]
        /\ prev.state = st /\ prev.view = u.view /\ prev.settings = u.settings
    BY <1>1
  <2> HIDE DEF prev
  <2>17. Shown(w)
    <3>1. /\ w.prev \in [state : States, tab : Tabs, view : Views, settings : Settings]
          /\ w.prev.settings.dark = w.settings.dark
          /\ w.painted = <<Drawn(w), w.engaged>>
          /\ Drawn(w) = "Pixel" => w.mood = MoodOf(w.prev.state)
      BY <2>1, <2>2, <2>16
    <3>2. /\ w.marred \subseteq {"margin"}
          /\ Drawn(w) = "Sessions" /\ RowGone(w.prev.view, w.prev.state) => w.marred = {"margin"}
      BY <2>1, <2>2, <2>11, <2>16
    <3>3. \A r \in Regions \ Uneven(Drawn(w), w.prev.view, w.prev.state, w.marred) :
            w.screen[r] = Render(w.screen, w.prev.state, Drawn(w), w.prev.view,
                                 w.prev.settings, TRUE, w.engaged)[r]
      BY <2>1, <2>2, <2>13, <2>16 DEF uneven
    <3>4. \A r \in Shared(Drawn(w)) : Patch(w.screen[r], Drawn(w), w.prev.view, w.settings.dark)
      BY <2>1, <2>2, <2>14, <2>16
    <3> QED
      BY <3>1, <3>2, <3>3, <3>4 DEF Shown
  <2> QED
    BY <2>1, <2>8, <2>15, <2>17 DEF Glass, w
<1>4. CASE ~u.sleeping /\ ~(clear \/ artDirty \/ ContentChanged(u, st))
  <2>1. w = [u EXCEPT !.engaged = engaged, !.mood = MoodOf(st)]
    BY <1>4 DEF Paint
  <2>2. /\ w.screen = u.screen /\ w.prev = u.prev /\ w.painted = u.painted
        /\ w.engaged = engaged /\ w.mood = MoodOf(st) /\ w.settings = u.settings
        /\ w.tab = u.tab /\ w.view = u.view /\ w.marred = u.marred
    BY <1>1, <2>1 DEF Fields
  <2>3. /\ u.prev # None /\ u.prev.tab = u.tab /\ u.prev.view = u.view
        /\ u.painted = <<tab, engaged>>
    BY <1>4
  <2>4. Shown(u) /\ u.engaged = engaged /\ Drawn(u) = tab
    <3>1. Shown(u)
      BY <2>3 DEF Glass
    <3> HIDE DEF tab, engaged, w
    <3>2. <<Drawn(u), u.engaged>> = <<tab, engaged>>
      BY <2>3, <3>1 DEF Shown
    <3> QED
      BY <3>1, <3>2
  <2>5. tab = "Pixel" => MoodOf(st) = u.mood
    BY <1>4, <2>4
  <2>6. ~engaged => ~ContentChanged(u, st)
    BY <1>4
  <2>7. Drawn(w) = tab /\ Shows(w) = tab
    BY <2>2, <2>3 DEF Drawn, Shows
  <2>8. /\ tab = "Settings" => u.prev.settings = u.settings
        /\ tab = "Metrics" => u.prev.state.frame.metrics = st.frame.metrics
        /\ tab \in {"Sessions", "Usage"} => u.prev.state = st
    BY <2>6 DEF ContentChanged
  <2> HIDE DEF w, engaged, tab, clear, artDirty
  <2>9. u.prev.settings.dark = u.settings.dark /\ (tab = "Pixel" => MoodOf(u.prev.state) = MoodOf(st))
    BY <2>4, <2>5 DEF Shown
  <2>10. /\ Content(u.prev.state, tab, u.view, u.prev.settings)
              = Content(st, tab, u.view, u.settings)
         /\ Uneven(tab, u.view, u.prev.state, u.marred) = Uneven(tab, u.view, st, u.marred)
    BY <1>1, <2>8, <2>9, SameContent, SMTT(60)
  <2>11. Render(u.screen, u.prev.state, tab, u.view, u.prev.settings, TRUE, engaged)
           = Render(u.screen, st, tab, u.view, u.settings, TRUE, engaged)
    BY <2>9, <2>10 DEF Render
  <2>12. Follows(w, st)
    <3>1. \A r \in Regions \ Uneven(tab, u.view, st, u.marred) :
            u.screen[r] = Render(u.screen, st, tab, u.view, u.settings, TRUE, engaged)[r]
      BY <2>3, <2>4, <2>10, <2>11 DEF Shown
    <3>2. /\ u.marred \subseteq {"margin"}
          /\ \A r \in Shared(tab) : Patch(u.screen[r], tab, u.view, u.settings.dark)
      BY <2>3, <2>4 DEF Shown
    <3> QED
      BY <2>2, <2>7, <3>1, <3>2 DEF Follows
  <2>13. Shown(w)
    BY <2>2, <2>3, <2>4, <2>5, <2>7 DEF Shown
  <2> QED
    BY <1>1, <2>2, <2>12, <2>13 DEF Glass, w
<1> QED
  BY <1>2, <1>3, <1>4
(* Until then the glass is untouched, and a change that the loop would not *)
(* see otherwise takes prev away.                                          *)
LEMMA GlassKept ==
  ASSUME NEW u, NEW v, Glass(u), v.screen = u.screen, v.prev = u.prev \/ v.prev = None,
         v.prev # None => /\ v.painted = u.painted /\ v.engaged = u.engaged
                          /\ v.marred = u.marred
                          /\ v.mood = u.mood /\ v.settings.dark = u.settings.dark
  PROVE  Glass(v)
<1>1. CASE v.prev = None
  BY <1>1 DEF Glass
<1>2. CASE v.prev # None
  <2>1. Shown(u) /\ Drawn(v) = Drawn(u)
    BY <1>2 DEF Glass, Drawn
  <2>2. Shown(v)
    BY <1>2, <2>1 DEF Shown
  <2> QED
    BY <2>2 DEF Glass
<1> QED
  BY <1>1, <1>2

LEMMA LitTouchGlass ==
  ASSUME NEW u, NEW st, NEW t, DOMAIN u = Fields, Glass(u)
  PROVE  Glass(LitTouch(u, st, t))
<1> DEFINE v == LitTouch(u, st, t)
           set == SettingsTouch(u.settings, t)
<1>1. CASE t[1] = "tab"
  <2>1. v = [u EXCEPT !.tab = t[2], !.view = List]
    BY <1>1 DEF LitTouch
  <2> QED
    BY <2>1, GlassKept DEF Fields
<1>2. CASE t[1] # "tab" /\ u.tab = "Sessions"
  <2>1. v = [u EXCEPT !.view = SessionsTouch(u.view, st, t),
                      !.ack = AckOf(u.view, st, t)]
    BY <1>2 DEF LitTouch
  <2> QED
    BY <2>1, GlassKept DEF Fields
<1>3. CASE t[1] # "tab" /\ u.tab = "Settings"
  <2>1. v = [u EXCEPT !.settings = set,
                      !.prev = IF set.dark # u.settings.dark THEN None ELSE u.prev]
    BY <1>3 DEF LitTouch, Fields
  <2> HIDE DEF set
  <2>2. /\ v.screen = u.screen /\ v.painted = u.painted /\ v.engaged = u.engaged
        /\ v.mood = u.mood /\ v.settings = set /\ v.marred = u.marred
        /\ v.prev = IF set.dark # u.settings.dark THEN None ELSE u.prev
    BY <2>1 DEF Fields
  <2> HIDE DEF v
  <2>3. Glass(v)
    BY <2>2, GlassKept
  <2> QED
    BY <2>3 DEF v
<1>4. CASE t[1] # "tab" /\ u.tab \notin {"Sessions", "Settings"}
  BY <1>4 DEF LitTouch
<1> QED
  BY <1>1, <1>2, <1>3, <1>4

LEMMA TouchGlass ==
  ASSUME NEW u, NEW st, NEW t, Sound(u), Glass(u)
  PROVE  Glass(Touch(u, st, t))
<1> DEFINE touched == [u EXCEPT !.touchAge = 0, !.inputAge = 0, !.engaged = FALSE]
<1>1. /\ DOMAIN touched = Fields /\ touched.settings = u.settings
      /\ touched.screen = u.screen /\ touched.prev = u.prev
      /\ touched.painted = u.painted /\ touched.mood = u.mood /\ touched.marred = u.marred
      /\ touched.engaged = FALSE /\ u.engaged \in BOOLEAN
  BY DEF Sound, SoundTypes, Fields
<1>2. CASE t = None
  BY <1>2 DEF Touch
<1>3. CASE t # None /\ (u.sleeping \/ u.engaged)
  <2> DEFINE v == [touched EXCEPT !.sleeping = FALSE, !.prev = None]
  <2>1. Touch(u, st, t) = v
    BY <1>3 DEF Touch
  <2> HIDE DEF touched
  <2>2. v.screen = u.screen /\ v.prev = None
    BY <1>1 DEF Fields
  <2> HIDE DEF v
  <2> QED
    BY <2>1, <2>2, GlassKept
<1>4. CASE t # None /\ ~(u.sleeping \/ u.engaged)
  <2>1. Touch(u, st, t) = LitTouch(touched, st, t)
    BY <1>4 DEF Touch
  <2> HIDE DEF touched
  <2>2. touched.engaged = u.engaged
    BY <1>1, <1>4
  <2>3. Glass(touched)
    BY <1>1, <2>2, GlassKept
  <2> QED
    BY <1>1, <2>1, <2>3, LitTouchGlass
<1> QED
  BY <1>2, <1>3, <1>4

LEMMA AwakeGlass ==
  ASSUME NEW u, NEW st, DOMAIN u = Fields, Glass(u)
  PROVE  Glass(KeepAwake(u, st))
<1> DEFINE v == [u EXCEPT !.touchAge = 0, !.sleeping = FALSE,
                          !.prev = IF u.sleeping THEN None ELSE u.prev]
<1>1. KeepAwake(u, st) = v \/ KeepAwake(u, st) = u
  BY DEF KeepAwake, Fields
<1>2. /\ v.screen = u.screen /\ v.painted = u.painted /\ v.engaged = u.engaged
      /\ v.mood = u.mood /\ v.settings = u.settings /\ v.marred = u.marred
      /\ v.prev = IF u.sleeping THEN None ELSE u.prev
  BY DEF Fields
<1> HIDE DEF v
<1>3. Glass(v)
  BY <1>2, GlassKept
<1> QED
  BY <1>1, <1>3

LEMMA TimeoutGlass ==
  ASSUME NEW u, DOMAIN u = Fields, Glass(u)
  PROVE  Glass(Timeout(u))
<1> DEFINE v == [u EXCEPT !.sleeping = TRUE]
<1>1. Timeout(u) = v \/ Timeout(u) = u
  BY DEF Timeout
<1>2. /\ v.screen = u.screen /\ v.painted = u.painted /\ v.engaged = u.engaged
      /\ v.mood = u.mood /\ v.settings = u.settings /\ v.marred = u.marred /\ v.prev = u.prev
  BY DEF Fields
<1> HIDE DEF v
<1>3. Glass(v)
  BY <1>2, GlassKept
<1> QED
  BY <1>1, <1>3

LEMMA IterationFollows ==
  ASSUME NEW u, NEW st \in States, NEW t \in Touches \cup {None},
         NEW frameDue \in BOOLEAN, Sound(u), Glass(u)
  PROVE  /\ Glass(Iteration(u, st, t, frameDue))
         /\ ~Iteration(u, st, t, frameDue).sleeping
              => Follows(Iteration(u, st, t, frameDue), st)
<1> DEFINE start == [u EXCEPT !.ack = None]
<1>1. /\ Sound(start) /\ start.screen = u.screen /\ start.prev = u.prev
      /\ start.painted = u.painted /\ start.engaged = u.engaged
      /\ start.mood = u.mood /\ start.settings = u.settings /\ start.marred = u.marred
  BY DEF Sound, SoundTypes, SoundDelays, NotOverdue, Fields
<1> HIDE DEF start
<1>2. Glass(start)
  BY <1>1, GlassKept
<1> DEFINE touched == Touch(start, st, t)
           awake == KeepAwake(touched, st)
           timed == Timeout(awake)
<1>3. Sound(touched) /\ Glass(touched)
  BY <1>1, <1>2, TouchSound, TouchGlass
<1> HIDE DEF touched
<1>4. Sound(awake) /\ Glass(awake)
  BY <1>3, KeepAwakeSound, AwakeGlass DEF Sound, SoundTypes
<1> HIDE DEF awake
<1>5. Sound(timed) /\ Glass(timed)
  BY <1>4, TimeoutSound, TimeoutGlass DEF Sound, SoundTypes
<1> HIDE DEF timed
<1>6. Iteration(u, st, t, frameDue) = Paint(timed, st, frameDue)
  BY DEF Iteration, start, touched, awake, timed
<1> QED
  BY <1>5, <1>6, PaintFollows

-----------------------------------------------------------------------------
ScreenInv == Inv /\ Glass(ui)

LEMMA ScreenInvariance == Spec => []ScreenInv
<1>1. Init => Glass(ui)
  BY DEF Init, Boot, Glass
<1>2. Inv /\ Glass(ui) /\ [Next]_vars => Glass(ui)'
  <2> SUFFICES ASSUME Inv, Glass(ui), [Next]_vars
               PROVE  Glass(ui')
    OBVIOUS
  <2>1. Sound(ui) /\ State \in States
    BY DEF Inv, State, States
  <2>2. ASSUME NEW t \in Touches \cup {None}, NEW frameDue \in BOOLEAN,
               Iterate(t, frameDue)
        PROVE  Glass(ui')
    BY <2>1, <2>2, IterationFollows DEF Iterate
  <2>3. CASE Tick
    <3>1. /\ ui'.screen = ui.screen /\ ui'.prev = ui.prev /\ ui'.painted = ui.painted
          /\ ui'.engaged = ui.engaged /\ ui'.mood = ui.mood
          /\ ui'.settings = ui.settings /\ ui'.marred = ui.marred
      BY <2>1, <2>3 DEF Tick, Sound, SoundTypes, Fields
    <3> QED
      BY <3>1, GlassKept
  <2>4. ASSUME Restart PROVE Glass(ui')
    BY <2>4 DEF Restart, Boot, Glass
  <2>5. ASSUME ui' = ui PROVE Glass(ui')
    BY <2>5
  <2> QED
    BY <2>2, <2>3, <2>4, <2>5 DEF Next, Loop, Receive, Silent, PowerCut, CutWhileSaving, vars
<1> QED
  BY <1>1, <1>2, Invariance, PTL DEF Spec, ScreenInv

LEMMA SettledSound == ScreenInv => Sound(Settled)
BY IterationSound DEF ScreenInv, Inv, Settled

LEMMA SettledFollows == ScreenInv => Settled.sleeping \/ Follows(Settled, State)
<1> SUFFICES ASSUME ScreenInv PROVE Settled.sleeping \/ Follows(Settled, State)
  OBVIOUS
<1>1. Sound(ui) /\ Glass(ui) /\ State \in States
  BY DEF ScreenInv, Inv, State, States
<1> QED
  BY <1>1, IterationFollows DEF Settled

LEMMA UnevenIsShared ==
  ASSUME NEW tab \in Tabs, NEW view, NEW st, NEW marred, marred \subseteq {"margin"}
  PROVE  Uneven(tab, view, st, marred) \subseteq Shared(tab)
BY DEF Uneven, Shared, Tabs

(* However partial repaints, changes of theme, touches, the screensaver    *)
(* and power cuts follow each other, the loop leaves a lit screen as a     *)
(* repaint of everything would, and in the uneven regions nothing of       *)
(* another tab or theme.                                                   *)
THEOREM ScreenIsCurrent == Spec => []ScreenFollowsState
<1>1. ScreenInv => ScreenFollowsState
  <2> SUFFICES ASSUME ScreenInv PROVE ScreenFollowsState
    OBVIOUS
  <2> DEFINE u == Settled
             tab == IF u.engaged THEN "Pixel" ELSE u.tab
  <2>1. tab \in Tabs
    <3>1. u.tab \in Tabs
      BY SettledSound DEF Sound, SoundTypes
    <3> QED
      BY <3>1 DEF Tabs
  <2>2. u.sleeping \/ Follows(u, State)
    BY SettledFollows
  <2>3. tab = Shows(u)
    BY DEF Shows
  <2> HIDE DEF u, tab
  <2>4. u.sleeping \/
          /\ \A r \in Regions \ Uneven(tab, u.view, State, u.marred) : u.screen[r] = Repainted(u)[r]
          /\ \A r \in Uneven(tab, u.view, State, u.marred) :
               Patch(u.screen[r], tab, u.view, u.settings.dark)
    <3> SUFFICES ASSUME Follows(u, State)
                 PROVE  /\ \A r \in Regions \ Uneven(tab, u.view, State, u.marred) :
                             u.screen[r] = Repainted(u)[r]
                        /\ \A r \in Uneven(tab, u.view, State, u.marred) :
                             Patch(u.screen[r], tab, u.view, u.settings.dark)
      BY <2>2
    <3>1. Uneven(tab, u.view, State, u.marred) \subseteq Shared(tab)
      BY <2>1, UnevenIsShared DEF Follows
    <3>2. Repainted(u) = Render(u.screen, State, Shows(u), u.view, u.settings, TRUE, u.engaged)
      BY DEF Repainted, Shows
    <3> QED
      BY <2>3, <3>1, <3>2 DEF Follows
  <2> QED
    BY <2>4 DEF ScreenFollowsState, Patch, u, tab
<1> QED
  BY <1>1, ScreenInvariance, PTL

(* What the list and the detail paint into the body and the foot.          *)
LEMMA ListPictures ==
  ASSUME NEW st, NEW dark
  PROVE  /\ RenderSessions(st, dark)["body"] = <<"list", dark, st.frame.usage, Cards(st)>>
         /\ RenderSessions(st, dark)["foot"][1] # "Clear waiting"
<1> DEFINE under == IF st.offline THEN Banner(dark)
                    ELSE [foot |-> <<"counts", dark, Count(st.frame, "working"),
                                     Count(st.frame, "waiting")>>]
           filled == IF st.offline \/ st.frame.rows # <<>> THEN {"body", "margin"}
                     ELSE {"body", "margin", "seams"}
           picture == <<"list", dark, st.frame.usage, Cards(st)>>
           top == Painted(filled, picture)
<1>1. RenderSessions(st, dark) = Over(top, under)
  BY DEF RenderSessions
<1>2. "foot" \in DOMAIN under /\ under["foot"][1] \in {"hub offline", "counts"}
  BY DEF Banner
<1>3. "body" \in filled /\ "foot" \notin filled
  OBVIOUS
<1> HIDE DEF filled, picture, under
<1>4. DOMAIN top = filled /\ \A r \in filled : top[r] = picture
  BY PaintedDomain
<1> HIDE DEF top
<1>5. Over(top, under)["body"] = picture
  BY <1>3, <1>4 DEF Over
<1>6. Over(top, under)["foot"] = under["foot"]
  BY <1>2, <1>3, <1>4 DEF Over
<1> QED
  BY <1>1, <1>2, <1>5, <1>6 DEF picture

LEMMA DetailPictures ==
  ASSUME NEW row, NEW dark
  PROVE  /\ RenderDetail(row, dark)["body"] = <<"detail", dark, row>>
         /\ RenderDetail(row, dark)["foot"]
              = <<IF row.status = "waiting" THEN "Clear waiting" ELSE "hint", dark>>
<1> DEFINE upper == <<"detail", dark, row>>
           lower == <<IF row.status = "waiting" THEN "Clear waiting" ELSE "hint", dark>>
           top == Painted({"body", "seams"}, upper)
           under == Painted({"strip", "foot"}, lower)
<1>1. RenderDetail(row, dark) = Over(top, under)
  BY DEF RenderDetail
<1> HIDE DEF upper, lower
<1>2. /\ DOMAIN top = {"body", "seams"} /\ top["body"] = upper
      /\ DOMAIN under = {"strip", "foot"} /\ under["foot"] = lower
  BY PaintedDomain
<1> HIDE DEF top, under
<1>3. Over(top, under)["body"] = upper /\ Over(top, under)["foot"] = lower
  BY <1>2 DEF Over
<1> QED
  BY <1>1, <1>3 DEF upper, lower

(* A touch of the Sessions tab opens or acknowledges what is drawn where   *)
(* it lands, in every view, but that the cards drawn in place of a detail  *)
(* whose row has gone only lead back.                                      *)
THEOREM TouchHitsWhatIsDrawn == Spec => []HitTestMatchesScreen
<1>1. ScreenInv => HitTestMatchesScreen
  <2> SUFFICES ASSUME ScreenInv PROVE HitTestMatchesScreen
    OBVIOUS
  <2> DEFINE u == Settled
             content == Content(State, "Sessions", u.view, u.settings)
             acked == AckOf(u.view, State, <<"button", 0>>)
             shows(i) == u.screen.body[1] = "list" /\ u.screen.body[4][i][1] = "card"
             opens(i) == SessionsTouch(u.view, State, <<"slot", i>>) = i
  <2> SUFFICES ASSUME ~u.sleeping, ~u.engaged, u.tab = "Sessions"
               PROVE  /\ \A i \in 1..Slots : opens(i) <=> shows(i) /\ ~RowGone(u.view, State)
                      /\ acked # None <=> u.screen.foot[1] = "Clear waiting"
                      /\ acked # None =>
                           u.screen.body[1] = "detail" /\ u.screen.body[3].id = acked
    BY DEF HitTestMatchesScreen
  <2>1. Follows(u, State) /\ Shows(u) = "Sessions" /\ u.view \in Views
    BY SettledFollows, SettledSound DEF Shows, Sound, SoundTypes
  <2>2. State.frame \in Frames
    BY DEF ScreenInv, Inv, State
  <2> HIDE DEF u
  <2>3. "body" \in DOMAIN content /\ "foot" \in DOMAIN content
    <3>1. DOMAIN content = Covers("Sessions", u.view, State)
      BY ContentCovers DEF Tabs
    <3> QED
      BY <3>1 DEF Covers
  <2>4. ASSUME NEW r \in {"body", "foot"}
        PROVE  u.screen[r] = content[r]
    <3>1. r \in Regions \ Uneven("Sessions", u.view, State, u.marred)
      BY <2>1 DEF Regions, Uneven, Follows
    <3>2. u.screen[r] = Render(u.screen, State, "Sessions", u.view, u.settings,
                               TRUE, u.engaged)[r]
      BY <2>1, <3>1 DEF Follows
    <3> QED
      BY <2>3, <3>2 DEF Render, Over
  <2>5. CASE ~DetailShows(u.view, State)
    <3>1. content = RenderSessions(State, u.settings.dark)
      BY <2>5 DEF Content
    <3>2. /\ content["body"] = <<"list", u.settings.dark, State.frame.usage, Cards(State)>>
          /\ content["foot"][1] # "Clear waiting"
      BY <3>1, ListPictures
    <3> HIDE DEF content
    <3>3. /\ u.screen.body[1] = "list" /\ u.screen.body[4] = Cards(State)
          /\ u.screen.foot[1] # "Clear waiting"
      <4>1. u.screen.body = content["body"] /\ u.screen.foot = content["foot"]
        BY <2>4
      <4>2. content["body"][1] = "list" /\ content["body"][4] = Cards(State)
        <5> DEFINE body == content["body"]
                   dark == u.settings.dark
                   usage == State.frame.usage
                   cards == Cards(State)
        <5>1. body = <<"list", dark, usage, cards>>
          BY <3>2
        <5> HIDE DEF body, dark, usage, cards
        <5>2. body[1] = "list" /\ body[4] = cards
          BY <5>1, QuadrupleParts
        <5> QED
          BY <5>2 DEF body, cards
      <4> QED
        BY <3>2, <4>1, <4>2
    <3>4. acked = None
      BY <2>5 DEF AckOf
    <3>5. ASSUME NEW i \in 1..Slots
          PROVE  opens(i) <=> shows(i) /\ ~RowGone(u.view, State)
      <4>1. i # List
        BY DEF List
      <4>2. RowGone(u.view, State) <=> u.view # List
        BY <2>5 DEF RowGone, DetailShows
      <4>3. u.view = List => (SessionsTouch(u.view, State, <<"slot", i>>) = i
                                <=> Cards(State)[i][1] = "card")
        BY <4>1 DEF SessionsTouch, Cards, List
      <4>4. u.view # List => SessionsTouch(u.view, State, <<"slot", i>>) # i
        BY <4>1 DEF SessionsTouch
      <4>5. shows(i) <=> Cards(State)[i][1] = "card"
        BY <3>3
      <4> QED
        BY <4>2, <4>3, <4>4, <4>5
    <3> QED
      BY <3>3, <3>4, <3>5
  <2>6. CASE DetailShows(u.view, State)
    <3> DEFINE row == State.frame.rows[u.view]
    <3>1. row.id # None
      <4>1. Len(State.frame.rows) \in Nat /\ Slots \in Nat
        BY <2>2, DeviceAssumption
      <4>2. u.view \in 1..Len(State.frame.rows)
        BY <2>1, <2>6, <4>1 DEF Views, DetailShows, List
      <4> QED
        BY <2>2, <4>2, DeviceAssumption
    <3>2. acked = IF row.status = "waiting" THEN row.id ELSE None
      BY <2>6 DEF AckOf
    <3>3. content = RenderDetail(row, u.settings.dark)
      BY <2>6 DEF Content
    <3> HIDE DEF row
    <3>4. /\ content["body"] = <<"detail", u.settings.dark, row>>
          /\ content["foot"] = <<IF row.status = "waiting" THEN "Clear waiting" ELSE "hint",
                                 u.settings.dark>>
      <4> DEFINE dark == u.settings.dark
      <4> HIDE DEF content, dark
      <4>1. content = RenderDetail(row, dark)
        BY <3>3 DEF dark
      <4> QED
        BY <4>1, DetailPictures DEF dark
    <3> HIDE DEF content, acked
    <3>5. /\ u.screen.body[1] = "detail" /\ u.screen.body[3] = row
          /\ u.screen.foot[1] = "Clear waiting" <=> row.status = "waiting"
      <4>1. u.screen.body = content["body"] /\ u.screen.foot = content["foot"]
        BY <2>4
      <4>2. /\ content["body"][1] = "detail" /\ content["body"][3] = row
            /\ content["foot"][1] = IF row.status = "waiting" THEN "Clear waiting" ELSE "hint"
        <5> DEFINE body == content["body"]
                   foot == content["foot"]
                   dark == u.settings.dark
                   label == IF row.status = "waiting" THEN "Clear waiting" ELSE "hint"
        <5>1. body = <<"detail", dark, row>> /\ foot = <<label, dark>>
          BY <3>4
        <5> HIDE DEF body, foot, dark, label
        <5>2. body[1] = "detail" /\ body[3] = row
          BY <5>1, TripleParts
        <5>3. foot[1] = label
          BY <5>1, PairParts
        <5> QED
          BY <5>2, <5>3 DEF body, foot, label
      <4> QED
        BY <4>1, <4>2
    <3>6. ASSUME NEW i \in 1..Slots PROVE ~opens(i)
      <4>1. i # List /\ u.view # List
        BY <2>6 DEF List, DetailShows
      <4> QED
        BY <4>1 DEF SessionsTouch
    <3> QED
      BY <3>1, <3>2, <3>5, <3>6
  <2> QED
    BY <2>5, <2>6
<1> QED
  BY <1>1, ScreenInvariance, PTL
=============================================================================
