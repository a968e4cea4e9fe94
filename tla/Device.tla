------------------------------- MODULE Device -------------------------------
(***************************************************************************)
(* The colour-LCD display loop (firmware/src/main.rs, mascot.rs).          *)
(*                                                                         *)
(* A reader puts each frame of the hub where the loop finds it.  Every     *)
(* 50 ms the loop takes the newest frame, handles a touch, decides whether *)
(* the screen sleeps and whether the screensaver engages, and repaints     *)
(* only what it believes has changed.  It paints without a frame buffer:   *)
(* what no painter covers stays on the glass, so the screen is part of the *)
(* state.  Settings survive a power cut, one NVS key at a time.            *)
(***************************************************************************)
EXTENDS Naturals, Sequences, FiniteSets

CONSTANTS
  Frames,       (* the DisplayStates that parse_state may return           *)
  Blackout,     (* DisplayState::default(), before the first frame         *)
  Slots,        (* card slots of the list: 6                               *)
  SleepVals,    (* minutes until the screen sleeps, 0 = never              *)
  ArtVals,      (* time until the screensaver engages, 0 = off             *)
  DefaultArt,   (* its default                                             *)
  Minute,       (* units of time in a minute                               *)
  OfflineAfter, (* units of silence that do not yet count as offline       *)
  MaxAge,       (* bound: ages of touches are not told apart beyond it     *)
  None          (* nothing painted yet, no touch                           *)

VARIABLES
  shared,   (* the newest frame                                            *)
  silence,  (* how long no frame has come, capped above OfflineAfter       *)
  ui,       (* the local variables of the loop, and the screen             *)
  nvs,      (* the settings as stored                                      *)
  ran       (* the loop has run since the last tick of the clock           *)

vars == <<shared, silence, ui, nvs, ran>>

Tabs == {"Sessions", "Usage", "Metrics", "Pixel", "Settings"}
Rows == UNION {{f.rows[i] : i \in DOMAIN f.rows} : f \in Frames}

(* View: 0 is the list, i > 0 is Detail with the index of the i-th row.    *)
List == 0
Views == 0..Slots

Settings == [sleep : SleepVals, art : ArtVals, dark : BOOLEAN]

(* art_is_valid: the screensaver comes before the screen goes dark.        *)
ArtIsValid(art, sleep) == art = 0 \/ sleep = 0 \/ art < sleep * Minute

ASSUME DeviceAssumption ==
  /\ Blackout \in Frames
  /\ SleepVals \subseteq Nat /\ 0 \in SleepVals
  /\ ArtVals \subseteq Nat /\ 0 \in ArtVals /\ DefaultArt \in ArtVals
  /\ \A offered \in SUBSET ArtVals :
       offered # {} => \E v \in offered : \A w \in offered : w <= v
  /\ Slots \in Nat \ {0} /\ Minute \in Nat /\ OfflineAfter \in Nat
  /\ MaxAge \in Nat /\ \A art \in ArtVals : art <= MaxAge
  /\ \A frame \in Frames :
       Len(frame.rows) \in Nat /\ \A i \in 1..Len(frame.rows) : frame.rows[i].id # None

-----------------------------------------------------------------------------
(* The frame as the loop sees it.                                          *)

State == [frame |-> shared, offline |-> silence > OfflineAfter]

Count(frame, status) ==
  Cardinality({i \in DOMAIN frame.rows : frame.rows[i].status = status})

Waiting(frame) == Count(frame, "waiting") > 0

(* mood_for: what the mascot shows.                                        *)
MoodOf(st) ==
  LET working == Count(st.frame, "working") IN
  CASE st.offline \/ (working = 0 /\ ~Waiting(st.frame)) -> "sleeping"
    [] ~st.offline /\ Waiting(st.frame)                  -> "happy"
    [] OTHER -> IF working > 1 THEN "juggling"
                ELSE IF \E i \in DOMAIN st.frame.rows :
                          /\ st.frame.rows[i].status = "working"
                          /\ st.frame.rows[i].quiet
                     THEN "building" ELSE "typing"

(* session_overflow: the sessions without a card, and the slots that hold  *)
(* cards: the last slot says how many more there are.                      *)
Hidden(frame) ==
  frame.dropped + (IF Len(frame.rows) > Slots THEN Len(frame.rows) - Slots ELSE 0)
CardCap(frame) == IF Hidden(frame) > 0 THEN Slots - 1 ELSE Slots

(* The slots of the list.                                                  *)
Cards(st) ==
  [i \in 1..Slots |->
     IF ~st.offline /\ i <= Len(st.frame.rows) /\ i <= CardCap(st.frame)
       THEN <<"card", st.frame.rows[i]>>
     ELSE IF ~st.offline /\ st.frame.rows # <<>> /\ i = CardCap(st.frame) + 1
       THEN <<"more", Hidden(st.frame)>>
     ELSE <<"no card">>]

-----------------------------------------------------------------------------
(* The screen: the tab bar; the background that only a full clear paints;  *)
(* the body, what the painters of one tab all cover; and what they share   *)
(* unevenly.  The margin is what cards cover and render_detail does not    *)
(* fill (y 44-57, 96-105, 124-127, 143-155 and left of the name).  The     *)
(* seams are the lines between the cards and under the last one; the strip *)
(* is y 214-223 and the foot y 224-239.  A region holds <<what was         *)
(* painted, in which palette, ...>>.  Single lines of pixels and rounded   *)
(* corners are not told apart.                                             *)

Regions == {"bar", "back", "body", "margin", "seams", "strip", "foot"}
Wiped(dark) == [r \in Regions |-> <<"blank", dark>>]
Banner(dark) == [strip |-> <<"hub offline", dark>>, foot |-> <<"hub offline", dark>>]
EmptyOf == [r \in {} |-> None]

(* What is on the glass where top is painted over below.                   *)
Over(top, below) ==
  [r \in DOMAIN top \cup DOMAIN below |->
     IF r \in DOMAIN top THEN top[r] ELSE below[r]]

(* A painting that is the same in all of some regions.                     *)
Painted(regions, picture) == [r \in regions |-> picture]

(* render_sessions.  Cards leave the seams alone, "no sessions" does not;  *)
(* and without the banner only the foot is painted under them.             *)
RenderSessions(st, dark) ==
  Over(Painted(IF st.offline \/ st.frame.rows # <<>> THEN {"body", "margin"}
               ELSE {"body", "margin", "seams"},
               <<"list", dark, st.frame.usage, Cards(st)>>),
       IF st.offline THEN Banner(dark)
       ELSE [foot |-> <<"counts", dark, Count(st.frame, "working"),
                                        Count(st.frame, "waiting")>>])

(* render_detail, with its button or hint over both bands.                 *)
RenderDetail(row, dark) ==
  Over(Painted({"body", "seams"}, <<"detail", dark, row>>),
       Painted({"strip", "foot"},
               <<IF row.status = "waiting" THEN "Clear waiting" ELSE "hint", dark>>))

(* render_usage: the banner if the hub is offline, nothing if it is not.   *)
RenderUsage(st, dark) ==
  Over([body |-> <<"usage", dark, st.frame.usage>>],
       IF st.offline THEN Banner(dark) ELSE EmptyOf)

RenderMetrics(st, dark) ==
  Painted(Regions \ {"bar", "back"}, <<"metrics", dark, st.frame.metrics>>)

RenderPixel(st, dark) == [body |-> <<"art", dark, MoodOf(st)>>]

RenderSettings(set) ==
  Painted({"body", "strip", "foot"}, <<"settings", set.dark, set.sleep, set.art>>)

(* render: the content of the tab and the tab bar, which the screensaver   *)
(* has not, over a wiped screen or over what is there.                     *)
DetailShows(view, st) == view # List /\ view <= Len(st.frame.rows)
RowGone(view, st) == view # List /\ ~(view <= Len(st.frame.rows))
Content(st, tab, view, set) ==
  CASE tab = "Usage"    -> RenderUsage(st, set.dark)
    [] tab = "Metrics"  -> RenderMetrics(st, set.dark)
    [] tab = "Pixel"    -> RenderPixel(st, set.dark)
    [] tab = "Settings" -> RenderSettings(set)
    [] tab = "Sessions" ->
         IF DetailShows(view, st)
         THEN RenderDetail(st.frame.rows[view], set.dark)
         ELSE RenderSessions(st, set.dark)
Bar(dark, tab, fullScreen) ==
  IF fullScreen THEN EmptyOf ELSE [bar |-> <<"tabs", dark, tab>>]
Render(screen, st, tab, view, set, fullClear, fullScreen) ==
  Over(Over(Content(st, tab, view, set), Bar(set.dark, tab, fullScreen)),
       IF fullClear THEN Wiped(set.dark) ELSE screen)

-----------------------------------------------------------------------------
(* Settings.  snap_art takes the largest offered delay that is not longer  *)
(* and still comes before the screen sleeps.                               *)
SnapArt(art, sleep) ==
  LET offered == {v \in ArtVals : v <= art /\ ArtIsValid(v, sleep)}
  IN CHOOSE v \in offered : \A w \in offered : w <= v

DefaultSettings == [sleep |-> 0, art |-> DefaultArt, dark |-> TRUE]

(* settings_load.  Mutant: the delay is taken as it was stored.            *)
LoadWithoutSnap(stored) == stored
SettingsLoad(stored) == [stored EXCEPT !.art = SnapArt(@, stored.sleep)]

(* settings_save writes one key after the other; this is what a power cut  *)
(* after the first k of them leaves.                                       *)
Keys == <<"sleep", "dark", "art">>
SavedUpTo(k, old, new) ==
  [old EXCEPT !.sleep = IF k >= 1 THEN new.sleep ELSE @,
              !.dark  = IF k >= 2 THEN new.dark  ELSE @,
              !.art   = IF k >= 3 THEN new.art   ELSE @]

(* A touch: where it lands, and on which of the things there.              *)
Touches ==
  ({"tab"} \X Tabs) \cup ({"slot"} \X (1..Slots))
  \cup ({"sleep"} \X SleepVals) \cup ({"art"} \X ArtVals)
  \cup {<<"button", 0>>, <<"theme", 0>>}

(* settings_touch.  Mutant: a shorter sleep keeps the delay of the art.    *)
TouchWithoutSnap(set, t) ==
  CASE t[1] = "sleep" -> [set EXCEPT !.sleep = t[2]]
    [] t[1] = "theme" -> [set EXCEPT !.dark = ~@]
    [] t[1] = "art" /\ ArtIsValid(t[2], set.sleep) -> [set EXCEPT !.art = t[2]]
    [] OTHER -> set
SettingsTouch(set, t) ==
  CASE t[1] = "sleep" /\ t[2] # set.sleep ->
         [set EXCEPT !.sleep = t[2], !.art = SnapArt(@, t[2])]
    [] t[1] = "theme" -> [set EXCEPT !.dark = ~@]
    [] t[1] = "art" /\ ArtIsValid(t[2], set.sleep) -> [set EXCEPT !.art = t[2]]
    [] OTHER -> set

(* sessions_touch: the view after the touch.  Mutant: the slot of the      *)
(* summary line opens a hidden session.                                    *)
SummaryOpens(view, st, t) ==
  IF view = List /\ t[1] = "slot" /\ ~st.offline /\ t[2] <= Len(st.frame.rows)
  THEN t[2] ELSE List
SessionsTouch(view, st, t) ==
  IF view = List /\ t[1] = "slot" /\ ~st.offline
     /\ t[2] <= CardCap(st.frame) /\ t[2] <= Len(st.frame.rows)
  THEN t[2] ELSE List

(* The line that sessions_touch sends: the id of the row under Detail.     *)
AckOf(view, st, t) ==
  IF DetailShows(view, st) /\ t = <<"button", 0>>
     /\ st.frame.rows[view].status = "waiting"
  THEN st.frame.rows[view].id ELSE None

-----------------------------------------------------------------------------
(* One iteration of the loop, on its local variables.                      *)

Boot(set) ==
  [tab |-> "Sessions", view |-> List, settings |-> set,
   sleeping |-> FALSE, touchAge |-> 0, inputAge |-> 0, engaged |-> FALSE,
   mood |-> "sleeping", prev |-> None, painted |-> None, ack |-> None, marred |-> {},
   screen |-> [r \in Regions |-> <<"black">>]]

(* A touch of a lit screen without screensaver.  Mutant: a new theme does  *)
(* not repaint everything.                                                 *)
ThemeKeepsPrev(u, st, t) ==
  CASE t[1] = "tab" -> [u EXCEPT !.tab = t[2], !.view = List]
    [] t[1] # "tab" /\ u.tab = "Sessions" ->
         [u EXCEPT !.view = SessionsTouch(@, st, t), !.ack = AckOf(u.view, st, t)]
    [] t[1] # "tab" /\ u.tab = "Settings" ->
         [u EXCEPT !.settings = SettingsTouch(@, t)]
    [] OTHER -> u
LitTouch(u, st, t) ==
  CASE t[1] = "tab" -> [u EXCEPT !.tab = t[2], !.view = List]
    [] t[1] # "tab" /\ u.tab = "Sessions" ->
         [u EXCEPT !.view = SessionsTouch(@, st, t), !.ack = AckOf(u.view, st, t)]
    [] t[1] # "tab" /\ u.tab = "Settings" ->
         LET set == SettingsTouch(u.settings, t)
         IN [u EXCEPT !.settings = set,
                      !.prev = IF set.dark # u.settings.dark THEN None ELSE @]
    [] OTHER -> u

(* A touch of a dark screen, or of the screensaver, does nothing else than *)
(* bring the screen back (ArtState::wake).                                 *)
Touch(u, st, t) ==
  LET touched == [u EXCEPT !.touchAge = 0, !.inputAge = 0, !.engaged = FALSE]
  IN CASE t = None -> u
       [] t # None /\ (u.sleeping \/ u.engaged) ->
            [touched EXCEPT !.sleeping = FALSE, !.prev = None]
       [] OTHER -> LitTouch(touched, st, t)

(* A waiting session keeps the screen awake.  Mutant: it keeps the clock   *)
(* down and leaves a dark screen dark.                                     *)
KeepClockOnly(u, st) ==
  IF Waiting(st.frame) THEN [u EXCEPT !.touchAge = 0] ELSE u
KeepAwake(u, st) ==
  IF Waiting(st.frame)
  THEN [u EXCEPT !.touchAge = 0, !.sleeping = FALSE,
                 !.prev = IF u.sleeping THEN None ELSE @]
  ELSE u

(* The screen-off timeout.  Mutant: the screensaver keeps the screen on.   *)
TimeoutSparesArt(u) ==
  IF u.settings.sleep > 0 /\ ~u.engaged /\ u.touchAge >= u.settings.sleep * Minute
  THEN [u EXCEPT !.sleeping = TRUE] ELSE u
Timeout(u) ==
  IF u.settings.sleep > 0 /\ u.touchAge >= u.settings.sleep * Minute
  THEN [u EXCEPT !.sleeping = TRUE] ELSE u

(* ArtState::tick: does the screensaver engage now?                        *)
Engages(u) ==
  u.settings.art > 0 /\ ~u.engaged /\ u.inputAge >= u.settings.art

(* What content_changed compares, tab by tab.                              *)
ContentChanged(u, st) ==
  CASE u.tab = "Settings" -> u.prev.settings # u.settings
    [] u.tab = "Metrics"  -> u.prev.state.frame.metrics # st.frame.metrics
    [] OTHER              -> u.prev.state # st

(* History: what the list, drawn in place of a detail whose row has gone,  *)
(* leaves there for the detail to come back to.                            *)
Marred(u, tab, st, clear) ==
  (IF clear THEN {} ELSE u.marred)
  \cup (IF tab = "Sessions" /\ RowGone(u.view, st) THEN {"margin"} ELSE {})

(* The rest of the iteration of a lit screen.  frameDue: ART_FRAME_MS have *)
(* passed.  Mutant: a change of mood does not repaint the art.             *)
PaintIgnoresMood(u, st, frameDue) ==
  LET engaged == u.engaged \/ Engages(u)
      drawn == <<IF engaged THEN "Pixel" ELSE u.tab, engaged>>
      layoutChanged == u.prev = None \/ u.prev.tab # u.tab \/ u.prev.view # u.view
      clear == layoutChanged \/ u.painted # drawn
      repaints == clear \/ ContentChanged(u, st)
                  \/ ((u.engaged \/ u.tab = "Pixel") /\ frameDue)
      v == [u EXCEPT !.engaged = engaged, !.mood = MoodOf(st)]
  IN IF u.sleeping THEN u ELSE IF ~repaints THEN v
     ELSE [v EXCEPT
             !.screen = Render(@, st, drawn[1], u.view, u.settings, clear, engaged),
             !.prev = [state |-> st, tab |-> u.tab, view |-> u.view,
                       settings |-> u.settings],
             !.painted = drawn, !.marred = Marred(u, drawn[1], st, clear)]
Paint(u, st, frameDue) ==
  LET engaged == u.engaged \/ Engages(u)
      drawn == <<IF engaged THEN "Pixel" ELSE u.tab, engaged>>
      artDirty == /\ u.engaged \/ u.tab = "Pixel"
                  /\ Engages(u) \/ MoodOf(st) # u.mood \/ frameDue
      layoutChanged == u.prev = None \/ u.prev.tab # u.tab \/ u.prev.view # u.view
      clear == layoutChanged \/ u.painted # drawn
      v == [u EXCEPT !.engaged = engaged, !.mood = MoodOf(st)]
  IN CASE u.sleeping -> u
       [] ~u.sleeping /\ (clear \/ artDirty \/ ContentChanged(u, st)) ->
            [v EXCEPT
               !.screen = Render(@, st, drawn[1], u.view, u.settings, clear, engaged),
               !.prev = [state |-> st, tab |-> u.tab, view |-> u.view,
                         settings |-> u.settings],
               !.painted = drawn, !.marred = Marred(u, drawn[1], st, clear)]
       [] OTHER -> v

Iteration(u, st, t, frameDue) ==
  Paint(Timeout(KeepAwake(Touch([u EXCEPT !.ack = None], st, t), st)), st, frameDue)

-----------------------------------------------------------------------------
Init ==
  /\ shared = Blackout
  /\ silence = 0
  /\ nvs = DefaultSettings
  /\ ui = Boot(SettingsLoad(nvs))
  /\ ran = FALSE

(* The loop runs once; settings that a touch has changed are saved.        *)
Iterate(t, frameDue) ==
  /\ ui' = Iteration(ui, State, t, frameDue)
  /\ nvs' = IF ui'.settings # ui.settings THEN ui'.settings ELSE nvs
  /\ ran' = TRUE
  /\ UNCHANGED <<shared, silence>>

(* The reader thread, the BLE callback or the WiFi poll has a frame.       *)
Receive(frame) ==
  /\ shared' = frame
  /\ silence' = 0
  /\ UNCHANGED <<ui, nvs, ran>>

(* Another moment without a frame: of the clock over USB and BLE, a failed *)
(* fetch over WiFi.  Mutant: the count does not saturate.                  *)
CountForever ==
  /\ silence' = silence + 1
  /\ UNCHANGED <<shared, ui, nvs, ran>>
Silent ==
  /\ silence <= OfflineAfter
  /\ silence' = silence + 1
  /\ UNCHANGED <<shared, ui, nvs, ran>>

(* Time passes.  The loop runs many times in each unit of it.              *)
Tick ==
  /\ ran
  /\ ran' = FALSE
  /\ ui' = [ui EXCEPT !.touchAge = IF @ < MaxAge THEN @ + 1 ELSE @,
                      !.inputAge = IF @ < MaxAge THEN @ + 1 ELSE @]
  /\ UNCHANGED <<shared, silence, nvs>>

(* The power fails, and comes back: run() from its beginning.              *)
Restart ==
  /\ shared' = Blackout
  /\ silence' = 0
  /\ ui' = Boot(SettingsLoad(nvs'))
  /\ ran' = FALSE

PowerCut == nvs' = nvs /\ Restart

(* The power fails while settings_save has written k keys.                 *)
CutWhileSaving(t, k) ==
  /\ ~ui.sleeping /\ ~ui.engaged /\ ui.tab = "Settings" /\ t[1] # "tab"
  /\ SettingsTouch(ui.settings, t) # ui.settings
  /\ nvs' = SavedUpTo(k, nvs, SettingsTouch(ui.settings, t))
  /\ Restart

Loop == \E t \in Touches \cup {None}, frameDue \in BOOLEAN : Iterate(t, frameDue)

Next ==
  \/ Loop
  \/ \E frame \in Frames : Receive(frame)
  \/ Silent
  \/ Tick
  \/ PowerCut
  \/ \E t \in Touches, k \in 1..Len(Keys) : CutWhileSaving(t, k)

Spec == Init /\ [][Next]_vars

(* The loop sleeps 50 ms and runs again, and time goes on.                 *)
LoopRuns == ~ran /\ ran' = TRUE
TimePasses == ran /\ ran' = FALSE
FairSpec == Spec /\ WF_ran(LoopRuns) /\ WF_ran(TimePasses)

-----------------------------------------------------------------------------
(* Type invariant of the loop, its settings and what it has been sent.     *)
TypeOK ==
  /\ shared \in Frames /\ silence \in 0..(OfflineAfter + 1)
  /\ nvs \in Settings /\ ran \in BOOLEAN
  /\ ui.settings \in Settings
  /\ ui.tab \in Tabs /\ ui.view \in Views
  /\ ui.sleeping \in BOOLEAN /\ ui.engaged \in BOOLEAN
  /\ ui.touchAge \in 0..MaxAge /\ ui.inputAge \in 0..MaxAge

(* The loop as it is after its next iteration, if nobody touches it.       *)
Settled == Iteration(ui, State, None, FALSE)

(* The screen as a repaint of everything would make it.                    *)
Repainted(u) ==
  Render(u.screen, State, IF u.engaged THEN "Pixel" ELSE u.tab, u.view,
         u.settings, TRUE, u.engaged)

(* What the painting of a tab does not cover, but another one of that tab  *)
(* since the last full clear may have: the bands under the usage view and  *)
(* the list while the hub is there, the seams between cards, and around a  *)
(* detail whose row had gone what the list has left.                       *)
Uneven(tab, view, st, marred) ==
  CASE tab = "Usage" -> IF st.offline THEN {} ELSE {"strip", "foot"}
    [] tab = "Sessions" ->
         IF DetailShows(view, st) THEN marred
         ELSE (IF st.offline THEN {} ELSE {"strip"})
              \cup (IF st.offline \/ st.frame.rows # <<>> THEN {"seams"} ELSE {})
    [] OTHER -> {}

(* What may be found there.                                                *)
Leftovers(tab, view) ==
  IF tab = "Sessions"
  THEN {"blank", "hub offline", "list"}
       \cup (IF view = List THEN {} ELSE {"detail", "Clear waiting", "hint"})
  ELSE {"blank", "hub offline"}

(* However the partial repaints follow each other, an iteration leaves a   *)
(* lit screen as a full repaint of the current state would leave it, the   *)
(* uneven regions excepted: no stale row, no tab bar above the             *)
(* screensaver, no patch in the old theme.  The uneven ones may hold       *)
(* pieces of what this tab and view have shown before, but none of another *)
(* tab or theme, and a list none of a detail.                              *)
ScreenFollowsState ==
  LET u == Settled
      tab == IF u.engaged THEN "Pixel" ELSE u.tab
      uneven == Uneven(tab, u.view, State, u.marred)
  IN u.sleeping \/
       /\ \A r \in Regions \ uneven : u.screen[r] = Repainted(u)[r]
       /\ \A r \in uneven :
            u.screen[r][1] \in Leftovers(tab, u.view) /\ u.screen[r][2] = u.settings.dark

(* What a touch of the Sessions tab hits is what is drawn there.  A slot   *)
(* opens a session just when it shows a card, except on the list that is   *)
(* drawn in place of a detail whose row has gone: a touch of that only     *)
(* leads back to the list proper.  A button acknowledges just when it is   *)
(* drawn, the session it is drawn under.                                   *)
HitTestMatchesScreen ==
  LET u == Settled
      shows(i) == u.screen.body[1] = "list" /\ u.screen.body[4][i][1] = "card"
      opens(i) == SessionsTouch(u.view, State, <<"slot", i>>) = i
      acked == AckOf(u.view, State, <<"button", 0>>)
  IN (~u.sleeping /\ ~u.engaged /\ u.tab = "Sessions") =>
       /\ \A i \in 1..Slots : opens(i) <=> shows(i) /\ ~RowGone(u.view, State)
       /\ acked # None <=> u.screen.foot[1] = "Clear waiting"
       /\ acked # None => u.screen.body[1] = "detail" /\ u.screen.body[3].id = acked

(* Whatever order the two delays are chosen in, and wherever a power cut   *)
(* interrupts their saving, the loop never runs with a screensaver that    *)
(* could not engage before the screen sleeps (mascot.rs, art_is_valid).    *)
ArtFitsSleep == ArtIsValid(ui.settings.art, ui.settings.sleep)

(* A screen that sleeps has shown the screensaver before, if there is one: *)
(* the clock of touches and the clock of touches or waiting sessions never *)
(* cross.                                                                  *)
ArtComesBeforeSleep == (ui.sleeping /\ ui.settings.art > 0) => ui.engaged

(* A screen that may sleep does so, unless it is touched or a session      *)
(* waits.                                                                  *)
ScreenSleeps ==
  (ui.settings.sleep > 0 /\ ~ui.sleeping) ~> (ui.sleeping \/ ui.touchAge = 0)

(* A session that waits on lights a dark screen.                           *)
WaitingLightsScreen ==
  (ui.sleeping /\ Waiting(shared)) ~> (~ui.sleeping \/ ~Waiting(shared))

(* README.md says of the banner that it disappears the moment the bridge   *)
(* comes back.                                                             *)
BannerIsHonest ==
  LET u == Settled IN
  (~u.sleeping /\ \E r \in {"strip", "foot"} : u.screen[r][1] = "hub offline")
    => State.offline
=============================================================================
