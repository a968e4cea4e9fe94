------------------------------ MODULE HubProofs ------------------------------
(***************************************************************************)
(* The invariants and action properties of Hub, proved for every set of    *)
(* sessions, every bound and every assignment of tools to sessions.        *)
(***************************************************************************)
EXTENDS Hub, TLAPS

-----------------------------------------------------------------------------
(* What each operation of the session store does to it.                    *)

(* What the two invariants on the store say of a store at time t.          *)
SoundSession(session, t) ==
  /\ session.waiting <=> session.waitingSince # None
  /\ session.lastActivity <= t
  /\ session.waiting => session.waitingSince <= t

Sound(store, t) == \A id \in Present(store) : SoundSession(store[id], t)

(* A store stays sound while time passes.                                  *)
LEMMA SoundLater ==
  ASSUME NEW store \in SessionMap, NEW t \in Nat, NEW u \in Nat, t <= u,
         Sound(store, t)
  PROVE  Sound(store, u)
<1> SUFFICES ASSUME NEW id \in Present(store)
             PROVE  SoundSession(store[id], u)
  BY DEF Sound
<1>1. store[id] \in Session /\ SoundSession(store[id], t)
  BY DEF Sound, Present, SessionMap
<1> QED
  BY <1>1, StoreAssumption DEF SoundSession, Session

(* upsert puts a well-formed session under its id, whatever was there.     *)
LEMMA UpsertFacts ==
  ASSUME NEW store \in SessionMap, NEW id \in Ids, NEW session \in Session
  PROVE  /\ Upsert(store, id, session) \in SessionMap
         /\ \A other \in Ids \ {id} :
              Upsert(store, id, session)[other] = store[other]
         /\ Upsert(store, id, session)[id] \in Session
         /\ store[id] = NoSession => Upsert(store, id, session)[id] = session
         /\ store[id] # NoSession =>
              LET new == Upsert(store, id, session)[id] IN
              /\ new.waiting = store[id].waiting
              /\ new.waitingSince = store[id].waitingSince
              /\ new.lastActivity = Later(store[id].lastActivity, session.lastActivity)
<1>1. store[id] # NoSession => store[id] \in Session
  BY DEF SessionMap
<1>2. CASE store[id] = NoSession
  BY <1>2 DEF SessionMap, Upsert
<1>3. CASE store[id] # NoSession
  <2> DEFINE merged == [store[id] EXCEPT
                          !.lastActivity = Later(@, session.lastActivity),
                          !.project      = session.project,
                          !.activeTurn   = session.activeTurn]
  <2>1. Upsert(store, id, session) = [store EXCEPT ![id] = merged]
    BY <1>3 DEF Upsert
  <2>2. /\ merged \in Session
        /\ merged.waiting = store[id].waiting
        /\ merged.waitingSince = store[id].waitingSince
        /\ merged.lastActivity = Later(store[id].lastActivity, session.lastActivity)
    BY <1>1, <1>3 DEF Session, Later
  <2> HIDE DEF merged
  <2> QED
    BY <1>3, <2>1, <2>2 DEF SessionMap
<1> QED
  BY <1>2, <1>3

(* mark_waiting raises the flag of a session the store holds, and nothing  *)
(* else.                                                                   *)
LEMMA MarkWaitingOthers ==
  ASSUME NEW store \in SessionMap, NEW id \in Ids, NEW ts \in Nat,
         NEW other \in Ids, other # id
  PROVE  MarkWaiting(store, id, ts)[other] = store[other]
BY DEF SessionMap, MarkWaiting

LEMMA MarkWaitingAbsent ==
  ASSUME NEW store \in SessionMap, NEW id \in Ids, NEW ts \in Nat,
         store[id] = NoSession
  PROVE  MarkWaiting(store, id, ts)[id] = NoSession
BY DEF SessionMap, MarkWaiting

LEMMA MarkWaitingPresent ==
  ASSUME NEW store \in SessionMap, NEW id \in Ids, NEW ts \in Nat,
         store[id] # NoSession
  PROVE  /\ MarkWaiting(store, id, ts)[id] \in Session
         /\ MarkWaiting(store, id, ts)[id].waiting = TRUE
         /\ MarkWaiting(store, id, ts)[id].waitingSince = ts
         /\ MarkWaiting(store, id, ts)[id].lastActivity = store[id].lastActivity
<1> DEFINE marked == [store[id] EXCEPT !.waiting = TRUE, !.waitingSince = ts]
<1>1. store[id] \in Session
  BY DEF SessionMap
<1>2. MarkWaiting(store, id, ts)[id] = marked
  BY DEF MarkWaiting, SessionMap
<1>3. /\ marked \in Session
      /\ marked.waiting = TRUE
      /\ marked.waitingSince = ts
      /\ marked.lastActivity = store[id].lastActivity
  BY <1>1 DEF Session
<1> HIDE DEF marked
<1> QED
  BY <1>2, <1>3

LEMMA MarkWaitingType ==
  ASSUME NEW store \in SessionMap, NEW id \in Ids, NEW ts \in Nat
  PROVE  MarkWaiting(store, id, ts) \in SessionMap
<1>1. CASE store[id] = NoSession
  BY <1>1 DEF SessionMap, MarkWaiting
<1>2. CASE store[id] # NoSession
  <2> DEFINE marked == [store[id] EXCEPT !.waiting = TRUE, !.waitingSince = ts]
  <2>1. MarkWaiting(store, id, ts) = [store EXCEPT ![id] = marked]
    BY <1>2 DEF MarkWaiting
  <2>2. marked \in Session
    BY <1>2 DEF SessionMap, Session
  <2> HIDE DEF marked
  <2> QED
    BY <2>1, <2>2 DEF SessionMap
<1> QED
  BY <1>1, <1>2

(* ack lowers the flag of a session the store holds, and nothing else.     *)
LEMMA AcknowledgeOthers ==
  ASSUME NEW store \in SessionMap, NEW id \in Ids, NEW other \in Ids, other # id
  PROVE  Acknowledge(store, id)[other] = store[other]
BY DEF SessionMap, Acknowledge

LEMMA AcknowledgeAbsent ==
  ASSUME NEW store \in SessionMap, NEW id \in Ids, store[id] = NoSession
  PROVE  Acknowledge(store, id)[id] = NoSession
BY DEF SessionMap, Acknowledge

LEMMA AcknowledgeFacts ==
  ASSUME NEW store \in SessionMap, NEW id \in Ids
  PROVE  /\ Acknowledge(store, id) \in SessionMap
         /\ \A other \in Ids \ {id} : Acknowledge(store, id)[other] = store[other]
         /\ store[id] = NoSession => Acknowledge(store, id)[id] = NoSession
         /\ store[id] # NoSession =>
              /\ Acknowledge(store, id)[id] \in Session
              /\ Acknowledge(store, id)[id].waiting = FALSE
              /\ Acknowledge(store, id)[id].waitingSince = None
              /\ Acknowledge(store, id)[id].lastActivity = store[id].lastActivity
<1>1. store[id] # NoSession => store[id] \in Session
  BY DEF SessionMap
<1>2. CASE store[id] = NoSession
  BY <1>2 DEF SessionMap, Acknowledge
<1>3. CASE store[id] # NoSession
  <2> DEFINE acked == [store[id] EXCEPT !.waiting = FALSE, !.waitingSince = None]
  <2>1. Acknowledge(store, id) = [store EXCEPT ![id] = acked]
    BY <1>3 DEF Acknowledge
  <2>2. /\ acked \in Session
        /\ acked.waiting = FALSE
        /\ acked.waitingSince = None
        /\ acked.lastActivity = store[id].lastActivity
    BY <1>1, <1>3 DEF Session
  <2> HIDE DEF acked
  <2> QED
    BY <1>3, <2>1, <2>2 DEF SessionMap
<1> QED
  BY <1>2, <1>3

(* The reaper keeps a session as it is or drops it.                        *)
LEMMA RemoveGoneFacts ==
  ASSUME NEW store \in SessionMap, NEW t \in Nat, NEW ttl \in Nat
  PROVE  /\ RemoveGone(store, t, ttl) \in SessionMap
         /\ \A id \in Present(RemoveGone(store, t, ttl)) :
              id \in Present(store) /\ RemoveGone(store, t, ttl)[id] = store[id]
         /\ \A id \in Present(store) :
              id \notin Present(RemoveGone(store, t, ttl))
                => t - store[id].lastActivity > ttl + Epsilon
<1>1. \A id \in Present(store) : store[id].lastActivity \in Nat
  BY DEF Present, SessionMap, Session
<1> QED
  BY <1>1, StoreAssumption DEF SessionMap, RemoveGone, Present

-----------------------------------------------------------------------------
(* The inductive invariant.  Nothing in the store comes from the future    *)
(* because the scan thread's own timestamps do not: it carries the time    *)
(* its collector started and an activity clamped to that time, and both    *)
(* only age while the other threads run.                                   *)
ClockRuns == now >= StartTime

ScanBehind == scan.last <= scan.started /\ scan.started <= now

ScanHasSession ==
  /\ scan.pc \in {"read", "mark"} => scan.id \in Ids
  /\ scan.pc = "mark" => ToolOf[scan.id] # "claude"

IInv ==
  /\ TypeOK
  /\ ClockRuns
  /\ ScanBehind
  /\ ScanHasSession
  /\ Sound(sessions, now)

LEMMA IInvImplies == IInv => TypeOK /\ WaitingHasSince /\ NotFromFuture
BY DEF IInv, Sound, SoundSession, WaitingHasSince, NotFromFuture

LEMMA AsleepType ==
  /\ Asleep \in ScanState
  /\ [Asleep EXCEPT !.pc = "reap"] \in ScanState
BY DEF Asleep, ScanState, Tools

LEMMA InitIInv == Init => IInv
<1> SUFFICES ASSUME Init PROVE IInv
  OBVIOUS
<1>1. TypeOK
  BY AsleepType, HubAssumption DEF Init, TypeOK, EmptyStore, SessionMap
<1>2. ClockRuns /\ ScanBehind /\ ScanHasSession
  BY HubAssumption DEF Init, ClockRuns, ScanBehind, ScanHasSession, Asleep
<1>3. Sound(sessions, now)
  BY DEF Init, Sound, Present, EmptyStore
<1> QED
  BY <1>1, <1>2, <1>3 DEF IInv

-----------------------------------------------------------------------------
(* What a collector reads.                                                 *)

LEMMA LastActivityType ==
  ASSUME NEW id \in Ids, NEW t \in Nat, files \in [Ids -> Transcript \cup {NoFile}]
  PROVE  LastActivity(files, id, t) \in Nat /\ LastActivity(files, id, t) <= t
BY DEF LastActivity, Earlier, Transcript

LEMMA CollectedType ==
  ASSUME TypeOK, scan.id \in Ids
  PROVE  /\ Collected \in Session
         /\ Collected.lastActivity = scan.last
         /\ Collected.waiting = FALSE
         /\ Collected.waitingSince = None
<1>1. ProjectFrom(files, scan.id) \in Projects
  BY HubAssumption DEF ProjectFrom
<1>2. ActiveTurn(files, scan.id, scan.last, scan.closed, scan.started) \in BOOLEAN
  <2>1. ToolOf[scan.id] \in Tools
    BY HubAssumption
  <2> QED
    BY <2>1 DEF ActiveTurn, Tools, ClaudeActive, CodexActive
<1>3. scan.last \in Nat
  BY DEF TypeOK, ScanState
<1> QED
  BY <1>1, <1>2, <1>3 DEF Collected, Session

(* Only the collectors of the tools without hooks find a session waiting.  *)
LEMMA ClaudeIsNotMarked ==
  ASSUME NEW id \in Ids, WaitsForUser(files, id)
  PROVE  ToolOf[id] # "claude"
BY HubAssumption DEF WaitsForUser

-----------------------------------------------------------------------------
(* Preservation of the inductive invariant, by the part of the state a     *)
(* step changes.                                                           *)

(* Steps of the environment that change neither the store nor the scan.    *)
LEMMA OutsideStep ==
  ASSUME IInv, TypeOK', now' = now, UNCHANGED <<sessions, scan>>
  PROVE  IInv'
BY DEF IInv, ClockRuns, ScanBehind, ScanHasSession, Sound, SoundSession, Present

(* Steps of the handlers and the reaper: only the store changes.           *)
LEMMA StoreStep ==
  ASSUME IInv, TypeOK', now' = now, UNCHANGED scan, Sound(sessions', now)
  PROVE  IInv'
BY DEF IInv, ClockRuns, ScanBehind, ScanHasSession, Sound, SoundSession, Present

LEMMA TickIInv == IInv /\ Tick => IInv'
<1> SUFFICES ASSUME IInv, Tick PROVE IInv'
  OBVIOUS
<1>1. TypeOK'
  BY DEF IInv, TypeOK, Tick
<1>2. now' \in Nat /\ now \in Nat /\ now <= now'
  BY DEF IInv, TypeOK, Tick
<1>3. Sound(sessions, now')
  BY <1>2, SoundLater DEF IInv, TypeOK
<1>4. Sound(sessions', now')
  BY <1>3 DEF Tick
<1>5. ClockRuns' /\ ScanBehind' /\ ScanHasSession'
  BY HubAssumption DEF IInv, TypeOK, ScanState, Tick, ClockRuns, ScanBehind, ScanHasSession
<1> QED
  BY <1>1, <1>4, <1>5 DEF IInv, Sound, SoundSession, Present

LEMMA AgentWritesIInv ==
  ASSUME IInv, NEW id \in Ids, NEW transcript \in Transcript \cup {NoFile},
         AgentWrites(id, transcript)
  PROVE  IInv'
<1>1. TypeOK'
  BY DEF IInv, TypeOK, AgentWrites
<1> QED
  BY <1>1, OutsideStep DEF AgentWrites

LEMMA DayOfType == \A t \in Nat : DayOf(t) \in Nat
BY HubAssumption DEF DayOf

LEMMA EntriesType == \A id \in Ids : Entries(ToolOf[id]) \subseteq Entry
BY HubAssumption DEF Entry

LEMMA AgentStepIInv ==
  ASSUME IInv, NEW id \in Ids, AgentStep(id)
  PROVE  IInv'
<1>1. now \in Nat /\ now >= StartTime
  BY DEF IInv, TypeOK, ClockRuns
<1>2. files[id] # NoFile => files[id] \in Transcript
  BY DEF IInv, TypeOK
<1>3. CASE AgentStarts(id)
  <2> DEFINE empty == [mtime |-> now, log |-> <<>>, day |-> DayOf(now),
                       archived |-> FALSE, closed |-> FALSE]
  <2>1. empty \in Transcript
    BY <1>1, DayOfType DEF Transcript
  <2>2. AgentWrites(id, empty)
    BY <1>3 DEF AgentStarts
  <2> QED
    BY <2>1, <2>2, AgentWritesIInv
<1>4. CASE AgentAppends(id)
  <2>1. PICK e \in Entries(ToolOf[id]), s \in Skews :
          AgentWrites(id, [files[id] EXCEPT
                             !.log   = Append(files[id].log, e),
                             !.mtime = IF ToolOf[id] = "hermes"
                                       THEN Later(files[id].mtime, now + s)
                                       ELSE now + s])
    BY <1>4 DEF AgentAppends
  <2> DEFINE mtime == IF ToolOf[id] = "hermes"
                      THEN Later(files[id].mtime, now + s)
                      ELSE now + s
  <2>2. files[id] \in Transcript
    BY <1>2, <1>4 DEF AgentAppends
  <2>3. mtime \in Nat
    BY <1>1, <2>2, HubAssumption DEF Transcript, Later
  <2>4. Append(files[id].log, e) \in Seq(Entry)
    BY <2>2, EntriesType DEF Transcript
  <2>5. [files[id] EXCEPT !.log = Append(files[id].log, e), !.mtime = mtime]
          \in Transcript
    BY <2>2, <2>3, <2>4 DEF Transcript
  <2> QED
    BY <2>1, <2>5, AgentWritesIInv
<1>5. CASE AgentTouches(id)
  BY <1>1, <1>2, <1>5, AgentWritesIInv DEF AgentTouches, Transcript
<1>6. CASE AgentArchives(id)
  BY <1>2, <1>6, AgentWritesIInv DEF AgentArchives, Transcript
<1>7. CASE AgentCloses(id)
  BY <1>1, <1>2, <1>7, AgentWritesIInv DEF AgentCloses, Transcript, Later
<1>8. CASE AgentDeletes(id)
  BY <1>8, AgentWritesIInv DEF AgentDeletes
<1> QED
  BY <1>3, <1>4, <1>5, <1>6, <1>7, <1>8 DEF AgentStep

LEMMA HookPostIInv ==
  ASSUME IInv, NEW m \in Hook, HookFires(m) \/ HookLost(m)
  PROVE  IInv'
<1>1. TypeOK'
  BY DEF IInv, TypeOK, HookFires, HookLost
<1> QED
  BY <1>1, OutsideStep DEF HookFires, HookLost

-----------------------------------------------------------------------------
(* The handlers.                                                           *)

(* Acknowledging or marking at a time that is past keeps a store sound.    *)
LEMMA AcknowledgeSound ==
  ASSUME NEW store \in SessionMap, NEW id \in Ids, NEW t \in Nat, Sound(store, t)
  PROVE  Sound(Acknowledge(store, id), t)
<1> DEFINE new == Acknowledge(store, id)
<1> SUFFICES ASSUME NEW other \in Present(new)
             PROVE  SoundSession(new[other], t)
  BY DEF Sound
<1>0. /\ \A i \in Ids \ {id} : new[i] = store[i]
      /\ store[id] = NoSession => new[id] = NoSession
      /\ store[id] # NoSession =>
           /\ new[id].waiting = FALSE
           /\ new[id].waitingSince = None
           /\ new[id].lastActivity = store[id].lastActivity
  BY AcknowledgeFacts
<1> HIDE DEF new
<1>1. CASE other # id
  BY <1>0, <1>1 DEF Sound, Present
<1>2. CASE other = id
  <2>1. id \in Present(store)
    BY <1>0, <1>2 DEF Present
  <2> QED
    BY <1>0, <1>2, <2>1 DEF Sound, SoundSession, Present
<1> QED
  BY <1>1, <1>2

NotAfter(ts, t) == ts <= t

LEMMA MarkWaitingSound ==
  ASSUME NEW store \in SessionMap, NEW id \in Ids, NEW t \in Nat, Sound(store, t),
         NEW ts \in Nat, NotAfter(ts, t)
  PROVE  Sound(MarkWaiting(store, id, ts), t)
<1> DEFINE new == MarkWaiting(store, id, ts)
<1> SUFFICES ASSUME NEW other \in Present(new)
             PROVE  SoundSession(new[other], t)
  BY DEF Sound
<1>0. /\ \A i \in Ids \ {id} : new[i] = store[i]
      /\ store[id] = NoSession => new[id] = NoSession
      /\ store[id] # NoSession =>
           /\ new[id].waiting = TRUE
           /\ new[id].waitingSince = ts
           /\ new[id].lastActivity = store[id].lastActivity
  <2>1. \A i \in Ids \ {id} : new[i] = store[i]
    BY MarkWaitingOthers
  <2>2. store[id] = NoSession => new[id] = NoSession
    BY MarkWaitingAbsent
  <2>3. store[id] # NoSession =>
          /\ new[id].waiting = TRUE
          /\ new[id].waitingSince = ts
          /\ new[id].lastActivity = store[id].lastActivity
    BY MarkWaitingPresent
  <2> QED
    BY <2>1, <2>2, <2>3
<1> HIDE DEF new
<1>1. CASE other # id
  BY <1>0, <1>1 DEF Sound, Present
<1>2. CASE other = id
  <2>1. id \in Present(store)
    BY <1>0, <1>2 DEF Present
  <2> QED
    BY <1>0, <1>2, <2>1, StoreAssumption DEF Sound, SoundSession, Present, NotAfter
<1> QED
  BY <1>1, <1>2

LEMMA UpsertSound ==
  ASSUME NEW store \in SessionMap, NEW id \in Ids, NEW t \in Nat, Sound(store, t),
         NEW session \in Session, SoundSession(session, t)
  PROVE  Sound(Upsert(store, id, session), t)
<1> DEFINE new == Upsert(store, id, session)
<1> SUFFICES ASSUME NEW other \in Present(new)
             PROVE  SoundSession(new[other], t)
  BY DEF Sound
<1> HIDE DEF new
<1>1. CASE other # id
  BY <1>1, UpsertFacts DEF new, Sound, Present
<1>2. CASE other = id
  <2>1. CASE store[id] = NoSession
    BY <1>2, <2>1, UpsertFacts DEF new
  <2>2. CASE store[id] # NoSession
    <3>1. SoundSession(store[id], t)
      BY <2>2 DEF Sound, Present
    <3> QED
      BY <1>2, <2>2, <3>1, UpsertFacts DEF new, SoundSession, Later
  <2> QED
    BY <2>1, <2>2
<1> QED
  BY <1>1, <1>2

LEMMA HandleHookIInv ==
  ASSUME IInv, NEW m \in Hook, HandleHook(m)
  PROVE  IInv'
<1>1. m.id \in Ids /\ sessions \in SessionMap /\ now \in Nat
  BY DEF IInv, TypeOK, Hook
<1>2. sessions' \in {MarkWaiting(sessions, m.id, now), Acknowledge(sessions, m.id)}
  BY DEF HandleHook
<1>3. sessions' \in SessionMap
  BY <1>1, <1>2, MarkWaitingType, AcknowledgeFacts
<1>4. Sound(sessions', now)
  BY <1>1, <1>2, MarkWaitingSound, AcknowledgeSound DEF IInv, NotAfter
<1>5. TypeOK'
  BY <1>3 DEF IInv, TypeOK, HandleHook
<1> QED
  BY <1>4, <1>5, StoreStep DEF HandleHook

LEMMA HandleAckIInv ==
  ASSUME IInv, NEW id \in Ids, HandleAck(id)
  PROVE  IInv'
<1>1. sessions \in SessionMap /\ now \in Nat
  BY DEF IInv, TypeOK
<1>2. sessions' \in SessionMap /\ Sound(sessions', now)
  BY <1>1, AcknowledgeFacts, AcknowledgeSound DEF HandleAck, IInv
<1>3. TypeOK'
  BY <1>2 DEF IInv, TypeOK, HandleAck
<1> QED
  BY <1>2, <1>3, StoreStep DEF HandleAck

-----------------------------------------------------------------------------
(* The scan thread.                                                        *)

(* Steps of the scan thread that leave the store alone.                    *)
LEMMA ScanMoves ==
  ASSUME IInv, scan' \in ScanState, ScanBehind', ScanHasSession',
         UNCHANGED <<now, files, hooks, sessions, lastScan>>, faults' \in Nat
  PROVE  IInv'
<1>1. TypeOK'
  BY DEF IInv, TypeOK
<1> QED
  BY <1>1 DEF IInv, ClockRuns, Sound, SoundSession, Present

LEMMA EnterIInv ==
  ASSUME IInv, NEW tool \in Tools, NEW listed \in SUBSET Ids, Enter(tool, listed),
         UNCHANGED <<now, files, hooks, sessions, lastScan>>, faults' \in Nat
  PROVE  IInv'
<1>1. now \in Nat
  BY DEF IInv, TypeOK
<1>2. scan' \in ScanState
  BY <1>1 DEF Enter, ScanState
<1>3. ScanBehind' /\ ScanHasSession'
  BY <1>1 DEF Enter, ScanBehind, ScanHasSession
<1> QED
  BY <1>2, <1>3, ScanMoves

(* The thread goes back to sleep.                                          *)
LEMMA AsleepIInv ==
  ASSUME IInv, scan' = Asleep,
         UNCHANGED <<now, files, hooks, sessions, lastScan>>, faults' \in Nat
  PROVE  IInv'
<1>1. now \in Nat
  BY DEF IInv, TypeOK
<1>2. ScanBehind' /\ ScanHasSession'
  BY <1>1 DEF Asleep, ScanBehind, ScanHasSession
<1> QED
  BY <1>2, AsleepType, ScanMoves

LEMMA ListedType == \A tool \in Tools : Listed(files, tool, now) \in SUBSET Ids
BY DEF Listed

LEMMA StartPassIInv == IInv /\ StartPass => IInv'
BY ListedType, EnterIInv DEF StartPass, Tools, IInv, TypeOK

LEMMA StatIInv == IInv /\ Stat => IInv'
<1> SUFFICES ASSUME IInv, Stat PROVE IInv'
  OBVIOUS
<1>1. scan \in ScanState /\ now \in Nat /\ ScanBehind /\ scan.pc = "list"
  BY DEF IInv, TypeOK, Stat
<1>2. PICK id \in scan.todo :
        scan' = IF Skipped(files, id)
                THEN [scan EXCEPT !.todo = scan.todo \ {id}]
                ELSE [scan EXCEPT !.todo   = scan.todo \ {id},
                                  !.pc     = "read",
                                  !.id     = id,
                                  !.last   = LastActivity(files, id, scan.started),
                                  !.closed = ClosedOf(files, id)]
  BY DEF Stat
<1>3. id \in Ids
  BY <1>1 DEF ScanState
<1>4. CASE Skipped(files, id)
  <2>1. scan' = [scan EXCEPT !.todo = scan.todo \ {id}]
    BY <1>2, <1>4
  <2>2. scan' \in ScanState /\ ScanBehind' /\ ScanHasSession'
    BY <1>1, <2>1 DEF ScanState, ScanBehind, ScanHasSession, Stat
  <2> QED
    BY <2>2, ScanMoves DEF Stat, IInv, TypeOK
<1>5. CASE ~Skipped(files, id)
  <2> DEFINE last == LastActivity(files, id, scan.started)
  <2>1. last \in Nat /\ last <= scan.started
    BY <1>1, <1>3, LastActivityType DEF IInv, TypeOK, ScanState
  <2> DEFINE closed == ClosedOf(files, id)
  <2>5. closed \in BOOLEAN
    BY <1>1, <1>3 DEF ClosedOf, IInv, TypeOK, Transcript
  <2> HIDE DEF last, closed
  <2>2. scan' = [scan EXCEPT !.todo = scan.todo \ {id}, !.pc = "read",
                             !.id = id, !.last = last, !.closed = closed]
    BY <1>2, <1>5 DEF last, closed
  <2>3. scan' \in ScanState
    BY <1>1, <1>3, <2>1, <2>2, <2>5 DEF ScanState
  <2>4. ScanBehind' /\ ScanHasSession'
    BY <1>1, <1>3, <2>1, <2>2 DEF ScanState, ScanBehind, ScanHasSession, Stat
  <2> QED
    BY <2>3, <2>4, ScanMoves DEF Stat, IInv, TypeOK
<1> QED
  BY <1>4, <1>5

LEMMA BackToListType ==
  ASSUME scan \in ScanState
  PROVE  /\ BackToList \in ScanState
         /\ BackToList.pc = "list"
         /\ BackToList.last = 0
         /\ BackToList.started = scan.started
BY DEF BackToList, ScanState

LEMMA ReadUpsertIInv == IInv /\ ReadUpsert => IInv'
<1> SUFFICES ASSUME IInv, ReadUpsert PROVE IInv'
  OBVIOUS
<1>1. /\ TypeOK /\ now \in Nat /\ scan \in ScanState /\ sessions \in SessionMap
      /\ scan.id \in Ids /\ Sound(sessions, now) /\ ScanBehind
  BY DEF IInv, TypeOK, ScanHasSession, ReadUpsert
<1>2. Collected \in Session /\ SoundSession(Collected, now)
  <2>1. scan.last \in Nat /\ scan.last <= now
    BY <1>1 DEF ScanState, ScanBehind
  <2>2. /\ Collected \in Session
        /\ Collected.lastActivity = scan.last
        /\ Collected.waiting = FALSE
        /\ Collected.waitingSince = None
    BY <1>1, CollectedType
  <2> QED
    BY <2>1, <2>2 DEF SoundSession
<1>3. sessions' \in SessionMap /\ Sound(sessions', now)
  BY <1>1, <1>2, UpsertFacts, UpsertSound DEF ReadUpsert
<1>4. scan' \in ScanState /\ ScanBehind' /\ ScanHasSession'
  <2>1. CASE WaitsForUser(files, scan.id)
    <3>1. scan' = [scan EXCEPT !.pc = "mark"]
      BY <2>1 DEF ReadUpsert
    <3>2. scan' \in ScanState /\ ScanBehind'
      BY <1>1, <3>1 DEF ScanState, ScanBehind, ReadUpsert
    <3>3. ToolOf[scan.id] # "claude"
      BY <1>1, <2>1, ClaudeIsNotMarked
    <3> QED
      BY <1>1, <3>1, <3>2, <3>3 DEF ScanState, ScanHasSession
  <2>2. CASE ~WaitsForUser(files, scan.id)
    <3>1. scan' = BackToList
      BY <2>2 DEF ReadUpsert
    <3>2. scan' \in ScanState /\ ScanHasSession'
      BY <1>1, <3>1, BackToListType DEF ScanHasSession
    <3>3. ScanBehind'
      BY <1>1, <3>1, BackToListType DEF ScanState, ScanBehind, ReadUpsert
    <3> QED
      BY <3>2, <3>3
  <2> QED
    BY <2>1, <2>2
<1>5. TypeOK'
  BY <1>1, <1>3, <1>4 DEF TypeOK, ReadUpsert
<1> QED
  BY <1>3, <1>4, <1>5 DEF IInv, ClockRuns, ReadUpsert, Sound, SoundSession, Present

LEMMA MarkIInv == IInv /\ Mark => IInv'
<1> SUFFICES ASSUME IInv, Mark PROVE IInv'
  OBVIOUS
<1>1. /\ TypeOK /\ now \in Nat /\ scan \in ScanState /\ sessions \in SessionMap
      /\ scan.id \in Ids /\ Sound(sessions, now) /\ ScanBehind
  BY DEF IInv, TypeOK, ScanHasSession, Mark
<1>2. scan.last \in Nat /\ scan.last <= now
  BY <1>1 DEF ScanState, ScanBehind
<1>3. sessions' \in SessionMap /\ Sound(sessions', now)
  BY <1>1, <1>2, MarkWaitingType, MarkWaitingSound DEF Mark, NotAfter
<1>4. scan' \in ScanState /\ ScanBehind' /\ ScanHasSession'
  BY <1>1, BackToListType DEF Mark, ScanState, ScanBehind, ScanHasSession
<1>5. TypeOK'
  BY <1>1, <1>3, <1>4 DEF TypeOK, Mark
<1> QED
  BY <1>3, <1>4, <1>5 DEF IInv, ClockRuns, Mark, Sound, SoundSession, Present

LEMMA FollowsType == \A tool \in Tools : Follows(tool) \in Tools
BY DEF Follows, Tools

LEMMA NextCollectorIInv == IInv /\ NextCollector => IInv'
<1> SUFFICES ASSUME IInv, NextCollector PROVE IInv'
  OBVIOUS
<1>1. scan \in ScanState /\ now \in Nat /\ faults' \in Nat
  BY DEF IInv, TypeOK, NextCollector
<1>2. CASE scan.tool = "hermes"
  <2>1. scan' = [Asleep EXCEPT !.pc = "reap"]
    BY <1>2 DEF NextCollector
  <2>2. ScanBehind' /\ ScanHasSession'
    BY <1>1, <2>1 DEF Asleep, ScanBehind, ScanHasSession, NextCollector
  <2> QED
    BY <1>1, <2>1, <2>2, AsleepType, ScanMoves DEF NextCollector
<1>3. CASE scan.tool # "hermes"
  <2>1. Follows(scan.tool) \in Tools
    BY <1>1, FollowsType DEF ScanState
  <2> QED
    BY <1>1, <1>3, <2>1, ListedType, EnterIInv DEF NextCollector
<1> QED
  BY <1>2, <1>3

LEMMA ReapIInv == IInv /\ Reap => IInv'
<1> SUFFICES ASSUME IInv, Reap PROVE IInv'
  OBVIOUS
<1>1. now \in Nat /\ sessions \in SessionMap /\ Sound(sessions, now) /\ GoneTtl \in Nat
  BY HubAssumption DEF IInv, TypeOK
<1>2. sessions' \in SessionMap
  BY <1>1, RemoveGoneFacts DEF Reap
<1>3. Sound(sessions', now)
  BY <1>1, RemoveGoneFacts DEF Reap, Sound
<1>4. scan' \in ScanState /\ ScanBehind' /\ ScanHasSession'
  BY <1>1, AsleepType DEF Reap, Asleep, ScanBehind, ScanHasSession
<1>5. TypeOK'
  BY <1>2, <1>4 DEF IInv, TypeOK, Reap
<1> QED
  BY <1>3, <1>4, <1>5 DEF IInv, ClockRuns, Reap, Sound, SoundSession, Present

LEMMA ScanStepIInv == IInv /\ ScanStep => IInv'
BY StartPassIInv, StatIInv, ReadUpsertIInv, MarkIInv, NextCollectorIInv, ReapIInv
   DEF ScanStep

-----------------------------------------------------------------------------
(* Faults.                                                                 *)

LEMMA FaultStepIInv == IInv /\ (CollectorFails \/ ScanPanics \/ Restart) => IInv'
<1> SUFFICES ASSUME IInv, CollectorFails \/ ScanPanics \/ Restart PROVE IInv'
  OBVIOUS
<1>1. faults' \in Nat /\ now \in Nat /\ scan \in ScanState
  BY DEF IInv, TypeOK, CollectorFails, ScanPanics, Restart, Fault
<1>2. CASE CollectorFails
  <2>1. Follows(scan.tool) \in Tools /\ "claude" \in Tools /\ {} \in SUBSET Ids
    BY <1>1, FollowsType DEF ScanState, Tools
  <2> QED
    BY <1>1, <1>2, <2>1, EnterIInv DEF CollectorFails
<1>3. CASE ScanPanics
  BY <1>1, <1>3, AsleepIInv DEF ScanPanics
<1>4. CASE Restart
  <2>1. sessions' \in SessionMap /\ Sound(sessions', now)
    BY <1>4 DEF Restart, EmptyStore, SessionMap, Sound, Present
  <2>2. scan' \in ScanState /\ ScanBehind' /\ ScanHasSession'
    BY <1>1, <1>4, AsleepType DEF Restart, Asleep, ScanBehind, ScanHasSession
  <2>3. TypeOK'
    BY <1>1, <1>4, <2>1, <2>2 DEF IInv, TypeOK, Restart
  <2> QED
    BY <1>4, <2>1, <2>2, <2>3
       DEF IInv, ClockRuns, Restart, Sound, SoundSession, Present
<1> QED
  BY <1>2, <1>3, <1>4

LEMMA StutterIInv == IInv /\ UNCHANGED vars => IInv'
BY DEF IInv, vars, TypeOK, ClockRuns, ScanBehind, ScanHasSession, Sound,
       SoundSession, Present

LEMMA NextIInv == IInv /\ [Next]_vars => IInv'
<1> SUFFICES ASSUME IInv, Next PROVE IInv'
  BY StutterIInv
<1> QED
  BY TickIInv, AgentStepIInv, HandleAckIInv, HookPostIInv, HandleHookIInv,
     ScanStepIInv, FaultStepIInv DEF Next

LEMMA SpecIInv == Spec => []IInv
BY InitIInv, NextIInv, PTL DEF Spec

-----------------------------------------------------------------------------
(* Every variable of the bridge holds a value of its type.                 *)
THEOREM TypeCorrect == Spec => []TypeOK
BY SpecIInv, IInvImplies, PTL

(* A session says since when it waits exactly while it waits, whatever the *)
(* collectors, the two handlers and the reaper do to it in whatever order. *)
THEOREM WaitingSinceTogether == Spec => []WaitingHasSince
BY SpecIInv, IInvImplies, PTL

(* No time in the store is ahead of the clock, however far the timestamps  *)
(* of transcripts are.                                                     *)
THEOREM StoreIsPast == Spec => []NotFromFuture
BY SpecIInv, IInvImplies, PTL

-----------------------------------------------------------------------------
(* What a step may never do to the store.                                  *)

(* The steps that change the store.                                        *)
LEMMA StoreWriters ==
  ASSUME Next, sessions' # sessions
  PROVE  \/ \E id \in Ids : HandleAck(id)
         \/ \E m \in Hook : HandleHook(m)
         \/ ReadUpsert
         \/ Mark
         \/ Reap
         \/ Restart
BY DEF Next, Tick, AgentStep, AgentStarts, AgentAppends, AgentTouches,
       AgentArchives, AgentCloses, AgentDeletes, AgentWrites, HookFires, HookLost,
       ScanStep, StartPass, Stat, NextCollector, CollectorFails, ScanPanics

(* The flag of a session and the session itself, before and after a step   *)
(* of each writer.                                                         *)
LEMMA AckChanges ==
  ASSUME IInv, NEW id \in Ids, sessions' = Acknowledge(sessions, id),
         NEW i \in Present(sessions)
  PROVE  /\ i \in Present(sessions)'
         /\ sessions'[i].lastActivity = sessions[i].lastActivity
         /\ i # id => sessions'[i] = sessions[i]
         /\ i = id => sessions'[i].waiting = FALSE
<1>1. sessions \in SessionMap /\ i \in Ids /\ sessions[i] # NoSession
  BY DEF IInv, TypeOK, Present
<1>2. CASE i # id
  <2>1. sessions'[i] = sessions[i]
    BY <1>1, <1>2, AcknowledgeOthers
  <2> QED
    BY <1>1, <1>2, <2>1 DEF Present
<1>3. CASE i = id
  BY <1>1, <1>3, AcknowledgeFacts, StoreAssumption DEF Present
<1> QED
  BY <1>2, <1>3

LEMMA MarkChanges ==
  ASSUME IInv, NEW id \in Ids, NEW ts \in Nat,
         sessions' = MarkWaiting(sessions, id, ts), NEW i \in Present(sessions)
  PROVE  /\ i \in Present(sessions)'
         /\ sessions'[i].lastActivity = sessions[i].lastActivity
         /\ i # id => sessions'[i] = sessions[i]
         /\ i = id => sessions'[i].waiting = TRUE
<1>1. sessions \in SessionMap /\ i \in Ids /\ sessions[i] # NoSession
  BY DEF IInv, TypeOK, Present
<1>2. CASE i # id
  <2>1. sessions'[i] = sessions[i]
    BY <1>1, <1>2, MarkWaitingOthers
  <2> QED
    BY <1>1, <1>2, <2>1 DEF Present
<1>3. CASE i = id
  <2>1. /\ sessions'[i] \in Session
        /\ sessions'[i].waiting = TRUE
        /\ sessions'[i].lastActivity = sessions[i].lastActivity
    BY <1>1, <1>3, MarkWaitingPresent
  <2> QED
    BY <1>1, <1>3, <2>1, StoreAssumption DEF Present
<1> QED
  BY <1>2, <1>3

LEMMA UpsertChanges ==
  ASSUME IInv, ReadUpsert, NEW i \in Present(sessions)
  PROVE  /\ i \in Present(sessions)'
         /\ sessions'[i].lastActivity >= sessions[i].lastActivity
         /\ sessions'[i].waiting = sessions[i].waiting
<1>1. /\ sessions \in SessionMap /\ i \in Ids /\ sessions[i] # NoSession
      /\ scan.id \in Ids /\ Collected \in Session
  BY CollectedType DEF IInv, TypeOK, Present, ReadUpsert, ScanHasSession
<1>2. sessions[i] \in Session
  BY <1>1 DEF SessionMap
<1>3. sessions' = Upsert(sessions, scan.id, Collected)
  BY DEF ReadUpsert
<1> HIDE DEF Collected
<1>4. CASE i # scan.id
  <2>1. sessions'[i] = sessions[i]
    BY <1>1, <1>3, <1>4, UpsertFacts
  <2> QED
    BY <1>1, <1>2, <2>1 DEF Present, Session
<1>5. CASE i = scan.id
  <2>1. /\ sessions'[i] \in Session
        /\ sessions'[i].waiting = sessions[i].waiting
        /\ sessions'[i].lastActivity
             = Later(sessions[i].lastActivity, Collected.lastActivity)
    BY <1>1, <1>3, <1>5, UpsertFacts
  <2>2. Collected.lastActivity \in Nat /\ sessions[i].lastActivity \in Nat
    BY <1>1, <1>2 DEF Session
  <2>3. Later(sessions[i].lastActivity, Collected.lastActivity)
          >= sessions[i].lastActivity
    BY <2>2 DEF Later
  <2> QED
    BY <1>1, <2>1, <2>3, StoreAssumption DEF Present
<1> QED
  BY <1>4, <1>5

LEMMA ReapChanges ==
  ASSUME IInv, Reap
  PROVE  /\ \A i \in Present(sessions)' : i \in Present(sessions) /\ sessions'[i] = sessions[i]
         /\ \A i \in Present(sessions) \ Present(sessions)' :
              now - sessions[i].lastActivity > GoneTtl + Epsilon
<1>1. sessions \in SessionMap /\ now \in Nat /\ GoneTtl \in Nat
  BY HubAssumption DEF IInv, TypeOK
<1>2. sessions' = RemoveGone(sessions, now, GoneTtl)
  BY DEF Reap
<1>3. Present(sessions)' = Present(RemoveGone(sessions, now, GoneTtl))
  BY <1>2 DEF Present
<1> QED
  BY <1>1, <1>2, <1>3, RemoveGoneFacts

LEMMA RestartChanges == Restart => Present(sessions)' = {}
BY DEF Restart, Present, EmptyStore

(* Which writer a hook is.                                                 *)
LEMMA HookChanges ==
  ASSUME NEW m \in Hook, HandleHook(m)
  PROVE  /\ m.id \in Ids
         /\ \/ m = [id |-> m.id, event |-> "Notification"]
               /\ sessions' = MarkWaiting(sessions, m.id, now)
            \/ m = [id |-> m.id, event |-> "Stop"]
               /\ sessions' = Acknowledge(sessions, m.id)
BY DEF HandleHook, Hook, HookEvents

(* Activity never goes backwards while a session is in the store.          *)
THEOREM ActivityIsMonotone == Spec => ActivityNeverRegresses
<1>1. ASSUME IInv, [Next]_vars, NEW i \in Present(sessions), i \in Present(sessions)'
      PROVE  sessions'[i].lastActivity >= sessions[i].lastActivity
  <2>1. sessions[i].lastActivity \in Nat /\ now \in Nat
    BY <1>1 DEF IInv, TypeOK, SessionMap, Session, Present
  <2>2. CASE sessions' = sessions
    BY <2>1, <2>2
  <2>3. CASE sessions' # sessions
    <3>0. Next
      BY <1>1, <2>3 DEF vars
    <3>1. ASSUME NEW id \in Ids, HandleAck(id)
          PROVE  sessions'[i].lastActivity = sessions[i].lastActivity
      BY <1>1, <3>1, AckChanges DEF HandleAck
    <3>2. ASSUME NEW m \in Hook, HandleHook(m)
          PROVE  sessions'[i].lastActivity = sessions[i].lastActivity
      BY <1>1, <2>1, <3>2, HookChanges, AckChanges, MarkChanges
    <3>3. CASE ReadUpsert
      BY <1>1, <3>3, UpsertChanges
    <3>4. CASE Mark
      <4>1. scan.id \in Ids /\ scan.last \in Nat
        BY <1>1, <3>4 DEF IInv, TypeOK, ScanState, ScanHasSession, Mark
      <4>2. sessions'[i].lastActivity = sessions[i].lastActivity
        BY <1>1, <3>4, <4>1, MarkChanges DEF Mark
      <4> QED
        BY <2>1, <4>2
    <3>5. CASE Reap
      BY <1>1, <2>1, <3>5, ReapChanges
    <3>6. CASE Restart
      BY <1>1, <3>6, RestartChanges
    <3> QED
      BY <2>1, <2>3, <3>0, <3>1, <3>2, <3>3, <3>4, <3>5, <3>6, StoreWriters
  <2> QED
    BY <2>2, <2>3
<1>2. IInv /\ [Next]_vars =>
        [\A id \in Present(sessions) :
           id \in Present(sessions)' =>
             sessions'[id].lastActivity >= sessions[id].lastActivity]_vars
  BY <1>1
<1> QED
  BY <1>2, SpecIInv, PTL DEF Spec, ActivityNeverRegresses

(* A flag that is up comes down only by an ack or a Stop for that session: *)
(* no scan pass, whatever it read and when, loses a notification.          *)
THEOREM NotificationsAreKept == Spec => LoweredOnlyOnRequest
<1> DEFINE Requested(i) == \/ HandleAck(i)
                           \/ HandleHook([id |-> i, event |-> "Stop"])
<1>1. ASSUME IInv, [Next]_vars, NEW i \in Present(sessions),
             sessions[i].waiting, i \in Present(sessions)', ~sessions'[i].waiting
      PROVE  Requested(i)
  <2>1. sessions' # sessions /\ Next
    BY <1>1 DEF vars
  <2>2. ASSUME NEW id \in Ids, HandleAck(id)
        PROVE  Requested(i)
    BY <1>1, <2>2, AckChanges DEF HandleAck
  <2>3. ASSUME NEW m \in Hook, HandleHook(m)
        PROVE  Requested(i)
    <3>1. CASE m = [id |-> m.id, event |-> "Notification"]
               /\ sessions' = MarkWaiting(sessions, m.id, now)
      <4>1. now \in Nat
        BY <1>1 DEF IInv, TypeOK
      <4> QED
        BY <1>1, <2>3, <3>1, <4>1, HookChanges, MarkChanges
    <3>2. CASE m = [id |-> m.id, event |-> "Stop"]
               /\ sessions' = Acknowledge(sessions, m.id)
      <4>1. m.id = i
        BY <1>1, <2>3, <3>2, HookChanges, AckChanges
      <4> QED
        BY <2>3, <3>2, <4>1
    <3> QED
      BY <2>3, <3>1, <3>2, HookChanges
  <2>4. CASE ReadUpsert
    BY <1>1, <2>4, UpsertChanges
  <2>5. CASE Mark
    <3>1. scan.id \in Ids /\ scan.last \in Nat
      BY <1>1, <2>5 DEF IInv, TypeOK, ScanState, ScanHasSession, Mark
    <3> QED
      BY <1>1, <2>5, <3>1, MarkChanges DEF Mark
  <2>6. CASE Reap
    BY <1>1, <2>6, ReapChanges
  <2>7. CASE Restart
    BY <1>1, <2>7, RestartChanges
  <2> QED
    BY <2>1, <2>2, <2>3, <2>4, <2>5, <2>6, <2>7, StoreWriters
<1>2. IInv /\ [Next]_vars =>
        [\A id \in Present(sessions) :
           (sessions[id].waiting /\ id \in Present(sessions)' /\ ~sessions'[id].waiting)
             => \/ HandleAck(id)
                \/ HandleHook([id |-> id, event |-> "Stop"])]_vars
  BY <1>1
<1> QED
  BY <1>2, SpecIInv, PTL DEF Spec, LoweredOnlyOnRequest

(* Only a restart or more than GONE_TTL without activity takes a session   *)
(* out of the store.                                                       *)
THEOREM SessionsAreKept == Spec => ForgottenOnlyWhenGone
<1>1. ASSUME IInv, [Next]_vars, NEW i \in Present(sessions), i \notin Present(sessions)'
      PROVE  now - sessions[i].lastActivity > GoneTtl + Epsilon \/ Restart
  <2>1. sessions' # sessions /\ Next
    BY <1>1 DEF vars, Present
  <2>2. ASSUME NEW id \in Ids, HandleAck(id) PROVE FALSE
    BY <1>1, <2>2, AckChanges DEF HandleAck
  <2>3. ASSUME NEW m \in Hook, HandleHook(m) PROVE FALSE
    <3>1. now \in Nat
      BY <1>1 DEF IInv, TypeOK
    <3> QED
      BY <1>1, <2>3, <3>1, HookChanges, AckChanges, MarkChanges
  <2>4. CASE ReadUpsert
    BY <1>1, <2>4, UpsertChanges
  <2>5. CASE Mark
    <3>1. scan.id \in Ids /\ scan.last \in Nat
      BY <1>1, <2>5 DEF IInv, TypeOK, ScanState, ScanHasSession, Mark
    <3> QED
      BY <1>1, <2>5, <3>1, MarkChanges DEF Mark
  <2>6. CASE Reap
    BY <1>1, <2>6, ReapChanges
  <2> QED
    BY <2>1, <2>2, <2>3, <2>4, <2>5, <2>6, StoreWriters
<1>2. IInv /\ [Next]_vars =>
        [\A id \in Present(sessions) :
           id \notin Present(sessions)' =>
             now - sessions[id].lastActivity > GoneTtl + Epsilon \/ Restart]_vars
  BY <1>1
<1> QED
  BY <1>2, SpecIInv, PTL DEF Spec, ForgottenOnlyWhenGone

(* A flag goes up only by a Notification for that session or by the        *)
(* collector of a tool without hooks; the scan thread never raises one for *)
(* a Claude session.                                                       *)
THEOREM FlagsHaveEvidence == Spec => RaisedOnlyOnEvidence
<1> DEFINE Evident(i) == \/ HandleHook([id |-> i, event |-> "Notification"])
                         \/ Mark /\ scan.id = i /\ ToolOf[i] # "claude"
<1>1. ASSUME IInv, [Next]_vars, NEW i \in Present(sessions)', sessions'[i].waiting,
             i \in Present(sessions) => ~sessions[i].waiting
      PROVE  Evident(i)
  <2>1. sessions' # sessions /\ Next
    BY <1>1 DEF vars, Present
  <2>2. sessions \in SessionMap /\ now \in Nat /\ i \in Ids /\ scan \in ScanState
    BY <1>1 DEF IInv, TypeOK, Present
  <2>3. ASSUME NEW id \in Ids, sessions' = Acknowledge(sessions, id)
        PROVE  FALSE
    <3>1. CASE i \in Present(sessions)
      BY <1>1, <2>3, <3>1, AckChanges
    <3>2. CASE i \notin Present(sessions)
      BY <1>1, <2>2, <2>3, <3>2, AcknowledgeAbsent, AcknowledgeOthers DEF Present
    <3> QED
      BY <3>1, <3>2
  <2>4. ASSUME NEW id \in Ids, NEW ts \in Nat,
               sessions' = MarkWaiting(sessions, id, ts)
        PROVE  i = id
    <3>1. CASE i \in Present(sessions)
      BY <1>1, <2>4, <3>1, MarkChanges
    <3>2. CASE i \notin Present(sessions)
      BY <1>1, <2>2, <2>4, <3>2, MarkWaitingOthers, MarkWaitingAbsent DEF Present
    <3> QED
      BY <3>1, <3>2
  <2>5. ASSUME NEW m \in Hook, HandleHook(m)
        PROVE  Evident(i)
    <3>1. CASE m = [id |-> m.id, event |-> "Notification"]
               /\ sessions' = MarkWaiting(sessions, m.id, now)
      <4>1. m.id = i
        BY <2>2, <2>4, <2>5, <3>1, HookChanges
      <4> QED
        BY <2>5, <3>1, <4>1
    <3>2. CASE sessions' = Acknowledge(sessions, m.id)
      BY <2>3, <2>5, <3>2, HookChanges
    <3> QED
      BY <2>5, <3>1, <3>2, HookChanges
  <2>6. CASE ReadUpsert
    <3>1. CASE i \in Present(sessions)
      BY <1>1, <2>6, <3>1, UpsertChanges
    <3>2. CASE i \notin Present(sessions)
      <4>1. scan.id \in Ids /\ Collected \in Session /\ Collected.waiting = FALSE
        BY <1>1, <2>6, CollectedType DEF IInv, ScanHasSession, ReadUpsert
      <4>2. sessions' = Upsert(sessions, scan.id, Collected)
        BY <2>6 DEF ReadUpsert
      <4>3. sessions[i] = NoSession /\ sessions'[i] # NoSession
        BY <1>1, <2>2, <3>2 DEF Present
      <4> HIDE DEF Collected
      <4>4. i = scan.id
        BY <2>2, <4>1, <4>2, <4>3, UpsertFacts
      <4>5. sessions'[i] = Collected
        BY <2>2, <4>1, <4>2, <4>3, <4>4, UpsertFacts
      <4> QED
        BY <1>1, <4>1, <4>5
    <3> QED
      BY <3>1, <3>2
  <2>7. CASE Mark
    <3>1. scan.id \in Ids /\ scan.last \in Nat /\ ToolOf[scan.id] # "claude"
      BY <1>1, <2>2, <2>7 DEF IInv, ScanState, ScanHasSession, Mark
    <3>2. i = scan.id
      BY <2>4, <2>7, <3>1 DEF Mark
    <3> QED
      BY <2>7, <3>1, <3>2
  <2>8. CASE Reap
    BY <1>1, <2>8, ReapChanges
  <2>9. CASE Restart
    BY <1>1, <2>9, RestartChanges
  <2> QED
    BY <2>1, <2>3, <2>5, <2>6, <2>7, <2>8, <2>9, StoreWriters DEF HandleAck
<1>2. IInv /\ [Next]_vars =>
        [\A id \in Present(sessions)' :
           (sessions'[id].waiting /\ (id \in Present(sessions) => ~sessions[id].waiting))
             => \/ HandleHook([id |-> id, event |-> "Notification"])
                \/ Mark /\ scan.id = id /\ ToolOf[id] # "claude"]_vars
  BY <1>1
<1> QED
  BY <1>2, SpecIInv, PTL DEF Spec, RaisedOnlyOnEvidence
=============================================================================
