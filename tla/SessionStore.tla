---------------------------- MODULE SessionStore ----------------------------
(***************************************************************************)
(* The in-memory session store of the bridge (bridge/src/state.rs): a map  *)
(* from session ids to sessions behind one RwLock.  Every operation of     *)
(* Store takes the lock once, so each is one function of the map here;     *)
(* module Hub turns them into actions and interleaves them.                *)
(*                                                                         *)
(* A session carries the fields the program's decisions depend on.  Its    *)
(* tool is not a field: an id belongs to the tool that wrote the           *)
(* transcript, so the tool is a function of the id (Hub!ToolOf).           *)
(***************************************************************************)
EXTENDS Integers

CONSTANTS
  Ids,        (* session ids                                               *)
  Projects,   (* project names a session can be filed under                *)
  Epsilon,    (* state.rs EPSILON: tolerance of the reaper's comparison    *)
  None,       (* Option::None                                              *)
  NoSession   (* what the map holds for an id without an entry             *)

(* model::Session.  waitingSince is an Option<f64>; times are Nat.         *)
Session ==
  [project      : Projects,
   lastActivity : Nat,
   waiting      : BOOLEAN,
   waitingSince : Nat \cup {None},
   activeTurn   : BOOLEAN]

SessionMap == [Ids -> Session \cup {NoSession}]

ASSUME StoreAssumption ==
  /\ Epsilon \in Nat
  /\ None \notin Nat
  /\ None \notin Ids
  /\ NoSession \notin Session

Later(t, u) == IF t >= u THEN t ELSE u
Earlier(t, u) == IF t <= u THEN t ELSE u

Present(store) == {id \in Ids : store[id] # NoSession}

EmptyStore == [id \in Ids |-> NoSession]

(* Mutants of Upsert: the session is replaced as a whole; the activity is  *)
(* taken as it comes; the turn is not refreshed; nothing is.               *)
UpsertReplaces(store, id, session) ==
  [store EXCEPT ![id] =
     IF @ = NoSession THEN session
     ELSE [session EXCEPT !.lastActivity = Later(@, store[id].lastActivity)]]

UpsertTakesActivity(store, id, session) ==
  [store EXCEPT ![id] =
     IF @ = NoSession THEN session
     ELSE [session EXCEPT !.waiting = store[id].waiting,
                          !.waitingSince = store[id].waitingSince]]

UpsertKeepsTurn(store, id, session) ==
  [store EXCEPT ![id] =
     IF @ = NoSession THEN session
     ELSE [@ EXCEPT !.lastActivity = Later(@, session.lastActivity),
                    !.project      = session.project]]

UpsertOnce(store, id, session) ==
  [store EXCEPT ![id] = IF @ = NoSession THEN session ELSE @]

(* Store::upsert.  A new id takes the session as it comes.  A known id     *)
(* keeps the later activity and its waiting flag; its project and its      *)
(* active_turn are overwritten.                                            *)
Upsert(store, id, session) ==
  LET known == store[id] IN
  [store EXCEPT ![id] =
     IF known = NoSession
     THEN session
     ELSE [known EXCEPT
             !.lastActivity = Later(known.lastActivity, session.lastActivity),
             !.project      = session.project,
             !.activeTurn   = session.activeTurn]]

(* Mutant of MarkWaiting: only what is newer than the last activity counts.*)
MarkWaitingIfNewer(store, id, ts) ==
  [store EXCEPT ![id] =
     IF @ = NoSession THEN NoSession
     ELSE IF ts <= store[id].lastActivity THEN store[id]
     ELSE [store[id] EXCEPT !.waiting = TRUE, !.waitingSince = ts]]

(* Store::mark_waiting.  An unknown id is ignored.                         *)
MarkWaiting(store, id, ts) ==
  LET known == store[id] IN
  [store EXCEPT ![id] =
     IF known = NoSession
     THEN NoSession
     ELSE [known EXCEPT !.waiting = TRUE, !.waitingSince = ts]]

(* Mutant of Acknowledge: waiting_since is left behind.                    *)
AcknowledgeKeepsSince(store, id) ==
  [store EXCEPT ![id] = IF @ = NoSession THEN @ ELSE [@ EXCEPT !.waiting = FALSE]]

(* Store::ack.  An unknown id is ignored.                                  *)
Acknowledge(store, id) ==
  LET known == store[id] IN
  [store EXCEPT ![id] =
     IF known = NoSession
     THEN NoSession
     ELSE [known EXCEPT !.waiting = FALSE, !.waitingSince = None]]

(* Mutants of RemoveGone: the comparison is off by one; sessions that wait *)
(* for their user are never dropped.                                       *)
RemoveGoneEarly(store, t, ttl) ==
  [id \in Ids |->
     IF store[id] # NoSession /\ t - store[id].lastActivity < ttl
     THEN store[id] ELSE NoSession]

RemoveGoneKeepsWaiting(store, t, ttl) ==
  [id \in Ids |->
     IF /\ store[id] # NoSession
        /\ t - store[id].lastActivity <= ttl + Epsilon \/ store[id].waiting
     THEN store[id] ELSE NoSession]

(* Store::remove_gone, the reaper.                                         *)
RemoveGone(store, t, ttl) ==
  [id \in Ids |->
     IF store[id] # NoSession /\ t - store[id].lastActivity <= ttl + Epsilon
     THEN store[id]
     ELSE NoSession]

=============================================================================
