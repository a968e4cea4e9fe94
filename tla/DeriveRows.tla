----------------------------- MODULE DeriveRows -----------------------------
(***************************************************************************)
(* How the hub turns the session store into the rows it shows: derive_rows *)
(* of bridge/src/hub.rs, used by /state, /metrics and the federation push. *)
(*                                                                         *)
(* Sessions of one tool in one project are shown as one row.  Where the    *)
(* code leaves a choice to the iteration order of a HashMap (the session   *)
(* that represents a row whose candidates have equal ages), the row holds  *)
(* the set of the possible choices, reps.                                  *)
(***************************************************************************)
EXTENDS SessionStore, Sequences, FiniteSetsExt

CONSTANTS
  ToolOf,        (* [Ids -> tool names]                                    *)
  Alphabetical,  (* the position of a tool or project name among all names *)
  GoneTtl,       (* hub.rs GONE_TTL                                        *)
  WorkingSec,    (* hub.rs WORKING_SEC                                     *)
  MaxSessions,   (* hub.rs MAX_SESSIONS                                    *)
  Stores,        (* the stores that are asked for their rows               *)
  Now            (* the time at which they are asked                       *)

(* Names are compared as strings, and different ones are in some order.    *)
Names == Projects \cup {ToolOf[id] : id \in Ids}

ASSUME RowsAssumption ==
  /\ IsFiniteSet(Ids)
  /\ \A m, n \in Names : Alphabetical[m] \in Nat /\ (Alphabetical[m] = Alphabetical[n] => m = n)
  /\ GoneTtl \in Nat /\ WorkingSec \in Nat /\ MaxSessions \in Nat \ {0}
  /\ Stores \subseteq SessionMap /\ Now \in Nat

VARIABLES
  sessions,      (* the store                                              *)
  now            (* the clock                                              *)

vars == <<sessions, now>>

AgeOf(session, t) == t - session.lastActivity

(* Sessions inactive for longer than GONE_TTL are passed over.             *)
ShownIds(store, t) ==
  {id \in Present(store) : AgeOf(store[id], t) <= GoneTtl}

Status(session, t) ==
  IF session.waiting THEN "waiting"
  ELSE IF session.activeTurn \/ AgeOf(session, t) < WorkingSec THEN "working"
  ELSE "idle"

StatusRank == [waiting |-> 0, working |-> 1, idle |-> 2]

(* Mutant of Key: the project alone makes a row.                           *)
KeyByProject(store, id) == <<"any", store[id].project>>

Key(store, id) == <<ToolOf[id], store[id].project>>

Groups(store, t) ==
  LET shown == ShownIds(store, t)
  IN  {{j \in shown : Key(store, j) = Key(store, i)} : i \in shown}

(* Mutant of Representatives: the youngest session, waiting or not.        *)
RepresentativesYoungest(store, group) ==
  {i \in group :
     \A j \in group : store[i].lastActivity >= store[j].lastActivity}

(* The representative: the youngest of the waiting sessions of the group,  *)
(* or of all of them when none waits.                                      *)
Representatives(store, group) ==
  LET waiting    == {id \in group : store[id].waiting}
      candidates == IF waiting = {} THEN group ELSE waiting
  IN  {i \in candidates :
         \A j \in candidates : store[i].lastActivity >= store[j].lastActivity}

RowOf(store, t, group) ==
  LET best   == Min({StatusRank[Status(store[id], t)] : id \in group})
      age    == Min({AgeOf(store[id], t) : id \in group})
      waits  == {Later(t - store[id].waitingSince, 0) :
                   id \in {i \in group : store[i].waiting /\ store[i].waitingSince # None}}
      member == CHOOSE id \in group : TRUE
  IN  [tool       |-> ToolOf[member],
       project    |-> store[member].project,
       status     |-> CHOOSE s \in DOMAIN StatusRank : StatusRank[s] = best,
       ageSec     |-> Later(age, 0),
       waiting    |-> \E id \in group : store[id].waiting,
       waitingSec |-> IF waits = {} THEN None ELSE Max(waits),
       reps       |-> Representatives(store, group)]

AllRows(store, t) == {RowOf(store, t, g) : g \in Groups(store, t)}

SortKey(row) == <<StatusRank[row.status], row.ageSec,
                  Alphabetical[row.tool], Alphabetical[row.project]>>

(* Lexicographic order of the sort keys.                                   *)
RowBefore(r, s) ==
  LET k == SortKey(r)  l == SortKey(s)
  IN  \E i \in 1 .. 4 : k[i] < l[i] /\ \A j \in 1 .. i - 1 : k[j] = l[j]

(* sort_by: a row comes where as many rows are before it.                  *)
Place(row, rows) == Cardinality({r \in rows : RowBefore(r, row)}) + 1

InOrder(rows) ==
  [i \in 1 .. Cardinality(rows) |-> CHOOSE row \in rows : Place(row, rows) = i]

Truncate(rows, n) == SubSeq(rows, 1, Earlier(Len(rows), n))

(* Mutant of Rows: the list is cut before it is sorted.                    *)
RowsCutFirst(store, t) ==
  LET all  == AllRows(store, t)
      some == Min({MaxSessions, Cardinality(all)})
  IN  InOrder(CHOOSE kept \in SUBSET all : Cardinality(kept) = some)

Rows(store, t) == Truncate(InOrder(AllRows(store, t)), MaxSessions)

-----------------------------------------------------------------------------
(* Any store, a user who acknowledges the first row, and the reaper.       *)
Init == sessions \in Stores /\ now = Now

(* The first row is acknowledged by its id, as the device does on a tap.   *)
AckFirstRow ==
  LET rows == Rows(sessions, now) IN
  /\ rows # <<>>
  /\ rows[1].waiting
  /\ \E id \in rows[1].reps : sessions' = Acknowledge(sessions, id)
  /\ UNCHANGED now

Reap ==
  /\ sessions' = RemoveGone(sessions, now, GoneTtl)
  /\ UNCHANGED now

Next == AckFirstRow \/ Reap

Spec == Init /\ [][Next]_vars /\ WF_vars(AckFirstRow)

-----------------------------------------------------------------------------
(* Every session that is not too old is in at most one row, that of its    *)
(* tool and project, and in one whenever the list has room for all of      *)
(* them; the row is as urgent as its most urgent session, and no row       *)
(* stands for nobody (derive_rows' grouping).                              *)
OneRowPerGroup ==
  LET rows  == Rows(sessions, now)
      shown == ShownIds(sessions, now)
      kinds == {<<ToolOf[id], sessions[id].project>> : id \in shown}
  IN  /\ \A id \in shown :
           LET mine == {i \in DOMAIN rows : /\ rows[i].tool = ToolOf[id]
                                           /\ rows[i].project = sessions[id].project}
           IN  /\ Cardinality(mine) <= 1
               /\ Cardinality(kinds) <= MaxSessions => Cardinality(mine) = 1
               /\ \A i \in mine : StatusRank[rows[i].status] <= StatusRank[Status(sessions[id], now)]
      /\ \A i \in DOMAIN rows : \E id \in shown :
           /\ rows[i].tool = ToolOf[id] /\ rows[i].project = sessions[id].project
           /\ rows[i].status = Status(sessions[id], now)

(* The cap never drops a more urgent row in favour of a less urgent one,   *)
(* and the list is in the documented order (hub.rs, the comment on         *)
(* MAX_SESSIONS).                                                          *)
UrgentRowsSurvive ==
  LET rows == Rows(sessions, now) IN
  /\ \A i, j \in DOMAIN rows :
       i < j => StatusRank[rows[i].status] <= StatusRank[rows[j].status]
  /\ \A dropped \in AllRows(sessions, now) :
       (\A i \in DOMAIN rows : rows[i] # dropped) =>
         /\ Len(rows) = MaxSessions
         /\ \A i \in DOMAIN rows : StatusRank[rows[i].status] <= StatusRank[dropped.status]

(* The reaper never changes what /state shows: the two comparisons with    *)
(* GONE_TTL, one with and one without tolerance, agree where it matters.   *)
ReaperIsInvisible ==
  Rows(RemoveGone(sessions, now, GoneTtl), now) = Rows(sessions, now)

(* A user who acknowledges the first row by the id /state gives for it,    *)
(* again and again, silences every row: an ack is never spent on a session *)
(* that does not wait while its sibling does, and the rows the cap hid at  *)
(* first come up in their turn (derive_rows, ack_handler).                 *)
AcksSilenceEverything ==
  <>(\A id \in ShownIds(sessions, now) : ~sessions[id].waiting)
=============================================================================
