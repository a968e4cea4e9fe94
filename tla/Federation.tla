----------------------------- MODULE Federation -----------------------------
(***************************************************************************)
(* Several machines push their rows to an aggregator                       *)
(* (bridge/src/federation.rs, the push loop of bridge/src/main.rs, and     *)
(* ingest_handler and state_handler of bridge/src/hub.rs).                 *)
(*                                                                         *)
(* A push is an HTTP request that may be lost, or handled after its sender *)
(* has given up on it and sent the next one.  The aggregator keeps the     *)
(* rows of a node under "<node>/<session>" until the node's next push, or  *)
(* until they are TTL seconds old.                                         *)
(*                                                                         *)
(* A node id is the sequence of its "/"-separated segments: a configured   *)
(* node_id is used as it is, only hostname() replaces slashes.             *)
(***************************************************************************)
EXTENDS Integers, Sequences

CONSTANTS
  Machines,    (* the machines that push                                   *)
  NodeId,      (* [Machines -> node ids]                                   *)
  SessionIds,  (* session ids, on any machine                              *)
  Statuses,    (* what a row says of its session                           *)
  Absent,      (* no row for this session                                  *)
  Ttl,         (* hub.rs: 30 seconds                                       *)
  Epsilon,     (* federation.rs EPSILON                                    *)
  MaxDelay,    (* bound: a request older than this is lost                 *)
  Reported,    (* bound: [Machines -> sets of snapshots], what each pushes *)
  MaxPushes,   (* bound: [Machines -> Nat], pushes of each machine         *)
  PushUntil,   (* bound: nothing is pushed after this time                 *)
  MaxTime,     (* bound: the clock stops here                              *)
  MaxFaults    (* bound: crashes of a machine, restarts of the aggregator  *)

VARIABLES
  now,      (* the time, the same on all machines                          *)
  up,       (* [Machines -> BOOLEAN]: the bridge of the machine runs       *)
  awaited,  (* [Machines -> Nat]: the push its loop waits for, 0 = none    *)
  sent,     (* [Machines -> Nat]: number of pushes so far                  *)
  wire,     (* requests sent and not yet handled                           *)
  remote,   (* RemoteStore: [Keys -> Entry or Absent]                      *)
  latest,   (* history: [Machines -> the last request handled, or Absent]  *)
  faults    (* number of faults so far                                     *)

vars == <<now, up, awaited, sent, wire, remote, latest, faults>>

(* The rows of one machine at one moment.                                  *)
Snapshot == [SessionIds -> Statuses \cup {Absent}]

(* FedPayload, with its sender, its number and the time it was sent.       *)
Request == [from : Machines, number : Nat \ {0}, at : Nat, sessions : Snapshot]

KeyOf(m, s) == Append(NodeId[m], s)
Keys == {KeyOf(m, s) : m \in Machines, s \in SessionIds}

(* What the store holds under a key: the row and when it was received.     *)
Entry == [status : Statuses, received : Nat]

ASSUME FederationAssumption ==
  /\ \A m \in Machines : NodeId[m] \in Seq(STRING) /\ NodeId[m] # <<>>
  /\ SessionIds \subseteq STRING
  /\ Absent \notin Statuses /\ Absent \notin Entry /\ Absent \notin Request
  /\ Absent \notin [rows : Snapshot, at : Nat]
  /\ Reported \in [Machines -> SUBSET Snapshot]
  /\ Ttl \in Nat /\ Epsilon \in Nat
  /\ MaxDelay \in Nat /\ MaxPushes \in [Machines -> Nat] /\ PushUntil \in Nat
  /\ MaxTime \in Nat /\ MaxFaults \in Nat

-----------------------------------------------------------------------------
(* RemoteStore.                                                            *)

(* The key starts with the node id and a slash.                            *)
StartsWith(key, node) ==
  Len(node) < Len(key) /\ SubSeq(key, 1, Len(node)) = node

(* Mutants of Merge: the retain comes after the insertion; a row that was  *)
(* already there keeps its timestamp; a session without a row is stored    *)
(* all the same; the whole map is replaced.                                *)
MergeRetainsLast(store, request, t) ==
  [key \in Keys |-> IF StartsWith(key, NodeId[request.from]) THEN Absent ELSE store[key]]

MergeKeepsTimestamp(store, request, t) ==
  LET node == NodeId[request.from] IN
  [key \in Keys |->
     IF \E s \in SessionIds :
          key = Append(node, s) /\ request.sessions[s] # Absent
     THEN [status   |-> request.sessions[key[Len(key)]],
           received |-> IF store[key] = Absent THEN t ELSE store[key].received]
     ELSE IF StartsWith(key, node) THEN Absent
     ELSE store[key]]

MergeStoresAbsent(store, request, t) ==
  [key \in Keys |->
     IF StartsWith(key, NodeId[request.from])
     THEN [status |-> request.sessions[key[Len(key)]], received |-> t]
     ELSE store[key]]

MergeReplacesAll(store, request, t) ==
  [key \in Keys |->
     IF StartsWith(key, NodeId[request.from]) /\ request.sessions[key[Len(key)]] # Absent
     THEN [status |-> request.sessions[key[Len(key)]], received |-> t]
     ELSE Absent]

(* merge: everything under the node's prefix goes, the pushed rows come.   *)
Merge(store, request, t) ==
  LET node == NodeId[request.from] IN
  [key \in Keys |->
     IF \E s \in SessionIds :
          key = Append(node, s) /\ request.sessions[s] # Absent
     THEN [status   |-> request.sessions[key[Len(key)]],
           received |-> t]
     ELSE IF StartsWith(key, node) THEN Absent
     ELSE store[key]]

(* Mutants of Expired: a row lives a second longer; a row lives for ever.  *)
ExpiredLate(entry, t) == t - entry.received > Ttl + Epsilon + 1
ExpiredNever(entry, t) == FALSE

Expired(entry, t) == t - entry.received > Ttl + Epsilon

(* rows: expired entries are dropped before the rest is shown.             *)
Prune(store, t) ==
  [key \in Keys |->
     IF store[key] # Absent /\ Expired(store[key], t) THEN Absent ELSE store[key]]

(* The rows appended to /state: each is labelled with the node read back   *)
(* from its key, the text before the first slash.                          *)
RemoteRows(store, t) ==
  LET live == Prune(store, t) IN
  {[node |-> key[1], id |-> key[Len(key)], status |-> live[key].status] :
     key \in {k \in Keys : live[k] # Absent}}

-----------------------------------------------------------------------------
Init ==
  /\ now = 0
  /\ up = [m \in Machines |-> TRUE]
  /\ awaited = [m \in Machines |-> 0]
  /\ sent = [m \in Machines |-> 0]
  /\ wire = {}
  /\ remote = [key \in Keys |-> Absent]
  /\ latest = [m \in Machines |-> Absent]
  /\ faults = 0

Tick ==
  /\ now < MaxTime
  /\ now' = now + 1
  /\ wire' = {r \in wire : now' - r.at <= MaxDelay}
  /\ UNCHANGED <<up, awaited, sent, remote, latest, faults>>

(* The push loop wakes, derives its rows and posts them.  What the rows    *)
(* say is up to the agents of that machine.                                *)
Push(m) ==
  /\ up[m]
  /\ awaited[m] = 0
  /\ sent[m] < MaxPushes[m]
  /\ now <= PushUntil
  /\ sent' = [sent EXCEPT ![m] = @ + 1]
  /\ awaited' = [awaited EXCEPT ![m] = sent[m] + 1]
  /\ \E snapshot \in Reported[m] :
       wire' = wire \cup {[from |-> m, number |-> sent[m] + 1, at |-> now,
                           sessions |-> snapshot]}
  /\ UNCHANGED <<now, up, remote, latest, faults>>

(* ingest_handler.  Its answer releases the loop that waits for it.        *)
Ingest(r) ==
  /\ r \in wire
  /\ wire' = wire \ {r}
  /\ remote' = Merge(remote, r, now)
  /\ latest' = [latest EXCEPT ![r.from] = r]
  /\ awaited' = [awaited EXCEPT ![r.from] = IF @ = r.number THEN 0 ELSE @]
  /\ UNCHANGED <<now, up, sent, faults>>

Lose(r) ==
  /\ r \in wire
  /\ wire' = wire \ {r}
  /\ UNCHANGED <<now, up, awaited, sent, remote, latest, faults>>

(* PUSH_TIMEOUT: the loop gives up, the request is still under way.        *)
GiveUp(m) ==
  /\ awaited[m] # 0
  /\ awaited' = [awaited EXCEPT ![m] = 0]
  /\ UNCHANGED <<now, up, sent, wire, remote, latest, faults>>

(* state_handler calls rows(), which prunes the store as it reads it.      *)
ReadState ==
  /\ remote' = Prune(remote, now)
  /\ UNCHANGED <<now, up, awaited, sent, wire, latest, faults>>

-----------------------------------------------------------------------------
Fault ==
  /\ faults < MaxFaults
  /\ faults' = faults + 1

Crash(m) ==
  /\ up[m]
  /\ Fault
  /\ up' = [up EXCEPT ![m] = FALSE]
  /\ awaited' = [awaited EXCEPT ![m] = 0]
  /\ UNCHANGED <<now, sent, wire, remote, latest>>

Boot(m) ==
  /\ ~up[m]
  /\ up' = [up EXCEPT ![m] = TRUE]
  /\ UNCHANGED <<now, awaited, sent, wire, remote, latest, faults>>

RestartAggregator ==
  /\ Fault
  /\ remote' = [key \in Keys |-> Absent]
  /\ latest' = [m \in Machines |-> Absent]
  /\ UNCHANGED <<now, up, awaited, sent, wire>>

Next ==
  \/ Tick
  \/ \E m \in Machines : Push(m) \/ GiveUp(m) \/ Crash(m) \/ Boot(m)
  \/ \E r \in wire : Ingest(r) \/ Lose(r)
  \/ ReadState
  \/ RestartAggregator

Spec == Init /\ [][Next]_vars

(* Time passes; the loops of running machines push and give up in time.    *)
FairSpec ==
  /\ Spec
  /\ WF_vars(Tick)
  /\ \A m \in Machines : WF_vars(Push(m)) /\ WF_vars(GiveUp(m))

-----------------------------------------------------------------------------
(* The store seen as a board with one place per machine.                   *)
Held(m) == {s \in SessionIds : remote[KeyOf(m, s)] # Absent}

BoardOf ==
  [m \in Machines |->
     IF Held(m) = {} THEN Absent
     ELSE [rows |-> [s \in SessionIds |->
                       IF s \in Held(m) THEN remote[KeyOf(m, s)].status ELSE Absent],
           at   |-> remote[KeyOf(m, CHOOSE s \in Held(m) : TRUE)].received]]

Abstract == INSTANCE Board WITH board <- BoardOf, Lifetime <- Ttl + Epsilon

-----------------------------------------------------------------------------
TypeOK ==
  /\ now \in Nat
  /\ up \in [Machines -> BOOLEAN]
  /\ awaited \in [Machines -> Nat]
  /\ sent \in [Machines -> Nat]
  /\ wire \subseteq Request
  /\ remote \in [Keys -> Entry \cup {Absent}]
  /\ latest \in [Machines -> Request \cup {Absent}]
  /\ faults \in Nat

(* No node's keys are under the prefix of another.                         *)
Separated ==
  \A m, n \in Machines : \A s \in SessionIds :
    StartsWith(KeyOf(m, s), NodeId[n]) => m = n

(* The store holds the last push of the machine that was handled: each of  *)
(* its rows, nothing else, and all of them received at one time.           *)
HoldsLastPush(m) ==
  /\ latest[m] # Absent
  /\ \E t \in latest[m].at .. now : \A s \in SessionIds :
       remote[KeyOf(m, s)] =
         IF latest[m].sessions[s] = Absent THEN Absent
         ELSE [status |-> latest[m].sessions[s], received |-> t]

(* What the aggregator holds for a machine is exactly the last push it     *)
(* handled, no row of it lost and none left over from an older one; or     *)
(* nothing at all, and then there was no push since it started, or the     *)
(* last one was made longer ago than the TTL (federation.rs, the comment   *)
(* on merge).                                                              *)
WholePush ==
  \A m \in Machines :
    \/ HoldsLastPush(m)
    \/ /\ Held(m) = {}
       /\ latest[m] # Absent => now - latest[m].at > Ttl + Epsilon

(* Handling a push of one machine changes no other machine's rows.         *)
PushTouchesOnlyItsNode ==
  [][\A r \in wire : Ingest(r) =>
       \A m \in Machines \ {r.from} : \A s \in SessionIds :
         remote'[KeyOf(m, s)] = remote[KeyOf(m, s)]]_vars

(* The store is such a board: the rows of a machine come together, replace *)
(* the machine's older ones, expire together, and nobody else's change     *)
(* with them.  The display never shows half of a machine.                  *)
ImplementsBoard == Abstract!Spec

(* A row that is shown was true on its machine no longer ago than the TTL  *)
(* and the delay of one request.                                           *)
ShownIsRecent ==
  \A m \in Machines : \A s \in SessionIds :
    LET entry == Prune(remote, now)[KeyOf(m, s)] IN
    entry # Absent => now - latest[m].at <= Ttl + Epsilon + MaxDelay

(* A machine that stays down disappears from the display.                  *)
QuietNodeVanishes ==
  \A m \in Machines :
    <>[](~up[m]) =>
      <>[](\A s \in SessionIds : Prune(remote, now)[KeyOf(m, s)] = Absent)
=============================================================================
