-------------------------- MODULE FederationProofs --------------------------
(***************************************************************************)
(* The safety properties of Federation, proved for any number of machines  *)
(* and sessions, any loss, delay and reordering of pushes, and any crash,  *)
(* provided that no node id is a prefix of another's keys (Separated);     *)
(* and that its store implements the notice board of module Board.         *)
(***************************************************************************)
EXTENDS Federation, SequenceTheorems, TLAPS

-----------------------------------------------------------------------------
(* Keys.                                                                   *)

LEMMA AppendPrefix ==
  ASSUME NEW S, NEW seq \in Seq(S), NEW elt \in S
  PROVE  /\ Len(Append(seq, elt)) = Len(seq) + 1
         /\ Append(seq, elt)[Len(Append(seq, elt))] = elt
         /\ SubSeq(Append(seq, elt), 1, Len(seq)) = seq
         /\ Len(seq) \in Nat
<1> DEFINE long == Append(seq, elt)
           head == SubSeq(long, 1, Len(seq))
<1>1. /\ Len(long) = Len(seq) + 1
      /\ long[Len(seq) + 1] = elt
      /\ \A i \in 1 .. Len(seq) : long[i] = seq[i] /\ seq[i] \in S
      /\ Len(seq) \in Nat
  BY AppendProperties, ElementOfSeq, LenProperties
<1> HIDE DEF long
<1>2. /\ head \in Seq(S)
      /\ Len(head) = Len(seq)
      /\ \A i \in 1 .. Len(seq) : head[i] = long[i]
  BY <1>1, SubSeqProperties
<1> HIDE DEF head
<1>3. head = seq
  BY <1>1, <1>2, SeqEqual
<1> QED
  BY <1>1, <1>3 DEF head, long

LEMMA KeyFacts ==
  ASSUME NEW m \in Machines, NEW s \in SessionIds
  PROVE  /\ KeyOf(m, s) \in Keys
         /\ StartsWith(KeyOf(m, s), NodeId[m])
         /\ KeyOf(m, s)[Len(KeyOf(m, s))] = s
<1>1. NodeId[m] \in Seq(STRING) /\ s \in STRING
  BY FederationAssumption
<1>2. /\ Len(KeyOf(m, s)) = Len(NodeId[m]) + 1
      /\ KeyOf(m, s)[Len(KeyOf(m, s))] = s
      /\ SubSeq(KeyOf(m, s), 1, Len(NodeId[m])) = NodeId[m]
      /\ Len(NodeId[m]) \in Nat
  BY <1>1, AppendPrefix, Zenon DEF KeyOf
<1>3. KeyOf(m, s) \in Keys
  BY DEF Keys
<1> QED
  BY <1>2, <1>3 DEF StartsWith

(* Under separated node ids a key says which machine and session it is of. *)
LEMMA KeyInjective ==
  ASSUME Separated,
         NEW m \in Machines, NEW n \in Machines,
         NEW s \in SessionIds, NEW u \in SessionIds,
         KeyOf(m, s) = KeyOf(n, u)
  PROVE  m = n /\ s = u
<1>1. StartsWith(KeyOf(m, s), NodeId[n])
  BY KeyFacts
<1>2. m = n
  BY <1>1 DEF Separated
<1>3. s = u
  BY KeyFacts
<1> QED
  BY <1>2, <1>3

-----------------------------------------------------------------------------
(* RemoteStore.                                                            *)

Store == [Keys -> Entry \cup {Absent}]

LEMMA MergeOwn ==
  ASSUME Separated, NEW store, NEW r \in Request, NEW t,
         NEW s \in SessionIds
  PROVE  Merge(store, r, t)[KeyOf(r.from, s)] =
           IF r.sessions[s] = Absent THEN Absent
           ELSE [status |-> r.sessions[s], received |-> t]
<1> DEFINE key == KeyOf(r.from, s)
<1>1. r.from \in Machines
  BY DEF Request
<1>2. /\ key \in Keys
      /\ StartsWith(key, NodeId[r.from])
      /\ key[Len(key)] = s
  BY <1>1, KeyFacts
<1>3. \A u \in SessionIds : key = Append(NodeId[r.from], u) => u = s
  BY <1>1, KeyInjective DEF KeyOf
<1>4. key = Append(NodeId[r.from], s)
  BY DEF KeyOf
<1> HIDE DEF key
<1>5. CASE r.sessions[s] = Absent
  BY <1>2, <1>3, <1>5 DEF Merge, key
<1>6. CASE r.sessions[s] # Absent
  BY <1>2, <1>4, <1>6 DEF Merge, key
<1> QED
  BY <1>5, <1>6

LEMMA MergeOther ==
  ASSUME Separated, NEW store, NEW r \in Request, NEW t,
         NEW m \in Machines, m # r.from, NEW s \in SessionIds
  PROVE  Merge(store, r, t)[KeyOf(m, s)] = store[KeyOf(m, s)]
<1> DEFINE key == KeyOf(m, s)
<1>1. r.from \in Machines
  BY DEF Request
<1>2. key \in Keys /\ ~StartsWith(key, NodeId[r.from])
  BY <1>1, KeyFacts DEF Separated
<1>3. \A u \in SessionIds : key # Append(NodeId[r.from], u)
  BY <1>1, KeyInjective DEF KeyOf
<1> HIDE DEF key
<1> QED
  BY <1>2, <1>3 DEF Merge, key

LEMMA MergeType ==
  ASSUME NEW store \in Store, NEW r \in Request, NEW t \in Nat
  PROVE  Merge(store, r, t) \in Store
<1> DEFINE own(key) == \E s \in SessionIds :
                         key = Append(NodeId[r.from], s) /\ r.sessions[s] # Absent
<1>1. ASSUME NEW key \in Keys, own(key)
      PROVE  [status |-> r.sessions[key[Len(key)]], received |-> t] \in Entry
  <2>1. PICK s \in SessionIds :
          key = Append(NodeId[r.from], s) /\ r.sessions[s] # Absent
    BY <1>1
  <2>2. key[Len(key)] = s
    BY <2>1, KeyFacts DEF Request, KeyOf
  <2>3. r.sessions[s] \in Statuses
    BY <2>1 DEF Request, Snapshot
  <2> QED
    BY <2>2, <2>3 DEF Entry
<1> QED
  BY <1>1 DEF Merge, Store

LEMMA PruneType ==
  ASSUME NEW store \in Store, NEW t
  PROVE  Prune(store, t) \in Store
BY DEF Prune, Store

(* Pruning only removes.                                                   *)
LEMMA PruneFacts ==
  ASSUME NEW store, NEW t, NEW key \in Keys, Prune(store, t)[key] # Absent
  PROVE  /\ Prune(store, t)[key] = store[key]
         /\ store[key] # Absent
         /\ ~Expired(store[key], t)
BY DEF Prune

-----------------------------------------------------------------------------
(* Types: they hold whatever the node ids are.                             *)

LEMMA TypeStep == TypeOK /\ [Next]_vars => TypeOK'
<1> SUFFICES ASSUME TypeOK, [Next]_vars PROVE TypeOK'
  OBVIOUS
<1>1. CASE Tick
  BY <1>1 DEF TypeOK, Tick
<1>2. ASSUME NEW m \in Machines, Push(m) PROVE TypeOK'
  <2>1. PICK snapshot \in Reported[m] :
          wire' = wire \cup {[from |-> m, number |-> sent[m] + 1, at |-> now,
                              sessions |-> snapshot]}
    BY <1>2 DEF Push
  <2>2. sent[m] \in Nat /\ now \in Nat /\ snapshot \in Snapshot
    BY FederationAssumption DEF TypeOK
  <2>3. [from |-> m, number |-> sent[m] + 1, at |-> now, sessions |-> snapshot] \in Request
    BY <2>2 DEF Request
  <2>4. sent' \in [Machines -> Nat] /\ awaited' \in [Machines -> Nat]
    BY <1>2, <2>2 DEF TypeOK, Push
  <2> QED
    BY <1>2, <2>1, <2>3, <2>4 DEF TypeOK, Push
<1>3. ASSUME NEW r \in wire, Ingest(r) PROVE TypeOK'
  <2>1. r \in Request /\ r.from \in Machines /\ now \in Nat /\ remote \in Store
    BY DEF TypeOK, Request, Store
  <2>2. Merge(remote, r, now) \in Store
    BY <2>1, MergeType
  <2>3. awaited' \in [Machines -> Nat] /\ latest' \in [Machines -> Request \cup {Absent}]
    BY <1>3, <2>1 DEF TypeOK, Ingest
  <2> QED
    BY <1>3, <2>2, <2>3 DEF TypeOK, Ingest, Store
<1>4. ASSUME NEW r \in wire, Lose(r) PROVE TypeOK'
  BY <1>4 DEF TypeOK, Lose
<1>5. ASSUME NEW m \in Machines, GiveUp(m) PROVE TypeOK'
  BY <1>5 DEF TypeOK, GiveUp
<1>6. ASSUME NEW m \in Machines, Crash(m) PROVE TypeOK'
  BY <1>6 DEF TypeOK, Crash, Fault
<1>7. ASSUME NEW m \in Machines, Boot(m) PROVE TypeOK'
  BY <1>7 DEF TypeOK, Boot
<1>8. CASE ReadState
  <2>1. Prune(remote, now) \in Store
    BY PruneType DEF TypeOK, Store
  <2> QED
    BY <1>8, <2>1 DEF TypeOK, ReadState, Store
<1>9. CASE RestartAggregator
  BY <1>9 DEF TypeOK, RestartAggregator, Fault
<1>10. CASE UNCHANGED vars
  BY <1>10 DEF TypeOK, vars
<1> QED
  BY <1>1, <1>2, <1>3, <1>4, <1>5, <1>6, <1>7, <1>8, <1>9, <1>10 DEF Next

(* Every variable keeps its type, for any machines, sessions and node ids, *)
(* whether or not the ids nest, and whatever the network does.             *)
THEOREM TypeCorrect == Spec => []TypeOK
<1>1. Init => TypeOK
  BY DEF Init, TypeOK
<1>2. TypeOK /\ [Next]_vars => TypeOK'
  BY TypeStep
<1> QED
  BY <1>1, <1>2, PTL DEF Spec

-----------------------------------------------------------------------------
(* The inductive invariant: whole pushes, no request older than MaxDelay   *)
(* or from the future, and so no row received later than that after it was *)
(* true.                                                                   *)

WireIsFresh == \A r \in wire : r.at <= now /\ now - r.at <= MaxDelay

ReceivedInTime ==
  \A m \in Machines : \A s \in SessionIds :
    remote[KeyOf(m, s)] # Absent =>
      /\ latest[m] # Absent
      /\ remote[KeyOf(m, s)].received - latest[m].at <= MaxDelay

FInv == TypeOK /\ WholePush /\ WireIsFresh /\ ReceivedInTime

LEMMA InitFInv == Init => FInv
<1> SUFFICES ASSUME Init PROVE FInv
  OBVIOUS
<1>1. TypeOK
  BY DEF Init, TypeOK
<1>2. WireIsFresh
  BY DEF Init, WireIsFresh
<1>3. \A m \in Machines : \A s \in SessionIds :
        remote[KeyOf(m, s)] = Absent /\ latest[m] = Absent
  BY KeyFacts DEF Init
<1>4. \A m \in Machines : Held(m) = {} /\ latest[m] = Absent
  BY <1>3 DEF Held, Init
<1> QED
  BY <1>1, <1>2, <1>3, <1>4 DEF FInv, WholePush, ReceivedInTime

(* Steps that change neither the store nor the history: a whole push stays *)
(* whole, and one that expired stays expired.                              *)
LEMMA QuietStep ==
  ASSUME FInv, TypeOK', WireIsFresh', UNCHANGED <<remote, latest>>, now' \in {now, now + 1}
  PROVE  FInv'
<1>1. ASSUME NEW m \in Machines
      PROVE  \/ HoldsLastPush(m)'
             \/ Held(m)' = {} /\ (latest'[m] # Absent => now' - latest'[m].at > Ttl + Epsilon)
  <2>1. now \in Nat /\ now' \in Nat /\ now <= now' /\ Ttl \in Nat /\ Epsilon \in Nat
    BY FederationAssumption DEF FInv, TypeOK
  <2>2. latest[m] # Absent => latest[m].at \in Nat
    BY DEF FInv, TypeOK, Request
  <2>3. CASE HoldsLastPush(m)
    <3>1. latest[m].at .. now \subseteq latest[m].at .. now'
      BY <2>1, <2>2, <2>3 DEF HoldsLastPush
    <3> QED
      BY <2>3, <3>1 DEF HoldsLastPush
  <2>4. CASE Held(m) = {} /\ (latest[m] # Absent => now - latest[m].at > Ttl + Epsilon)
    BY <2>1, <2>2, <2>4 DEF Held
  <2> QED
    BY <2>3, <2>4 DEF FInv, WholePush
<1>2. WholePush'
  BY <1>1 DEF WholePush
<1>3. ReceivedInTime'
  BY DEF FInv, ReceivedInTime
<1> QED
  BY <1>2, <1>3 DEF FInv

(* The rows of one push expire together.                                   *)
LEMMA PruneStep ==
  ASSUME FInv, TypeOK', remote' = Prune(remote, now), UNCHANGED <<now, wire, latest>>
  PROVE  FInv'
<1>1. WireIsFresh'
  BY DEF FInv, WireIsFresh
<1>2. \A m \in Machines : \A s \in SessionIds :
        remote'[KeyOf(m, s)] =
          IF remote[KeyOf(m, s)] # Absent /\ Expired(remote[KeyOf(m, s)], now) THEN Absent
          ELSE remote[KeyOf(m, s)]
  BY KeyFacts DEF Prune
<1>3. ASSUME NEW m \in Machines
      PROVE  \/ HoldsLastPush(m)'
             \/ Held(m)' = {} /\ (latest'[m] # Absent => now' - latest'[m].at > Ttl + Epsilon)
  <2>1. now \in Nat /\ Ttl \in Nat /\ Epsilon \in Nat
    BY FederationAssumption DEF FInv, TypeOK
  <2>2. CASE HoldsLastPush(m)
    <3>1. latest[m] # Absent /\ latest[m].at \in Nat
      BY <2>2 DEF HoldsLastPush, FInv, TypeOK, Request
    <3>2. PICK t \in latest[m].at .. now : \A s \in SessionIds :
            remote[KeyOf(m, s)] =
              IF latest[m].sessions[s] = Absent THEN Absent
              ELSE [status |-> latest[m].sessions[s], received |-> t]
      BY <2>2 DEF HoldsLastPush
    <3>3. \A s \in SessionIds : remote[KeyOf(m, s)] # Absent => remote[KeyOf(m, s)].received = t
      <4> SUFFICES ASSUME NEW s \in SessionIds, remote[KeyOf(m, s)] # Absent
                   PROVE  remote[KeyOf(m, s)].received = t
        OBVIOUS
      <4>1. remote[KeyOf(m, s)] = [status |-> latest[m].sessions[s], received |-> t]
        BY <3>2
      <4> QED
        BY <4>1
    <3>4. CASE now - t > Ttl + Epsilon
      <4>1. \A s \in SessionIds : remote'[KeyOf(m, s)] = Absent
        BY <1>2, <3>3, <3>4 DEF Expired
      <4>2. now - latest[m].at > Ttl + Epsilon
        BY <2>1, <3>1, <3>4
      <4> QED
        BY <4>1, <4>2 DEF Held
    <3>5. CASE ~ (now - t > Ttl + Epsilon)
      <4>1. \A s \in SessionIds : remote'[KeyOf(m, s)] = remote[KeyOf(m, s)]
        BY <1>2, <3>3, <3>5 DEF Expired
      <4> QED
        BY <3>1, <3>2, <4>1 DEF HoldsLastPush
    <3> QED
      BY <3>4, <3>5
  <2>3. CASE Held(m) = {} /\ (latest[m] # Absent => now - latest[m].at > Ttl + Epsilon)
    <3>1. \A s \in SessionIds : remote'[KeyOf(m, s)] = Absent
      BY <1>2, <2>3 DEF Held
    <3> QED
      BY <2>3, <3>1 DEF Held
  <2> QED
    BY <2>2, <2>3 DEF FInv, WholePush
<1>4. WholePush'
  BY <1>3 DEF WholePush
<1>5. ASSUME NEW m \in Machines, NEW s \in SessionIds, remote'[KeyOf(m, s)] # Absent
      PROVE  remote'[KeyOf(m, s)] = remote[KeyOf(m, s)]
  BY <1>5, KeyFacts, PruneFacts
<1>6. ReceivedInTime'
  BY <1>5 DEF FInv, ReceivedInTime
<1> QED
  BY <1>1, <1>4, <1>6 DEF FInv

LEMMA TickFInv == FInv /\ Tick => FInv'
<1> SUFFICES ASSUME FInv, Tick PROVE FInv'
  OBVIOUS
<1>1. TypeOK'
  BY TypeStep DEF FInv, Next
<1>2. WireIsFresh'
  <2>1. now \in Nat /\ \A r \in wire : r.at \in Nat /\ r.at <= now
    BY DEF FInv, TypeOK, Request, WireIsFresh
  <2> QED
    BY <2>1 DEF Tick, WireIsFresh
<1> QED
  BY <1>1, <1>2, QuietStep DEF Tick

LEMMA PushFInv == ASSUME FInv, NEW m \in Machines, Push(m) PROVE FInv'
<1>1. now \in Nat /\ sent[m] \in Nat /\ MaxDelay \in Nat /\ Reported[m] \subseteq Snapshot
  BY FederationAssumption DEF FInv, TypeOK
<1>2. PICK snapshot \in Reported[m] :
        wire' = wire \cup {[from |-> m, number |-> sent[m] + 1, at |-> now,
                            sessions |-> snapshot]}
  BY DEF Push
<1> DEFINE request == [from |-> m, number |-> sent[m] + 1, at |-> now,
                       sessions |-> snapshot]
<1>3. request \in Request /\ request.at = now
  BY <1>1 DEF Request
<1> HIDE DEF request
<1>4. wire' = wire \cup {request}
  BY <1>2 DEF request
<1>5. TypeOK'
  BY TypeStep DEF FInv, Next
<1>6. WireIsFresh'
  <2>1. now <= now /\ now - now <= MaxDelay
    BY <1>1
  <2> QED
    BY <1>3, <1>4, <2>1 DEF FInv, WireIsFresh, Push
<1> QED
  BY <1>5, <1>6, QuietStep DEF Push

LEMMA IngestFInv ==
  ASSUME Separated, FInv, NEW r \in wire, Ingest(r)
  PROVE  FInv'
<1>1. /\ r \in Request /\ r.from \in Machines /\ r.at \in Nat
      /\ now \in Nat /\ r.at <= now /\ now - r.at <= MaxDelay /\ remote \in Store
      /\ r.sessions \in Snapshot
  BY DEF FInv, TypeOK, Request, WireIsFresh, Store
<1>2. /\ remote' = Merge(remote, r, now)
      /\ latest' = [latest EXCEPT ![r.from] = r]
      /\ wire' \subseteq wire
      /\ now' = now
  BY DEF Ingest
<1>4. TypeOK'
  BY TypeStep DEF FInv, Next
<1>5. WireIsFresh'
  BY <1>2 DEF FInv, WireIsFresh
<1>6. ASSUME NEW s \in SessionIds
      PROVE  /\ latest'[r.from] = r
             /\ remote'[KeyOf(r.from, s)] =
                  IF r.sessions[s] = Absent THEN Absent
                  ELSE [status |-> r.sessions[s], received |-> now]
  <2>1. latest'[r.from] = r
    BY <1>1, <1>2 DEF FInv, TypeOK
  <2> QED
    BY <1>1, <1>2, <2>1, MergeOwn
<1>7. ASSUME NEW m \in Machines, m # r.from, NEW s \in SessionIds
      PROVE  /\ latest'[m] = latest[m]
             /\ remote'[KeyOf(m, s)] = remote[KeyOf(m, s)]
  <2>1. latest'[m] = latest[m]
    BY <1>2, <1>7 DEF FInv, TypeOK
  <2> QED
    BY <1>1, <1>2, <1>7, <2>1, MergeOther
<1>8. r # Absent
  BY <1>1, FederationAssumption
<1>9. WholePush'
  <2> SUFFICES ASSUME NEW m \in Machines
               PROVE  \/ HoldsLastPush(m)'
                      \/ /\ Held(m)' = {}
                         /\ latest'[m] # Absent => now' - latest'[m].at > Ttl + Epsilon
    BY DEF WholePush
  <2>1. CASE m = r.from
    <3>1. latest'[m] = r /\ now' = now /\ now \in r.at .. now
      <4>1. latest'[m] = r
        BY <1>1, <1>2, <2>1 DEF FInv, TypeOK
      <4> QED
        BY <1>1, <1>2, <4>1
    <3>2. \A s \in SessionIds :
            remote'[KeyOf(m, s)] = IF latest'[m].sessions[s] = Absent THEN Absent
                                   ELSE [status |-> latest'[m].sessions[s], received |-> now]
      BY <1>6, <2>1, <3>1
    <3>3. HoldsLastPush(m)'
      BY <1>8, <3>1, <3>2 DEF HoldsLastPush
    <3> QED
      BY <3>3
  <2>2. CASE m # r.from
    <3>1. latest'[m] = latest[m]
      BY <1>2, <2>2 DEF FInv, TypeOK
    <3>2. \A s \in SessionIds : remote'[KeyOf(m, s)] = remote[KeyOf(m, s)]
      BY <1>7, <2>2
    <3>3. Held(m)' = Held(m)
      BY <3>2 DEF Held
    <3>4. HoldsLastPush(m) => HoldsLastPush(m)'
      BY <1>2, <3>1, <3>2 DEF HoldsLastPush
    <3> QED
      BY <1>2, <3>1, <3>3, <3>4 DEF FInv, WholePush
  <2> QED
    BY <2>1, <2>2
<1>10. ReceivedInTime'
  <2> SUFFICES ASSUME NEW m \in Machines, NEW s \in SessionIds,
                      remote'[KeyOf(m, s)] # Absent
               PROVE  /\ latest'[m] # Absent
                      /\ remote'[KeyOf(m, s)].received - latest'[m].at <= MaxDelay
    BY DEF ReceivedInTime
  <2>1. CASE m = r.from
    <3>1. latest'[m] = r
      BY <1>6, <2>1
    <3>2. r.sessions[s] # Absent
      BY <1>6, <2>1
    <3>3. remote'[KeyOf(m, s)] = [status |-> r.sessions[s], received |-> now]
      BY <1>6, <2>1, <3>2
    <3>4. remote'[KeyOf(m, s)].received = now
      BY <3>3
    <3> QED
      BY <1>1, <1>8, <3>1, <3>4
  <2>2. CASE m # r.from
    BY <1>7, <2>2 DEF FInv, ReceivedInTime
  <2> QED
    BY <2>1, <2>2
<1> QED
  BY <1>4, <1>5, <1>9, <1>10 DEF FInv

LEMMA LoseFInv == ASSUME FInv, NEW r \in wire, Lose(r) PROVE FInv'
<1>1. TypeOK' /\ WireIsFresh'
  BY TypeStep DEF FInv, WireIsFresh, Lose, Next
<1> QED
  BY <1>1, QuietStep DEF Lose

LEMMA MachineStepFInv ==
  ASSUME FInv, NEW m \in Machines, GiveUp(m) \/ Crash(m) \/ Boot(m)
  PROVE  FInv'
<1>1. TypeOK'
  BY TypeStep DEF FInv, Next
<1>2. WireIsFresh'
  BY DEF FInv, WireIsFresh, GiveUp, Crash, Boot
<1> QED
  BY <1>1, <1>2, QuietStep DEF GiveUp, Crash, Boot

LEMMA ReadStateFInv == FInv /\ ReadState => FInv'
<1> SUFFICES ASSUME FInv, ReadState PROVE FInv'
  OBVIOUS
<1>1. TypeOK'
  BY TypeStep DEF FInv, Next
<1> QED
  BY <1>1, PruneStep DEF ReadState

LEMMA RestartAggregatorFInv == FInv /\ RestartAggregator => FInv'
<1> SUFFICES ASSUME FInv, RestartAggregator PROVE FInv'
  OBVIOUS
<1>1. TypeOK' /\ WireIsFresh'
  BY TypeStep DEF FInv, WireIsFresh, RestartAggregator, Next
<1>2. \A m \in Machines : \A s \in SessionIds :
        remote'[KeyOf(m, s)] = Absent /\ latest'[m] = Absent
  BY KeyFacts DEF RestartAggregator
<1>3. \A m \in Machines : Held(m)' = {} /\ latest'[m] = Absent
  BY <1>2 DEF Held, RestartAggregator
<1> QED
  BY <1>1, <1>2, <1>3 DEF FInv, WholePush, ReceivedInTime

LEMMA NextFInv == ASSUME Separated PROVE FInv /\ [Next]_vars => FInv'
<1> SUFFICES ASSUME FInv, [Next]_vars PROVE FInv'
  OBVIOUS
<1>1. CASE UNCHANGED vars
  BY <1>1, QuietStep DEF vars, FInv, TypeOK, WireIsFresh
<1>2. CASE Next
  BY <1>2, TickFInv, PushFInv, IngestFInv, LoseFInv, MachineStepFInv,
     ReadStateFInv, RestartAggregatorFInv DEF Next
<1> QED
  BY <1>1, <1>2

-----------------------------------------------------------------------------
(* What is held for a machine is its last push, whole, or nothing once the *)
(* push has expired, for any interleaving, loss and delay of the requests. *)
THEOREM PushesAreWhole == Separated => (Spec => []WholePush)
<1> SUFFICES ASSUME Separated PROVE Spec => []WholePush
  OBVIOUS
<1>1. FInv => WholePush
  BY DEF FInv
<1> QED
  BY <1>1, InitFInv, NextFInv, PTL DEF Spec

(* What is shown of a machine is never older than the TTL and one delay.   *)
THEOREM ShownRowsAreRecent == Separated => (Spec => []ShownIsRecent)
<1> SUFFICES ASSUME Separated PROVE Spec => []ShownIsRecent
  OBVIOUS
<1>1. FInv => ShownIsRecent
  <2> SUFFICES ASSUME FInv, NEW m \in Machines, NEW s \in SessionIds,
                      Prune(remote, now)[KeyOf(m, s)] # Absent
               PROVE  now - latest[m].at <= Ttl + Epsilon + MaxDelay
    BY DEF ShownIsRecent
  <2> DEFINE entry == remote[KeyOf(m, s)]
  <2>1. entry # Absent /\ ~Expired(entry, now)
    BY KeyFacts, PruneFacts
  <2>2. latest[m] # Absent /\ entry.received - latest[m].at <= MaxDelay
    BY <2>1 DEF FInv, ReceivedInTime
  <2>3. entry \in Entry /\ latest[m] \in Request /\ now \in Nat
    BY <2>1, <2>2, KeyFacts DEF FInv, TypeOK
  <2> HIDE DEF entry
  <2>4. entry.received \in Nat /\ latest[m].at \in Nat
    BY <2>3 DEF Entry, Request
  <2> QED
    BY <2>1, <2>2, <2>3, <2>4, FederationAssumption DEF Expired
<1> QED
  BY <1>1, InitFInv, NextFInv, PTL DEF Spec

(* A push of one machine leaves the rows of every other machine alone.     *)
THEOREM PushesAreIsolated == Separated => (Spec => PushTouchesOnlyItsNode)
<1> SUFFICES ASSUME Separated PROVE Spec => PushTouchesOnlyItsNode
  OBVIOUS
<1>1. ASSUME FInv, NEW r \in wire, Ingest(r),
             NEW m \in Machines \ {r.from}, NEW s \in SessionIds
      PROVE  remote'[KeyOf(m, s)] = remote[KeyOf(m, s)]
  BY <1>1, MergeOther DEF FInv, TypeOK, Ingest
<1>2. FInv => [\A r \in wire : Ingest(r) =>
                 \A m \in Machines \ {r.from} : \A s \in SessionIds :
                   remote'[KeyOf(m, s)] = remote[KeyOf(m, s)]]_vars
  BY <1>1
<1> QED
  BY <1>2, InitFInv, NextFInv, PTL DEF Spec, PushTouchesOnlyItsNode

-----------------------------------------------------------------------------
(* The store of the aggregator implements the notice board: a simulation   *)
(* in which a handled push puts a notice up, a read takes the overdue ones *)
(* down, a restart wipes the board, and everything else leaves it alone.   *)

(* The rows a machine has were all received at once, and so expire as one: *)
(* this much of WholePush the simulation needs.                            *)
Together ==
  \A m \in Machines : \A s, u \in Held(m) :
    remote[KeyOf(m, s)].received = remote[KeyOf(m, u)].received

BInv == FInv /\ Together

LEMMA WholeIsTogether == FInv => Together
<1> SUFFICES ASSUME FInv, NEW m \in Machines, NEW s \in Held(m), NEW u \in Held(m)
             PROVE  remote[KeyOf(m, s)].received = remote[KeyOf(m, u)].received
  BY DEF Together
<1>1. /\ s \in SessionIds /\ remote[KeyOf(m, s)] # Absent
      /\ u \in SessionIds /\ remote[KeyOf(m, u)] # Absent
  BY DEF Held
<1>2. HoldsLastPush(m)
  BY DEF FInv, WholePush
<1>3. PICK t \in latest[m].at .. now : \A x \in SessionIds :
        remote[KeyOf(m, x)] =
          IF latest[m].sessions[x] = Absent THEN Absent
          ELSE [status |-> latest[m].sessions[x], received |-> t]
  BY <1>2 DEF HoldsLastPush
<1>4. /\ remote[KeyOf(m, s)] = [status |-> latest[m].sessions[s], received |-> t]
      /\ remote[KeyOf(m, u)] = [status |-> latest[m].sessions[u], received |-> t]
  BY <1>1, <1>3
<1> QED
  BY <1>4

-----------------------------------------------------------------------------
(* The machine's place on the board is decided by its own keys.            *)
LEMMA SamePlace ==
  ASSUME NEW m \in Machines,
         \A s \in SessionIds : remote'[KeyOf(m, s)] = remote[KeyOf(m, s)]
  PROVE  Held(m)' = Held(m) /\ BoardOf'[m] = BoardOf[m]
<1>1. Held(m)' = Held(m)
  BY DEF Held
<1>2. \A s \in Held(m) : s \in SessionIds
  BY DEF Held
<1>3. CASE Held(m) = {}
  BY <1>1, <1>3 DEF BoardOf
<1>4. CASE Held(m) # {}
  <2> DEFINE some == CHOOSE s \in Held(m) : TRUE
  <2>1. some \in SessionIds /\ (CHOOSE s \in Held(m)' : TRUE) = some
    BY <1>1, <1>2, <1>4
  <2> DEFINE before == [s \in SessionIds |->
                          IF s \in Held(m) THEN remote[KeyOf(m, s)].status ELSE Absent]
             after == [s \in SessionIds |->
                          IF s \in Held(m)' THEN remote'[KeyOf(m, s)].status ELSE Absent]
  <2>2. after = before
    BY <1>1
  <2>3. remote'[KeyOf(m, some)].received = remote[KeyOf(m, some)].received
    BY <2>1
  <2> HIDE DEF some
  <2>4. BoardOf[m] = [rows |-> before, at |-> remote[KeyOf(m, some)].received]
    BY <1>4 DEF BoardOf, some
  <2>5. BoardOf'[m] = [rows |-> after, at |-> remote'[KeyOf(m, some)].received]
    BY <1>1, <1>4, <2>1 DEF BoardOf
  <2> HIDE DEF before, after
  <2> QED
    BY <1>1, <2>2, <2>3, <2>4, <2>5
<1> QED
  BY <1>1, <1>3, <1>4

(* The place of a machine that has rows, all received at time t.           *)
LEMMA PlaceOf ==
  ASSUME TypeOK, NEW m \in Machines, NEW t \in Nat, Held(m) # {},
         \A s \in Held(m) : remote[KeyOf(m, s)].received = t
  PROVE  /\ BoardOf[m].at = t
         /\ BoardOf[m] = [rows |-> [s \in SessionIds |->
                                      IF s \in Held(m) THEN remote[KeyOf(m, s)].status
                                      ELSE Absent],
                          at   |-> t]
         /\ BoardOf[m] # Absent
<1> DEFINE some == CHOOSE s \in Held(m) : TRUE
           rows == [s \in SessionIds |->
                      IF s \in Held(m) THEN remote[KeyOf(m, s)].status ELSE Absent]
<1>1. some \in Held(m)
  OBVIOUS
<1>2. remote[KeyOf(m, some)].received = t
  BY <1>1
<1> HIDE DEF some
<1>3. BoardOf[m] = [rows |-> rows, at |-> t]
  BY <1>2 DEF BoardOf, some
<1>4. rows \in Snapshot
  <2>1. \A s \in Held(m) : s \in SessionIds /\ remote[KeyOf(m, s)] \in Entry
    BY KeyFacts DEF TypeOK, Held
  <2>2. \A s \in Held(m) : remote[KeyOf(m, s)].status \in Statuses
    BY <2>1 DEF Entry
  <2> QED
    BY <2>2 DEF Snapshot
<1>5. [rows |-> rows, at |-> t] \in [rows : Snapshot, at : Nat]
  BY <1>4
<1> HIDE DEF rows
<1>6. BoardOf[m].at = t
  BY <1>3
<1>7. BoardOf[m] # Absent
  BY <1>3, <1>5, FederationAssumption
<1> QED
  BY <1>3, <1>6, <1>7 DEF rows

-----------------------------------------------------------------------------
(* Handling a push: a notice goes up.                                      *)
LEMMA IngestPutsUp ==
  ASSUME Separated, BInv, BInv', NEW r \in wire, Ingest(r)
  PROVE  Abstract!PutUp(r.from)
<1> DEFINE m == r.from
           rows == r.sessions
<1>1. /\ r \in Request /\ m \in Machines /\ rows \in Snapshot /\ now \in Nat
      /\ TypeOK /\ TypeOK'
  BY DEF BInv, FInv, TypeOK, Request
<1>2. remote' = Merge(remote, r, now) /\ now' = now
  BY DEF Ingest
<1>3. \A s \in SessionIds :
        remote'[KeyOf(m, s)] = IF rows[s] = Absent THEN Absent
                               ELSE [status |-> rows[s], received |-> now]
  BY <1>1, <1>2, MergeOwn
<1>4. ASSUME NEW n \in Machines, n # m
      PROVE  BoardOf'[n] = BoardOf[n]
  <2>1. \A s \in SessionIds : remote'[KeyOf(n, s)] = remote[KeyOf(n, s)]
    BY <1>1, <1>2, <1>4, MergeOther
  <2> QED
    BY <2>1, SamePlace
<1>5. Abstract!Rows = Snapshot
  BY DEF Abstract!Rows, Snapshot
<1>6. \A s \in SessionIds :
        rows[s] # Absent => [status |-> rows[s], received |-> now] \in Entry
  BY <1>1 DEF Snapshot, Entry
<1> HIDE DEF m, rows
<1>7. \A s \in SessionIds : s \in Held(m)' <=> rows[s] # Absent
  BY <1>3, <1>6, FederationAssumption DEF Held
<1>8. BoardOf'[m] = Abstract!Notice(rows)
  <2>1. CASE rows = Abstract!NoRows
    <3>1. Held(m)' = {}
      BY <1>7, <2>1 DEF Abstract!NoRows, Held
    <3> QED
      BY <1>1, <2>1, <3>1 DEF BoardOf, Abstract!Notice
  <2>2. CASE rows # Abstract!NoRows
    <3>1. PICK s \in SessionIds : rows[s] # Absent
      BY <1>1, <2>2 DEF Snapshot, Abstract!NoRows
    <3>2. Held(m)' # {}
      BY <1>7, <3>1
    <3>3. \A u \in Held(m)' : /\ u \in SessionIds
                              /\ remote'[KeyOf(m, u)] = [status |-> rows[u], received |-> now]
      BY <1>3, <1>7 DEF Held
    <3>4. \A u \in Held(m)' : /\ remote'[KeyOf(m, u)].status = rows[u]
                              /\ remote'[KeyOf(m, u)].received = now
      <4> SUFFICES ASSUME NEW u \in Held(m)'
                   PROVE  /\ remote'[KeyOf(m, u)].status = rows[u]
                          /\ remote'[KeyOf(m, u)].received = now
        OBVIOUS
      <4>1. remote'[KeyOf(m, u)] = [status |-> rows[u], received |-> now]
        BY <3>3
      <4> QED
        BY <4>1
    <3>5. BoardOf'[m] = [rows |-> [u \in SessionIds |->
                                     IF u \in Held(m)' THEN remote'[KeyOf(m, u)].status
                                     ELSE Absent],
                         at   |-> now]
      <4> DEFINE some == CHOOSE u \in Held(m)' : TRUE
      <4>1. some \in Held(m)'
        BY <3>2
      <4>2. remote'[KeyOf(m, some)].received = now
        BY <3>4, <4>1
      <4> HIDE DEF some
      <4> QED
        BY <1>1, <3>2, <4>2 DEF BoardOf, some
    <3>6. [u \in SessionIds |-> IF u \in Held(m)' THEN remote'[KeyOf(m, u)].status ELSE Absent]
          = rows
      BY <1>1, <1>7, <3>4 DEF Snapshot
    <3> QED
      BY <2>2, <3>5, <3>6 DEF Abstract!Notice
  <2> QED
    BY <2>1, <2>2
<1>9. BoardOf' = [BoardOf EXCEPT ![m] = Abstract!Notice(rows)]
  <2>1. BoardOf = [n \in Machines |-> BoardOf[n]] /\ BoardOf' = [n \in Machines |-> BoardOf'[n]]
    BY DEF BoardOf
  <2> QED
    BY <1>1, <1>4, <1>8, <2>1
<1>10. Abstract!PutUp(m)
  BY <1>1, <1>2, <1>5, <1>9 DEF Abstract!PutUp
<1> QED
  BY <1>10 DEF m

(* Reading the store: what is overdue comes down.                          *)
LEMMA ReadStateLooks ==
  ASSUME BInv, ReadState
  PROVE  Abstract!Look
<1>1. TypeOK /\ now \in Nat /\ remote' = Prune(remote, now) /\ now' = now
  BY DEF BInv, FInv, TypeOK, ReadState
<1>2. ASSUME NEW m \in Machines
      PROVE  BoardOf'[m] = IF Abstract!Overdue(m) THEN Absent ELSE BoardOf[m]
  <2>1. \A s \in SessionIds :
          remote'[KeyOf(m, s)] = IF remote[KeyOf(m, s)] # Absent /\ Expired(remote[KeyOf(m, s)], now)
                                 THEN Absent ELSE remote[KeyOf(m, s)]
    BY <1>1, KeyFacts DEF Prune
  <2>2. CASE Held(m) = {}
    <3>1. \A s \in SessionIds : remote'[KeyOf(m, s)] = remote[KeyOf(m, s)]
      BY <2>1, <2>2 DEF Held
    <3>2. BoardOf[m] = Absent
      BY <2>2 DEF BoardOf
    <3> QED
      BY <3>1, <3>2, SamePlace
  <2>3. CASE Held(m) # {}
    <3>1. PICK s \in Held(m) : TRUE
      BY <2>3
    <3> DEFINE t == remote[KeyOf(m, s)].received
    <3>2. /\ s \in SessionIds /\ remote[KeyOf(m, s)] \in Entry
      BY <1>1, <3>1, KeyFacts DEF Held, TypeOK
    <3>3. t \in Nat
      BY <3>2 DEF Entry
    <3>4. \A u \in Held(m) : remote[KeyOf(m, u)].received = t
      BY <3>1 DEF BInv, Together
    <3> HIDE DEF t
    <3>5. BoardOf[m].at = t /\ BoardOf[m] # Absent
      BY <1>1, <2>3, <3>3, <3>4, PlaceOf
    <3>6. Abstract!Overdue(m) <=> now - t > Ttl + Epsilon
      BY <3>5 DEF Abstract!Overdue
    <3>7. \A u \in Held(m) : Expired(remote[KeyOf(m, u)], now) <=> now - t > Ttl + Epsilon
      BY <3>4 DEF Expired
    <3>8. CASE now - t > Ttl + Epsilon
      <4>1. Held(m)' = {}
        BY <2>1, <3>7, <3>8 DEF Held
      <4>2. BoardOf'[m] = Absent
        BY <4>1 DEF BoardOf
      <4> QED
        BY <3>6, <3>8, <4>2
    <3>9. CASE ~(now - t > Ttl + Epsilon)
      <4>1. \A u \in SessionIds : remote'[KeyOf(m, u)] = remote[KeyOf(m, u)]
        BY <2>1, <3>7, <3>9 DEF Held
      <4> QED
        BY <3>6, <3>9, <4>1, SamePlace
    <3> QED
      BY <3>8, <3>9
  <2> QED
    BY <2>2, <2>3
<1>3. BoardOf' = [m \in Machines |-> BoardOf'[m]]
  BY DEF BoardOf
<1> HIDE DEF BoardOf
<1> QED
  BY <1>1, <1>2, <1>3 DEF Abstract!Look

LEMMA RestartWipes ==
  ASSUME RestartAggregator
  PROVE  Abstract!Wipe
<1>1. \A m \in Machines : Held(m)' = {}
  BY KeyFacts DEF RestartAggregator, Held
<1>2. BoardOf' = [m \in Machines |-> Absent]
  BY <1>1 DEF BoardOf
<1> QED
  BY <1>2 DEF RestartAggregator, Abstract!Wipe

(* Every other step leaves the store alone.                                *)
LEMMA StoreUntouched ==
  ASSUME UNCHANGED remote
  PROVE  UNCHANGED BoardOf
<1>1. \A m \in Machines : BoardOf'[m] = BoardOf[m]
  BY SamePlace
<1>2. BoardOf = [m \in Machines |-> BoardOf[m]] /\ BoardOf' = [m \in Machines |-> BoardOf'[m]]
  BY DEF BoardOf
<1> QED
  BY <1>1, <1>2

-----------------------------------------------------------------------------
LEMMA InitBInv == Init => BInv
BY InitFInv, WholeIsTogether DEF BInv

LEMMA NextBInv == ASSUME Separated PROVE BInv /\ [Next]_vars => BInv'
<1> SUFFICES ASSUME BInv, [Next]_vars PROVE BInv'
  OBVIOUS
<1>1. FInv'
  BY NextFInv DEF BInv
<1>2. FInv' => Together'
  BY WholeIsTogether, PTL
<1> QED
  BY <1>1, <1>2 DEF BInv

-----------------------------------------------------------------------------
(* For any machines with separated node ids, any loss, delay and           *)
(* reordering of their pushes, and any crash, the aggregator is a notice   *)
(* board.                                                                  *)
THEOREM StoreImplementsBoard == Separated => (Spec => ImplementsBoard)
<1> SUFFICES ASSUME Separated PROVE Spec => Abstract!Spec
  BY DEF ImplementsBoard
<1>1. Init => Abstract!Init
  <2> SUFFICES ASSUME Init PROVE Abstract!Init
    OBVIOUS
  <2>1. \A m \in Machines : Held(m) = {}
    BY KeyFacts DEF Init, Held
  <2>2. BoardOf = [m \in Machines |-> Absent]
    BY <2>1 DEF BoardOf
  <2> QED
    BY <2>2 DEF Init, Abstract!Init
<1>2. BInv /\ BInv' /\ [Next]_vars => [Abstract!Next]_(Abstract!boardVars)
  <2> SUFFICES ASSUME BInv, BInv', [Next]_vars
               PROVE  Abstract!Next \/ UNCHANGED <<now, BoardOf>>
    BY DEF Abstract!boardVars
  <2>1. CASE Tick
    <3>1. UNCHANGED BoardOf
      BY <2>1, StoreUntouched DEF Tick
    <3> QED
      BY <2>1, <3>1 DEF Tick, Abstract!Tick, Abstract!Next
  <2>2. ASSUME NEW r \in wire, Ingest(r) PROVE Abstract!Next
    <3>1. r.from \in Machines
      BY DEF BInv, FInv, TypeOK, Request
    <3> QED
      BY <2>2, <3>1, IngestPutsUp DEF Abstract!Next
  <2>3. CASE ReadState
    BY <2>3, ReadStateLooks DEF Abstract!Next
  <2>4. CASE RestartAggregator
    BY <2>4, RestartWipes DEF Abstract!Next
  <2>5. CASE UNCHANGED <<now, remote>>
    BY <2>5, StoreUntouched
  <2> QED
    BY <2>1, <2>2, <2>3, <2>4, <2>5
       DEF Next, vars, Push, GiveUp, Crash, Boot, Lose
<1> QED
  BY <1>1, <1>2, InitBInv, NextBInv, PTL DEF Spec, Abstract!Spec
=============================================================================
