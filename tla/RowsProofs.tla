----------------------------- MODULE RowsProofs -----------------------------
(***************************************************************************)
(* What derive_rows promises, proved for every store, every set of         *)
(* sessions, every cap and every threshold: by a place for each row, which *)
(* makes of a finite set under a strict order one list of its elements.    *)
(***************************************************************************)
EXTENDS DeriveRows, FiniteSetTheorems, SequenceTheorems, TLAPS

-----------------------------------------------------------------------------
(* Finite sets.                                                            *)

LEMMA ImageFinite ==
  ASSUME NEW S, IsFiniteSet(S), NEW f
  PROVE  IsFiniteSet({f[x] : x \in S})
<1> DEFINE T == {f[x] : x \in S}
           g == [x \in S |-> f[x]]
<1>1. g \in Surjection(S, T)
  BY DEF Surjection
<1> QED
  BY <1>1, FS_Surjection

(* A finite set of integers has a least element: one that has a smallest   *)
(* set of elements below it.                                               *)
LEMMA LeastOf ==
  ASSUME NEW S \in SUBSET Int, IsFiniteSet(S), S # {}
  PROVE  Min(S) \in S /\ \A y \in S : Min(S) <= y
<1> DEFINE Below(x) == {y \in S : y < x}
           Sets == {Below(x) : x \in S}
           Order == StrictSubsetOrdering(S)
<1>1. Sets \subseteq FiniteSubsetsOf(S) /\ Sets # {}
  <2>1. ASSUME NEW x \in S PROVE Below(x) \in FiniteSubsetsOf(S)
    <3>1. Below(x) \in SUBSET S
      OBVIOUS
    <3>2. IsFiniteSet(Below(x))
      BY <3>1, FS_Subset
    <3> QED
      BY <3>1, <3>2 DEF FiniteSubsetsOf
  <2> HIDE DEF Below
  <2> QED
    BY <2>1
<1>2. IsWellFoundedOn(Order, FiniteSubsetsOf(S))
  BY FS_StrictSubsetOrderingWellFounded
<1> HIDE DEF Order
<1>3. PICK B \in Sets : \A C \in Sets : ~ (<<C, B>> \in Order)
  <2> HIDE DEF Sets
  <2> QED
    BY <1>1, <1>2, WFMin
<1>4. PICK x \in S : B = Below(x)
  BY <1>3
<1>5. ASSUME NEW y \in S, y < x PROVE FALSE
  <2>0. x \in Int /\ y \in Int /\ S \subseteq Int
    OBVIOUS
  <2>1. Below(y) \subseteq Below(x) /\ y \in Below(x) /\ y \notin Below(y)
    <3>1. \A z \in S : z < y => z < x
      <4> SUFFICES ASSUME NEW z \in S, z < y PROVE z < x
        OBVIOUS
      <4>1. z \in Int
        OBVIOUS
      <4> QED
        BY <1>5, <2>0, <4>1
    <3>2. ~ (y < y)
      BY <2>0
    <3> QED
      BY <1>5, <3>1, <3>2
  <2>4. Below(y) \in Sets
    OBVIOUS
  <2>2. Below(y) \in SUBSET S /\ Below(x) \in SUBSET S
    OBVIOUS
  <2>3. <<Below(y), Below(x)>> \in Order
    BY <2>1, <2>2 DEF Order, StrictSubsetOrdering
  <2> QED
    BY <1>3, <1>4, <2>3, <2>4
<1>6. \A y \in S : x <= y
  BY <1>5
<1> QED
  BY <1>4, <1>6 DEF Min

-----------------------------------------------------------------------------
(* The list of a finite set under a strict order.                          *)

Ordered(rows) ==
  /\ \A r \in rows : ~ RowBefore(r, r)
  /\ \A r, s, u \in rows : RowBefore(r, s) /\ RowBefore(s, u) => RowBefore(r, u)
  /\ \A r, s \in rows : r # s => RowBefore(r, s) \/ RowBefore(s, r)

LEMMA PlaceFacts ==
  ASSUME NEW rows, IsFiniteSet(rows), Ordered(rows)
  PROVE  /\ \A r \in rows : Place(r, rows) \in 1 .. Cardinality(rows)
         /\ \A r, s \in rows : RowBefore(r, s) => Place(r, rows) < Place(s, rows)
<1> DEFINE Above(r) == {u \in rows : RowBefore(u, r)}
<1>1. Cardinality(rows) \in Nat
  BY FS_CardinalityType
<1>2. ASSUME NEW r \in rows
      PROVE  IsFiniteSet(Above(r)) /\ Cardinality(Above(r)) \in Nat
  BY FS_Subset, FS_CardinalityType
<1>3. ASSUME NEW r \in rows PROVE Cardinality(Above(r)) < Cardinality(rows)
  <2>1. Above(r) \in SUBSET rows /\ Above(r) # rows
    BY DEF Ordered
  <2>2. Cardinality(Above(r)) <= Cardinality(rows) /\ Cardinality(rows) # Cardinality(Above(r))
    BY <2>1, FS_Subset
  <2> QED
    BY <1>1, <1>2, <2>2
<1>4. ASSUME NEW r \in rows, NEW s \in rows, RowBefore(r, s)
      PROVE  Cardinality(Above(r)) < Cardinality(Above(s))
  <2>1. Above(r) \in SUBSET Above(s)
    BY <1>4 DEF Ordered
  <2>2. r \in Above(s) /\ r \notin Above(r)
    BY <1>4 DEF Ordered
  <2>3. IsFiniteSet(Above(s))
    BY <1>2
  <2> DEFINE small == Above(r)
             large == Above(s)
  <2>4. small \in SUBSET large /\ small # large /\ IsFiniteSet(large)
    BY <2>1, <2>2, <2>3
  <2>5. Cardinality(small) \in Nat /\ Cardinality(large) \in Nat
    BY <1>2
  <2> HIDE DEF small, large
  <2>6. Cardinality(small) <= Cardinality(large) /\ Cardinality(large) # Cardinality(small)
    BY <2>4, FS_Subset
  <2>7. Cardinality(small) < Cardinality(large)
    BY <2>5, <2>6
  <2> QED
    BY <2>7 DEF small, large
<1>5. \A r \in rows : Place(r, rows) = Cardinality(Above(r)) + 1
  BY DEF Place
<1> HIDE DEF Above
<1>6. ASSUME NEW r \in rows PROVE Place(r, rows) \in 1 .. Cardinality(rows)
  BY <1>1, <1>2, <1>3, <1>5
<1>7. ASSUME NEW r \in rows, NEW s \in rows, RowBefore(r, s)
      PROVE  Place(r, rows) < Place(s, rows)
  BY <1>2, <1>4, <1>5, <1>7
<1> QED
  BY <1>6, <1>7

LEMMA InOrderFacts ==
  ASSUME NEW rows, IsFiniteSet(rows), Ordered(rows)
  PROVE  /\ InOrder(rows) \in [1 .. Cardinality(rows) -> rows]
         /\ \A row \in rows : \E i \in 1 .. Cardinality(rows) : InOrder(rows)[i] = row
         /\ \A i, j \in 1 .. Cardinality(rows) :
              i < j => RowBefore(InOrder(rows)[i], InOrder(rows)[j])
<1> DEFINE places == 1 .. Cardinality(rows)
           place == [row \in rows |-> Place(row, rows)]
           list == InOrder(rows)
<1>1. Cardinality(rows) \in Nat
  BY FS_CardinalityType
<1>2. IsFiniteSet(places) /\ Cardinality(places) = Cardinality(rows)
  BY <1>1, FS_Interval
<1>3. \A r, s \in rows : r # s => place[r] # place[s]
  <2> SUFFICES ASSUME NEW r \in rows, NEW s \in rows, r # s PROVE place[r] # place[s]
    OBVIOUS
  <2>1. RowBefore(r, s) \/ RowBefore(s, r)
    BY DEF Ordered
  <2>2. place[r] \in Nat /\ place[s] \in Nat /\ (place[r] < place[s] \/ place[s] < place[r])
    BY <1>1, <2>1, PlaceFacts
  <2> QED
    BY <2>2
<1>4. place \in Injection(rows, places)
  <2>1. place \in [rows -> places]
    BY PlaceFacts
  <2> QED
    BY <1>3, <2>1 DEF Injection, IsInjective
<1>5. place \in Surjection(rows, places)
  <2> HIDE DEF place, places
  <2> QED
    BY <1>2, <1>4, FS_Injection
<1>6. ASSUME NEW i \in places PROVE list[i] \in rows /\ Place(list[i], rows) = i
  <2>1. \E row \in rows : Place(row, rows) = i
    BY <1>5 DEF Surjection
  <2>2. list[i] = CHOOSE row \in rows : Place(row, rows) = i
    BY DEF InOrder
  <2> QED
    BY <2>1, <2>2
<1>7. list \in [places -> rows]
  BY <1>6 DEF InOrder
<1>8. ASSUME NEW row \in rows PROVE \E i \in places : list[i] = row
  <2> DEFINE i == Place(row, rows)
  <2>1. i \in places
    BY PlaceFacts
  <2>2. list[i] \in rows /\ Place(list[i], rows) = i
    BY <1>6, <2>1
  <2>3. list[i] = row
    BY <1>3, <2>2
  <2> QED
    BY <2>1, <2>3
<1>9. ASSUME NEW i \in places, NEW j \in places, i < j
      PROVE  RowBefore(list[i], list[j])
  <2> DEFINE r == list[i]
             s == list[j]
  <2>1. r \in rows /\ s \in rows /\ Place(r, rows) = i /\ Place(s, rows) = j
    BY <1>6
  <2> HIDE DEF r, s
  <2>2. i \in Int /\ j \in Int /\ ~ (j < i) /\ i # j
    BY <1>9
  <2>3. ~ RowBefore(s, r)
    BY <2>1, <2>2, PlaceFacts
  <2>4. r # s
    BY <2>1, <2>2
  <2> QED
    BY <2>1, <2>3, <2>4 DEF Ordered, r, s
<1> QED
  BY <1>7, <1>8, <1>9

-----------------------------------------------------------------------------
(* The rows of a store.                                                    *)

GroupOf(store, t, id) == {j \in ShownIds(store, t) : Key(store, j) = Key(store, id)}

LEMMA GroupsAre ==
  \A store, t : Groups(store, t) = {GroupOf(store, t, id) : id \in ShownIds(store, t)}
BY DEF Groups, GroupOf

LEMMA ShownFacts ==
  ASSUME NEW store \in SessionMap, NEW t \in Nat
  PROVE  /\ IsFiniteSet(ShownIds(store, t))
         /\ \A id \in ShownIds(store, t) :
              /\ id \in Ids /\ store[id] \in Session
              /\ AgeOf(store[id], t) \in Int
              /\ ToolOf[id] \in Names /\ store[id].project \in Names
              /\ Status(store[id], t) \in DOMAIN StatusRank
<1>1. ShownIds(store, t) \in SUBSET Ids /\ IsFiniteSet(Ids)
  BY RowsAssumption DEF ShownIds, Present
<1>2. IsFiniteSet(ShownIds(store, t))
  BY <1>1, FS_Subset
<1>3. ASSUME NEW id \in ShownIds(store, t)
      PROVE  /\ id \in Ids /\ store[id] \in Session
             /\ AgeOf(store[id], t) \in Int
             /\ ToolOf[id] \in Names /\ store[id].project \in Names
             /\ Status(store[id], t) \in DOMAIN StatusRank
  <2>1. id \in Ids /\ store[id] \in Session
    BY DEF ShownIds, Present, SessionMap
  <2>2. store[id].lastActivity \in Nat /\ store[id].project \in Projects
    BY <2>1 DEF Session
  <2>3. Status(store[id], t) \in DOMAIN StatusRank
    BY DEF Status, StatusRank
  <2> QED
    BY <2>1, <2>2, <2>3 DEF AgeOf, Names
<1> QED
  BY <1>2, <1>3

(* What a row says of the sessions of its group.                           *)
SaysOf(row, store, t, id) ==
  /\ row.tool = ToolOf[id] /\ row.project = store[id].project
  /\ row.status \in DOMAIN StatusRank /\ row.ageSec \in Nat
  /\ \A j \in GroupOf(store, t, id) :
       StatusRank[row.status] <= StatusRank[Status(store[j], t)]
  /\ \E j \in GroupOf(store, t, id) : row.status = Status(store[j], t)

LEMMA RankType ==
  /\ DOMAIN StatusRank = {"waiting", "working", "idle"}
  /\ \A s \in DOMAIN StatusRank : StatusRank[s] \in 0 .. 2
BY DEF StatusRank

LEMMA RankInjective ==
  \A s, u \in DOMAIN StatusRank : StatusRank[s] = StatusRank[u] => s = u
BY DEF StatusRank

LEMMA RowFacts ==
  ASSUME NEW store \in SessionMap, NEW t \in Nat, NEW id \in ShownIds(store, t)
  PROVE  SaysOf(RowOf(store, t, GroupOf(store, t, id)), store, t, id)
<1> DEFINE group == GroupOf(store, t, id)
           row == RowOf(store, t, group)
           ranks == {StatusRank[Status(store[j], t)] : j \in group}
           ages == {AgeOf(store[j], t) : j \in group}
           member == CHOOSE j \in group : TRUE
<1>1. id \in group /\ group \in SUBSET ShownIds(store, t) /\ IsFiniteSet(group)
  <2>1. id \in group /\ group \in SUBSET ShownIds(store, t)
    BY DEF GroupOf
  <2> QED
    BY <2>1, ShownFacts, FS_Subset
<1>2. /\ row.tool = ToolOf[member] /\ row.project = store[member].project
      /\ row.status = CHOOSE s \in DOMAIN StatusRank : StatusRank[s] = Min(ranks)
      /\ row.ageSec = Later(Min(ages), 0)
  BY DEF RowOf
<1>3. row.tool = ToolOf[id] /\ row.project = store[id].project
  <2>1. member \in group
    BY <1>1
  <2>2. Key(store, member) = Key(store, id)
    BY <2>1 DEF GroupOf
  <2> HIDE DEF member
  <2> QED
    BY <1>2, <2>2 DEF Key
<1>4. ranks \in SUBSET (0 .. 2) /\ IsFiniteSet(ranks) /\ ranks # {}
  <2>1. \A j \in group : StatusRank[Status(store[j], t)] \in 0 .. 2
    BY <1>1, ShownFacts, RankType
  <2>2. ranks \in SUBSET (0 .. 2)
    BY <2>1
  <2>3. IsFiniteSet(0 .. 2)
    <3>1. 0 \in Int /\ 2 \in Int
      OBVIOUS
    <3> QED
      BY <3>1, FS_Interval, Zenon
  <2>4. ranks # {}
    BY <1>1
  <2> HIDE DEF ranks
  <2> QED
    BY <2>2, <2>3, <2>4, FS_Subset
<1>5. Min(ranks) \in ranks /\ \A y \in ranks : Min(ranks) <= y
  <2> HIDE DEF ranks
  <2>1. ranks \in SUBSET Int
    BY <1>4
  <2> QED
    BY <1>4, <2>1, LeastOf
<1>6. row.status \in DOMAIN StatusRank /\ StatusRank[row.status] = Min(ranks)
  <2>1. PICK j \in group : Min(ranks) = StatusRank[Status(store[j], t)]
    BY <1>5
  <2>2. Status(store[j], t) \in DOMAIN StatusRank
    BY <1>1, ShownFacts
  <2> HIDE DEF row, ranks
  <2> QED
    BY <1>2, <2>1, <2>2
<1>7. \A j \in group : StatusRank[row.status] <= StatusRank[Status(store[j], t)]
  BY <1>5, <1>6
<1>9. \E j \in group : row.status = Status(store[j], t)
  <2>1. PICK j \in group : Min(ranks) = StatusRank[Status(store[j], t)]
    BY <1>5
  <2>2. Status(store[j], t) \in DOMAIN StatusRank
    BY <1>1, ShownFacts
  <2> HIDE DEF row, ranks
  <2>3. Status(store[j], t) = row.status
    BY <1>6, <2>1, <2>2, RankInjective
  <2> QED
    BY <2>3
<1>8. row.ageSec \in Nat
  <2> DEFINE ageOf == [j \in group |-> AgeOf(store[j], t)]
  <2>1. IsFiniteSet({ageOf[j] : j \in group})
    <3> HIDE DEF ageOf, group
    <3> QED
      BY <1>1, ImageFinite
  <2>2. {ageOf[j] : j \in group} = ages
    OBVIOUS
  <2>3. ages \in SUBSET Int /\ ages # {}
    BY <1>1, ShownFacts
  <2> HIDE DEF ages
  <2>4. Min(ages) \in Int
    BY <2>1, <2>2, <2>3, LeastOf
  <2> HIDE DEF row
  <2> QED
    BY <1>2, <2>4 DEF Later
<1> HIDE DEF row, group
<1> QED
  BY <1>3, <1>6, <1>7, <1>8, <1>9 DEF SaysOf, row, group

LEMMA RowsAre ==
  ASSUME NEW store, NEW t
  PROVE  AllRows(store, t) =
           {RowOf(store, t, GroupOf(store, t, id)) : id \in ShownIds(store, t)}
BY GroupsAre DEF AllRows

LEMMA RowsFinite ==
  ASSUME NEW store \in SessionMap, NEW t \in Nat
  PROVE  IsFiniteSet(AllRows(store, t))
<1> DEFINE shown == ShownIds(store, t)
           rowOf == [id \in shown |-> RowOf(store, t, GroupOf(store, t, id))]
<1>1. AllRows(store, t) = {rowOf[id] : id \in shown}
  BY RowsAre
<1>2. IsFiniteSet(shown)
  BY ShownFacts
<1> HIDE DEF rowOf, shown
<1> QED
  BY <1>1, <1>2, ImageFinite

(* The order of the rows, key by key.                                      *)
First(r) == StatusRank[r.status]
Third(r) == Alphabetical[r.tool]
Fourth(r) == Alphabetical[r.project]

LEMMA BeforeIs ==
  ASSUME NEW r, NEW s
  PROVE  RowBefore(r, s) <=>
           \/ First(r) < First(s)
           \/ First(r) = First(s) /\ r.ageSec < s.ageSec
           \/ First(r) = First(s) /\ r.ageSec = s.ageSec /\ Third(r) < Third(s)
           \/ /\ First(r) = First(s) /\ r.ageSec = s.ageSec /\ Third(r) = Third(s)
              /\ Fourth(r) < Fourth(s)
<1> DEFINE k == SortKey(r)
           l == SortKey(s)
<1>1. /\ k[1] = First(r) /\ k[2] = r.ageSec /\ k[3] = Third(r) /\ k[4] = Fourth(r)
      /\ l[1] = First(s) /\ l[2] = s.ageSec /\ l[3] = Third(s) /\ l[4] = Fourth(s)
  BY DEF SortKey, First, Third, Fourth
<1>2. RowBefore(r, s) <=> \E i \in 1 .. 4 : k[i] < l[i] /\ \A j \in 1 .. i - 1 : k[j] = l[j]
  BY DEF RowBefore
<1> HIDE DEF k, l
<1>3. 1 .. 4 = {1, 2, 3, 4}
  OBVIOUS
<1>4. 1 .. 1 - 1 = {} /\ 1 .. 2 - 1 = {1} /\ 1 .. 3 - 1 = {1, 2} /\ 1 .. 4 - 1 = {1, 2, 3}
  OBVIOUS
<1>5. RowBefore(r, s) <=>
        \/ k[1] < l[1]
        \/ k[2] < l[2] /\ k[1] = l[1]
        \/ k[3] < l[3] /\ k[1] = l[1] /\ k[2] = l[2]
        \/ k[4] < l[4] /\ k[1] = l[1] /\ k[2] = l[2] /\ k[3] = l[3]
  BY <1>2, <1>3, <1>4
<1> QED
  BY <1>1, <1>5

LEMMA KeyType ==
  ASSUME NEW store \in SessionMap, NEW t \in Nat, NEW row \in AllRows(store, t)
  PROVE  First(row) \in 0 .. 2 /\ row.ageSec \in Nat /\ Third(row) \in Nat /\ Fourth(row) \in Nat
<1>1. PICK id \in ShownIds(store, t) : row = RowOf(store, t, GroupOf(store, t, id))
  BY RowsAre
<1>2. SaysOf(row, store, t, id)
  BY <1>1, RowFacts
<1>3. ToolOf[id] \in Names /\ store[id].project \in Names
  BY ShownFacts
<1> QED
  BY <1>2, <1>3, RankType, RowsAssumption DEF SaysOf, First, Third, Fourth

(* One group has one row: rows of the same tool and project are the same.  *)
LEMMA SameRow ==
  ASSUME NEW store \in SessionMap, NEW t \in Nat,
         NEW r \in AllRows(store, t), NEW s \in AllRows(store, t),
         r.tool = s.tool, r.project = s.project
  PROVE  r = s
<1>1. PICK i \in ShownIds(store, t) : r = RowOf(store, t, GroupOf(store, t, i))
  BY RowsAre
<1>2. PICK j \in ShownIds(store, t) : s = RowOf(store, t, GroupOf(store, t, j))
  BY RowsAre
<1>3. SaysOf(r, store, t, i) /\ SaysOf(s, store, t, j)
  BY <1>1, <1>2, RowFacts
<1>4. Key(store, i) = Key(store, j)
  BY <1>3 DEF SaysOf, Key
<1>5. GroupOf(store, t, i) = GroupOf(store, t, j)
  BY <1>4 DEF GroupOf
<1> QED
  BY <1>1, <1>2, <1>5

LEMMA RowsOrdered ==
  ASSUME NEW store \in SessionMap, NEW t \in Nat
  PROVE  Ordered(AllRows(store, t))
<1> DEFINE rows == AllRows(store, t)
<1>1. ASSUME NEW r \in rows
      PROVE  First(r) \in Int /\ r.ageSec \in Int /\ Third(r) \in Int /\ Fourth(r) \in Int
  BY KeyType
<1>2. \A r \in rows : ~ RowBefore(r, r)
  BY <1>1, BeforeIs
<1>3. ASSUME NEW r \in rows, NEW s \in rows, NEW u \in rows, RowBefore(r, s), RowBefore(s, u)
      PROVE  RowBefore(r, u)
  BY <1>1, <1>3, BeforeIs
<1>4. ASSUME NEW r \in rows, NEW s \in rows, r # s
      PROVE  RowBefore(r, s) \/ RowBefore(s, r)
  <2>1. Third(r) # Third(s) \/ Fourth(r) # Fourth(s)
    <3>1. PICK i \in ShownIds(store, t) : SaysOf(r, store, t, i)
      BY RowsAre, RowFacts
    <3>2. PICK j \in ShownIds(store, t) : SaysOf(s, store, t, j)
      BY RowsAre, RowFacts
    <3>3. r.tool \in Names /\ r.project \in Names /\ s.tool \in Names /\ s.project \in Names
      BY <3>1, <3>2, ShownFacts DEF SaysOf
    <3>4. r.tool # s.tool \/ r.project # s.project
      BY <1>4, SameRow
    <3> QED
      BY <3>3, <3>4, RowsAssumption DEF Third, Fourth
  <2> QED
    BY <1>1, <2>1, BeforeIs
<1> QED
  BY <1>2, <1>3, <1>4 DEF Ordered

-----------------------------------------------------------------------------
(* The list that is shown: in order, without repetition, and complete up   *)
(* to the cap, where only what comes later is left out.                    *)
IsListOf(rows, all) ==
  /\ Len(rows) \in 0 .. MaxSessions /\ DOMAIN rows = 1 .. Len(rows)
  /\ \A i \in DOMAIN rows : rows[i] \in all
  /\ \A i, j \in DOMAIN rows : i < j => RowBefore(rows[i], rows[j])
  /\ \A r \in all :
       \/ \E i \in DOMAIN rows : rows[i] = r
       \/ Len(rows) = MaxSessions /\ \A i \in DOMAIN rows : RowBefore(rows[i], r)

LEMMA RowsList ==
  ASSUME NEW store \in SessionMap, NEW t \in Nat
  PROVE  IsListOf(Rows(store, t), AllRows(store, t))
<1> DEFINE all == AllRows(store, t)
           list == InOrder(all)
           n == Cardinality(all)
           cut == Earlier(n, MaxSessions)
           rows == Rows(store, t)
<1>1. IsFiniteSet(all) /\ Ordered(all)
  BY RowsFinite, RowsOrdered
<1>2. n \in Nat /\ MaxSessions \in Nat /\ cut \in Nat /\ cut <= n /\ cut <= MaxSessions
      /\ (cut < n => cut = MaxSessions)
  BY <1>1, FS_CardinalityType, RowsAssumption DEF Earlier
<1>3. /\ list \in [1 .. n -> all]
      /\ \A r \in all : \E i \in 1 .. n : list[i] = r
      /\ \A i, j \in 1 .. n : i < j => RowBefore(list[i], list[j])
  BY <1>1, InOrderFacts
<1>4. list \in Seq(all) /\ Len(list) = n
  <2> HIDE DEF list, all, n
  <2>1. list \in Seq(all)
    BY <1>2, <1>3
  <2> QED
    BY <1>2, <1>3, <2>1, LenProperties
<1>5. rows = SubSeq(list, 1, cut)
  BY <1>4 DEF Rows, Truncate
<1> HIDE DEF rows, cut, list, n, all
<1>6. /\ rows \in Seq(all) /\ Len(rows) = cut
      /\ \A i \in 1 .. cut : rows[i] = list[i]
  <2>1. \A i \in 1 .. cut : list[i] \in all
    BY <1>2, <1>3
  <2> QED
    BY <1>2, <1>5, <2>1, SubSeqProperties
<1>7. DOMAIN rows = 1 .. cut /\ \A i \in 1 .. cut : i \in 1 .. n
  BY <1>2, <1>6, LenProperties
<1>8. \A i \in DOMAIN rows : rows[i] \in all
  BY <1>3, <1>6, <1>7
<1>9. \A i, j \in DOMAIN rows : i < j => RowBefore(rows[i], rows[j])
  BY <1>3, <1>6, <1>7
<1>10. ASSUME NEW r \in all
       PROVE  \/ \E i \in DOMAIN rows : rows[i] = r
              \/ Len(rows) = MaxSessions /\ \A i \in DOMAIN rows : RowBefore(rows[i], r)
  <2>1. PICK k \in 1 .. n : list[k] = r
    BY <1>3
  <2>2. CASE k \in 1 .. cut
    BY <1>6, <1>7, <2>1, <2>2
  <2>3. CASE k \notin 1 .. cut
    <3>1. cut < k /\ cut = MaxSessions
      BY <1>2, <2>3
    <3>2. \A i \in 1 .. cut : i < k
      BY <1>2, <3>1
    <3> QED
      BY <1>3, <1>6, <1>7, <2>1, <3>1, <3>2
  <2> QED
    BY <2>2, <2>3
<1>11. Len(rows) \in 0 .. MaxSessions /\ DOMAIN rows = 1 .. Len(rows)
  BY <1>2, <1>6, <1>7
<1> QED
  BY <1>8, <1>9, <1>10, <1>11 DEF IsListOf, rows, all

-----------------------------------------------------------------------------
(* Every store that can be asked is a store: the user and the reaper leave *)
(* one.                                                                    *)
IInv == sessions \in SessionMap /\ now \in Nat

LEMMA Invariance == Spec => []IInv
<1>1. Init => IInv
  BY RowsAssumption DEF Init, IInv
<1>2. IInv /\ [Next]_vars => IInv'
  <2> SUFFICES ASSUME IInv, [Next]_vars PROVE IInv'
    OBVIOUS
  <2>1. CASE UNCHANGED vars
    BY <2>1 DEF vars, IInv
  <2>2. CASE AckFirstRow
    <3>1. PICK id : sessions' = Acknowledge(sessions, id)
      BY <2>2 DEF AckFirstRow
    <3>2. \A i \in Ids : sessions[i] \in Session =>
            [sessions[i] EXCEPT !.waiting = FALSE, !.waitingSince = None] \in Session
      BY DEF Session
    <3>3. \A i \in Ids : sessions'[i] \in Session \cup {NoSession}
      BY <3>1, <3>2 DEF IInv, SessionMap, Acknowledge
    <3>4. sessions' \in SessionMap
      BY <3>1, <3>3 DEF IInv, SessionMap, Acknowledge
    <3> QED
      BY <2>2, <3>4 DEF IInv, AckFirstRow
  <2>3. CASE Reap
    BY <2>3 DEF IInv, Reap, RemoveGone, SessionMap
  <2> QED
    BY <2>1, <2>2, <2>3 DEF Next
<1> QED
  BY <1>1, <1>2, PTL DEF Spec

(* A list that is full and leaves one row out stands for more kinds of     *)
(* sessions than it has places.                                            *)
LEMMA FullListHasMoreKinds ==
  ASSUME NEW store \in SessionMap, NEW t \in Nat,
         NEW left \in AllRows(store, t), Len(Rows(store, t)) = MaxSessions,
         \A i \in DOMAIN Rows(store, t) : RowBefore(Rows(store, t)[i], left)
  PROVE  Cardinality({<<ToolOf[id], store[id].project>> : id \in ShownIds(store, t)}) > MaxSessions
<1> DEFINE rows == Rows(store, t)
           all == AllRows(store, t)
           shown == ShownIds(store, t)
           kinds == {<<ToolOf[id], store[id].project>> : id \in shown}
           kindOf == [id \in shown |-> <<ToolOf[id], store[id].project>>]
           places == 1 .. MaxSessions + 1
           rowAt(i) == IF i = MaxSessions + 1 THEN left ELSE rows[i]
           kindAt == [i \in places |-> <<rowAt(i).tool, rowAt(i).project>>]
<1>0. MaxSessions \in Nat
  BY RowsAssumption
<1>1. IsFiniteSet(kinds) /\ Cardinality(kinds) \in Nat
  <2>1. kinds = {kindOf[id] : id \in shown}
    OBVIOUS
  <2>2. IsFiniteSet(shown)
    BY ShownFacts
  <2> HIDE DEF kindOf, shown, kinds
  <2> QED
    BY <2>1, <2>2, ImageFinite, FS_CardinalityType
<1>2. IsListOf(rows, all)
  BY RowsList
<1>3. \A i \in places : rowAt(i) \in all /\ (i # MaxSessions + 1 => i \in DOMAIN rows)
  <2> HIDE DEF rows, all
  <2> QED
    BY <1>0, <1>2 DEF IsListOf, rows, all
<1>4. ASSUME NEW i \in places, NEW j \in places, i < j PROVE RowBefore(rowAt(i), rowAt(j))
  <2>1. i # MaxSessions + 1 /\ i \in DOMAIN rows /\ i \in Int /\ j \in Int
    BY <1>0, <1>3, <1>4
  <2>2. CASE j = MaxSessions + 1
    BY <2>1, <2>2
  <2>3. CASE j # MaxSessions + 1
    BY <1>2, <1>3, <1>4, <2>1, <2>3 DEF IsListOf
  <2> QED
    BY <2>2, <2>3
<1>5. ASSUME NEW r \in all
      PROVE  <<r.tool, r.project>> \in kinds /\ ~ RowBefore(r, r)
  <2>1. PICK id \in shown : r = RowOf(store, t, GroupOf(store, t, id))
    BY RowsAre
  <2>2. SaysOf(r, store, t, id)
    BY <2>1, RowFacts
  <2>3. ~ RowBefore(r, r)
    BY RowsOrdered DEF Ordered
  <2> QED
    BY <2>2, <2>3 DEF SaysOf
<1> HIDE DEF rows, all, rowAt
<1>6. kindAt \in [places -> kinds]
  BY <1>3, <1>5
<1>7. ASSUME NEW i \in places, NEW j \in places, kindAt[i] = kindAt[j] PROVE i = j
  <2>1. rowAt(i).tool = rowAt(j).tool /\ rowAt(i).project = rowAt(j).project
    BY <1>7
  <2>2. rowAt(i) = rowAt(j)
    BY <1>3, <2>1, SameRow DEF all
  <2>3. ~ (i < j) /\ ~ (j < i)
    BY <1>3, <1>4, <1>5, <2>2
  <2>4. i \in Int /\ j \in Int
    OBVIOUS
  <2> QED
    BY <2>3, <2>4
<1>8. IsFiniteSet(places) /\ Cardinality(places) = MaxSessions + 1
  <2> DEFINE top == MaxSessions + 1
  <2>1. 1 \in Int /\ top \in Int /\ top >= 1 /\ top - 1 + 1 = top
    BY <1>0
  <2> HIDE DEF top
  <2>2. IsFiniteSet(1 .. top) /\ Cardinality(1 .. top) = IF 1 > top THEN 0 ELSE top - 1 + 1
    BY <2>1, FS_Interval, Zenon
  <2>3. Cardinality(1 .. top) = top
    BY <2>1, <2>2
  <2> QED
    BY <2>2, <2>3 DEF top
<1> HIDE DEF kindAt, places, kinds
<1>9. ~ (Cardinality(kinds) < Cardinality(places))
  BY <1>1, <1>6, <1>7, <1>8, FS_PigeonHole
<1> QED
  BY <1>0, <1>1, <1>8, <1>9 DEF kinds

(* A session that is not too old is found in at most one row, its own,     *)
(* which is at least as urgent as it is; in one when there is room for all *)
(* kinds of sessions; and each row is that of some session.                *)
THEOREM RowsPartition == Spec => []OneRowPerGroup
<1>1. IInv => OneRowPerGroup
  <2> DEFINE rows == Rows(sessions, now)
             all == AllRows(sessions, now)
             shown == ShownIds(sessions, now)
             kinds == {<<ToolOf[id], sessions[id].project>> : id \in shown}
             mine(id) == {i \in DOMAIN rows : /\ rows[i].tool = ToolOf[id]
                                              /\ rows[i].project = sessions[id].project}
  <2> SUFFICES ASSUME IInv PROVE OneRowPerGroup
    OBVIOUS
  <2>1. IsListOf(rows, all)
    BY RowsList DEF IInv
  <2>2. ASSUME NEW id \in shown
        PROVE  /\ Cardinality(mine(id)) <= 1
               /\ Cardinality(kinds) <= MaxSessions => Cardinality(mine(id)) = 1
               /\ \A i \in mine(id) :
                    StatusRank[rows[i].status] <= StatusRank[Status(sessions[id], now)]
    <3> DEFINE row == RowOf(sessions, now, GroupOf(sessions, now, id))
    <3>1. row \in all /\ SaysOf(row, sessions, now, id)
      BY RowsAre, RowFacts DEF IInv
    <3>2. ASSUME NEW i \in mine(id) PROVE rows[i] = row
      <4>1. rows[i] \in all /\ rows[i].tool = row.tool /\ rows[i].project = row.project
        BY <2>1, <3>1 DEF IsListOf, SaysOf
      <4> QED
        BY <3>1, <4>1, SameRow DEF IInv, all
    <3>3. ASSUME NEW i \in mine(id), NEW k \in mine(id) PROVE i = k
      <4>1. ~ RowBefore(row, row)
        BY <3>1, RowsOrdered DEF IInv, Ordered, all
      <4>2. ~ (i < k) /\ ~ (k < i)
        BY <2>1, <3>2, <4>1 DEF IsListOf
      <4>3. i \in Nat /\ k \in Nat
        BY <2>1 DEF IsListOf
      <4> QED
        BY <4>2, <4>3
    <3>4. mine(id) = {} \/ \E k \in mine(id) : mine(id) = {k}
      BY <3>3
    <3>5. /\ mine(id) = {} => Cardinality(mine(id)) = 0
          /\ mine(id) # {} => Cardinality(mine(id)) = 1
      <4> HIDE DEF mine
      <4> QED
        BY <3>4, FS_Singleton, FS_EmptySet
    <3>6. Cardinality(kinds) <= MaxSessions => mine(id) # {}
      <4> SUFFICES ASSUME mine(id) = {} PROVE ~ (Cardinality(kinds) <= MaxSessions)
        OBVIOUS
      <4>1. \A i \in DOMAIN rows : rows[i] # row
        <5> SUFFICES ASSUME NEW i \in DOMAIN rows, rows[i] = row PROVE FALSE
          OBVIOUS
        <5>1. i \in mine(id)
          BY <3>1 DEF SaysOf
        <5> QED
          BY <5>1
      <4>2. Len(rows) = MaxSessions /\ \A i \in DOMAIN rows : RowBefore(rows[i], row)
        BY <2>1, <3>1, <4>1 DEF IsListOf
      <4> HIDE DEF row, mine
      <4>3. Cardinality(kinds) > MaxSessions
        BY <3>1, <4>2, FullListHasMoreKinds DEF IInv
      <4>4. MaxSessions \in Nat /\ Cardinality(kinds) \in Nat
        <5> DEFINE kindOf == [j \in shown |-> <<ToolOf[j], sessions[j].project>>]
        <5>1. kinds = {kindOf[j] : j \in shown}
          OBVIOUS
        <5>2. IsFiniteSet(shown)
          BY ShownFacts DEF IInv
        <5> HIDE DEF kindOf, shown, kinds
        <5> QED
          BY <5>1, <5>2, ImageFinite, FS_CardinalityType, RowsAssumption
      <4> QED
        BY <4>3, <4>4
    <3>7. StatusRank[row.status] <= StatusRank[Status(sessions[id], now)]
      <4>1. id \in GroupOf(sessions, now, id)
        BY DEF GroupOf
      <4> QED
        BY <3>1, <4>1 DEF SaysOf
    <3> HIDE DEF mine, kinds, rows, row
    <3> QED
      BY <3>2, <3>5, <3>6, <3>7
  <2>3. ASSUME NEW i \in DOMAIN rows
        PROVE  \E id \in shown :
                 /\ rows[i].tool = ToolOf[id] /\ rows[i].project = sessions[id].project
                 /\ rows[i].status = Status(sessions[id], now)
    <3>1. rows[i] \in all
      BY <2>1 DEF IsListOf
    <3>2. PICK j \in shown : rows[i] = RowOf(sessions, now, GroupOf(sessions, now, j))
      BY <3>1, RowsAre
    <3>3. SaysOf(rows[i], sessions, now, j)
      BY <3>2, RowFacts DEF IInv
    <3>4. PICK id \in GroupOf(sessions, now, j) : rows[i].status = Status(sessions[id], now)
      BY <3>3 DEF SaysOf
    <3>5. id \in shown /\ ToolOf[id] = ToolOf[j] /\ sessions[id].project = sessions[j].project
      BY <3>4 DEF GroupOf, Key
    <3> HIDE DEF rows
    <3> QED
      BY <3>3, <3>4, <3>5 DEF SaysOf
  <2> QED
    BY <2>2, <2>3 DEF OneRowPerGroup
<1> QED
  BY <1>1, Invariance, PTL

(* What the cap leaves out is not more urgent than anything it keeps, and  *)
(* what it keeps is in order.                                              *)
THEOREM CapSparesTheUrgent == Spec => []UrgentRowsSurvive
<1>1. IInv => UrgentRowsSurvive
  <2> DEFINE rows == Rows(sessions, now)
             all == AllRows(sessions, now)
  <2> SUFFICES ASSUME IInv PROVE UrgentRowsSurvive
    OBVIOUS
  <2>1. IsListOf(rows, all)
    BY RowsList DEF IInv
  <2>2. ASSUME NEW r \in all, NEW s \in all, RowBefore(r, s)
        PROVE  StatusRank[r.status] <= StatusRank[s.status]
    <3>1. First(r) \in Int /\ First(s) \in Int
      BY KeyType DEF IInv
    <3> QED
      BY <2>2, <3>1, BeforeIs DEF First
  <2> HIDE DEF rows, all
  <2>3. \A i, j \in DOMAIN rows :
          i < j => StatusRank[rows[i].status] <= StatusRank[rows[j].status]
    BY <2>1, <2>2 DEF IsListOf
  <2>4. ASSUME NEW dropped \in all, \A i \in DOMAIN rows : rows[i] # dropped
        PROVE  /\ Len(rows) = MaxSessions
               /\ \A i \in DOMAIN rows : StatusRank[rows[i].status] <= StatusRank[dropped.status]
    BY <2>1, <2>2, <2>4 DEF IsListOf
  <2> QED
    BY <2>3, <2>4 DEF UrgentRowsSurvive, rows, all
<1> QED
  BY <1>1, Invariance, PTL

(* The reaper drops nothing that was shown: it is more patient than        *)
(* derive_rows by Epsilon.                                                 *)
THEOREM ReaperUnseen == Spec => []ReaperIsInvisible
<1>1. IInv => ReaperIsInvisible
  <2> DEFINE reaped == RemoveGone(sessions, now, GoneTtl)
             shown == ShownIds(sessions, now)
  <2> SUFFICES ASSUME IInv PROVE Rows(reaped, now) = Rows(sessions, now)
    BY DEF ReaperIsInvisible
  <2>1. ShownIds(reaped, now) = shown
    <3>1. ASSUME NEW id \in Ids
          PROVE  id \in ShownIds(reaped, now) <=> id \in shown
      <4>1. CASE sessions[id] = NoSession
        BY <4>1 DEF ShownIds, Present, RemoveGone
      <4>2. CASE sessions[id] # NoSession
        <5>1. sessions[id].lastActivity \in Nat
          BY <4>2 DEF IInv, SessionMap, Session
        <5>2. AgeOf(sessions[id], now) <= GoneTtl =>
                now - sessions[id].lastActivity <= GoneTtl + Epsilon
          BY <5>1, StoreAssumption, RowsAssumption DEF AgeOf, IInv
        <5> QED
          BY <4>2, <5>2 DEF ShownIds, Present, RemoveGone
      <4> QED
        BY <4>1, <4>2
    <3> QED
      BY <3>1 DEF ShownIds, Present
  <2>2. \A id \in shown : reaped[id] = sessions[id]
    <3> SUFFICES ASSUME NEW id \in ShownIds(reaped, now) PROVE reaped[id] = sessions[id]
      BY <2>1
    <3>1. id \in Ids /\ reaped[id] # NoSession
      BY DEF ShownIds, Present
    <3> QED
      BY <3>1 DEF RemoveGone
  <2> HIDE DEF reaped
  <2>3. ASSUME NEW id \in shown
        PROVE  GroupOf(reaped, now, id) = GroupOf(sessions, now, id)
    BY <2>1, <2>2 DEF GroupOf, Key
  <2>4. ASSUME NEW group \in SUBSET shown, group # {}
        PROVE  RowOf(reaped, now, group) = RowOf(sessions, now, group)
    <3>1. \A id \in group : reaped[id] = sessions[id]
      BY <2>2
    <3>2. (CHOOSE id \in group : TRUE) \in group
      BY <2>4
    <3>3. {StatusRank[Status(reaped[id], now)] : id \in group}
            = {StatusRank[Status(sessions[id], now)] : id \in group}
      BY <3>1
    <3>4. {AgeOf(reaped[id], now) : id \in group} = {AgeOf(sessions[id], now) : id \in group}
      BY <3>1
    <3>5. {i \in group : reaped[i].waiting /\ reaped[i].waitingSince # None}
            = {i \in group : sessions[i].waiting /\ sessions[i].waitingSince # None}
      BY <3>1
    <3>6. {Later(now - reaped[id].waitingSince, 0) :
             id \in {i \in group : reaped[i].waiting /\ reaped[i].waitingSince # None}}
            = {Later(now - sessions[id].waitingSince, 0) :
                 id \in {i \in group : sessions[i].waiting /\ sessions[i].waitingSince # None}}
      BY <3>1, <3>5
    <3>7. (\E id \in group : reaped[id].waiting) <=> (\E id \in group : sessions[id].waiting)
      BY <3>1
    <3>8. Representatives(reaped, group) = Representatives(sessions, group)
      BY <3>1 DEF Representatives
    <3> QED
      BY <3>1, <3>2, <3>3, <3>4, <3>6, <3>7, <3>8 DEF RowOf
  <2>5. AllRows(reaped, now) = AllRows(sessions, now)
    <3>1. ASSUME NEW id \in shown
          PROVE  RowOf(reaped, now, GroupOf(reaped, now, id))
                   = RowOf(sessions, now, GroupOf(sessions, now, id))
      <4>1. GroupOf(sessions, now, id) \in SUBSET shown /\ id \in GroupOf(sessions, now, id)
        BY DEF GroupOf
      <4> QED
        BY <2>3, <2>4, <4>1
    <3> QED
      BY <2>1, <3>1, RowsAre
  <2> QED
    BY <2>5 DEF Rows
<1> QED
  BY <1>1, Invariance, PTL
=============================================================================
