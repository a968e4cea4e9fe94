-------------------------- MODULE BackgroundProofs --------------------------
(***************************************************************************)
(* The slow loops of the hub.  What is published as spent today, and the   *)
(* titles, are right for every set of sessions, models and labels, and any *)
(* number of turns and days.  The verdict on starting another agent is     *)
(* right for windows and quotas of any size, any number of Codex sessions, *)
(* and any use, of a Codex that logs resets_at.                            *)
(*                                                                         *)
(* The loops share no variable, so each is proved of its own               *)
(* specification.  Sums are counts, so what is said of them rests on       *)
(* bijections between finite sets.                                         *)
(***************************************************************************)
EXTENDS Metrics, Usage, FiniteSetTheorems, NaturalsInduction, SequenceTheorems, TLAPS

-----------------------------------------------------------------------------
(* Sums.  A sum is the number of its cells: one for each unit of each      *)
(* value.  Two sums compare as their cells map to each other.              *)

Cells(f) == UNION {{x} \X (1 .. f[x]) : x \in DOMAIN f}

LEMMA TotalIs == ASSUME NEW f PROVE Total(f) = Cardinality(Cells(f))
BY DEF Total, Cells

LEMMA CellsAre ==
  ASSUME NEW D, NEW f \in [D -> Nat]
  PROVE  /\ \A x \in D : \A k \in 1 .. f[x] : <<x, k>> \in Cells(f)
         /\ \A p \in Cells(f) :
              /\ p = <<p[1], p[2]>> /\ p[1] \in D /\ p[2] \in 1 .. f[p[1]]
<1>1. ASSUME NEW x \in D, NEW k \in 1 .. f[x] PROVE <<x, k>> \in Cells(f)
  <2>1. <<x, k>> \in {x} \X (1 .. f[x])
    OBVIOUS
  <2>2. x \in DOMAIN f
    OBVIOUS
  <2> QED
    BY <2>1, <2>2, Zenon DEF Cells
<1>2. ASSUME NEW p \in Cells(f)
      PROVE  p = <<p[1], p[2]>> /\ p[1] \in D /\ p[2] \in 1 .. f[p[1]]
  <2>1. PICK x \in DOMAIN f : p \in {x} \X (1 .. f[x])
    BY Zenon DEF Cells
  <2> QED
    BY <2>1
<1> QED
  BY <1>1, <1>2

LEMMA ImageFinite ==
  ASSUME NEW S, IsFiniteSet(S), NEW f
  PROVE  IsFiniteSet({f[x] : x \in S})
<1> DEFINE T == {f[x] : x \in S}
           g == [x \in S |-> f[x]]
<1>1. g \in Surjection(S, T)
  BY DEF Surjection
<1> QED
  BY <1>1, FS_Surjection

LEMMA TotalType ==
  ASSUME NEW D, IsFiniteSet(D), NEW f \in [D -> Nat]
  PROVE  IsFiniteSet(Cells(f)) /\ Total(f) \in Nat
<1> DEFINE part == [x \in D |-> {x} \X (1 .. f[x])]
           parts == {part[x] : x \in D}
<1>1. IsFiniteSet(parts)
  <2> HIDE DEF part
  <2> QED
    BY ImageFinite
<1>2. ASSUME NEW p \in parts PROVE IsFiniteSet(p)
  <2>1. PICK x \in D : p = {x} \X (1 .. f[x])
    OBVIOUS
  <2>2. IsFiniteSet({x})
    BY FS_Singleton, Zenon
  <2>3. f[x] \in Int /\ 1 \in Int
    OBVIOUS
  <2> DEFINE n == f[x]
  <2> HIDE DEF n
  <2>4. IsFiniteSet(1 .. n)
    BY <2>3, FS_Interval, Zenon DEF n
  <2>5. IsFiniteSet({x} \X (1 .. n))
    BY <2>2, <2>4, FS_Product, Zenon
  <2> QED
    BY <2>1, <2>5 DEF n
<1>3. Cells(f) = UNION parts
  <2>1. parts = {{x} \X (1 .. f[x]) : x \in DOMAIN f}
    OBVIOUS
  <2> QED
    BY <2>1, Zenon DEF Cells
<1>4. IsFiniteSet(Cells(f))
  <2> HIDE DEF parts
  <2> QED
    BY <1>1, <1>2, <1>3, FS_UNION
<1> QED
  BY <1>4, TotalIs, FS_CardinalityType

(* What is taken, one to one, from something larger sums up to no more; to *)
(* less, when something is left; and to as much, when nothing is.          *)
OneToOne(r, D, E) == r \in [D -> E] /\ \A x, y \in D : r[x] = r[y] => x = y

LEMMA TotalInject ==
  ASSUME NEW D, NEW E, IsFiniteSet(D), IsFiniteSet(E), NEW f \in [D -> Nat], NEW g \in [E -> Nat],
         NEW r, OneToOne(r, D, E), \A x \in D : f[x] <= g[r[x]]
  PROVE  /\ Total(f) <= Total(g)
         /\ (\E y \in E : g[y] > 0 /\ \A x \in D : r[x] # y) => Total(f) < Total(g)
         /\ (\A y \in E : g[y] > 0 => \E x \in D : r[x] = y /\ f[x] = g[y]) => Total(f) = Total(g)
<1> DEFINE F == Cells(f)
           G == Cells(g)
           move == [p \in F |-> <<r[p[1]], p[2]>>]
<1>0. /\ IsFiniteSet(F) /\ IsFiniteSet(G) /\ Total(f) = Cardinality(F) /\ Total(g) = Cardinality(G)
      /\ Total(f) \in Nat /\ Total(g) \in Nat
  BY TotalType, TotalIs
<1>1. ASSUME NEW p \in F
      PROVE  p = <<p[1], p[2]>> /\ p[1] \in D /\ p[2] \in 1 .. f[p[1]]
  BY CellsAre
<1>2. ASSUME NEW x \in D, NEW k \in 1 .. f[x] PROVE <<x, k>> \in F
  BY CellsAre
<1>3. ASSUME NEW p \in G
      PROVE  p = <<p[1], p[2]>> /\ p[1] \in E /\ p[2] \in 1 .. g[p[1]]
  BY CellsAre
<1>4. ASSUME NEW x \in E, NEW k \in 1 .. g[x] PROVE <<x, k>> \in G
  BY CellsAre
<1> HIDE DEF F, G
<1>5. ASSUME NEW p \in F PROVE move[p] \in G
  <2>1. r[p[1]] \in E /\ f[p[1]] \in Nat /\ g[r[p[1]]] \in Nat /\ f[p[1]] <= g[r[p[1]]]
    BY <1>1 DEF OneToOne
  <2>2. p[2] \in 1 .. g[r[p[1]]]
    BY <1>1, <2>1
  <2> QED
    BY <1>4, <2>1, <2>2
<1>6. ASSUME NEW p \in F, NEW q \in F, move[p] = move[q] PROVE p = q
  <2>1. r[p[1]] = r[q[1]] /\ p[2] = q[2]
    BY <1>6
  <2>2. p[1] = q[1]
    BY <1>1, <2>1 DEF OneToOne
  <2> QED
    BY <1>1, <2>1, <2>2
<1>7. move \in Injection(F, G)
  <2>1. move \in [F -> G]
    BY <1>5
  <2> HIDE DEF move
  <2> QED
    BY <1>6, <2>1 DEF Injection, IsInjective
<1>8. Cardinality(F) <= Cardinality(G) /\ (Cardinality(F) = Cardinality(G) <=> move \in Surjection(F, G))
  <2> HIDE DEF move
  <2> QED
    BY <1>0, <1>7, FS_Injection
<1>9. ASSUME NEW y \in E, g[y] > 0, \A x \in D : r[x] # y PROVE move \notin Surjection(F, G)
  <2>1. <<y, 1>> \in G
    <3>1. 1 \in 1 .. g[y]
      BY <1>9
    <3> QED
      BY <1>4, <3>1
  <2>2. ASSUME NEW p \in F PROVE move[p] # <<y, 1>>
    BY <1>1, <1>9
  <2> HIDE DEF move
  <2> QED
    BY <2>1, <2>2 DEF Surjection
<1>10. ASSUME \A y \in E : g[y] > 0 => \E x \in D : r[x] = y /\ f[x] = g[y]
       PROVE  move \in Surjection(F, G)
  <2>1. ASSUME NEW p \in G PROVE \E q \in F : move[q] = p
    <3>1. g[p[1]] > 0
      BY <1>3
    <3>2. PICK x \in D : r[x] = p[1] /\ f[x] = g[p[1]]
      BY <1>3, <1>10, <3>1
    <3>3. <<x, p[2]>> \in F
      BY <1>2, <1>3, <3>2
    <3>4. move[<<x, p[2]>>] = p
      BY <1>3, <3>2, <3>3
    <3> QED
      BY <3>3, <3>4
  <2>2. move \in [F -> G]
    BY <1>7 DEF Injection, IsInjective
  <2> HIDE DEF move
  <2> QED
    BY <2>1, <2>2 DEF Surjection
<1> QED
  BY <1>0, <1>8, <1>9, <1>10

(* The sum of the sums of groups.                                          *)
GroupOf(h, l) == {x \in DOMAIN h : h[x] = l}
SumOver(some, f) == Total([x \in some |-> f[x]])

LEMMA TotalGroup ==
  ASSUME NEW D, IsFiniteSet(D), NEW f \in [D -> Nat], NEW L, IsFiniteSet(L), NEW h \in [D -> L],
         NEW g \in [L -> Nat], \A l \in L : g[l] = SumOver(GroupOf(h, l), f)
  PROVE  Total(f) = Total(g)
<1> DEFINE F == Cells(f)
           G == Cells(g)
           part(l) == [x \in GroupOf(h, l) |-> f[x]]
           P(l) == Cells(part(l))
<1>0. /\ IsFiniteSet(F) /\ IsFiniteSet(G) /\ Total(f) = Cardinality(F) /\ Total(g) = Cardinality(G)
  BY TotalType, TotalIs
<1>1. ASSUME NEW l \in L
      PROVE  /\ \A x \in GroupOf(h, l) : \A k \in 1 .. f[x] : <<x, k>> \in P(l)
             /\ \A p \in P(l) :
                  /\ p = <<p[1], p[2]>> /\ p[1] \in D /\ h[p[1]] = l /\ p[2] \in 1 .. f[p[1]]
             /\ IsFiniteSet(P(l)) /\ g[l] = Cardinality(P(l))
  <2> DEFINE A == GroupOf(h, l)
  <2>1. A \subseteq D /\ \A x \in A : h[x] = l
    BY DEF GroupOf
  <2>2. IsFiniteSet(A)
    BY <2>1, FS_Subset
  <2> HIDE DEF A
  <2> DEFINE q == [x \in A |-> f[x]]
  <2>3. q \in [A -> Nat] /\ \A x \in A : q[x] = f[x]
    BY <2>1
  <2>4. q = part(l) /\ g[l] = Total(q)
    BY DEF A, SumOver
  <2> HIDE DEF q
  <2>5. /\ \A x \in A : \A k \in 1 .. q[x] : <<x, k>> \in Cells(q)
        /\ \A p \in Cells(q) : p = <<p[1], p[2]>> /\ p[1] \in A /\ p[2] \in 1 .. q[p[1]]
    BY <2>3, CellsAre
  <2>6. IsFiniteSet(Cells(q)) /\ g[l] = Cardinality(Cells(q))
    BY <2>2, <2>3, <2>4, TotalType, TotalIs
  <2>7. P(l) = Cells(q)
    BY <2>4
  <2> HIDE DEF P
  <2>8. GroupOf(h, l) = A
    BY DEF A
  <2>9. \A x \in A : \A k \in 1 .. f[x] : <<x, k>> \in P(l)
    BY <2>3, <2>5, <2>7
  <2>10. \A p \in P(l) :
           p = <<p[1], p[2]>> /\ p[1] \in D /\ h[p[1]] = l /\ p[2] \in 1 .. f[p[1]]
    BY <2>1, <2>3, <2>5, <2>7
  <2> QED
    BY <2>6, <2>7, <2>8, <2>9, <2>10
<1> HIDE DEF P
<1> DEFINE B == [l \in L |-> CHOOSE b : b \in Bijection(1 .. g[l], P(l))]
<1>2. ASSUME NEW l \in L PROVE B[l] \in Bijection(1 .. g[l], P(l))
  <2>1. ExistsBijection(1 .. g[l], P(l))
    <3>1. ExistsBijection(1 .. Cardinality(P(l)), P(l))
      BY <1>1, FS_CardinalityType
    <3> QED
      BY <1>1, <3>1
  <2>2. \E b : b \in Bijection(1 .. g[l], P(l))
    BY <2>1 DEF ExistsBijection
  <2> QED
    BY <2>2
<1> HIDE DEF B
<1>3. ASSUME NEW l \in L
      PROVE  /\ \A k \in 1 .. g[l] : B[l][k] \in P(l)
             /\ \A j, k \in 1 .. g[l] : B[l][j] = B[l][k] => j = k
             /\ \A p \in P(l) : \E k \in 1 .. g[l] : B[l][k] = p
  BY <1>2 DEF Bijection, Injection, IsInjective, Surjection
<1> DEFINE move == [p \in G |-> B[p[1]][p[2]]]
<1>4. ASSUME NEW p \in G
      PROVE  p = <<p[1], p[2]>> /\ p[1] \in L /\ p[2] \in 1 .. g[p[1]]
  BY CellsAre
<1>5. ASSUME NEW l \in L, NEW k \in 1 .. g[l] PROVE <<l, k>> \in G
  BY CellsAre
<1>6. /\ \A p \in F : p = <<p[1], p[2]>> /\ p[1] \in D /\ p[2] \in 1 .. f[p[1]]
      /\ \A x \in D : \A k \in 1 .. f[x] : <<x, k>> \in F
  BY CellsAre
<1> HIDE DEF F, G
<1>7. ASSUME NEW p \in G PROVE move[p] \in P(p[1]) /\ move[p] \in F /\ h[move[p][1]] = p[1]
  <2>1. move[p] \in P(p[1])
    BY <1>3, <1>4
  <2> HIDE DEF move
  <2>2. move[p] = <<move[p][1], move[p][2]>> /\ move[p][1] \in D /\ h[move[p][1]] = p[1]
        /\ move[p][2] \in 1 .. f[move[p][1]]
    BY <1>1, <1>4, <2>1
  <2>3. <<move[p][1], move[p][2]>> \in F
    BY <1>6, <2>2
  <2> QED
    BY <2>1, <2>2, <2>3
<1>8. ASSUME NEW p \in G, NEW q \in G, move[p] = move[q] PROVE p = q
  <2>1. p[1] = q[1]
    <3> HIDE DEF move
    <3> QED
      BY <1>7, <1>8
  <2>2. B[p[1]][p[2]] = B[p[1]][q[2]]
    BY <1>8, <2>1
  <2>3. p[2] = q[2]
    BY <1>3, <1>4, <2>1, <2>2
  <2> QED
    BY <1>4, <2>1, <2>3
<1>9. ASSUME NEW p \in F PROVE \E q \in G : move[q] = p
  <2>1. h[p[1]] \in L /\ p[1] \in GroupOf(h, h[p[1]])
    BY <1>6 DEF GroupOf
  <2>2. p \in P(h[p[1]])
    BY <1>1, <1>6, <2>1
  <2>3. PICK k \in 1 .. g[h[p[1]]] : B[h[p[1]]][k] = p
    BY <1>3, <2>1, <2>2
  <2>4. <<h[p[1]], k>> \in G
    BY <1>5, <2>1
  <2>5. move[<<h[p[1]], k>>] = p
    BY <2>3, <2>4
  <2> QED
    BY <2>4, <2>5
<1>10. move \in [G -> F]
  BY <1>7
<1> HIDE DEF move
<1>11. move \in Bijection(G, F)
  BY <1>8, <1>9, <1>10 DEF Bijection, Injection, IsInjective, Surjection
<1>12. ExistsBijection(G, F)
  BY <1>11 DEF ExistsBijection
<1> QED
  BY <1>0, <1>12, FS_Bijection

LEMMA SumOverSubset ==
  ASSUME NEW D, IsFiniteSet(D), NEW some \in SUBSET D, NEW f, \A x \in D : f[x] \in Nat
  PROVE  /\ SumOver(some, f) \in Nat /\ SumOver(D, f) \in Nat
         /\ SumOver(some, f) <= SumOver(D, f)
         /\ (\E x \in D \ some : f[x] > 0) => SumOver(some, f) < SumOver(D, f)
         /\ (\A x \in D \ some : f[x] = 0) => SumOver(some, f) = SumOver(D, f)
<1> DEFINE g == [x \in some |-> f[x]]
           h == [x \in D |-> f[x]]
           r == [x \in some |-> x]
<1>1. IsFiniteSet(some)
  BY FS_Subset
<1>2. g \in [some -> Nat] /\ h \in [D -> Nat] /\ OneToOne(r, some, D)
  BY DEF OneToOne
<1>3. /\ \A x \in some : g[x] <= h[r[x]]
      /\ \A x \in some : r[x] = x /\ g[x] = h[x]
      /\ \A x \in D : h[x] = f[x]
  OBVIOUS
<1>4. SumOver(some, f) = Total(g) /\ SumOver(D, f) = Total(h)
  BY DEF SumOver
<1> HIDE DEF g, h, r
<1>5. Total(g) \in Nat /\ Total(h) \in Nat
  BY <1>1, <1>2, TotalType
<1>6. /\ Total(g) <= Total(h)
      /\ (\E y \in D : h[y] > 0 /\ \A x \in some : r[x] # y) => Total(g) < Total(h)
      /\ (\A y \in D : h[y] > 0 => \E x \in some : r[x] = y /\ g[x] = h[y]) => Total(g) = Total(h)
  BY <1>1, <1>2, <1>3, TotalInject
<1>7. (\E x \in D \ some : f[x] > 0) => \E y \in D : h[y] > 0 /\ \A x \in some : r[x] # y
  BY <1>3
<1>8. (\A x \in D \ some : f[x] = 0) => \A y \in D : h[y] > 0 => \E x \in some : r[x] = y /\ g[x] = h[y]
  BY <1>3
<1> QED
  BY <1>4, <1>5, <1>6, <1>7, <1>8

LEMMA SumOverSame ==
  ASSUME NEW some, NEW f, NEW g, \A x \in some : f[x] = g[x]
  PROVE  SumOver(some, f) = SumOver(some, g)
<1>1. [x \in some |-> f[x]] = [x \in some |-> g[x]]
  OBVIOUS
<1> QED
  BY <1>1 DEF SumOver

LEMMA SumOverOne ==
  ASSUME NEW x, NEW f, f[x] \in Nat
  PROVE  SumOver({x}, f) = f[x]
<1> DEFINE g == [y \in {x} |-> f[y]]
           S == 1 .. f[x]
           mark == [k \in S |-> <<x, k>>]
           n == f[x]
<1>1. g \in [{x} -> Nat] /\ g[x] = n /\ n \in Nat
  OBVIOUS
<1>2. SumOver({x}, f) = Cardinality(Cells(g))
  BY TotalIs DEF SumOver
<1> HIDE DEF g
<1>3. /\ \A k \in S : <<x, k>> \in Cells(g)
      /\ \A p \in Cells(g) : p = <<x, p[2]>> /\ p[2] \in S
  BY <1>1, CellsAre
<1> HIDE DEF n
<1>4. IsFiniteSet(1 .. n) /\ Cardinality(1 .. n) = n
  <2>1. 1 \in Int /\ n \in Int
    BY <1>1
  <2>2. IsFiniteSet(1 .. n) /\ Cardinality(1 .. n) = IF 1 > n THEN 0 ELSE n - 1 + 1
    BY <2>1, FS_Interval, Zenon
  <2> QED
    BY <1>1, <2>2
<1>5. S = 1 .. n
  BY DEF n
<1> HIDE DEF S
<1>6. mark \in [S -> Cells(g)]
  BY <1>3
<1>7. \A j, k \in S : mark[j] = mark[k] => j = k
  OBVIOUS
<1>8. \A p \in Cells(g) : \E k \in S : mark[k] = p
  BY <1>3
<1> HIDE DEF mark
<1>9. mark \in Bijection(S, Cells(g))
  BY <1>6, <1>7, <1>8 DEF Bijection, Injection, IsInjective, Surjection
<1>10. ExistsBijection(S, Cells(g))
  BY <1>9 DEF ExistsBijection
<1> QED
  BY <1>2, <1>4, <1>5, <1>10, FS_Bijection DEF n

-----------------------------------------------------------------------------
(* The least and the greatest.                                             *)

LEMMA NatLess == \A x, y \in Nat : <<x, y>> \in OpToRel(<, Nat) <=> x < y
BY DEF OpToRel

LEMMA LeastOf ==
  ASSUME NEW S \in SUBSET Nat, S # {}
  PROVE  Min(S) \in S /\ \A y \in S : Min(S) <= y
<1> DEFINE R == OpToRel(<, Nat)
<1>1. IsWellFoundedOn(R, Nat)
  BY NatLessThanWellFounded
<1>2. \A x, y \in Nat : <<x, y>> \in R <=> x < y
  BY NatLess
<1> HIDE DEF R
<1>3. PICK x \in S : \A y \in S : ~ (<<y, x>> \in R)
  BY <1>1, WFMin
<1>4. \A y \in S : x <= y
  <2> SUFFICES ASSUME NEW y \in S PROVE x <= y
    OBVIOUS
  <2>1. x \in Nat /\ y \in Nat
    OBVIOUS
  <2>2. ~ (y < x)
    BY <1>2, <1>3, <2>1
  <2> QED
    BY <2>1, <2>2
<1> QED
  BY <1>4 DEF Min

LEMMA GreatestOf ==
  ASSUME NEW n \in Nat, NEW S \in SUBSET (0 .. n), S # {}
  PROVE  Max(S) \in S /\ \A y \in S : y <= Max(S)
<1> DEFINE T == {n - x : x \in S}
<1>1. T \in SUBSET Nat /\ T # {}
  <2>1. \A x \in S : x \in 0 .. n
    OBVIOUS
  <2>2. \A x \in 0 .. n : n - x \in Nat
    OBVIOUS
  <2> QED
    BY <2>1, <2>2
<1>2. Min(T) \in T /\ \A y \in T : Min(T) <= y
  BY <1>1, LeastOf
<1>3. PICK x \in S : Min(T) = n - x
  BY <1>2
<1>4. \A y \in S : n - x <= n - y
  BY <1>2, <1>3
<1>5. \A y \in S : y <= x
  <2> SUFFICES ASSUME NEW y \in S PROVE y <= x
    OBVIOUS
  <2>1. y \in 0 .. n /\ x \in 0 .. n
    OBVIOUS
  <2> QED
    BY <1>4, <2>1
<1> QED
  BY <1>5 DEF Max

-----------------------------------------------------------------------------
(* The rollup of a provider adds up, whatever was spent.                   *)

Contribution ==
  [item : Nat \cup {"file", "row"}, session : Sessions, model : Models,
   tokens : Nat \ {0}, priced : BOOLEAN]
Spendings == {spent \in SUBSET Contribution : IsFiniteSet(spent)}
Readings == {ProviderMetric(spent) : spent \in Spendings}

TokensIn == [c \in Contribution |-> c.tokens]
LabelIn == [c \in Contribution |-> Label[c.model]]
Labelled(spent, label) == {c \in spent : Label[c.model] = label}
Entry(spent, label) ==
  [model |-> label, tokens |-> Tokens(Labelled(spent, label)), usd |-> Usd(Labelled(spent, label))]
LabelsOf(spent) == {Label[c.model] : c \in spent}

LEMMA TokensAre ==
  ASSUME NEW spent \in Spendings
  PROVE  /\ IsFiniteSet(spent) /\ \A c \in spent : TokensIn[c] = c.tokens /\ c.tokens \in Nat \ {0}
         /\ Tokens(spent) = SumOver(spent, TokensIn) /\ Tokens(spent) \in Nat
         /\ \A some \in SUBSET spent :
              /\ some \in Spendings /\ Tokens(some) \in Nat /\ Tokens(some) <= Tokens(spent)
              /\ some # spent => Tokens(some) < Tokens(spent)
<1>1. spent \in SUBSET Contribution /\ IsFiniteSet(spent)
  BY DEF Spendings
<1>2. \A c \in spent : TokensIn[c] = c.tokens /\ c.tokens \in Nat \ {0}
  BY <1>1 DEF TokensIn, Contribution
<1>3. ASSUME NEW some \in SUBSET spent PROVE Tokens(some) = SumOver(some, TokensIn)
  <2>1. [c \in some |-> c.tokens] = [c \in some |-> TokensIn[c]]
    BY <1>2
  <2> QED
    BY <2>1 DEF Tokens, SumOver
<1>4. Tokens(spent) = SumOver(spent, TokensIn)
  BY <1>3
<1>5. ASSUME NEW some \in SUBSET spent
      PROVE  /\ some \in Spendings
             /\ Tokens(some) \in Nat /\ Tokens(spent) \in Nat /\ Tokens(some) <= Tokens(spent)
             /\ some # spent => Tokens(some) < Tokens(spent)
  <2>1. some \in Spendings
    BY <1>1, FS_Subset DEF Spendings
  <2>2. \A c \in spent : TokensIn[c] \in Nat
    BY <1>2
  <2>3. /\ SumOver(some, TokensIn) \in Nat /\ SumOver(spent, TokensIn) \in Nat
        /\ SumOver(some, TokensIn) <= SumOver(spent, TokensIn)
        /\ (\E x \in spent \ some : TokensIn[x] > 0) =>
              SumOver(some, TokensIn) < SumOver(spent, TokensIn)
    BY <1>1, <2>2, SumOverSubset
  <2>4. some # spent => \E x \in spent \ some : TokensIn[x] > 0
    <3>1. \A c \in spent : TokensIn[c] > 0
      <4> SUFFICES ASSUME NEW c \in spent PROVE TokensIn[c] > 0
        OBVIOUS
      <4>1. TokensIn[c] \in Nat /\ TokensIn[c] # 0
        BY <1>2
      <4> QED
        BY <4>1
    <3> QED
      BY <3>1
  <2> QED
    BY <1>3, <1>4, <2>1, <2>3, <2>4
<1> QED
  BY <1>1, <1>2, <1>4, <1>5

LEMMA EntriesAre ==
  ASSUME NEW spent
  PROVE  /\ ByModel(spent) = {Entry(spent, label) : label \in LabelsOf(spent)}
         /\ \A label : Entry(spent, label).model = label
                       /\ Entry(spent, label).tokens = Tokens(Labelled(spent, label))
                       /\ Entry(spent, label).usd = Usd(Labelled(spent, label))
<1>1. ByModel(spent) = {Entry(spent, label) : label \in LabelsOf(spent)}
  BY DEF ByModel, Entry, Labelled, LabelsOf
<1>2. \A label : Entry(spent, label).model = label
                       /\ Entry(spent, label).tokens = Tokens(Labelled(spent, label))
                       /\ Entry(spent, label).usd = Usd(Labelled(spent, label))
  BY DEF Entry
<1> QED
  BY <1>1, <1>2

LEMMA LabelsFinite ==
  ASSUME NEW spent \in Spendings
  PROVE  /\ IsFiniteSet(LabelsOf(spent)) /\ IsFiniteSet(ByModel(spent))
         /\ \A label \in LabelsOf(spent) :
              Labelled(spent, label) \in Spendings /\ Tokens(Labelled(spent, label)) \in Nat
<1>1. spent \in SUBSET Contribution /\ IsFiniteSet(spent)
  BY DEF Spendings
<1>2. LabelsOf(spent) = {LabelIn[c] : c \in spent}
  BY <1>1 DEF LabelsOf, LabelIn
<1>3. IsFiniteSet(LabelsOf(spent))
  BY <1>1, <1>2, ImageFinite
<1> DEFINE f == [label \in LabelsOf(spent) |-> Entry(spent, label)]
<1>4. ByModel(spent) = {f[label] : label \in LabelsOf(spent)}
  BY EntriesAre
<1> HIDE DEF f
<1>5. IsFiniteSet(ByModel(spent))
  BY <1>3, <1>4, ImageFinite
<1>6. \A label : Labelled(spent, label) \in SUBSET spent
  BY DEF Labelled
<1> QED
  BY <1>3, <1>5, <1>6, TokensAre

LEMMA BreakdownIsWhole ==
  ASSUME NEW spent \in Spendings
  PROVE  /\ Total([m \in ByModel(spent) |-> m.tokens]) = Tokens(spent)
         /\ Cardinality({m.model : m \in ByModel(spent)}) = Cardinality(ByModel(spent))
<1> DEFINE L == LabelsOf(spent)
           M == ByModel(spent)
           f == [c \in spent |-> TokensIn[c]]
           h == [c \in spent |-> Label[c.model]]
           g == [label \in L |-> Tokens(Labelled(spent, label))]
           t == [m \in M |-> m.tokens]
           r == [label \in L |-> Entry(spent, label)]
           u == [m \in M |-> m.model]
<1>1. IsFiniteSet(L) /\ IsFiniteSet(M)
  BY LabelsFinite
<1>2. g \in [L -> Nat]
  BY LabelsFinite
<1>3. f \in [spent -> Nat] /\ IsFiniteSet(spent) /\ Total(f) = Tokens(spent)
  BY TokensAre DEF SumOver
<1>4. h \in [spent -> L]
  BY DEF LabelsOf
<1>5. ASSUME NEW label \in L PROVE g[label] = SumOver(GroupOf(h, label), f)
  <2>1. GroupOf(h, label) = Labelled(spent, label)
    BY DEF GroupOf, Labelled
  <2>2. Tokens(Labelled(spent, label)) = SumOver(Labelled(spent, label), TokensIn)
    BY LabelsFinite, TokensAre
  <2>3. \A c \in Labelled(spent, label) : f[c] = TokensIn[c]
    BY DEF Labelled
  <2>4. SumOver(Labelled(spent, label), f) = SumOver(Labelled(spent, label), TokensIn)
    <3> HIDE DEF f
    <3> QED
      BY <2>3, SumOverSame
  <2> QED
    BY <2>1, <2>2, <2>4
<1>6. /\ M = {Entry(spent, label) : label \in L}
      /\ \A label \in L : r[label] = Entry(spent, label) /\ r[label] \in M
                          /\ r[label].model = label /\ r[label].tokens = g[label]
  <2>1. M = {Entry(spent, label) : label \in L}
    BY EntriesAre
  <2>2. \A label \in L : Entry(spent, label).model = label /\ Entry(spent, label).tokens = g[label]
    BY EntriesAre
  <2> HIDE DEF L, M, g
  <2> QED
    BY <2>1, <2>2
<1> HIDE DEF L, M, f, g, h
<1>7. Total(f) = Total(g)
  BY <1>1, <1>2, <1>3, <1>4, <1>5, TotalGroup
<1>8. OneToOne(r, L, M)
  BY <1>6 DEF OneToOne
<1>9. t \in [M -> Nat] /\ \A label \in L : g[label] = t[r[label]]
  BY <1>2, <1>6
<1>10. \A m \in M : \E label \in L : r[label] = m
  BY <1>6
<1> HIDE DEF t, r
<1>11. Total(g) = Total(t)
  <2>1. \A label \in L : g[label] <= t[r[label]]
    BY <1>2, <1>9
  <2>2. \A m \in M : t[m] > 0 => \E label \in L : r[label] = m /\ g[label] = t[m]
    BY <1>9, <1>10
  <2> QED
    BY <1>1, <1>2, <1>8, <1>9, <2>1, <2>2, TotalInject
<1>12. ExistsBijection(M, {m.model : m \in M})
  <2>1. u \in [M -> {m.model : m \in M}]
    OBVIOUS
  <2>2. \A m, o \in M : u[m] = u[o] => m = o
    BY <1>6
  <2>3. \A l \in {m.model : m \in M} : \E m \in M : u[m] = l
    OBVIOUS
  <2> HIDE DEF u
  <2> QED
    BY <2>1, <2>2, <2>3 DEF ExistsBijection, Bijection, Injection, IsInjective, Surjection
<1>13. Cardinality({m.model : m \in M}) = Cardinality(M)
  BY <1>1, <1>12, FS_Bijection
<1> QED
  BY <1>3, <1>7, <1>11, <1>13 DEF t, M

LEMMA NothingSpent == Tokens({}) = 0
<1>1. Cells([c \in {} |-> c.tokens]) = {}
  BY DEF Cells
<1>2. Tokens({}) = Cardinality({})
  BY <1>1, TotalIs DEF Tokens
<1> QED
  BY <1>2, FS_EmptySet

LEMMA UsdIsWhole ==
  ASSUME NEW spent \in Spendings
  PROVE  /\ Usd(spent) = None \/ Usd(spent) \in Nat
         /\ (Tokens(spent) > 0 /\ \A m \in ByModel(spent) : m.usd = m.tokens)
              => Usd(spent) = Tokens(spent)
<1> DEFINE Paid(some) == {c \in some : c.priced}
<1>1. \A some : Usd(some) = IF Paid(some) = {} THEN None ELSE Tokens(Paid(some))
  BY DEF Usd
<1>2. \A some : Paid(some) \in SUBSET some
  OBVIOUS
<1>3. Usd(spent) = None \/ Usd(spent) \in Nat
  <2>1. Tokens(Paid(spent)) \in Nat
    <3> HIDE DEF Paid
    <3> QED
      BY <1>2, TokensAre
  <2> QED
    BY <1>1, <2>1
<1>4. ASSUME Tokens(spent) > 0, \A m \in ByModel(spent) : m.usd = m.tokens
      PROVE  Usd(spent) = Tokens(spent)
  <2>1. spent # {}
    BY <1>4, NothingSpent
  <2>2. ASSUME NEW c \in spent PROVE c \in Paid(spent)
    <3> DEFINE some == Labelled(spent, Label[c.model])
    <3>1. Label[c.model] \in LabelsOf(spent) /\ c \in some
      BY DEF LabelsOf, Labelled
    <3>2. Entry(spent, Label[c.model]) \in ByModel(spent)
      BY <3>1, EntriesAre
    <3>3. Usd(some) = Tokens(some)
      BY <1>4, <3>2, EntriesAre
    <3>4. some \in Spendings /\ Tokens(some) \in Nat
      BY <3>1, LabelsFinite
    <3>5. Paid(some) \subseteq Paid(spent)
      BY DEF Labelled
    <3> HIDE DEF some, Paid
    <3>6. Paid(some) # {} /\ Tokens(Paid(some)) = Tokens(some)
      <4>1. None \notin Nat
        BY MetricsAssumption
      <4> QED
        BY <1>1, <3>3, <3>4, <4>1
    <3>7. Paid(some) = some
      <4>1. Paid(some) \in SUBSET some
        BY <1>2
      <4>2. /\ Tokens(Paid(some)) \in Nat
            /\ Paid(some) # some => Tokens(Paid(some)) < Tokens(some)
        BY <3>4, <4>1, TokensAre
      <4> QED
        BY <3>4, <3>6, <4>2
    <3> QED
      BY <3>1, <3>5, <3>7
  <2>3. Paid(spent) = spent
    BY <1>2, <2>2
  <2> HIDE DEF Paid
  <2> QED
    BY <1>1, <2>1, <2>3
<1> QED
  BY <1>3, <1>4

LEMMA TopModel ==
  ASSUME NEW spent \in Spendings, ByModel(spent) # {}
  PROVE  \E m \in ByModel(spent) : \A o \in ByModel(spent) : m.tokens >= o.tokens
<1> DEFINE M == ByModel(spent)
           S == {m.tokens : m \in M}
           n == Tokens(spent)
<1>1. n \in Nat
  BY TokensAre
<1>2. ASSUME NEW m \in M PROVE m.tokens \in 0 .. n
  <2>1. PICK label \in LabelsOf(spent) : m = Entry(spent, label)
    BY EntriesAre
  <2>2. m.tokens = Tokens(Labelled(spent, label))
    BY <2>1, EntriesAre
  <2>3. Labelled(spent, label) \in SUBSET spent
    BY DEF Labelled
  <2>4. Tokens(Labelled(spent, label)) \in Nat /\ Tokens(Labelled(spent, label)) <= Tokens(spent)
    BY <2>3, TokensAre
  <2> QED
    BY <1>1, <2>2, <2>4
<1> HIDE DEF M, n
<1>3. S \in SUBSET (0 .. n) /\ S # {}
  BY <1>2 DEF M
<1>4. Max(S) \in S /\ \A y \in S : y <= Max(S)
  <2> HIDE DEF S
  <2> QED
    BY <1>1, <1>3, GreatestOf
<1>5. PICK m \in M : Max(S) = m.tokens
  BY <1>4
<1>6. ASSUME NEW o \in M PROVE m.tokens >= o.tokens
  <2>1. o.tokens <= m.tokens
    BY <1>4, <1>5
  <2>2. o.tokens \in 0 .. n /\ m.tokens \in 0 .. n
    BY <1>2
  <2> QED
    BY <1>1, <2>1, <2>2
<1> QED
  BY <1>6 DEF M

(* What a provider's rollup promises, and what the summary needs of it.    *)
AddsUp(p) ==
  /\ Total([m \in p.models |-> m.tokens]) = p.tokens
  /\ Cardinality({m.model : m \in p.models}) = Cardinality(p.models)
  /\ p.models # {} => \E m \in p.models :
       m.model = p.model /\ \A o \in p.models : m.tokens >= o.tokens
Costed(p) ==
  /\ p.tokens \in Nat /\ (p.usd = None \/ p.usd \in Nat)
  /\ (p.tokens > 0 /\ \A m \in p.models : m.usd = m.tokens) => p.usd = p.tokens

LEMMA ProviderAddsUp ==
  ASSUME NEW p \in Readings
  PROVE  AddsUp(p) /\ Costed(p)
<1>1. PICK spent \in Spendings : p = ProviderMetric(spent)
  BY DEF Readings
<1> DEFINE M == ByModel(spent)
           Best(m) == m \in M /\ \A o \in M : m.tokens >= o.tokens
<1>2. /\ p.tokens = Tokens(spent) /\ p.usd = Usd(spent) /\ p.models = M
      /\ M # {} => p.model = (CHOOSE m : Best(m)).model
  BY <1>1 DEF ProviderMetric
<1>3. Total([m \in M |-> m.tokens]) = Tokens(spent)
      /\ Cardinality({m.model : m \in M}) = Cardinality(M)
  BY BreakdownIsWhole
<1>4. M # {} => \E m \in M : m.model = p.model /\ \A o \in M : m.tokens >= o.tokens
  <2> SUFFICES ASSUME M # {} PROVE \E m \in M : m.model = p.model /\ \A o \in M : m.tokens >= o.tokens
    OBVIOUS
  <2>1. \E m : Best(m)
    BY TopModel
  <2>2. Best(CHOOSE m : Best(m))
    <3> HIDE DEF Best
    <3> QED
      BY <2>1
  <2> QED
    BY <1>2, <2>2
<1>5. AddsUp(p)
  <2> HIDE DEF M
  <2> QED
    BY <1>2, <1>3, <1>4 DEF AddsUp
<1>6. Costed(p)
  BY <1>2, UsdIsWhole, TokensAre DEF Costed
<1> QED
  BY <1>5, <1>6

-----------------------------------------------------------------------------
(* The summary of the four adds up.                                        *)

LEMMA OrderIs ==
  /\ \A i \in 1 .. 4 : ReadingOrder[i] \in Tools
  /\ \A i, j \in 1 .. 4 : ReadingOrder[i] = ReadingOrder[j] => i = j
  /\ \A tool \in Tools : \E i \in 1 .. 4 : ReadingOrder[i] = tool
<1>1. /\ ReadingOrder[1] = "claude" /\ ReadingOrder[2] = "codex"
      /\ ReadingOrder[3] = "opencode" /\ ReadingOrder[4] = "hermes"
  BY DEF ReadingOrder
<1>2. \A i \in 1 .. 4 : i = 1 \/ i = 2 \/ i = 3 \/ i = 4
  OBVIOUS
<1>3. 1 \in 1 .. 4 /\ 2 \in 1 .. 4 /\ 3 \in 1 .. 4 /\ 4 \in 1 .. 4
  OBVIOUS
<1> QED
  BY <1>1, <1>2, <1>3 DEF Tools

LEMMA ProviderIs ==
  ASSUME NEW read, NEW i \in 1 .. 4
  PROVE  Provider(read, ReadingOrder[i]) = read[i]
<1>1. \A j \in 1 .. 4 : ReadingOrder[j] = ReadingOrder[i] <=> j = i
  BY OrderIs
<1>2. (CHOOSE j \in 1 .. 4 : ReadingOrder[j] = ReadingOrder[i]) = i
  BY <1>1
<1> QED
  BY <1>2 DEF Provider

SummaryAddsUp(m) ==
  /\ \A tool \in Tools : AddsUp(m.providers[tool])
  /\ Total([tool \in Tools |-> m.providers[tool].tokens]) = m.tokens
  /\ (m.complete /\ \A tool \in Tools : \A o \in m.providers[tool].models : o.usd = o.tokens)
       => m.usd = m.tokens

LEMMA AllAddsUp ==
  ASSUME NEW read, \A i \in 1 .. 4 : read[i] \in Readings, NEW since, NEW from
  PROVE  SummaryAddsUp(Summary(read, since, from))
<1> DEFINE m == Summary(read, since, from)
           I == 1 .. 4
           active == {i \in I : read[i].tokens > 0}
           priced == {i \in active : read[i].usd # None}
           t == [i \in I |-> read[i].tokens]
           u == [tool \in Tools |-> m.providers[tool].tokens]
           r == [i \in I |-> ReadingOrder[i]]
<1>1. /\ m.tokens = Total(t)
      /\ m.usd = IF priced = {} THEN None ELSE Total([i \in priced |-> read[i].usd])
      /\ m.complete = (active # {} /\ priced = active)
      /\ \A tool \in Tools : m.providers[tool] = Provider(read, tool)
  BY DEF Summary
<1> HIDE DEF m
<1>2. \A i \in I : m.providers[ReadingOrder[i]] = read[i]
  BY <1>1, OrderIs, ProviderIs
<1>3. \A i \in I : AddsUp(read[i]) /\ Costed(read[i])
  BY ProviderAddsUp
<1>4. \A tool \in Tools : AddsUp(m.providers[tool])
  BY <1>2, <1>3, OrderIs
<1>5. IsFiniteSet(I) /\ IsFiniteSet(Tools)
  <2>1. IsFiniteSet(I)
    <3>1. 1 \in Int /\ 4 \in Int
      OBVIOUS
    <3> QED
      BY <3>1, FS_Interval, Zenon
  <2>2. Tools = {ReadingOrder[i] : i \in I}
    BY OrderIs
  <2> HIDE DEF I
  <2> QED
    BY <2>1, <2>2, ImageFinite
<1>6. Total(t) = Total(u)
  <2>1. t \in [I -> Nat] /\ \A i \in I : t[i] = read[i].tokens
    BY <1>3 DEF Costed
  <2>2. u \in [Tools -> Nat] /\ \A i \in I : u[ReadingOrder[i]] = t[i]
    <3>1. \A tool \in Tools : \E i \in I : m.providers[tool] = read[i]
      BY <1>2, OrderIs
    <3>2. \A tool \in Tools : m.providers[tool].tokens \in Nat
      BY <1>3, <3>1 DEF Costed
    <3> QED
      BY <1>2, <3>2, OrderIs
  <2>3. OneToOne(r, I, Tools) /\ \A i \in I : r[i] = ReadingOrder[i]
    BY OrderIs DEF OneToOne
  <2>4. \A tool \in Tools : \E i \in I : r[i] = tool
    BY <2>3, OrderIs
  <2> HIDE DEF t, u, r, I
  <2>5. \A i \in I : t[i] <= u[r[i]]
    BY <2>1, <2>2, <2>3
  <2>6. \A tool \in Tools : u[tool] > 0 => \E i \in I : r[i] = tool /\ t[i] = u[tool]
    BY <2>2, <2>3, <2>4
  <2> QED
    BY <1>5, <2>1, <2>2, <2>3, <2>5, <2>6, TotalInject
<1>7. ASSUME m.complete, \A tool \in Tools : \A o \in m.providers[tool].models : o.usd = o.tokens
      PROVE  m.usd = m.tokens
  <2>1. active # {} /\ priced = active
    BY <1>1, <1>7
  <2>2. ASSUME NEW i \in active PROVE read[i].usd = t[i] /\ t[i] = read[i].tokens
    <3>1. i \in I /\ read[i].tokens > 0
      OBVIOUS
    <3>2. \A o \in read[i].models : o.usd = o.tokens
      BY <1>2, <1>7, <3>1, OrderIs
    <3> QED
      BY <1>3, <3>1, <3>2 DEF Costed
  <2>3. [i \in priced |-> read[i].usd] = [i \in active |-> t[i]]
    <3> HIDE DEF t, active, priced
    <3> QED
      BY <2>1, <2>2
  <2>4. m.usd = SumOver(active, t)
    <3> HIDE DEF t, active, priced
    <3> QED
      BY <1>1, <2>1, <2>3 DEF SumOver
  <2>5. \A i \in I : t[i] \in Nat /\ (i \notin active => t[i] = 0)
    BY <1>3 DEF Costed
  <2>6. active \in SUBSET I /\ \A i \in I \ active : t[i] = 0
    BY <2>5
  <2>7. SumOver(I, t) = Total(t)
    BY DEF SumOver
  <2>8. SumOver(active, t) = SumOver(I, t)
    <3> HIDE DEF t, active, I
    <3> QED
      BY <1>5, <2>5, <2>6, SumOverSubset
  <2> QED
    BY <1>1, <2>4, <2>7, <2>8
<1> QED
  BY <1>1, <1>4, <1>6, <1>7 DEF SummaryAddsUp, m

-----------------------------------------------------------------------------
(* What is read of a store, turn by turn.                                  *)

Sorted(t) == \A i, j \in DOMAIN t : i < j => t[i].day <= t[j].day
TurnsInv ==
  /\ day \in Nat /\ turns \in Seq(Turn)
  /\ Sorted(turns) /\ \A i \in DOMAIN turns : turns[i].day <= day

Raw ==
  [item : Nat \cup {"file", "row"}, session : Sessions, model : Models,
   tokens : Nat, priced : BOOLEAN]
Positive(all) == {c \in all : c.tokens > 0}

LEMMA TurnFacts ==
  ASSUME NEW t \in Seq(Turn)
  PROVE  /\ DOMAIN t = 1 .. Len(t) /\ Len(t) \in Nat /\ IsFiniteSet(DOMAIN t)
         /\ \A i \in DOMAIN t :
              /\ t[i] \in Turn /\ i \in Nat
              /\ t[i].session \in Sessions /\ t[i].model \in Models /\ t[i].prompt \in Prompts
              /\ t[i].tokens \in Nat /\ t[i].day \in Nat
<1>1. DOMAIN t = 1 .. Len(t) /\ Len(t) \in Nat
  OBVIOUS
<1>2. IsFiniteSet(DOMAIN t)
  <2>1. 1 \in Int /\ Len(t) \in Int
    BY <1>1
  <2>2. IsFiniteSet(1 .. Len(t))
    BY <2>1, FS_Interval, Zenon
  <2> QED
    BY <1>1, <2>2
<1>3. ASSUME NEW i \in DOMAIN t
      PROVE  /\ t[i] \in Turn /\ i \in Nat
             /\ t[i].session \in Sessions /\ t[i].model \in Models /\ t[i].prompt \in Prompts
             /\ t[i].tokens \in Nat /\ t[i].day \in Nat
  <2>1. t[i] \in Turn /\ i \in Nat
    BY <1>1
  <2>2. MaxTokens \in Nat /\ MaxDay \in Nat
    BY MetricsAssumption
  <2> QED
    BY <2>1, <2>2 DEF Turn
<1> QED
  BY <1>1, <1>2, <1>3

LEMMA SumsOfTurns ==
  ASSUME TurnsInv, NEW some \in SUBSET DOMAIN turns
  PROVE  /\ IsFiniteSet(some) /\ TokensOf(some) \in Nat
         /\ TokensOf(some) = SumOver(some, [i \in DOMAIN turns |-> turns[i].tokens])
         /\ \A less \in SUBSET some : TokensOf(less) <= TokensOf(some)
<1> DEFINE f == [i \in DOMAIN turns |-> turns[i].tokens]
<1>1. turns \in Seq(Turn)
  BY DEF TurnsInv
<1>2. IsFiniteSet(some) /\ \A i \in some : f[i] \in Nat
  BY <1>1, TurnFacts, FS_Subset
<1>3. ASSUME NEW set \in SUBSET DOMAIN turns PROVE TokensOf(set) = SumOver(set, f)
  <2>1. [i \in set |-> turns[i].tokens] = [i \in set |-> f[i]]
    OBVIOUS
  <2> QED
    BY <2>1 DEF TokensOf, SumOver
<1>4. ASSUME NEW less \in SUBSET some
      PROVE  TokensOf(some) \in Nat /\ TokensOf(less) <= TokensOf(some)
  <2>1. TokensOf(less) = SumOver(less, f) /\ TokensOf(some) = SumOver(some, f)
    BY <1>3
  <2> HIDE DEF f
  <2>2. SumOver(some, f) \in Nat /\ SumOver(less, f) <= SumOver(some, f)
    BY <1>2, SumOverSubset
  <2> QED
    BY <2>1, <2>2
<1> QED
  BY <1>2, <1>3, <1>4

LEMMA NoTurns == TokensOf({}) = 0
<1>1. Cells([i \in {} |-> turns[i].tokens]) = {}
  BY DEF Cells
<1>2. TokensOf({}) = Cardinality({})
  BY <1>1, TotalIs DEF TokensOf
<1> QED
  BY <1>2, FS_EmptySet

(* Every turn is in one contribution, with all that contribution's turns.  *)
LEMMA Gathered ==
  ASSUME TurnsInv, NEW T \in SUBSET DOMAIN turns, NEW h \in [T -> Raw],
         \A i \in T : h[i].tokens = TokensOf({j \in T : h[j] = h[i]})
  PROVE  /\ Positive({h[i] : i \in T}) \in Spendings
         /\ Tokens(Positive({h[i] : i \in T})) = TokensOf(T)
<1> DEFINE L == {h[i] : i \in T}
           f == [i \in T |-> turns[i].tokens]
           g == [c \in L |-> c.tokens]
           spent == Positive(L)
<1>1. turns \in Seq(Turn)
  BY DEF TurnsInv
<1>2. IsFiniteSet(T) /\ IsFiniteSet(L)
  <2>1. IsFiniteSet(T)
    BY SumsOfTurns
  <2> QED
    BY <2>1, ImageFinite
<1>3. f \in [T -> Nat] /\ TokensOf(T) = Total(f)
  BY <1>1, TurnFacts DEF TokensOf
<1>4. L \subseteq Raw /\ h \in [T -> L]
  OBVIOUS
<1>5. \A c \in L : g[c] = c.tokens /\ c.tokens \in Nat
  BY <1>4 DEF Raw
<1>6. ASSUME NEW c \in L PROVE g[c] = SumOver(GroupOf(h, c), f)
  <2>1. PICK i \in T : c = h[i]
    OBVIOUS
  <2>2. GroupOf(h, c) = {j \in T : h[j] = h[i]} /\ GroupOf(h, c) \in SUBSET T
    BY <2>1 DEF GroupOf
  <2> DEFINE some == GroupOf(h, c)
  <2>3. TokensOf(some) = Total([j \in some |-> turns[j].tokens])
    BY DEF TokensOf
  <2>4. [j \in some |-> turns[j].tokens] = [j \in some |-> f[j]]
    BY <2>2
  <2> HIDE DEF some, f, g
  <2>5. TokensOf(some) = SumOver(some, f)
    BY <2>3, <2>4 DEF SumOver
  <2>6. g[c] = TokensOf(some)
    BY <1>5, <2>1, <2>2 DEF some
  <2> QED
    BY <2>5, <2>6 DEF some
<1>7. g \in [L -> Nat]
  BY <1>5
<1>8. spent \in SUBSET L /\ \A c \in L : c \in spent <=> c.tokens > 0
  BY DEF Positive
<1>9. spent \in Spendings
  <2>1. ASSUME NEW c \in spent PROVE c \in Contribution
    <3>1. c \in Raw /\ c.tokens \in Nat /\ c.tokens > 0
      BY <1>4, <1>5, <1>8
    <3>2. c.tokens \in Nat \ {0}
      BY <3>1
    <3> QED
      BY <3>1, <3>2 DEF Raw, Contribution
  <2>2. IsFiniteSet(spent)
    BY <1>2, <1>8, FS_Subset
  <2> HIDE DEF spent
  <2> QED
    BY <2>1, <2>2 DEF Spendings
<1> HIDE DEF L, f
<1>10. Total(f) = Total(g)
  <2> HIDE DEF g
  <2> QED
    BY <1>2, <1>3, <1>4, <1>6, <1>7, TotalGroup
<1>11. SumOver(L, g) = Total(g) /\ Tokens(spent) = SumOver(spent, g)
  <2>1. [c \in spent |-> c.tokens] = [c \in spent |-> g[c]]
    BY <1>8
  <2>2. [c \in L |-> g[c]] = g
    OBVIOUS
  <2> HIDE DEF spent
  <2> QED
    BY <2>1, <2>2 DEF Tokens, SumOver
<1>12. SumOver(spent, g) = SumOver(L, g)
  <2>1. \A c \in L \ spent : g[c] = 0
    <3> SUFFICES ASSUME NEW c \in L \ spent PROVE g[c] = 0
      OBVIOUS
    <3>1. c.tokens \in Nat /\ ~ (c.tokens > 0) /\ g[c] = c.tokens
      BY <1>5, <1>8
    <3> QED
      BY <3>1
  <2> HIDE DEF g, spent
  <2> QED
    BY <1>2, <1>7, <1>8, <2>1, SumOverSubset
<1> QED
  BY <1>3, <1>9, <1>10, <1>11, <1>12 DEF L

-----------------------------------------------------------------------------
(* The turns that the four stores count.                                   *)

LEMMA OfIs ==
  ASSUME TurnsInv, NEW i \in DOMAIN turns
  PROVE  /\ i \in Of(turns[i].session)
         /\ turns[i].session \in Sessions /\ turns[i].model \in Models
         /\ FirstOf(turns[i].session).model \in Models
<1>1. turns \in Seq(Turn)
  BY DEF TurnsInv
<1>2. i \in Of(turns[i].session) /\ Of(turns[i].session) \in SUBSET DOMAIN turns
  BY DEF Of
<1>3. Of(turns[i].session) \in SUBSET Nat
  BY <1>1, <1>2, TurnFacts
<1>4. Min(Of(turns[i].session)) \in Of(turns[i].session)
  BY <1>2, <1>3, LeastOf
<1> QED
  BY <1>1, <1>2, <1>4, TurnFacts DEF FirstOf

LEMMA SpentIs ==
  ASSUME NEW item, NEW s, NEW model, NEW tokens, NEW priced
  PROVE  /\ Spent(item, s, model, tokens, priced).item = item
         /\ Spent(item, s, model, tokens, priced).session = s
         /\ Spent(item, s, model, tokens, priced).model = model
         /\ Spent(item, s, model, tokens, priced).tokens = tokens
         /\ item \in Nat \cup {"file", "row"} /\ s \in Sessions /\ model \in Models
              /\ tokens \in Nat /\ priced \in BOOLEAN
              => Spent(item, s, model, tokens, priced) \in Raw
BY DEF Spent, Raw

LEMMA ClaudeCounts ==
  ASSUME TurnsInv, NEW since
  PROVE  /\ Contributions("claude", since) \in Spendings
         /\ Tokens(Contributions("claude", since)) =
              TokensOf({i \in TurnsOf("claude") : Touched(turns[i].session, since)})
<1> DEFINE T == {i \in TurnsOf("claude") : Touched(turns[i].session, since)}
           Part(s, model) == {j \in Of(s) : turns[j].model = model}
           C(s, model) == Spent("file", s, model, TokensOf(Part(s, model)), model \in Priced)
           h == [i \in T |-> C(turns[i].session, turns[i].model)]
<1>1. T \in SUBSET DOMAIN turns /\ \A i \in T : ToolOf[turns[i].session] = "claude"
  BY DEF TurnsOf
<1>2. \A s, model : Part(s, model) \in SUBSET DOMAIN turns
  BY DEF Of
<1>3. \A s, model : TokensOf(Part(s, model)) \in Nat
  <2> HIDE DEF Part
  <2> QED
    BY <1>2, SumsOfTurns
<1>4. \A s, model :
        /\ C(s, model).session = s /\ C(s, model).model = model
        /\ C(s, model).tokens = TokensOf(Part(s, model))
        /\ s \in Sessions /\ model \in Models => C(s, model) \in Raw
  <2> SUFFICES ASSUME NEW s, NEW model
               PROVE  /\ C(s, model).session = s /\ C(s, model).model = model
                      /\ C(s, model).tokens = TokensOf(Part(s, model))
                      /\ s \in Sessions /\ model \in Models => C(s, model) \in Raw
    OBVIOUS
  <2> DEFINE tokens == TokensOf(Part(s, model))
             priced == model \in Priced
  <2>1. tokens \in Nat
    BY <1>3
  <2>2. priced \in BOOLEAN
    OBVIOUS
  <2>3. C(s, model) = Spent("file", s, model, tokens, priced)
    OBVIOUS
  <2> HIDE DEF tokens, priced, C
  <2> QED
    BY <2>1, <2>2, <2>3, SpentIs DEF tokens
<1> HIDE DEF C
<1>5. h \in [T -> Raw]
  BY <1>1, <1>4, OfIs
<1>6. ASSUME NEW i \in T PROVE h[i].tokens = TokensOf({j \in T : h[j] = h[i]})
  <2>1. ASSUME NEW j \in T, h[j] = h[i] PROVE j \in Part(turns[i].session, turns[i].model)
    <3>1. turns[j].session = turns[i].session /\ turns[j].model = turns[i].model
      BY <1>4, <2>1
    <3> QED
      BY <1>1, <3>1, OfIs
  <2>2. ASSUME NEW j \in Part(turns[i].session, turns[i].model) PROVE j \in T /\ h[j] = h[i]
    <3>1. turns[j].session = turns[i].session /\ turns[j].model = turns[i].model /\ j \in DOMAIN turns
      BY DEF Of
    <3>2. j \in T
      BY <3>1 DEF TurnsOf
    <3> QED
      BY <3>1, <3>2
  <2> HIDE DEF T, Part
  <2>3. {j \in T : h[j] = h[i]} = Part(turns[i].session, turns[i].model)
    BY <2>1, <2>2
  <2>4. h[i] = C(turns[i].session, turns[i].model)
    OBVIOUS
  <2> DEFINE some == {j \in T : h[j] = h[i]}
             part == Part(turns[i].session, turns[i].model)
  <2>5. h[i].tokens = TokensOf(part)
    BY <1>4, <2>4
  <2>6. some = part
    BY <2>3
  <2> HIDE DEF some, part
  <2>7. h[i].tokens = TokensOf(some)
    BY <2>5, <2>6
  <2> QED
    BY <2>7 DEF some
<1>7. Contributions("claude", since) = Positive({h[i] : i \in T})
  <2>0. Contributions("claude", since) =
          Positive({C(s, model) : s \in {f \in Stored("claude") : Touched(f, since)}, model \in Models})
    BY DEF Contributions, ClaudeSpent, C, Positive
  <2>1. ASSUME NEW s \in Stored("claude"), Touched(s, since), NEW model \in Models,
               C(s, model).tokens > 0
        PROVE  \E i \in T : h[i] = C(s, model)
    <3>1. TokensOf(Part(s, model)) > 0
      BY <1>4, <2>1
    <3>2. Part(s, model) # {}
      <4> HIDE DEF Part
      <4> QED
        BY <3>1, NoTurns
    <3>3. PICK i \in Part(s, model) : TRUE
      BY <3>2
    <3>4. turns[i].session = s /\ turns[i].model = model /\ i \in T
      BY <2>1 DEF Of, Stored, TurnsOf
    <3> QED
      BY <3>4
  <2>2. ASSUME NEW i \in T
        PROVE  /\ turns[i].session \in {f \in Stored("claude") : Touched(f, since)}
               /\ turns[i].model \in Models /\ h[i] = C(turns[i].session, turns[i].model)
    <3>1. i \in Of(turns[i].session) /\ turns[i].session \in Sessions /\ turns[i].model \in Models
      BY <1>1, OfIs
    <3> QED
      BY <1>1, <3>1 DEF Stored
  <2> HIDE DEF T, h, Part
  <2> QED
    BY <2>0, <2>1, <2>2 DEF Positive
<1> HIDE DEF h
<1>8. /\ Positive({h[i] : i \in T}) \in Spendings
      /\ Tokens(Positive({h[i] : i \in T})) = TokensOf(T)
  <2> HIDE DEF T
  <2> QED
    BY <1>1, <1>5, <1>6, Gathered
<1> QED
  BY <1>7, <1>8

(* The stores that have one number for a session.                          *)
OfSessions(some) == {i \in DOMAIN turns : turns[i].session \in some}
WholeSessions(item, some, price) ==
  {Spent(item, s, FirstOf(s).model, TokensOf(Of(s)), price[s]) : s \in some}

LEMMA SessionsCount ==
  ASSUME TurnsInv, NEW item \in {"file", "row"}, NEW some \in SUBSET Sessions,
         \A s \in some : Of(s) # {}, NEW price \in [some -> BOOLEAN]
  PROVE  /\ Positive(WholeSessions(item, some, price)) \in Spendings
         /\ Tokens(Positive(WholeSessions(item, some, price))) = TokensOf(OfSessions(some))
<1> DEFINE T == OfSessions(some)
           C(s) == Spent(item, s, FirstOf(s).model, TokensOf(Of(s)), price[s])
           h == [i \in T |-> C(turns[i].session)]
<1>1. T \in SUBSET DOMAIN turns /\ \A i \in DOMAIN turns : i \in T <=> turns[i].session \in some
  BY DEF OfSessions
<1>2. \A s : Of(s) \in SUBSET DOMAIN turns /\ \A i \in DOMAIN turns : i \in Of(s) <=> turns[i].session = s
  BY DEF Of
<1>3. \A s : C(s).session = s /\ C(s).tokens = TokensOf(Of(s))
  BY SpentIs
<1>4. ASSUME NEW i \in T PROVE C(turns[i].session) \in Raw
  <2> DEFINE s == turns[i].session
             model == FirstOf(s).model
             tokens == TokensOf(Of(s))
             priced == price[s]
  <2>1. s \in Sessions /\ model \in Models
    BY <1>1, OfIs
  <2>2. tokens \in Nat
    BY <1>2, SumsOfTurns
  <2>3. priced \in BOOLEAN
    BY <1>1
  <2>4. C(s) = Spent(item, s, model, tokens, priced) /\ item \in Nat \cup {"file", "row"}
    OBVIOUS
  <2> HIDE DEF s, model, tokens, priced, C
  <2>5. C(s) \in Raw
    BY <2>1, <2>2, <2>3, <2>4, SpentIs
  <2> QED
    BY <2>5 DEF s
<1>5. WholeSessions(item, some, price) = {C(s) : s \in some}
  BY DEF WholeSessions
<1> HIDE DEF C, T
<1>6. h \in [T -> Raw] /\ \A i \in T : h[i] = C(turns[i].session)
  BY <1>4
<1>7. {h[i] : i \in T} = {C(s) : s \in some}
  <2>1. ASSUME NEW s \in some PROVE \E i \in T : h[i] = C(s)
    <3>1. PICK i \in Of(s) : TRUE
      OBVIOUS
    <3>2. i \in T /\ turns[i].session = s
      BY <1>1, <1>2
    <3> QED
      BY <1>6, <3>2
  <2>2. ASSUME NEW i \in T PROVE \E s \in some : h[i] = C(s)
    BY <1>1, <1>6
  <2> HIDE DEF h
  <2> QED
    BY <2>1, <2>2
<1>8. ASSUME NEW i \in T PROVE h[i].tokens = TokensOf({j \in T : h[j] = h[i]})
  <2> DEFINE mates == {j \in T : h[j] = h[i]}
             part == Of(turns[i].session)
  <2>1. ASSUME NEW j \in T PROVE h[j] = h[i] <=> turns[j].session = turns[i].session
    BY <1>3, <1>6
  <2>2. \A j \in part : j \in T
    BY <1>1, <1>2
  <2> HIDE DEF h
  <2>3. mates = part
    BY <1>1, <1>2, <2>1, <2>2
  <2>4. h[i].tokens = TokensOf(part)
    BY <1>3, <1>6
  <2> HIDE DEF mates, part
  <2>5. h[i].tokens = TokensOf(mates)
    BY <2>3, <2>4
  <2> QED
    BY <2>5 DEF mates
<1> HIDE DEF h
<1>9. /\ Positive({h[i] : i \in T}) \in Spendings
      /\ Tokens(Positive({h[i] : i \in T})) = TokensOf(T)
  BY <1>1, <1>6, <1>8, Gathered
<1> QED
  BY <1>5, <1>7, <1>9 DEF T

LEMMA CodexCounts ==
  ASSUME TurnsInv, NEW since
  PROVE  /\ Contributions("codex", since) \in Spendings
         /\ Tokens(Contributions("codex", since)) =
              TokensOf({i \in TurnsOf("codex") : Touched(turns[i].session, since)})
<1> DEFINE some == {f \in Stored("codex") : Touched(f, since)}
           price == [s \in some |-> "codex" \in Priced]
           T == {i \in TurnsOf("codex") : Touched(turns[i].session, since)}
<1>1. some \in SUBSET Sessions /\ \A s \in some : Of(s) # {}
  BY DEF Stored
<1>2. price \in [some -> BOOLEAN]
  OBVIOUS
<1>3. WholeSessions("file", some, price) = CodexSpent(since)
  BY DEF WholeSessions, CodexSpent
<1>4. Contributions("codex", since) = Positive(WholeSessions("file", some, price))
  <2>1. Contributions("codex", since) = Positive(CodexSpent(since))
    BY DEF Contributions, Positive
  <2> QED
    BY <1>3, <2>1
<1>5. OfSessions(some) = T
  <2>1. ASSUME NEW i \in DOMAIN turns PROVE turns[i].session \in some <=> i \in T
    <3>1. i \in Of(turns[i].session) /\ turns[i].session \in Sessions
      BY OfIs
    <3> QED
      BY <3>1 DEF Stored, TurnsOf
  <2>2. T \in SUBSET DOMAIN turns
    BY DEF TurnsOf
  <2> HIDE DEF some, T
  <2> QED
    BY <2>1, <2>2 DEF OfSessions
<1> HIDE DEF some, price
<1>6. /\ Positive(WholeSessions("file", some, price)) \in Spendings
      /\ Tokens(Positive(WholeSessions("file", some, price))) = TokensOf(OfSessions(some))
  BY <1>1, <1>2, SessionsCount
<1> QED
  BY <1>4, <1>5, <1>6

LEMMA HermesCounts ==
  ASSUME TurnsInv, NEW since
  PROVE  /\ Contributions("hermes", since) \in Spendings
         /\ Tokens(Contributions("hermes", since)) =
              TokensOf({i \in TurnsOf("hermes") :
                          turns[i].session \notin archived
                          /\ FirstOf(turns[i].session).day >= since})
<1> DEFINE some == {r \in Stored("hermes") \ archived : FirstOf(r).day >= since}
           price == [s \in some |-> FirstOf(s).model \in Priced]
           T == {i \in TurnsOf("hermes") :
                   turns[i].session \notin archived /\ FirstOf(turns[i].session).day >= since}
<1>1. some \in SUBSET Sessions /\ \A s \in some : Of(s) # {}
  BY DEF Stored
<1>2. price \in [some -> BOOLEAN]
  OBVIOUS
<1>3. WholeSessions("row", some, price) = HermesSpent(since)
  BY DEF WholeSessions, HermesSpent
<1>4. Contributions("hermes", since) = Positive(WholeSessions("row", some, price))
  <2>1. Contributions("hermes", since) = Positive(HermesSpent(since))
    BY DEF Contributions, Positive
  <2> QED
    BY <1>3, <2>1
<1>5. OfSessions(some) = T
  <2>1. ASSUME NEW i \in DOMAIN turns PROVE turns[i].session \in some <=> i \in T
    <3>1. i \in Of(turns[i].session) /\ turns[i].session \in Sessions
      BY OfIs
    <3> QED
      BY <3>1 DEF Stored, TurnsOf
  <2>2. T \in SUBSET DOMAIN turns
    BY DEF TurnsOf
  <2> HIDE DEF some, T
  <2> QED
    BY <2>1, <2>2 DEF OfSessions
<1> HIDE DEF some, price
<1>6. /\ Positive(WholeSessions("row", some, price)) \in Spendings
      /\ Tokens(Positive(WholeSessions("row", some, price))) = TokensOf(OfSessions(some))
  BY <1>1, <1>2, SessionsCount
<1> QED
  BY <1>4, <1>5, <1>6

LEMMA OpenCodeCounts ==
  ASSUME TurnsInv, NEW since
  PROVE  /\ Contributions("opencode", since) \in Spendings
         /\ Tokens(Contributions("opencode", since)) =
              TokensOf({i \in TurnsOf("opencode") : turns[i].day >= since})
<1> DEFINE T == {i \in TurnsOf("opencode") : turns[i].day >= since}
           C(i) == Spent(i, turns[i].session, turns[i].model, turns[i].tokens,
                         turns[i].model \in Priced)
           h == [i \in T |-> C(i)]
<1>1. T \in SUBSET DOMAIN turns
  BY DEF TurnsOf
<1>2. \A i : C(i).item = i /\ C(i).tokens = turns[i].tokens
  BY SpentIs
<1>3. ASSUME NEW i \in T PROVE C(i) \in Raw /\ turns[i].tokens \in Nat
  <2> DEFINE priced == turns[i].model \in Priced
  <2>1. /\ i \in Nat /\ turns[i].session \in Sessions /\ turns[i].model \in Models
        /\ turns[i].tokens \in Nat
    BY <1>1, TurnFacts DEF TurnsInv
  <2>2. priced \in BOOLEAN
    OBVIOUS
  <2>3. C(i) = Spent(i, turns[i].session, turns[i].model, turns[i].tokens, priced)
    OBVIOUS
  <2> HIDE DEF priced, C
  <2> QED
    BY <2>1, <2>2, <2>3, SpentIs
<1>4. Contributions("opencode", since) = Positive({h[i] : i \in T})
  <2>1. OpenCodeSpent(since) = {C(i) : i \in T}
    <3>1. T = {j \in DOMAIN turns : ToolOf[turns[j].session] = "opencode" /\ turns[j].day >= since}
      BY DEF TurnsOf
    <3> HIDE DEF T
    <3> QED
      BY <3>1 DEF OpenCodeSpent
  <2>2. Contributions("opencode", since) = Positive(OpenCodeSpent(since))
    BY DEF Contributions, Positive
  <2> HIDE DEF C, T
  <2>3. {h[i] : i \in T} = {C(i) : i \in T}
    OBVIOUS
  <2> HIDE DEF h
  <2> QED
    BY <2>1, <2>2, <2>3
<1> HIDE DEF C, T
<1>5. h \in [T -> Raw] /\ \A i \in T : h[i] = C(i)
  BY <1>3
<1>6. ASSUME NEW i \in T PROVE h[i].tokens = TokensOf({j \in T : h[j] = h[i]})
  <2> DEFINE mates == {j \in T : h[j] = h[i]}
             f == [j \in DOMAIN turns |-> turns[j].tokens]
  <2>1. ASSUME NEW j \in T PROVE h[j] = h[i] <=> j = i
    BY <1>2, <1>5
  <2> HIDE DEF h
  <2>2. mates = {i}
    BY <2>1
  <2>3. TokensOf({i}) = SumOver({i}, f)
    BY <1>1, SumsOfTurns
  <2>4. f[i] = turns[i].tokens /\ turns[i].tokens \in Nat
    BY <1>1, <1>3
  <2>5. h[i].tokens = turns[i].tokens
    BY <1>2, <1>5
  <2> HIDE DEF mates, f
  <2>6. h[i].tokens = TokensOf(mates)
    BY <2>2, <2>3, <2>4, <2>5, SumOverOne
  <2> QED
    BY <2>6 DEF mates
<1> HIDE DEF h
<1>7. /\ Positive({h[i] : i \in T}) \in Spendings
      /\ Tokens(Positive({h[i] : i \in T})) = TokensOf(T)
  BY <1>1, <1>5, <1>6, Gathered
<1> QED
  BY <1>4, <1>7 DEF T

-----------------------------------------------------------------------------
(* What is counted, between what must be and what may be.                  *)

PosOf(t, s) == {i \in DOMAIN t : t[i].session = s}

LEMMA ExtremesOf ==
  ASSUME NEW t \in Seq(Turn), Sorted(t), NEW i \in DOMAIN t
  PROVE  /\ Min(PosOf(t, t[i].session)) \in PosOf(t, t[i].session)
         /\ Max(PosOf(t, t[i].session)) \in PosOf(t, t[i].session)
         /\ Min(PosOf(t, t[i].session)) <= i /\ i <= Max(PosOf(t, t[i].session))
         /\ t[Min(PosOf(t, t[i].session))].day <= t[i].day
         /\ t[i].day <= t[Max(PosOf(t, t[i].session))].day
<1> DEFINE S == PosOf(t, t[i].session)
<1>1. i \in S /\ S \in SUBSET DOMAIN t /\ S # {}
  BY DEF PosOf
<1>2. S \in SUBSET Nat /\ S \in SUBSET (0 .. Len(t)) /\ Len(t) \in Nat
  <2>1. DOMAIN t = 1 .. Len(t) /\ Len(t) \in Nat
    OBVIOUS
  <2> HIDE DEF S
  <2> QED
    BY <1>1, <2>1
<1> HIDE DEF S
<1>3. Min(S) \in S /\ \A y \in S : Min(S) <= y
  BY <1>1, <1>2, LeastOf
<1>4. Max(S) \in S /\ \A y \in S : y <= Max(S)
  BY <1>1, <1>2, GreatestOf
<1>5. \A j, k \in DOMAIN t : j <= k => t[j].day <= t[k].day
  <2> SUFFICES ASSUME NEW j \in DOMAIN t, NEW k \in DOMAIN t, j <= k PROVE t[j].day <= t[k].day
    OBVIOUS
  <2>1. j \in Nat /\ k \in Nat /\ t[j].day \in Nat
    BY TurnFacts
  <2>2. CASE j = k
    BY <2>1, <2>2
  <2>3. CASE j < k
    BY <2>3 DEF Sorted
  <2> QED
    BY <2>1, <2>2, <2>3
<1>6. t[Min(S)].day <= t[i].day /\ t[i].day <= t[Max(S)].day
  BY <1>1, <1>3, <1>4, <1>5
<1> QED
  BY <1>1, <1>3, <1>4, <1>6 DEF S

Due(tool, since, from) == {i \in TurnsOf(tool) : i <= from /\ turns[i].day = since}
Allowed(tool, since) == {i \in TurnsOf(tool) : Touched(turns[i].session, since)}
Bounded(tool, shown, since, from) ==
  /\ tool # "hermes" => shown >= TokensOf(Due(tool, since, from))
  /\ shown <= TokensOf(Allowed(tool, since))

LEMMA CountIsBounded ==
  ASSUME TurnsInv, NEW tool \in Tools, NEW since \in Nat, NEW from \in Nat
  PROVE  /\ Contributions(tool, since) \in Spendings
         /\ Tokens(Contributions(tool, since)) \in Nat
         /\ Bounded(tool, Tokens(Contributions(tool, since)), since, from)
<1> DEFINE shown == Tokens(Contributions(tool, since))
           Daily == {i \in TurnsOf(tool) : turns[i].day >= since}
           Fresher == {i \in TurnsOf(tool) :
                         turns[i].session \notin archived /\ FirstOf(turns[i].session).day >= since}
<1>1. /\ TurnsOf(tool) \in SUBSET DOMAIN turns /\ Due(tool, since, from) \in SUBSET DOMAIN turns
      /\ Allowed(tool, since) \in SUBSET DOMAIN turns
      /\ Daily \in SUBSET DOMAIN turns /\ Fresher \in SUBSET DOMAIN turns
  BY DEF TurnsOf, Due, Allowed
<1>2. ASSUME NEW i \in DOMAIN turns
      PROVE  /\ turns[i].day \in Nat
             /\ FirstOf(turns[i].session).day \in Nat /\ LastOf(turns[i].session).day \in Nat
             /\ FirstOf(turns[i].session).day <= turns[i].day
             /\ turns[i].day <= LastOf(turns[i].session).day
  <2> DEFINE S == PosOf(turns, turns[i].session)
  <2>1. turns \in Seq(Turn) /\ Sorted(turns)
    BY DEF TurnsInv
  <2>2. /\ Min(S) \in S /\ Max(S) \in S
        /\ turns[Min(S)].day <= turns[i].day /\ turns[i].day <= turns[Max(S)].day
    BY <2>1, ExtremesOf
  <2>3. S = Of(turns[i].session) /\ S \in SUBSET DOMAIN turns
    BY DEF PosOf, Of
  <2> HIDE DEF S
  <2>4. turns[Min(S)].day \in Nat /\ turns[Max(S)].day \in Nat /\ turns[i].day \in Nat
    BY <2>1, <2>2, <2>3, TurnFacts
  <2> QED
    BY <2>2, <2>3, <2>4 DEF FirstOf, LastOf
<1>3. /\ Due(tool, since, from) \subseteq Allowed(tool, since)
      /\ Due(tool, since, from) \subseteq Daily
      /\ Daily \subseteq Allowed(tool, since) /\ Fresher \subseteq Allowed(tool, since)
  <2>1. ASSUME NEW i \in TurnsOf(tool), turns[i].day >= since PROVE i \in Allowed(tool, since)
    BY <1>1, <1>2, <2>1 DEF Allowed, Touched
  <2>2. ASSUME NEW i \in Fresher PROVE turns[i].day >= since /\ i \in TurnsOf(tool)
    BY <1>1, <1>2
  <2>3. ASSUME NEW i \in Due(tool, since, from) PROVE turns[i].day >= since /\ i \in TurnsOf(tool)
    BY DEF Due
  <2> QED
    BY <2>1, <2>2, <2>3
<1>4. /\ \/ tool # "hermes" /\ shown = TokensOf(Allowed(tool, since))
         \/ tool # "hermes" /\ shown = TokensOf(Daily)
         \/ tool = "hermes" /\ shown = TokensOf(Fresher)
      /\ Contributions(tool, since) \in Spendings
  <2>1. CASE tool = "claude"
    BY <2>1, ClaudeCounts DEF Allowed
  <2>2. CASE tool = "codex"
    BY <2>2, CodexCounts DEF Allowed
  <2>3. CASE tool = "opencode"
    BY <2>3, OpenCodeCounts
  <2>4. CASE tool = "hermes"
    BY <2>4, HermesCounts
  <2> QED
    BY <2>1, <2>2, <2>3, <2>4 DEF Tools
<1> HIDE DEF Daily, Fresher, shown
<1>5. /\ TokensOf(Due(tool, since, from)) \in Nat /\ TokensOf(Allowed(tool, since)) \in Nat
      /\ TokensOf(Daily) \in Nat /\ TokensOf(Fresher) \in Nat
      /\ TokensOf(Due(tool, since, from)) <= TokensOf(Allowed(tool, since))
      /\ TokensOf(Due(tool, since, from)) <= TokensOf(Daily)
      /\ TokensOf(Daily) <= TokensOf(Allowed(tool, since))
      /\ TokensOf(Fresher) <= TokensOf(Allowed(tool, since))
  BY <1>1, <1>3, SumsOfTurns
<1> QED
  BY <1>4, <1>5 DEF Bounded, shown

(* Another turn only adds to what may be counted, and a pass that has      *)
(* begun owes it nothing.                                                  *)
LEMMA BoundsGrow ==
  ASSUME TurnsInv, TurnsInv', NEW turn \in Turn, Work(turn),
         NEW tool \in Tools, NEW shown \in Nat, NEW since \in Nat, NEW from \in Nat,
         from <= Len(turns), Bounded(tool, shown, since, from)
  PROVE  Bounded(tool, shown, since, from)'
<1>1. turns \in Seq(Turn) /\ turns' \in Seq(Turn) /\ Sorted(turns) /\ Sorted(turns')
  BY DEF TurnsInv
<1>2. /\ DOMAIN turns = 1 .. Len(turns) /\ DOMAIN turns' = 1 .. Len(turns) + 1
      /\ \A i \in DOMAIN turns : i \in DOMAIN turns' /\ turns'[i] = turns[i] /\ i <= Len(turns)
      /\ \A i \in DOMAIN turns' : i \notin DOMAIN turns => i = Len(turns) + 1 /\ Len(turns) \in Nat
  BY <1>1 DEF Work
<1>3. Due(tool, since, from)' = Due(tool, since, from)
  <2>1. ASSUME NEW i \in DOMAIN turns', i <= from PROVE i \in DOMAIN turns
    BY <1>2, <2>1
  <2> QED
    BY <1>2, <2>1 DEF Due, TurnsOf
<1>4. Allowed(tool, since) \subseteq Allowed(tool, since)'
  <2> SUFFICES ASSUME NEW i \in Allowed(tool, since) PROVE i \in Allowed(tool, since)'
    OBVIOUS
  <2> DEFINE s == turns[i].session
             S == PosOf(turns, s)
             U == PosOf(turns', s)
  <2>1. i \in DOMAIN turns /\ ToolOf[s] = tool /\ turns'[i] = turns[i] /\ i \in DOMAIN turns'
    BY <1>2 DEF Allowed, TurnsOf
  <2>2. S = Of(s) /\ U = Of(s)' /\ S \in SUBSET DOMAIN turns /\ U \in SUBSET DOMAIN turns'
    BY <2>1 DEF PosOf, Of
  <2>3. Max(S) \in S
    BY <1>1, <2>1, ExtremesOf
  <2> DEFINE m == Max(S)
  <2>4. m \in DOMAIN turns /\ m \in DOMAIN turns' /\ turns'[m] = turns[m] /\ turns[m].session = s
    BY <1>2, <2>2, <2>3 DEF PosOf
  <2>5. turns'[m].day <= turns'[Max(U)].day /\ Max(U) \in DOMAIN turns'
    <3> HIDE DEF m
    <3>1. /\ turns'[m].day <= turns'[Max(PosOf(turns', turns'[m].session))].day
          /\ Max(PosOf(turns', turns'[m].session)) \in PosOf(turns', turns'[m].session)
      BY <1>1, <2>4, ExtremesOf
    <3>2. PosOf(turns', turns'[m].session) = U
      BY <2>4
    <3> QED
      BY <2>2, <3>1, <3>2
  <2>6. turns[m].day >= since
    BY <2>2 DEF Allowed, Touched, LastOf
  <2>7. turns'[m].day \in Nat /\ turns'[Max(U)].day \in Nat
    BY <1>1, <2>4, <2>5, TurnFacts
  <2>8. turns'[Max(U)].day >= since
    BY <2>4, <2>5, <2>6, <2>7
  <2>9. Touched(s, since)'
    BY <2>2, <2>8 DEF Touched, LastOf
  <2> QED
    BY <2>1, <2>9 DEF Allowed, TurnsOf
<1>5. /\ Due(tool, since, from) \in SUBSET DOMAIN turns
      /\ Allowed(tool, since) \in SUBSET DOMAIN turns
      /\ Allowed(tool, since)' \in SUBSET DOMAIN turns'
  BY DEF Due, Allowed, TurnsOf
<1>6. ASSUME NEW some \in SUBSET DOMAIN turns
      PROVE  Total([i \in some |-> turns'[i].tokens]) = TokensOf(some)
  <2>1. [i \in some |-> turns'[i].tokens] = [i \in some |-> turns[i].tokens]
    BY <1>2
  <2> QED
    BY <2>1 DEF TokensOf
<1>7. TokensOf(Due(tool, since, from))' = TokensOf(Due(tool, since, from))
  BY <1>3, <1>5, <1>6 DEF TokensOf
<1>8. /\ TokensOf(Allowed(tool, since)) <= TokensOf(Allowed(tool, since))'
      /\ TokensOf(Allowed(tool, since)) \in Nat /\ TokensOf(Allowed(tool, since))' \in Nat
  <2> DEFINE f == [i \in DOMAIN turns' |-> turns'[i].tokens]
             less == Allowed(tool, since)
             more == Allowed(tool, since)'
  <2>1. \A i \in more : f[i] \in Nat
    BY <1>1, <1>5, TurnFacts
  <2>2. IsFiniteSet(more) /\ less \in SUBSET more
    BY <1>1, <1>4, <1>5, TurnFacts, FS_Subset
  <2>3. TokensOf(less) = SumOver(less, f)
    <3>1. [i \in less |-> turns[i].tokens] = [i \in less |-> f[i]]
      BY <1>2, <1>5
    <3> QED
      BY <3>1 DEF TokensOf, SumOver
  <2>4. TokensOf(Allowed(tool, since))' = SumOver(more, f)
    <3>1. [i \in more |-> turns'[i].tokens] = [i \in more |-> f[i]]
      BY <1>5
    <3> QED
      BY <3>1 DEF TokensOf, SumOver
  <2> HIDE DEF f, less, more
  <2>5. /\ SumOver(less, f) \in Nat /\ SumOver(more, f) \in Nat
        /\ SumOver(less, f) <= SumOver(more, f)
    BY <2>1, <2>2, SumOverSubset
  <2> QED
    BY <2>3, <2>4, <2>5 DEF less
<1>9. TokensOf(Due(tool, since, from)) \in Nat
  BY <1>5, SumsOfTurns
<1> QED
  BY <1>7, <1>8, <1>9 DEF Bounded

-----------------------------------------------------------------------------
(* A pass, and what it published.                                          *)

PassInv ==
  pass # None =>
    /\ pass = [since |-> pass.since, from |-> pass.from, read |-> pass.read]
    /\ pass.since \in Nat /\ pass.from \in Nat /\ pass.from <= Len(turns)
    /\ pass.read \in Seq(Readings)
    /\ \A k \in DOMAIN pass.read :
         k \in 1 .. 4 => Bounded(ReadingOrder[k], pass.read[k].tokens, pass.since, pass.from)

MetricsInv ==
  metrics # None =>
    /\ SummaryAddsUp(metrics)
    /\ metrics.since \in Nat /\ metrics.from \in Nat /\ metrics.from <= Len(turns)
    /\ \A tool \in Tools :
         LET shown == metrics.providers[tool].tokens IN
         shown \in Nat /\ Bounded(tool, shown, metrics.since, metrics.from)

CountInv == TurnsInv /\ PassInv /\ MetricsInv

LEMMA ReadingTokens == \A p \in Readings : p.tokens \in Nat
BY ProviderAddsUp DEF Costed

LEMMA InitCountInv == MetricsInit => CountInv
<1> SUFFICES ASSUME MetricsInit PROVE CountInv
  OBVIOUS
<1>1. TurnsInv
  BY DEF MetricsInit, TurnsInv, Sorted
<1> QED
  BY <1>1 DEF MetricsInit, CountInv, PassInv, MetricsInv

LEMMA StillBounded ==
  ASSUME NEW tool, NEW shown, NEW since, NEW from, UNCHANGED turns,
         Bounded(tool, shown, since, from)
  PROVE  Bounded(tool, shown, since, from)'
BY DEF Bounded, Due, Allowed, TurnsOf, TokensOf, Touched, LastOf, Of

LEMMA WorkKeepsTurns ==
  ASSUME TurnsInv, NEW turn \in Turn, Work(turn)
  PROVE  TurnsInv' /\ Len(turns') = Len(turns) + 1 /\ Len(turns) \in Nat
<1>1. turns \in Seq(Turn) /\ turns' = Append(turns, turn) /\ day' = day /\ turn.day = day /\ day \in Nat
  BY DEF Work, TurnsInv
<1>2. turns' \in Seq(Turn) /\ Len(turns') = Len(turns) + 1 /\ Len(turns) \in Nat
  BY <1>1
<1>3. \A i \in DOMAIN turns' : \/ i \in DOMAIN turns /\ turns'[i] = turns[i] /\ i < Len(turns')
                               \/ i = Len(turns') /\ turns'[i] = turn
  BY <1>1
<1>4. \A i \in DOMAIN turns' : turns'[i].day <= day /\ turns'[i].day \in Nat
  <2>1. \A i \in DOMAIN turns : turns[i].day <= day
    BY DEF TurnsInv
  <2> QED
    BY <1>1, <1>2, <1>3, <2>1, TurnFacts
<1>5. ASSUME NEW i \in DOMAIN turns', NEW j \in DOMAIN turns', i < j
      PROVE  turns'[i].day <= turns'[j].day
  <2>0. i \in Nat /\ j \in Nat /\ j <= Len(turns') /\ Len(turns') \in Nat
    BY <1>2
  <2>1. i \in DOMAIN turns /\ turns'[i] = turns[i]
    BY <1>3, <1>5, <2>0
  <2>2. CASE j \in DOMAIN turns /\ turns'[j] = turns[j]
    BY <1>5, <2>1, <2>2 DEF TurnsInv, Sorted
  <2>3. CASE turns'[j] = turn
    BY <1>1, <1>4, <2>3
  <2> QED
    BY <1>3, <2>2, <2>3
<1> QED
  BY <1>1, <1>2, <1>4, <1>5 DEF TurnsInv, Sorted

LEMMA NextCountInv == CountInv /\ [MetricsNext]_metricsVars => CountInv'
<1> SUFFICES ASSUME CountInv, [MetricsNext]_metricsVars PROVE CountInv'
  OBVIOUS
<1>1. TurnsInv /\ PassInv /\ MetricsInv
  BY DEF CountInv
<1>2. ASSUME UNCHANGED <<day, turns>> PROVE TurnsInv'
  BY <1>1, <1>2 DEF TurnsInv
<1>3. ASSUME UNCHANGED <<turns, pass>> PROVE PassInv'
  BY <1>1, <1>3, StillBounded DEF PassInv
<1>4. ASSUME UNCHANGED <<turns, metrics>> PROVE MetricsInv'
  BY <1>1, <1>4, StillBounded DEF MetricsInv
<1>5. ASSUME NEW turn \in Turn, Work(turn) PROVE CountInv'
  <2>1. TurnsInv' /\ Len(turns') = Len(turns) + 1 /\ Len(turns) \in Nat
    BY <1>1, <1>5, WorkKeepsTurns
  <2>2. pass' = pass /\ metrics' = metrics
    BY <1>5 DEF Work
  <2>3. PassInv'
    <3> SUFFICES ASSUME pass # None
                 PROVE  /\ pass.from <= Len(turns')
                        /\ \A k \in DOMAIN pass.read :
                             k \in 1 .. 4 => Bounded(ReadingOrder[k], pass.read[k].tokens,
                                                     pass.since, pass.from)'
      BY <1>1, <2>2 DEF PassInv
    <3>1. /\ pass.since \in Nat /\ pass.from \in Nat /\ pass.from <= Len(turns)
          /\ pass.read \in Seq(Readings)
      BY <1>1 DEF PassInv
    <3>2. ASSUME NEW k \in DOMAIN pass.read, k \in 1 .. 4
          PROVE  Bounded(ReadingOrder[k], pass.read[k].tokens, pass.since, pass.from)'
      <4>1. pass.read[k].tokens \in Nat /\ ReadingOrder[k] \in Tools
        BY <3>1, <3>2, ReadingTokens, OrderIs
      <4>2. Bounded(ReadingOrder[k], pass.read[k].tokens, pass.since, pass.from)
        BY <1>1, <3>2 DEF PassInv
      <4> QED
        BY <1>1, <1>5, <2>1, <2>2, <3>1, <4>1, <4>2, BoundsGrow
    <3> QED
      BY <2>1, <3>1, <3>2
  <2>4. MetricsInv'
    BY <1>1, <1>5, <2>1, <2>2, BoundsGrow DEF MetricsInv
  <2> QED
    BY <2>1, <2>3, <2>4 DEF CountInv
<1>6. ASSUME NEW s \in Sessions, Archive(s) \/ \E name \in Names : Name(s, name) PROVE CountInv'
  BY <1>2, <1>3, <1>4, <1>6 DEF Archive, Name, CountInv
<1>7. CASE Midnight
  <2>1. TurnsInv'
    <3>1. \A i \in DOMAIN turns : turns[i].day \in Nat /\ turns[i].day <= day
      BY <1>1, TurnFacts DEF TurnsInv
    <3> QED
      BY <1>1, <1>7, <3>1 DEF Midnight, TurnsInv
  <2> QED
    BY <1>3, <1>4, <1>7, <2>1 DEF Midnight, CountInv
<1>8. CASE BeginPass
  <2>1. day \in Nat /\ Len(turns) \in Nat
    BY <1>1 DEF TurnsInv
  <2>2. PassInv'
    BY <1>8, <2>1 DEF BeginPass, PassInv
  <2> QED
    BY <1>2, <1>4, <1>8, <2>2 DEF BeginPass, CountInv
<1>9. CASE ReadStore
  <2> DEFINE tool == ReadingOrder[Len(pass.read) + 1]
             p == ProviderMetric(Contributions(tool, pass.since))
  <2>1. /\ pass # None /\ Len(pass.read) < 4
        /\ pass' = [pass EXCEPT !.read = Append(@, p)]
        /\ UNCHANGED <<day, turns, names, archived, metrics, titles>>
    BY <1>9 DEF ReadStore
  <2>2. /\ pass = [since |-> pass.since, from |-> pass.from, read |-> pass.read]
        /\ pass.since \in Nat /\ pass.from \in Nat /\ pass.from <= Len(turns)
        /\ pass.read \in Seq(Readings)
        /\ \A k \in DOMAIN pass.read :
             k \in 1 .. 4 => Bounded(ReadingOrder[k], pass.read[k].tokens, pass.since, pass.from)
    BY <1>1, <2>1 DEF PassInv
  <2>3. Len(pass.read) + 1 \in 1 .. 4 /\ tool \in Tools
    <3>1. Len(pass.read) + 1 \in 1 .. 4
      BY <2>1, <2>2
    <3> QED
      BY <3>1, OrderIs
  <2>4. p \in Readings /\ Bounded(tool, p.tokens, pass.since, pass.from)
    <3> HIDE DEF tool
    <3>1. /\ Contributions(tool, pass.since) \in Spendings
          /\ Bounded(tool, Tokens(Contributions(tool, pass.since)), pass.since, pass.from)
      BY <1>1, <2>2, <2>3, CountIsBounded
    <3>2. p.tokens = Tokens(Contributions(tool, pass.since))
      BY DEF ProviderMetric
    <3> QED
      BY <3>1, <3>2 DEF Readings
  <2> HIDE DEF p
  <2>5. pass' = [since |-> pass.since, from |-> pass.from, read |-> Append(pass.read, p)]
    BY <2>1, <2>2
  <2>6. PassInv'
    <3> DEFINE list == Append(pass.read, p)
    <3>1. list \in Seq(Readings)
      BY <2>2, <2>4
    <3>2. ASSUME NEW k \in DOMAIN list, k \in 1 .. 4
          PROVE  Bounded(ReadingOrder[k], list[k].tokens, pass.since, pass.from)
      <4>1. \/ k \in DOMAIN pass.read /\ list[k] = pass.read[k]
            \/ k = Len(pass.read) + 1 /\ list[k] = p
        BY <2>2, <2>4
      <4> QED
        BY <2>2, <2>4, <3>2, <4>1
    <3> HIDE DEF list
    <3>3. /\ pass'.since = pass.since /\ pass'.from = pass.from /\ pass'.read = list
          /\ pass' = [since |-> pass.since, from |-> pass.from, read |-> list]
      BY <2>5 DEF list
    <3>4. ASSUME NEW k \in DOMAIN list, k \in 1 .. 4
          PROVE  Bounded(ReadingOrder[k], pass.read[k].tokens, pass.since, pass.from)'
      <4>1. turns' = turns
        BY <2>1
      <4> QED
        BY <3>2, <3>3, <3>4, <4>1, StillBounded
    <3> QED
      BY <2>1, <2>2, <3>1, <3>3, <3>4 DEF PassInv
  <2> QED
    BY <1>2, <1>4, <2>1, <2>6 DEF CountInv
<1>10. CASE PublishMetrics
  <2>1. /\ pass # None /\ Len(pass.read) = 4 /\ pass' = None
        /\ metrics' = Summary(pass.read, pass.since, pass.from)
        /\ UNCHANGED <<day, turns, names, archived, titles>>
    BY <1>10 DEF PublishMetrics
  <2>2. /\ pass.since \in Nat /\ pass.from \in Nat /\ pass.from <= Len(turns)
        /\ pass.read \in Seq(Readings)
        /\ \A k \in DOMAIN pass.read :
             k \in 1 .. 4 => Bounded(ReadingOrder[k], pass.read[k].tokens, pass.since, pass.from)
    BY <1>1, <2>1 DEF PassInv
  <2>3. \A k \in 1 .. 4 : k \in DOMAIN pass.read /\ pass.read[k] \in Readings
    BY <2>1, <2>2
  <2>4. SummaryAddsUp(metrics')
    BY <2>1, <2>3, AllAddsUp
  <2>5. /\ metrics'.since = pass.since /\ metrics'.from = pass.from
        /\ \A tool \in Tools : metrics'.providers[tool] = Provider(pass.read, tool)
    BY <2>1 DEF Summary
  <2>6. ASSUME NEW tool \in Tools
        PROVE  /\ metrics'.providers[tool].tokens \in Nat
               /\ Bounded(tool, metrics'.providers[tool].tokens, pass.since, pass.from)
    <3>1. PICK k \in 1 .. 4 : tool = ReadingOrder[k]
      BY OrderIs
    <3>2. metrics'.providers[tool] = pass.read[k]
      BY <2>5, <3>1, ProviderIs
    <3> QED
      BY <2>2, <2>3, <3>1, <3>2, ReadingTokens
  <2>7. \A tool \in Tools :
          Bounded(tool, metrics.providers[tool].tokens, metrics.since, metrics.from)'
    <3>1. turns' = turns
      BY <2>1
    <3> QED
      BY <2>5, <2>6, <3>1, StillBounded
  <2>8. MetricsInv'
    BY <2>1, <2>2, <2>4, <2>5, <2>6, <2>7 DEF MetricsInv, SummaryAddsUp
  <2> QED
    BY <1>2, <2>1, <2>8 DEF CountInv, PassInv
<1>11. CASE BuildTitles
  BY <1>2, <1>3, <1>4, <1>11 DEF BuildTitles, CountInv
<1>12. CASE UNCHANGED metricsVars
  BY <1>2, <1>3, <1>4, <1>12 DEF metricsVars, CountInv
<1> QED
  BY <1>5, <1>6, <1>7, <1>8, <1>9, <1>10, <1>11, <1>12 DEF MetricsNext

LEMMA Counted == CountInv => TodayIsCounted /\ BreakdownAddsUp
<1> SUFFICES ASSUME CountInv, metrics # None PROVE TodayIsCounted /\ BreakdownAddsUp
  BY DEF TodayIsCounted, BreakdownAddsUp
<1>1. MetricsInv
  BY DEF CountInv
<1>2. TodayIsCounted
  BY <1>1 DEF MetricsInv, TodayIsCounted, Bounded, Due, Allowed
<1>3. BreakdownAddsUp
  BY <1>1 DEF MetricsInv, BreakdownAddsUp, SummaryAddsUp, AddsUp
<1> QED
  BY <1>2, <1>3

(* Whatever agents write and whenever midnight falls between the steps of  *)
(* a pass, what is published as today's tokens is all that was spent on    *)
(* that day before the pass, and nothing of a session that was not at work *)
(* since (claude_metrics, codex_metrics, opencode_metrics, hermes_metrics).*)
THEOREM MetricsCountToday == MetricsSpec => []TodayIsCounted
<1>1. CountInv => TodayIsCounted
  BY Counted
<1> QED
  BY InitCountInv, NextCountInv, <1>1, PTL DEF MetricsSpec

(* Models, providers and totals that are published add up, however raw     *)
(* model ids share a label and prices are missing (finalize,               *)
(* summarize_metrics).                                                     *)
THEOREM MetricsAddUp == MetricsSpec => []BreakdownAddsUp
<1>1. CountInv => BreakdownAddsUp
  BY Counted
<1> QED
  BY InitCountInv, NextCountInv, <1>1, PTL DEF MetricsSpec

-----------------------------------------------------------------------------
(* Titles: what a title was taken from is still there.                     *)

TitleInv ==
  /\ names \in [Sessions -> Names \cup {None}]
  /\ \A s \in Sessions : titles[s] # None =>
       /\ Of(s) # {}
       /\ ToolOf[s] \in {"claude", "codex"} => titles[s] = FirstPrompt(s)
       /\ ToolOf[s] = "hermes" => names[s] # None
       /\ ToolOf[s] = "opencode" => names[s] # None \/ titles[s] = FirstOf(s).prompt

TitlesInv == TurnsInv /\ TitleInv

(* Another turn leaves the first of a session the first, and its first     *)
(* prompt that says something.                                             *)
LEMMA FirstStays ==
  ASSUME TurnsInv, NEW turn \in Turn, Work(turn), NEW s \in Sessions, Of(s) # {}
  PROVE  /\ Of(s)' # {} /\ FirstOf(s)' = FirstOf(s)
         /\ Said(s) # {} => FirstPrompt(s)' = FirstPrompt(s)
<1>1. turns \in Seq(Turn) /\ turns' = Append(turns, turn)
  BY DEF Work, TurnsInv
<1>2. /\ \A i \in DOMAIN turns : i \in DOMAIN turns' /\ turns'[i] = turns[i]
      /\ \A i \in DOMAIN turns', j \in DOMAIN turns : i \notin DOMAIN turns => j < i
      /\ DOMAIN turns \subseteq Nat /\ DOMAIN turns' \subseteq Nat
  BY <1>1
<1>3. ASSUME NEW S \in SUBSET DOMAIN turns, S # {}, NEW U \in SUBSET DOMAIN turns', S \subseteq U,
             \A i \in U : i \in DOMAIN turns => i \in S
      PROVE  Min(U) = Min(S) /\ Min(S) \in DOMAIN turns
  <2>1. Min(S) \in S /\ \A y \in S : Min(S) <= y
    BY <1>2, <1>3, LeastOf
  <2>2. Min(U) \in U /\ \A y \in U : Min(U) <= y
    BY <1>2, <1>3, LeastOf
  <2>3. Min(U) <= Min(S) /\ Min(S) \in Nat /\ Min(U) \in Nat
    BY <1>2, <1>3, <2>1, <2>2
  <2>4. Min(U) \in DOMAIN turns
    BY <1>2, <1>3, <2>1, <2>2, <2>3
  <2>5. Min(S) <= Min(U)
    BY <1>3, <2>1, <2>2, <2>4
  <2> QED
    BY <1>3, <2>1, <2>3, <2>5
<1>4. /\ Of(s) \in SUBSET DOMAIN turns /\ Of(s)' \in SUBSET DOMAIN turns'
      /\ Of(s) \subseteq Of(s)' /\ \A i \in Of(s)' : i \in DOMAIN turns => i \in Of(s)
  BY <1>2 DEF Of
<1>5. /\ Said(s) \in SUBSET DOMAIN turns /\ Said(s)' \in SUBSET DOMAIN turns'
      /\ Said(s) \subseteq Said(s)' /\ \A i \in Said(s)' : i \in DOMAIN turns => i \in Said(s)
  BY <1>2, <1>4 DEF Said
<1>6. Min(Of(s)') = Min(Of(s)) /\ Min(Of(s)) \in DOMAIN turns
  BY <1>3, <1>4
<1>7. Of(s)' # {} /\ FirstOf(s)' = FirstOf(s)
  BY <1>2, <1>4, <1>6 DEF FirstOf
<1>8. ASSUME Said(s) # {} PROVE FirstPrompt(s)' = FirstPrompt(s)
  <2>1. Min(Said(s)') = Min(Said(s)) /\ Min(Said(s)) \in DOMAIN turns
    BY <1>3, <1>5, <1>8
  <2>2. Said(s)' # {}
    BY <1>5, <1>8
  <2> QED
    BY <1>2, <1>8, <2>1, <2>2 DEF FirstPrompt
<1> QED
  BY <1>7, <1>8

LEMMA InitTitlesInv == MetricsInit => TitlesInv
BY InitCountInv DEF CountInv, TitlesInv, TitleInv, MetricsInit

LEMMA NextTitlesInv == TitlesInv /\ [MetricsNext]_metricsVars => TitlesInv'
<1> SUFFICES ASSUME TitlesInv, [MetricsNext]_metricsVars PROVE TitlesInv'
  OBVIOUS
<1>1. TurnsInv /\ TitleInv
  BY DEF TitlesInv
<1>2. ASSUME UNCHANGED <<day, turns>> PROVE TurnsInv'
  BY <1>1, <1>2 DEF TurnsInv
<1>3. ASSUME UNCHANGED <<turns, names, titles>> PROVE TitleInv'
  BY <1>1, <1>3 DEF TitleInv, Of, FirstOf, FirstPrompt, Said
<1>4. ASSUME NEW turn \in Turn, Work(turn) PROVE TitlesInv'
  <2>1. names' = names /\ titles' = titles
    BY <1>4 DEF Work
  <2>2. ASSUME NEW s \in Sessions, titles[s] # None
        PROVE  /\ Of(s)' # {} /\ FirstOf(s)' = FirstOf(s)
               /\ titles[s] = FirstPrompt(s) => FirstPrompt(s)' = FirstPrompt(s)
    <3>1. Of(s) # {}
      BY <1>1, <2>2 DEF TitleInv
    <3>2. titles[s] = FirstPrompt(s) => Said(s) # {}
      BY <2>2 DEF FirstPrompt
    <3> QED
      BY <1>1, <1>4, <3>1, <3>2, FirstStays
  <2>3. TitleInv'
    BY <1>1, <2>1, <2>2 DEF TitleInv
  <2> QED
    BY <1>1, <1>4, <2>3, WorkKeepsTurns DEF TitlesInv
<1>5. ASSUME NEW s \in Sessions, Archive(s) PROVE TitlesInv'
  BY <1>2, <1>3, <1>5 DEF Archive, TitlesInv
<1>6. ASSUME NEW s \in Sessions, NEW name \in Names, Name(s, name) PROVE TitlesInv'
  <2>1. /\ names' = [names EXCEPT ![s] = name] /\ turns' = turns /\ titles' = titles
        /\ name # None /\ name \in Names
    BY <1>6, MetricsAssumption DEF Name
  <2>2. /\ names' \in [Sessions -> Names \cup {None}]
        /\ \A t \in Sessions : names[t] # None => names'[t] # None
    BY <1>1, <2>1 DEF TitleInv
  <2>3. \A t : Of(t)' = Of(t) /\ FirstOf(t)' = FirstOf(t) /\ FirstPrompt(t)' = FirstPrompt(t)
    BY <2>1 DEF Of, FirstOf, FirstPrompt, Said
  <2>4. TitleInv'
    BY <1>1, <2>1, <2>2, <2>3 DEF TitleInv
  <2> QED
    BY <1>2, <1>6, <2>4 DEF Name, TitlesInv
<1>7. CASE Midnight
  <2>1. \A i \in DOMAIN turns : turns[i].day \in Nat /\ turns[i].day <= day
    BY <1>1, TurnFacts DEF TurnsInv
  <2> QED
    BY <1>1, <1>3, <1>7, <2>1 DEF Midnight, TurnsInv, TitlesInv
<1>8. CASE BeginPass \/ ReadStore \/ PublishMetrics
  BY <1>2, <1>3, <1>8 DEF BeginPass, ReadStore, PublishMetrics, TitlesInv
<1>9. CASE BuildTitles
  <2>1. titles' = [s \in Sessions |-> TitleOf(s)] /\ turns' = turns /\ names' = names
    BY <1>9 DEF BuildTitles
  <2>2. \A t : Of(t)' = Of(t) /\ FirstOf(t)' = FirstOf(t) /\ FirstPrompt(t)' = FirstPrompt(t)
    BY <2>1 DEF Of, FirstOf, FirstPrompt, Said
  <2>3. ASSUME NEW s \in Sessions, TitleOf(s) # None
        PROVE  /\ Of(s) # {}
               /\ ToolOf[s] \in {"claude", "codex"} => TitleOf(s) = FirstPrompt(s)
               /\ ToolOf[s] = "hermes" => names[s] # None
               /\ ToolOf[s] = "opencode" => names[s] # None \/ TitleOf(s) = FirstOf(s).prompt
    <3>1. ToolOf[s] \in Tools
      BY MetricsAssumption
    <3> QED
      BY <2>3, <3>1 DEF TitleOf, Tools
  <2>4. TitleInv'
    BY <1>1, <2>1, <2>2, <2>3 DEF TitleInv
  <2> QED
    BY <1>2, <1>9, <2>4 DEF BuildTitles, TitlesInv
<1>10. CASE UNCHANGED metricsVars
  BY <1>2, <1>3, <1>10 DEF metricsVars, TitlesInv
<1> QED
  BY <1>4, <1>5, <1>6, <1>7, <1>8, <1>9, <1>10 DEF MetricsNext

TitleStep(s) ==
  titles[s] # None /\ titles'[s] # titles[s] =>
    \/ ToolOf[s] \in HasNames /\ (names[s] # None \/ s \in archived)
    \/ ToolOf[s] = "codex" /\ ~InReach(s) /\ titles'[s] = None

LEMMA TitleSteps ==
  TitlesInv /\ [MetricsNext]_metricsVars => \A s \in Sessions : TitleStep(s)
<1> SUFFICES ASSUME TitlesInv, [MetricsNext]_metricsVars, NEW s \in Sessions PROVE TitleStep(s)
  OBVIOUS
<1>1. CASE BuildTitles
  <2>1. titles'[s] = TitleOf(s)
    BY <1>1 DEF BuildTitles
  <2>2. ToolOf[s] \in Tools
    BY MetricsAssumption
  <2>3. titles[s] # None =>
          /\ Of(s) # {}
          /\ ToolOf[s] \in {"claude", "codex"} => titles[s] = FirstPrompt(s)
          /\ ToolOf[s] = "hermes" => names[s] # None
          /\ ToolOf[s] = "opencode" => names[s] # None \/ titles[s] = FirstOf(s).prompt
    BY DEF TitlesInv, TitleInv
  <2> QED
    BY <2>1, <2>2, <2>3 DEF TitleStep, TitleOf, Tools, HasNames
<1>2. CASE ~ BuildTitles
  <2>1. titles' = titles
    BY <1>2 DEF MetricsNext, Work, Archive, Name, Midnight, BeginPass, ReadStore, PublishMetrics,
                metricsVars
  <2> QED
    BY <2>1 DEF TitleStep
<1> QED
  BY <1>1, <1>2

(* A title changes when its session is renamed or archived, or a Codex     *)
(* file is no longer looked for, and never because the transcript grew     *)
(* (claude_titles, codex_titles, opencode_titles, hermes_titles).          *)
THEOREM TitlesHold == MetricsSpec => TitlesStay
<1>1. TitlesInv /\ [MetricsNext]_metricsVars => [\A s \in Sessions : TitleStep(s)]_metricsVars
  BY TitleSteps
<1> QED
  BY InitTitlesInv, NextTitlesInv, <1>1, PTL DEF MetricsSpec, TitlesStay, TitleStep

-----------------------------------------------------------------------------
(* The usage gauges.                                                       *)

WindowState == [used : Nat, resetAt : Nat]
Snapshot == [used : Nat, resetAt : Nat, at : Nat]

UsageTypes ==
  /\ clock \in Nat
  /\ account \in [Providers -> WindowState]
  /\ rollouts \in [CodexSessions -> Snapshot \cup {Unread}]

(* No window ends later than a whole window from now.                      *)
WindowsEnd == \A p \in Providers : account[p].resetAt <= clock + Window

(* The newest event that Codex has logged is the state of its account, and *)
(* none was logged in this second yet.  An older one is of a window that   *)
(* is over, or says too little of the present one.                         *)
Fits(event) ==
  /\ event.at < clock /\ event.resetAt <= event.at + Window
  /\ event.resetAt = account["codex"].resetAt => event.used <= account["codex"].used
  /\ event.resetAt # account["codex"].resetAt => event.resetAt <= clock

NewestIsCurrent ==
  \A s \in Logged :
    /\ Fits(rollouts[s])
    /\ (\A q \in Logged : rollouts[q].at <= rollouts[s].at) =>
         /\ rollouts[s].used = account["codex"].used
         /\ rollouts[s].resetAt = account["codex"].resetAt

(* A gauge tells what was seen when it was read ...                        *)
Honest(g, s) == g.ok => g.used = s.used /\ (g.exhausts <=> RunsOut(s))
(* ... or what was left of a window that was over.                         *)
Stale(s) == s.used = 0 /\ s.at >= s.resetAt
(* ... or, of an event that came in front of the newest, too little.       *)
Late(g, s, windows) ==
  /\ windows # {}
  /\ g.ok /\ g.exhausts => RunsOut(s) \/ \E reset \in windows : s.at >= reset

GaugesAreHonest ==
  /\ gauge \in [Providers -> Gauge] /\ seen \in [Providers -> Snapshot]
  /\ Honest(gauge["claude"], seen["claude"])
  /\ \/ Honest(gauge["codex"], seen["codex"]) \/ Stale(seen["codex"])
     \/ Late(gauge["codex"], seen["codex"], ahead)

ProbeIsHonest ==
  probed # Unread =>
    /\ probed.gauge \in Gauge /\ probed.seen \in Snapshot
    /\ Honest(probed.gauge, probed.seen)

UsageInv ==
  UsageTypes /\ WindowsEnd /\ NewestIsCurrent /\ GaugesAreHonest /\ ProbeIsHonest

-----------------------------------------------------------------------------
(* The projection: what is used so far, kept up for the rest of the        *)
(* window, reaches the quota exactly when the average is too high.  That   *)
(* what is above the quota is cut off before it is projected is harmless.  *)
LEMMA ProjectionIsAverage ==
  ASSUME NEW used \in Nat, NEW rest \in Nat, NEW elapsed \in Nat, Window = rest + elapsed
  PROVE  Smaller(used, Quota) * elapsed + used * rest >= Quota * elapsed
           <=> used * Window >= Quota * elapsed
<1>1. Quota \in Nat
  BY UsageAssumption
<1>2. used * Window = used * rest + used * elapsed
  BY SMT
<1>3. /\ used * rest \in Nat /\ used * elapsed \in Nat /\ Quota * elapsed \in Nat
  BY <1>1, SMT
<1>4. CASE used < Quota
  BY <1>1, <1>2, <1>3, <1>4 DEF Smaller
<1>5. CASE ~(used < Quota)
  <2>1. used * elapsed >= Quota * elapsed
    <3>1. PICK d \in Nat : used = Quota + d
      <4>1. used - Quota \in Nat /\ used = Quota + (used - Quota)
        BY <1>1, <1>5
      <4> QED
        BY <4>1
    <3>2. used * elapsed = Quota * elapsed + d * elapsed /\ d * elapsed \in Nat
      BY <1>1, <3>1, SMT
    <3> QED
      BY <1>3, <3>2
  <2> QED
    BY <1>1, <1>2, <1>3, <1>5, <2>1 DEF Smaller
<1> QED
  BY <1>4, <1>5

(* A reading of an account as it is, is honest.                            *)
LEMMA ReadingIsHonest ==
  ASSUME NEW s \in Snapshot, NEW rest \in Nat, rest = s.resetAt - s.at, rest <= Window
  PROVE  /\ Reading(s.used, rest) \in Gauge
         /\ Honest(Reading(s.used, rest), s)
<1>1. s.used \in Nat /\ s.resetAt \in Nat /\ s.at \in Nat
  BY DEF Snapshot
<1>2. Window \in Nat /\ Fresh \in Nat /\ Quota \in Nat
  BY UsageAssumption
<1>3. Window - rest \in Nat /\ Window = rest + (Window - rest)
  BY <1>2
<1>4. Exhausts(s.used, rest) <=> RunsOut(s)
  <2>1. (Window > rest + Fresh) <=> (Window - rest > Fresh)
    BY <1>2
  <2>2. Smaller(s.used, Quota) * (Window - rest) + s.used * rest >= Quota * (Window - rest)
          <=> s.used * Window >= Quota * (Window - rest)
    BY <1>1, <1>3, ProjectionIsAverage
  <2> QED
    BY <2>1, <2>2 DEF Exhausts, RunsOut
<1>5. Exhausts(s.used, rest) \in BOOLEAN
  BY DEF Exhausts
<1> QED
  BY <1>1, <1>4, <1>5 DEF Reading, Gauge, Honest

LEMMA NoGaugeIsHonest ==
  NoGauge \in Gauge /\ \A s : Honest(NoGauge, s)
BY DEF NoGauge, Gauge, Honest

-----------------------------------------------------------------------------
(* The steps.                                                              *)

LEMMA InitUsageInv == UsageInit => UsageInv
<1> SUFFICES ASSUME UsageInit PROVE UsageInv
  OBVIOUS
<1> USE DEF UsageInit
<1>1. UsageTypes /\ ProbeIsHonest
  BY DEF UsageTypes, ProbeIsHonest, WindowState
<1>2. WindowsEnd
  BY UsageAssumption DEF WindowsEnd
<1>3. NewestIsCurrent
  BY DEF NewestIsCurrent, Logged
<1>4. GaugesAreHonest
  BY NoGaugeIsHonest DEF GaugesAreHonest, Snapshot, Providers
<1> QED
  BY <1>1, <1>2, <1>3, <1>4 DEF UsageInv

(* What an account is charged leaves it a window that ends in time.        *)
LEMMA ChargedFits ==
  ASSUME UsageTypes, WindowsEnd, NEW p \in Providers, NEW amount \in Nat
  PROVE  /\ Charged(p, amount) \in WindowState
         /\ Charged(p, amount).resetAt <= clock + 1 + Window
<1>1. /\ account[p] \in WindowState /\ account[p].used \in Nat /\ account[p].resetAt \in Nat
      /\ account[p].resetAt <= clock + Window /\ clock \in Nat /\ Window \in Nat
  BY UsageAssumption DEF UsageTypes, WindowsEnd, WindowState
<1>2. CASE clock < account[p].resetAt
  <2>1. Charged(p, amount) = [account[p] EXCEPT !.used = @ + amount]
    BY <1>2 DEF Charged
  <2> QED
    BY <1>1, <2>1 DEF WindowState
<1>3. CASE ~(clock < account[p].resetAt)
  <2>1. Charged(p, amount) = [used |-> amount, resetAt |-> clock + Window]
    BY <1>3 DEF Charged
  <2> QED
    BY <1>1, <2>1 DEF WindowState
<1> QED
  BY <1>2, <1>3

(* What is seen of Claude's account, and what is read.                     *)
LEMMA ClaudeIsHonest ==
  ASSUME UsageTypes, WindowsEnd
  PROVE  /\ Sees("claude") \in Snapshot
         /\ ClaudeReading \in Gauge /\ Honest(ClaudeReading, Sees("claude"))
<1>1. /\ "claude" \in Providers
      /\ account["claude"].used \in Nat /\ account["claude"].resetAt \in Nat
      /\ account["claude"].resetAt <= clock + Window /\ clock \in Nat /\ Window \in Nat
  BY UsageAssumption DEF UsageTypes, WindowsEnd, WindowState, Providers
<1>2. /\ Account("claude").used \in Nat /\ Account("claude").resetAt \in Nat
      /\ Account("claude").resetAt >= clock /\ Account("claude").resetAt <= clock + Window
  BY <1>1 DEF Account
<1>3. Sees("claude") \in Snapshot
  BY <1>1, <1>2 DEF Sees, Snapshot
<1>4. /\ Remaining(Account("claude").resetAt) = Account("claude").resetAt - clock
      /\ Account("claude").resetAt - clock \in Nat
      /\ Account("claude").resetAt - clock <= Window
  BY <1>1, <1>2 DEF Remaining
<1>5. /\ Sees("claude").used = Account("claude").used
      /\ Sees("claude").resetAt = Account("claude").resetAt /\ Sees("claude").at = clock
  BY DEF Sees
<1> QED
  BY <1>3, <1>4, <1>5, ReadingIsHonest DEF ClaudeReading

(* What is seen of Codex' account.                                         *)
LEMMA CodexIsSeen ==
  ASSUME UsageTypes, WindowsEnd
  PROVE  /\ account["codex"].used \in Nat /\ account["codex"].resetAt \in Nat
         /\ account["codex"].resetAt <= clock + Window /\ clock \in Nat /\ Window \in Nat
         /\ Sees("codex") \in Snapshot /\ Sees("codex").at = clock
         /\ clock < account["codex"].resetAt =>
              /\ Sees("codex").used = account["codex"].used
              /\ Sees("codex").resetAt = account["codex"].resetAt
         /\ ~(clock < account["codex"].resetAt) => Stale(Sees("codex"))
<1>1. /\ "codex" \in Providers
      /\ account["codex"].used \in Nat /\ account["codex"].resetAt \in Nat
      /\ account["codex"].resetAt <= clock + Window /\ clock \in Nat /\ Window \in Nat
  BY UsageAssumption DEF UsageTypes, WindowsEnd, WindowState, Providers
<1>2. /\ Sees("codex").used = Account("codex").used
      /\ Sees("codex").resetAt = Account("codex").resetAt /\ Sees("codex").at = clock
  BY DEF Sees
<1>3. Sees("codex") \in Snapshot
  BY <1>1 DEF Sees, Account, Snapshot
<1>4. clock < account["codex"].resetAt => Account("codex") = account["codex"]
  BY DEF Account
<1>5. ~(clock < account["codex"].resetAt) => Account("codex") = [used |-> 0, resetAt |-> clock]
  BY DEF Account
<1>6. ~(clock < account["codex"].resetAt) => Stale(Sees("codex"))
  BY <1>1, <1>2, <1>5 DEF Stale
<1> QED
  BY <1>1, <1>2, <1>3, <1>4, <1>6

(* A reading of any event is a gauge; of one in the present window that    *)
(* says too little, it does not project more than the account would.       *)
LEMMA ReadingIsGauge ==
  ASSUME NEW used \in Nat, NEW rest \in Nat
  PROVE  Reading(used, rest) \in Gauge
BY DEF Reading, Gauge, Exhausts

LEMMA ReadingIsLow ==
  ASSUME NEW s \in Snapshot, NEW used \in Nat, used <= s.used,
         NEW rest \in Nat, rest = s.resetAt - s.at, rest <= Window
  PROVE  Reading(used, rest).exhausts => RunsOut(s)
<1> DEFINE low == [used |-> used, resetAt |-> s.resetAt, at |-> s.at]
<1>1. /\ low \in Snapshot /\ low.used = used /\ low.resetAt = s.resetAt /\ low.at = s.at
      /\ s.used \in Nat /\ s.resetAt \in Nat /\ s.at \in Nat
  BY DEF Snapshot
<1>2. Reading(used, rest).ok
  BY DEF Reading
<1> HIDE DEF low
<1>3. Honest(Reading(used, rest), low)
  BY <1>1, ReadingIsHonest
<1>4. Reading(used, rest).exhausts => RunsOut(low)
  BY <1>2, <1>3 DEF Honest
<1>5. used * Window <= s.used * Window
  <2>1. PICK d \in Nat : s.used = used + d
    <3>1. s.used - used \in Nat /\ s.used = used + (s.used - used)
      BY <1>1
    <3> QED
      BY <3>1
  <2>2. Window \in Nat
    BY UsageAssumption
  <2>3. s.used * Window = used * Window + d * Window /\ d * Window \in Nat /\ used * Window \in Nat
    BY <2>1, <2>2, SMT
  <2> QED
    BY <2>3
<1>6. RunsOut(low) => RunsOut(s)
  <2> DEFINE before == used * Window
             after == s.used * Window
             elapsed == Window - (s.resetAt - s.at)
             share == Quota * elapsed
  <2>1. RunsOut(low) <=> elapsed > Fresh /\ used > 0 /\ before >= share
    BY <1>1 DEF RunsOut
  <2>2. RunsOut(s) <=> elapsed > Fresh /\ s.used > 0 /\ after >= share
    BY DEF RunsOut
  <2>3. before \in Int /\ after \in Int /\ share \in Int /\ before <= after
    <3>1. Window \in Nat /\ Quota \in Nat /\ elapsed \in Int
      BY <1>1, UsageAssumption
    <3> QED
      BY <1>1, <1>5, <3>1
  <2> HIDE DEF before, after, elapsed, share
  <2> QED
    BY <1>1, <2>1, <2>2, <2>3
<1> QED
  BY <1>4, <1>6

(* What the event that is read says of Codex' account.                     *)
LEMMA CodexIsHonest ==
  ASSUME UsageTypes, WindowsEnd, NewestIsCurrent, ~LogsSeconds, NEW g \in CodexReading
  PROVE  /\ Sees("codex") \in Snapshot /\ g \in Gauge
         /\ \/ Honest(g, Sees("codex")) \/ Stale(Sees("codex"))
            \/ Late(g, Sees("codex"), {rollouts[s].resetAt : s \in Overtaking})
<1> DEFINE windows == {rollouts[s].resetAt : s \in Overtaking}
<1>1. /\ account["codex"].used \in Nat /\ account["codex"].resetAt \in Nat
      /\ account["codex"].resetAt <= clock + Window /\ clock \in Nat /\ Window \in Nat
      /\ Sees("codex") \in Snapshot /\ Sees("codex").at = clock
      /\ clock < account["codex"].resetAt =>
           /\ Sees("codex").used = account["codex"].used
           /\ Sees("codex").resetAt = account["codex"].resetAt
      /\ ~(clock < account["codex"].resetAt) => Stale(Sees("codex"))
  BY CodexIsSeen
<1>2. CASE Logged = {}
  BY <1>1, <1>2, NoGaugeIsHonest DEF CodexReading
<1>3. CASE Logged # {}
  <2>1. PICK s \in Logged :
          /\ \A q \in Logged : touched[q] <= touched[s]
          /\ g = Reading(rollouts[s].used, WindowReset(rollouts[s]))
    BY <1>3 DEF CodexReading
  <2>2. /\ rollouts[s].used \in Nat /\ rollouts[s].resetAt \in Nat /\ rollouts[s].at \in Nat
        /\ \A q \in Logged : rollouts[q].at \in Nat
    BY <2>1 DEF UsageTypes, Logged, Snapshot
  <2>3. /\ WindowReset(rollouts[s]) = Remaining(rollouts[s].resetAt)
        /\ Remaining(rollouts[s].resetAt) \in Nat
    BY <1>1, <2>2 DEF WindowReset, Remaining
  <2>4. g \in Gauge
    BY <2>1, <2>2, <2>3, ReadingIsGauge
  <2>5. Fits(rollouts[s])
    BY <2>1 DEF NewestIsCurrent
  <2>6. CASE ~(clock < account["codex"].resetAt)
    BY <1>1, <2>4, <2>6
  <2>7. CASE clock < account["codex"].resetAt /\ rollouts[s].resetAt = account["codex"].resetAt
    <3>1. /\ Remaining(account["codex"].resetAt) = account["codex"].resetAt - clock
          /\ account["codex"].resetAt - clock \in Nat
          /\ account["codex"].resetAt - clock <= Window
      BY <1>1, <2>7 DEF Remaining
    <3>2. g = Reading(rollouts[s].used, account["codex"].resetAt - clock)
      BY <2>1, <2>3, <2>7, <3>1
    <3>3. CASE \A q \in Logged : rollouts[q].at <= rollouts[s].at
      <4>1. rollouts[s].used = account["codex"].used
        BY <3>3 DEF NewestIsCurrent
      <4> QED
        BY <1>1, <2>4, <2>7, <3>1, <3>2, <4>1, ReadingIsHonest
    <3>4. CASE ~ \A q \in Logged : rollouts[q].at <= rollouts[s].at
      <4>1. s \in Overtaking
        BY <2>1, <2>2, <3>4 DEF Overtaking
      <4>2. rollouts[s].used <= Sees("codex").used
        BY <1>1, <2>5, <2>7 DEF Fits
      <4>3. g.exhausts => RunsOut(Sees("codex"))
        BY <1>1, <2>2, <2>7, <3>1, <3>2, <4>2, ReadingIsLow
      <4>4. Late(g, Sees("codex"), windows)
        BY <4>1, <4>3 DEF Late
      <4> QED
        BY <1>1, <2>4, <4>4
    <3> QED
      BY <3>3, <3>4
  <2>8. CASE clock < account["codex"].resetAt /\ rollouts[s].resetAt # account["codex"].resetAt
    <3>1. rollouts[s].resetAt <= clock
      BY <2>5, <2>8 DEF Fits
    <3>2. s \in Overtaking
      <4>1. ~ \A q \in Logged : rollouts[q].at <= rollouts[s].at
        BY <2>8 DEF NewestIsCurrent
      <4> QED
        BY <2>1, <2>2, <4>1 DEF Overtaking
    <3>3. rollouts[s].resetAt \in windows /\ Sees("codex").at >= rollouts[s].resetAt
      BY <1>1, <2>2, <3>1, <3>2
    <3>4. Late(g, Sees("codex"), windows)
      BY <3>3 DEF Late
    <3> QED
      BY <1>1, <2>4, <3>4
  <2> QED
    BY <2>6, <2>7, <2>8
<1> QED
  BY <1>2, <1>3

(* The passing of time leaves the events what they are.                    *)
LEMMA TimeKeepsNewest ==
  ASSUME UsageTypes, NewestIsCurrent, rollouts' = rollouts, clock' = clock + 1,
         account'["codex"] = account["codex"]
  PROVE  NewestIsCurrent'
<1>1. Logged' = Logged
  BY DEF Logged
<1>2. /\ clock \in Nat /\ Window \in Nat
      /\ \A s \in Logged : rollouts[s].at \in Nat /\ rollouts[s].resetAt \in Nat
  BY UsageAssumption DEF UsageTypes, Logged, Snapshot
<1>3. \A s \in Logged : Fits(rollouts[s])'
  BY <1>2 DEF NewestIsCurrent, Fits
<1> QED
  BY <1>1, <1>3 DEF NewestIsCurrent

LEMMA NextUsageInv ==
  ASSUME ~LogsSeconds
  PROVE  UsageInv /\ [UsageNext]_usageVars => UsageInv'
<1> SUFFICES ASSUME UsageInv, [UsageNext]_usageVars PROVE UsageInv'
  OBVIOUS
<1>1. UsageTypes /\ WindowsEnd /\ NewestIsCurrent /\ GaugesAreHonest /\ ProbeIsHonest
  BY DEF UsageInv
<1>2. clock \in Nat /\ Window \in Nat /\ Providers = {"claude", "codex"}
  BY <1>1, UsageAssumption DEF UsageTypes, Providers
<1>3. ASSUME UNCHANGED <<probed, gauge, seen, ahead>>
      PROVE  GaugesAreHonest' /\ ProbeIsHonest'
  BY <1>1, <1>3 DEF GaugesAreHonest, ProbeIsHonest, Honest, Stale, Late, RunsOut
<1>4. ASSUME NEW p \in Providers, NEW amount \in 1 .. MaxUse,
             account' = [account EXCEPT ![p] = Charged(p, amount)], clock' = clock + 1
      PROVE  account' \in [Providers -> WindowState] /\ WindowsEnd'
  <2>1. amount \in Nat
    BY UsageAssumption
  <2>2. Charged(p, amount) \in WindowState /\ Charged(p, amount).resetAt <= clock + 1 + Window
    BY <1>1, <2>1, ChargedFits
  <2>3. account' \in [Providers -> WindowState]
    BY <1>1, <1>4, <2>2 DEF UsageTypes
  <2>4. ASSUME NEW q \in Providers PROVE account'[q].resetAt <= clock' + Window
    <3>1. account[q].resetAt \in Nat /\ account[q].resetAt <= clock + Window
      BY <1>1 DEF UsageTypes, WindowsEnd, WindowState
    <3>2. account'[q] = IF q = p THEN Charged(p, amount) ELSE account[q]
      BY <1>1, <1>4 DEF UsageTypes
    <3> QED
      BY <1>2, <1>4, <2>2, <3>1, <3>2
  <2> QED
    BY <2>3, <2>4 DEF WindowsEnd
<1>5. ASSUME NEW amount \in 1 .. MaxUse, UseClaude(amount)
      PROVE  UsageInv'
  <2>1. account' \in [Providers -> WindowState] /\ WindowsEnd'
    BY <1>2, <1>4, <1>5 DEF UseClaude
  <2>2. UsageTypes'
    BY <1>1, <1>5, <2>1 DEF UseClaude, UsageTypes
  <2>3. account'["codex"] = account["codex"]
    BY <1>1, <1>2, <1>5 DEF UseClaude, UsageTypes
  <2>4. NewestIsCurrent'
    <3>1. rollouts' = rollouts /\ clock' = clock + 1 /\ Logged' = Logged
      BY <1>5 DEF UseClaude, Logged
    <3> QED
      BY <1>1, <2>3, <3>1, TimeKeepsNewest
  <2> QED
    BY <1>3, <1>5, <2>1, <2>2, <2>4 DEF UseClaude, UsageInv
<1>6. ASSUME NEW amount \in 1 .. MaxUse, NEW s \in CodexSessions, UseCodex(s, amount)
      PROVE  UsageInv'
  <2> DEFINE charged == Charged("codex", amount)
             event == [used |-> charged.used, resetAt |-> charged.resetAt, at |-> clock]
  <2>1. account' \in [Providers -> WindowState] /\ WindowsEnd'
    BY <1>2, <1>4, <1>6 DEF UseCodex
  <2>2. account'["codex"] = charged /\ charged \in WindowState
    <3>1. account'["codex"] = charged
      BY <1>1, <1>2, <1>6 DEF UseCodex, UsageTypes
    <3> QED
      BY <1>2, <2>1, <3>1
  <2>3. event \in Snapshot /\ event # Unread
    BY <1>2, <2>2, UsageAssumption DEF WindowState, Snapshot
  <2> HIDE DEF charged
  <2>4. rollouts' = [rollouts EXCEPT ![s] = event] /\ clock' = clock + 1
    BY <1>6 DEF UseCodex, charged
  <2>5. UsageTypes'
    BY <1>1, <1>2, <2>1, <2>3, <2>4 DEF UsageTypes
  <2>6. \/ charged.resetAt = account["codex"].resetAt /\ charged.used >= account["codex"].used
        \/ charged.resetAt = clock + Window /\ account["codex"].resetAt <= clock
    <3>1. amount \in Nat
      BY UsageAssumption
    <3>2. account["codex"] \in WindowState
      BY <1>1, <1>2 DEF UsageTypes
    <3> QED
      BY <1>2, <3>1, <3>2 DEF charged, Charged, WindowState
  <2>7. NewestIsCurrent'
    <3> SUFFICES ASSUME NEW r \in Logged'
                 PROVE  /\ Fits(rollouts[r])'
                        /\ (\A q \in Logged' : rollouts'[q].at <= rollouts'[r].at) =>
                             /\ rollouts'[r].used = account'["codex"].used
                             /\ rollouts'[r].resetAt = account'["codex"].resetAt
      BY DEF NewestIsCurrent
    <3>1. rollouts'[s] = event /\ s \in Logged'
      BY <1>1, <2>3, <2>4 DEF UsageTypes, Logged
    <3>2. /\ account["codex"].used \in Nat /\ account["codex"].resetAt \in Nat
          /\ account["codex"].resetAt <= clock + Window
      BY <1>1, <1>2 DEF UsageTypes, WindowsEnd, WindowState
    <3>3. CASE r = s
      <4>1. event.resetAt <= clock + Window
        BY <1>2, <2>6, <3>2
      <4>2. /\ event.used = charged.used /\ charged.used \in Nat
            /\ event.resetAt = charged.resetAt /\ charged.resetAt \in Nat
            /\ event.at = clock /\ clock \in Nat
        BY <1>2, <2>2 DEF WindowState
      <4> HIDE DEF event
      <4>3. /\ rollouts'[r].used = charged.used /\ rollouts'[r].resetAt = charged.resetAt
            /\ rollouts'[r].at = clock
        BY <3>1, <3>3, <4>2
      <4>4. rollouts'[r].at < clock' /\ rollouts'[r].resetAt <= rollouts'[r].at + Window
        BY <2>4, <4>1, <4>2, <4>3
      <4>5. Fits(rollouts[r])'
        BY <2>2, <4>2, <4>3, <4>4 DEF Fits
      <4> QED
        BY <2>2, <4>3, <4>5
    <3>4. CASE r # s
      <4>1. rollouts'[r] = rollouts[r] /\ r \in Logged
        BY <1>1, <2>4, <3>4 DEF UsageTypes, Logged
      <4>2. /\ rollouts[r].at \in Nat /\ rollouts[r].resetAt \in Nat /\ rollouts[r].used \in Nat
            /\ Fits(rollouts[r])
        BY <1>1, <4>1 DEF UsageTypes, Logged, Snapshot, NewestIsCurrent
      <4>3. ~(rollouts'[s].at <= rollouts'[r].at)
        BY <1>2, <3>1, <4>1, <4>2 DEF Fits
      <4>4. Fits(rollouts[r])'
        BY <1>2, <2>2, <2>3, <2>4, <2>6, <3>2, <4>1, <4>2 DEF Fits, Snapshot
      <4> QED
        BY <3>1, <4>3, <4>4
    <3> QED
      BY <3>3, <3>4
  <2> QED
    BY <1>3, <1>6, <2>1, <2>5, <2>7 DEF UseCodex, UsageInv
<1>7. CASE UsageTick
  <2>1. UsageTypes' /\ WindowsEnd'
    <3>1. \A p \in Providers : account[p].resetAt \in Nat
      BY <1>1 DEF UsageTypes, WindowState
    <3> QED
      BY <1>1, <1>2, <1>7, <3>1 DEF UsageTick, UsageTypes, WindowsEnd
  <2>2. NewestIsCurrent'
    BY <1>1, <1>7, TimeKeepsNewest DEF UsageTick
  <2> QED
    BY <1>3, <1>7, <2>1, <2>2 DEF UsageTick, UsageInv
<1>11. ASSUME NEW s \in CodexSessions, WriteCodex(s)
       PROVE  UsageInv'
  <2>1. UsageTypes' /\ WindowsEnd' /\ NewestIsCurrent'
    BY <1>1, <1>11 DEF WriteCodex, UsageTypes, WindowsEnd, NewestIsCurrent, Fits, Logged
  <2> QED
    BY <1>3, <1>11, <2>1 DEF WriteCodex, UsageInv
<1>8. CASE ProbeClaude
  <2>1. UsageTypes' /\ WindowsEnd' /\ NewestIsCurrent' /\ GaugesAreHonest'
    BY <1>1, <1>8 DEF ProbeClaude, UsageTypes, WindowsEnd, NewestIsCurrent, Logged,
                      GaugesAreHonest, Honest, Stale, Late, Fits, RunsOut
  <2>2. ProbeIsHonest'
    <3>1. probed' \in {[gauge |-> ClaudeReading, seen |-> Sees("claude")],
                       [gauge |-> NoGauge, seen |-> Sees("claude")]}
      BY <1>8 DEF ProbeClaude
    <3>2. /\ Sees("claude") \in Snapshot
          /\ ClaudeReading \in Gauge /\ Honest(ClaudeReading, Sees("claude"))
          /\ NoGauge \in Gauge /\ Honest(NoGauge, Sees("claude"))
      BY <1>1, ClaudeIsHonest, NoGaugeIsHonest
    <3>3. /\ probed'.gauge \in Gauge /\ probed'.seen \in Snapshot
          /\ Honest(probed'.gauge, probed'.seen)
      BY <3>1, <3>2
    <3> QED
      BY <3>3 DEF ProbeIsHonest, Honest, RunsOut
  <2> QED
    BY <2>1, <2>2 DEF UsageInv
<1>9. CASE PublishUsage
  <2>1. UsageTypes' /\ WindowsEnd' /\ NewestIsCurrent' /\ ProbeIsHonest'
    BY <1>1, <1>9 DEF PublishUsage, UsageTypes, WindowsEnd, NewestIsCurrent, Fits, Logged,
                      ProbeIsHonest
  <2>2. PICK g \in CodexReading :
          gauge' = [p \in Providers |-> IF p = "claude" THEN probed.gauge ELSE g]
    BY <1>9 DEF PublishUsage
  <2>3. seen' = [p \in Providers |-> IF p = "claude" THEN probed.seen ELSE Sees("codex")]
    BY <1>9 DEF PublishUsage
  <2>4. /\ probed.gauge \in Gauge /\ probed.seen \in Snapshot
        /\ Honest(probed.gauge, probed.seen)
    BY <1>1, <1>9 DEF PublishUsage, ProbeIsHonest
  <2>5. /\ Sees("codex") \in Snapshot /\ g \in Gauge
        /\ \/ Honest(g, Sees("codex")) \/ Stale(Sees("codex"))
           \/ Late(g, Sees("codex"), ahead')
    BY <1>1, <1>9, <2>2, CodexIsHonest DEF PublishUsage
  <2>6. /\ gauge' \in [Providers -> Gauge] /\ seen' \in [Providers -> Snapshot]
        /\ gauge'["claude"] = probed.gauge /\ gauge'["codex"] = g
        /\ seen'["claude"] = probed.seen /\ seen'["codex"] = Sees("codex")
    BY <1>2, <2>2, <2>3, <2>4, <2>5
  <2>7. GaugesAreHonest'
    BY <2>4, <2>5, <2>6 DEF GaugesAreHonest, Honest, Stale, Late, RunsOut
  <2> QED
    BY <2>1, <2>7 DEF UsageInv
<1>10. CASE UNCHANGED usageVars
  BY <1>1, <1>10 DEF usageVars, UsageInv, UsageTypes, WindowsEnd, NewestIsCurrent, Fits, Logged,
                     GaugesAreHonest, ProbeIsHonest, Honest, Stale, Late, RunsOut
<1> QED
  BY <1>5, <1>6, <1>7, <1>8, <1>9, <1>10, <1>11 DEF UsageNext

-----------------------------------------------------------------------------
LEMMA HonestIsRight == UsageInv => VerdictIsRight
<1> SUFFICES ASSUME UsageInv PROVE VerdictIsRight
  OBVIOUS
<1>1. /\ gauge \in [Providers -> Gauge] /\ seen \in [Providers -> Snapshot]
      /\ Honest(gauge["claude"], seen["claude"])
      /\ \/ Honest(gauge["codex"], seen["codex"]) \/ Stale(seen["codex"])
         \/ Late(gauge["codex"], seen["codex"], ahead)
      /\ Providers = {"claude", "codex"} /\ Quota \in Nat /\ Window \in Nat /\ Fresh \in Nat
  BY UsageAssumption DEF UsageInv, GaugesAreHonest, Providers
<1>2. \A p \in Providers :
        gauge[p].ok =>
          \/ gauge[p].used = seen[p].used /\ (gauge[p].exhausts <=> RunsOut(seen[p]))
          \/ Outdated(p) /\ seen[p].used = 0
          \/ ~Newest(p) /\ (gauge[p].exhausts => RunsOut(seen[p]) \/ Outdated(p))
  <2>1. Stale(seen["codex"]) => Outdated("codex") /\ seen["codex"].used = 0
    BY DEF Stale, Outdated
  <2>2. Late(gauge["codex"], seen["codex"], ahead) =>
          /\ ~Newest("codex")
          /\ gauge["codex"].ok /\ gauge["codex"].exhausts => RunsOut(seen["codex"]) \/ Outdated("codex")
    BY DEF Late, Newest, Outdated
  <2> QED
    BY <1>1, <2>1, <2>2 DEF Honest
<1>3. \A p \in Providers : seen[p].used = 0 => ~RunsOut(seen[p]) /\ 10 * seen[p].used <= 7 * Quota
  BY <1>1 DEF RunsOut
<1>4. Verdict = "throttle" <=> \E p \in Providers : gauge[p].ok /\ gauge[p].exhausts
  BY DEF Verdict
<1>5. Verdict = "go" => \A p \in Providers : gauge[p].ok => ~(10 * gauge[p].used > 7 * Quota)
  BY DEF Verdict
<1>6. Verdict = "throttle" =>
        \E p \in Providers : gauge[p].ok /\ (RunsOut(seen[p]) \/ Outdated(p))
  BY <1>2, <1>4
<1>7. Verdict # "throttle" => \A p \in Providers : gauge[p].ok /\ Newest(p) => ~RunsOut(seen[p])
  BY <1>2, <1>3, <1>4
<1>8. Verdict = "go" =>
        \A p \in Providers : gauge[p].ok /\ Newest(p) => 10 * seen[p].used <= 7 * Quota
  <2>1. \A p \in Providers : gauge[p].used \in Nat /\ seen[p].used \in Nat
    BY <1>1 DEF Gauge, Snapshot
  <2>2. \A p \in Providers :
          ~(10 * gauge[p].used > 7 * Quota) => 10 * gauge[p].used <= 7 * Quota
    BY <1>1, <2>1
  <2> QED
    BY <1>2, <1>3, <1>5, <2>2
<1> QED
  BY <1>6, <1>7, <1>8 DEF VerdictIsRight

(* The verdict is right about every account it was computed from, however  *)
(* the agents, the probes and the ends of windows fall between the steps   *)
(* of a pass (attach_single_call_analytics, capacity).                     *)
THEOREM VerdictHolds == ~LogsSeconds => (UsageSpec => []VerdictIsRight)
<1> SUFFICES ASSUME ~LogsSeconds PROVE UsageSpec => []VerdictIsRight
  OBVIOUS
<1> QED
  BY InitUsageInv, NextUsageInv, HonestIsRight, PTL DEF UsageSpec
=============================================================================
