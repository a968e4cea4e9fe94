--------------------------- MODULE InstallProofs ---------------------------
(***************************************************************************)
(* The two promises of the installer of the hooks, for any commands,       *)
(* events, edits and number of runs, and any interruption: the user's      *)
(* hooks survive, and installing is idempotent.                            *)
(*                                                                         *)
(* Both rest on what retain keeps of an array, and that is defined by      *)
(* recursion on its length.  The first section makes recursion available   *)
(* to the proofs: induction over the naturals is stated for the set of the *)
(* numbers of which something holds.                                       *)
(***************************************************************************)
EXTENDS InstallHooks, Integers, SequenceTheorems, WellFoundedInduction, TLAPS

-----------------------------------------------------------------------------
(* Induction and recursion over the naturals.                              *)

LEMMA NatLess == \A x, y \in Nat : <<x, y>> \in OpToRel(<, Nat) <=> x < y
BY DEF OpToRel

LEMMA LeastElement ==
  ASSUME NEW T \in SUBSET Nat, T # {}
  PROVE  \E x \in T : \A y \in T : x <= y
<1> DEFINE R == OpToRel(<, Nat)
<1>1. IsWellFoundedOn(R, Nat)
  BY NatLessThanWellFounded
<1>2. \A x, y \in Nat : <<x, y>> \in R <=> x < y
  BY NatLess
<1> HIDE DEF R
<1>3. PICK x \in T : \A y \in T : ~ (<<y, x>> \in R)
  BY <1>1, WFMin
<1>4. \A y \in T : x <= y
  <2> SUFFICES ASSUME NEW y \in T PROVE x <= y
    OBVIOUS
  <2>1. x \in Nat /\ y \in Nat
    OBVIOUS
  <2>2. ~ (y < x)
    BY <1>2, <1>3, <2>1
  <2> QED
    BY <2>1, <2>2
<1> QED
  BY <1>4

LEMMA SetInduction ==
  ASSUME NEW S, 0 \in S, \A n \in Nat : n \in S => n + 1 \in S
  PROVE  Nat \subseteq S
<1> SUFFICES ASSUME Nat \ S # {} PROVE FALSE
  OBVIOUS
<1>1. PICK m \in Nat \ S : \A y \in Nat \ S : m <= y
  BY LeastElement
<1>2. m # 0 /\ m - 1 \in Nat /\ ~ (m <= m - 1)
  BY <1>1
<1>3. m - 1 \in S
  BY <1>1, <1>2
<1> QED
  BY <1>1, <1>2, <1>3

(* A function on 0..N may be defined by a first value and a step.          *)
IsStep(step, N, V) == step \in [(1..N) \X V -> V]
IsDefinedBy(f, N, V, base, step) ==
  /\ f \in [0..N -> V]
  /\ \A n \in 0..N : f[n] = IF n = 0 THEN base ELSE step[<<n, f[n - 1]>>]

LEMMA Recursion ==
  ASSUME NEW N \in Nat, NEW V, NEW base \in V, NEW step, IsStep(step, N, V)
  PROVE  \E f : IsDefinedBy(f, N, V, base, step)
<1> USE DEF IsStep
<1> DEFINE Unfolds(f, m) ==
             \A n \in 0..m : f[n] = IF n = 0 THEN base ELSE step[<<n, f[n - 1]>>]
           S == {m \in Nat : m <= N => \E f \in [0..m -> V] : Unfolds(f, m)}
<1>1. 0 \in S
  <2> DEFINE f == [n \in 0..0 |-> base]
  <2>1. f \in [0..0 -> V]
    OBVIOUS
  <2>2. Unfolds(f, 0)
    OBVIOUS
  <2> QED
    BY <2>1, <2>2
<1>2. ASSUME NEW m \in Nat, m \in S PROVE m + 1 \in S
  <2> SUFFICES ASSUME m + 1 <= N PROVE \E g \in [0..(m + 1) -> V] : Unfolds(g, m + 1)
    OBVIOUS
  <2>1. PICK f \in [0..m -> V] : Unfolds(f, m)
    BY <1>2
  <2> HIDE DEF S
  <2> DEFINE g == [n \in 0..(m + 1) |-> IF n = m + 1 THEN step[<<m + 1, f[m]>>] ELSE f[n]]
  <2>2. step[<<m + 1, f[m]>>] \in V
    <3>1. m \in 0..m /\ m + 1 \in 1..N
      OBVIOUS
    <3>2. f[m] \in V
      BY <3>1
    <3> QED
      BY <3>1, <3>2
  <2>3. g \in [0..(m + 1) -> V]
    <3> SUFFICES ASSUME NEW n \in 0..(m + 1), n # m + 1 PROVE f[n] \in V
      BY <2>2
    <3>1. n \in 0..m
      OBVIOUS
    <3> QED
      BY <3>1
  <2>4. g[m + 1] = step[<<m + 1, f[m]>>] /\ \A k \in 0..m : g[k] = f[k]
    <3>1. \A k \in 0..m : k \in 0..(m + 1) /\ k # m + 1
      OBVIOUS
    <3> QED
      BY <3>1
  <2>5. ASSUME NEW n \in 0..(m + 1)
        PROVE  g[n] = IF n = 0 THEN base ELSE step[<<n, g[n - 1]>>]
    <3> HIDE DEF g
    <3>1. CASE n = m + 1
      <4>1. n # 0 /\ n - 1 = m /\ m \in 0..m
        BY <3>1
      <4> QED
        BY <2>4, <3>1, <4>1
    <3>2. CASE n # m + 1
      <4>1. n \in 0..m /\ (n # 0 => n - 1 \in 0..m)
        BY <3>2
      <4>2. f[n] = IF n = 0 THEN base ELSE step[<<n, f[n - 1]>>]
        BY <2>1, <4>1
      <4> QED
        BY <2>4, <4>1, <4>2
    <3> QED
      BY <3>1, <3>2
  <2> QED
    BY <2>3, <2>5
<1> HIDE DEF S
<1>3. N \in S
  BY <1>1, <1>2, SetInduction
<1> QED
  BY <1>3 DEF S, IsDefinedBy

-----------------------------------------------------------------------------
(* What retain keeps.                                                      *)

LEMMA KeptUnfolds ==
  ASSUME NEW blocks \in Seq(Block)
  PROVE  /\ DOMAIN Kept(blocks) = 0 .. Len(blocks)
         /\ Kept(blocks)[0] = <<>>
         /\ \A n \in 1 .. Len(blocks) :
              Kept(blocks)[n] = IF IsOurs(blocks[n]) THEN Kept(blocks)[n - 1]
                                ELSE Append(Kept(blocks)[n - 1], blocks[n])
<1> DEFINE N == Len(blocks)
           V == Seq(Block)
           Unfolds(f) ==
             f = [n \in 0 .. N |->
                    IF n = 0 THEN <<>>
                    ELSE IF IsOurs(blocks[n]) THEN f[n - 1]
                    ELSE Append(f[n - 1], blocks[n])]
           step == [p \in (1 .. N) \X V |->
                      IF IsOurs(blocks[p[1]]) THEN p[2] ELSE Append(p[2], blocks[p[1]])]
<1>1. N \in Nat /\ \A n \in 1 .. N : blocks[n] \in Block
  BY LenProperties, ElementOfSeq
<1>2. <<>> \in V /\ IsStep(step, N, V)
  BY <1>1 DEF IsStep
<1>3. PICK f : IsDefinedBy(f, N, V, <<>>, step)
  <2> HIDE DEF N, V, step
  <2> QED
    BY <1>1, <1>2, Recursion
<1>4. ASSUME NEW n \in 0 .. N
      PROVE  f[n] = IF n = 0 THEN <<>>
                    ELSE IF IsOurs(blocks[n]) THEN f[n - 1]
                    ELSE Append(f[n - 1], blocks[n])
  <2>1. CASE n = 0
    BY <1>3, <2>1 DEF IsDefinedBy
  <2>2. CASE n # 0
    <3>1. n \in 1 .. N /\ n - 1 \in 0 .. N
      BY <1>1, <2>2
    <3>2. f[n - 1] \in V /\ <<n, f[n - 1]>> \in (1 .. N) \X V
      BY <1>3, <3>1 DEF IsDefinedBy
    <3>3. f[n] = step[<<n, f[n - 1]>>]
      BY <1>3, <2>2 DEF IsDefinedBy
    <3> QED
      BY <2>2, <3>2, <3>3
  <2> QED
    BY <2>1, <2>2
<1>5. Unfolds(f)
  <2>1. f = [n \in 0 .. N |-> f[n]]
    BY <1>3 DEF IsDefinedBy
  <2> QED
    BY <1>4, <2>1
<1> HIDE DEF Unfolds
<1>6. Kept(blocks) = CHOOSE g : Unfolds(g)
  BY DEF Kept, Unfolds
<1>7. Unfolds(Kept(blocks))
  BY <1>5, <1>6
<1> DEFINE K == Kept(blocks)
<1>8. K = [n \in 0 .. N |->
             IF n = 0 THEN <<>>
             ELSE IF IsOurs(blocks[n]) THEN K[n - 1]
             ELSE Append(K[n - 1], blocks[n])]
  BY <1>7 DEF Unfolds
<1> HIDE DEF K
<1>9. DOMAIN K = 0 .. N /\ K[0] = <<>>
  BY <1>1, <1>8
<1>10. ASSUME NEW n \in 1 .. N
       PROVE  K[n] = IF IsOurs(blocks[n]) THEN K[n - 1] ELSE Append(K[n - 1], blocks[n])
  <2>1. n \in 0 .. N /\ n # 0
    BY <1>1
  <2> QED
    BY <1>8, <2>1
<1> QED
  BY <1>9, <1>10 DEF K

(* It is a sequence of just those of the first n blocks that are not ours. *)
LEMMA KeptFacts ==
  ASSUME NEW blocks \in Seq(Block)
  PROVE  \A n \in 0 .. Len(blocks) :
           /\ Kept(blocks)[n] \in Seq(Block)
           /\ \A i \in 1 .. n :
                ~IsOurs(blocks[i]) =>
                  \E j \in DOMAIN Kept(blocks)[n] : Kept(blocks)[n][j] = blocks[i]
           /\ \A j \in DOMAIN Kept(blocks)[n] : ~IsOurs(Kept(blocks)[n][j])
<1> DEFINE K == Kept(blocks)
           Good(n) == /\ K[n] \in Seq(Block)
                      /\ \A i \in 1 .. n :
                           ~IsOurs(blocks[i]) =>
                             \E j \in DOMAIN K[n] : K[n][j] = blocks[i]
                      /\ \A j \in DOMAIN K[n] : ~IsOurs(K[n][j])
           S == {n \in Nat : n <= Len(blocks) => Good(n)}
<1>1. Len(blocks) \in Nat /\ \A n \in 1 .. Len(blocks) : blocks[n] \in Block
  BY LenProperties, ElementOfSeq
<1>2. /\ K[0] = <<>>
      /\ \A n \in 1 .. Len(blocks) :
           K[n] = IF IsOurs(blocks[n]) THEN K[n - 1] ELSE Append(K[n - 1], blocks[n])
  BY KeptUnfolds
<1> HIDE DEF K
<1>3. 0 \in S
  <2>1. DOMAIN K[0] = {} /\ K[0] \in Seq(Block)
    BY <1>2
  <2> QED
    BY <2>1
<1>4. ASSUME NEW n \in Nat, n \in S PROVE n + 1 \in S
  <2> SUFFICES ASSUME n + 1 <= Len(blocks) PROVE Good(n + 1)
    OBVIOUS
  <2>1. Good(n)
    BY <1>1, <1>4
  <2>2. n + 1 \in 1 .. Len(blocks) /\ (n + 1) - 1 = n /\ blocks[n + 1] \in Block
    BY <1>1
  <2>3. CASE IsOurs(blocks[n + 1])
    <3>1. K[n + 1] = K[n]
      BY <1>2, <2>2, <2>3
    <3>2. \A i \in 1 .. (n + 1) : i \in 1 .. n \/ i = n + 1
      OBVIOUS
    <3> QED
      BY <2>1, <2>3, <3>1, <3>2
  <2>4. CASE ~IsOurs(blocks[n + 1])
    <3> DEFINE old == K[n]
               new == K[n + 1]
    <3>1. new = Append(old, blocks[n + 1])
      BY <1>2, <2>2, <2>4
    <3>2. old \in Seq(Block)
      BY <2>1
    <3> HIDE DEF old, new
    <3>3. /\ new \in Seq(Block) /\ Len(new) = Len(old) + 1 /\ Len(old) \in Nat
          /\ \A j \in 1 .. Len(old) : new[j] = old[j]
          /\ new[Len(old) + 1] = blocks[n + 1]
          /\ DOMAIN new = 1 .. Len(new) /\ DOMAIN old = 1 .. Len(old)
      BY <2>2, <3>1, <3>2, AppendProperties, LenProperties
    <3>4. ASSUME NEW i \in 1 .. (n + 1), ~IsOurs(blocks[i])
          PROVE  \E j \in DOMAIN new : new[j] = blocks[i]
      <4>1. CASE i = n + 1
        BY <3>3, <4>1
      <4>2. CASE i # n + 1
        <5>1. i \in 1 .. n
          BY <4>2
        <5>2. PICK j \in DOMAIN old : old[j] = blocks[i]
          BY <2>1, <3>4, <5>1 DEF old
        <5> QED
          BY <3>3, <5>2
      <4> QED
        BY <4>1, <4>2
    <3>5. ASSUME NEW j \in DOMAIN new PROVE ~IsOurs(new[j])
      <4>1. CASE j = Len(old) + 1
        BY <2>4, <3>3, <4>1
      <4>2. CASE j # Len(old) + 1
        <5>1. j \in DOMAIN old /\ new[j] = old[j]
          BY <3>3, <4>2
        <5> QED
          BY <2>1, <5>1 DEF old
      <4> QED
        BY <4>1, <4>2
    <3> QED
      BY <3>3, <3>4, <3>5 DEF new
  <2> QED
    BY <2>3, <2>4
<1> HIDE DEF S
<1>5. Nat \subseteq S
  BY <1>3, <1>4, SetInduction
<1> QED
  BY <1>1, <1>5 DEF S, K

LEMMA StripFacts ==
  ASSUME NEW blocks \in Seq(Block)
  PROVE  /\ Strip(blocks) \in Seq(Block)
         /\ \A i \in DOMAIN blocks :
              ~IsOurs(blocks[i]) =>
                \E j \in DOMAIN Strip(blocks) : Strip(blocks)[j] = blocks[i]
         /\ \A j \in DOMAIN Strip(blocks) : ~IsOurs(Strip(blocks)[j])
<1>1. Len(blocks) \in 0 .. Len(blocks) /\ DOMAIN blocks = 1 .. Len(blocks)
  BY LenProperties
<1> QED
  BY <1>1, KeptFacts DEF Strip

(* Blocks of our own at the end are dropped, others stay there.            *)
LEMMA KeptAppend ==
  ASSUME NEW blocks \in Seq(Block), NEW last \in Block
  PROVE  \A n \in 0 .. Len(blocks) : Kept(Append(blocks, last))[n] = Kept(blocks)[n]
<1> DEFINE longer == Append(blocks, last)
           S == {n \in Nat : n <= Len(blocks) => Kept(longer)[n] = Kept(blocks)[n]}
<1>1. /\ longer \in Seq(Block) /\ Len(longer) = Len(blocks) + 1 /\ Len(blocks) \in Nat
      /\ \A n \in 1 .. Len(blocks) : longer[n] = blocks[n]
  BY AppendProperties, LenProperties
<1> HIDE DEF longer
<1>2. 0 \in S
  BY <1>1, KeptUnfolds
<1>3. ASSUME NEW n \in Nat, n \in S PROVE n + 1 \in S
  <2> SUFFICES ASSUME n + 1 <= Len(blocks)
               PROVE  Kept(longer)[n + 1] = Kept(blocks)[n + 1]
    OBVIOUS
  <2>1. /\ n + 1 \in 1 .. Len(blocks) /\ n + 1 \in 1 .. Len(longer)
        /\ (n + 1) - 1 = n /\ Kept(longer)[n] = Kept(blocks)[n]
    BY <1>1, <1>3
  <2>2. Kept(longer)[n + 1] = IF IsOurs(longer[n + 1]) THEN Kept(longer)[n]
                              ELSE Append(Kept(longer)[n], longer[n + 1])
    BY <1>1, <2>1, KeptUnfolds
  <2>3. Kept(blocks)[n + 1] = IF IsOurs(blocks[n + 1]) THEN Kept(blocks)[n]
                              ELSE Append(Kept(blocks)[n], blocks[n + 1])
    BY <2>1, KeptUnfolds
  <2> QED
    BY <1>1, <2>1, <2>2, <2>3
<1> HIDE DEF S
<1>4. Nat \subseteq S
  BY <1>2, <1>3, SetInduction
<1> QED
  BY <1>1, <1>4 DEF S, longer

LEMMA StripAppend ==
  ASSUME NEW blocks \in Seq(Block), NEW last \in Block
  PROVE  Strip(Append(blocks, last)) =
           IF IsOurs(last) THEN Strip(blocks) ELSE Append(Strip(blocks), last)
<1> DEFINE longer == Append(blocks, last)
           N == Len(blocks)
<1>1. /\ longer \in Seq(Block) /\ Len(longer) = N + 1 /\ N \in Nat
      /\ longer[N + 1] = last
  BY AppendProperties, LenProperties
<1>2. Kept(longer)[N] = Kept(blocks)[N]
  BY <1>1, KeptAppend
<1> HIDE DEF longer
<1>3. N + 1 \in 1 .. Len(longer) /\ (N + 1) - 1 = N
  BY <1>1
<1> HIDE DEF N
<1>4. Kept(longer)[N + 1] = IF IsOurs(longer[N + 1]) THEN Kept(longer)[N]
                            ELSE Append(Kept(longer)[N], longer[N + 1])
  BY <1>1, <1>3, KeptUnfolds
<1> QED
  BY <1>1, <1>2, <1>4 DEF Strip, longer, N

(* An array without blocks of ours stays as it is.                         *)
LEMMA StripClean ==
  ASSUME NEW blocks \in Seq(Block), \A i \in DOMAIN blocks : ~IsOurs(blocks[i])
  PROVE  Strip(blocks) = blocks
<1> DEFINE K == Kept(blocks)
           Same(n) == Len(K[n]) = n /\ \A i \in 1 .. n : K[n][i] = blocks[i]
           S == {n \in Nat : n <= Len(blocks) => Same(n)}
<1>1. Len(blocks) \in Nat /\ DOMAIN blocks = 1 .. Len(blocks)
  BY LenProperties
<1>2. K[0] = <<>> /\ \A n \in 1 .. Len(blocks) : K[n] = Append(K[n - 1], blocks[n])
  BY <1>1, KeptUnfolds
<1>3. \A n \in 0 .. Len(blocks) : K[n] \in Seq(Block)
  BY KeptFacts
<1>4. \A n \in 1 .. Len(blocks) : blocks[n] \in Block
  BY ElementOfSeq
<1> HIDE DEF K
<1>5. 0 \in S
  BY <1>2
<1>6. ASSUME NEW n \in Nat, n \in S PROVE n + 1 \in S
  <2> SUFFICES ASSUME n + 1 <= Len(blocks) PROVE Same(n + 1)
    OBVIOUS
  <2>1. n + 1 \in 1 .. Len(blocks) /\ (n + 1) - 1 = n /\ n \in 0 .. Len(blocks) /\ Same(n)
    BY <1>1, <1>6
  <2> DEFINE old == K[n]
             new == K[n + 1]
  <2>2. new = Append(old, blocks[n + 1]) /\ old \in Seq(Block) /\ blocks[n + 1] \in Block
    BY <1>2, <1>3, <1>4, <2>1
  <2>3. Len(old) = n /\ \A i \in 1 .. n : old[i] = blocks[i]
    BY <2>1
  <2> HIDE DEF old, new, S
  <2>4. /\ Len(new) = n + 1 /\ new[n + 1] = blocks[n + 1]
        /\ \A i \in 1 .. n : new[i] = old[i]
    BY <2>2, <2>3, AppendProperties
  <2>5. \A i \in 1 .. (n + 1) : i \in 1 .. n \/ i = n + 1
    OBVIOUS
  <2> QED
    BY <2>3, <2>4, <2>5 DEF new
<1> HIDE DEF S
<1>7. Nat \subseteq S
  BY <1>5, <1>6, SetInduction
<1>8. Same(Len(blocks)) /\ K[Len(blocks)] \in Seq(Block)
  BY <1>1, <1>3, <1>7 DEF S
<1>9. K[Len(blocks)] = blocks
  BY <1>8, SeqEqual
<1> QED
  BY <1>9 DEF Strip, K

LEMMA StripTwice ==
  ASSUME NEW blocks \in Seq(Block)
  PROVE  Strip(Strip(blocks)) = Strip(blocks)
BY StripFacts, StripClean

-----------------------------------------------------------------------------
(* What merge_hooks makes of the settings.                                 *)

LEMMA ArrayType ==
  ASSUME NEW events, NEW hooks \in HooksOf(events), NEW ev
  PROVE  Array(hooks, ev) \in Seq(Block)
<1>1. ev \in DOMAIN hooks => hooks[ev] \in Seq(Block) \cup {Scalar}
  BY DEF HooksOf
<1> QED
  BY <1>1 DEF Array

(* The events that a merged file has.                                      *)
After(events, hooks) == (events \ Emptied(hooks)) \cup HookEvents

(* What a merged file holds, event by event.                               *)
MergeGives(events, hooks, command) ==
  LET merged == Merge(hooks, command) IN
  /\ merged \in HooksOf(After(events, hooks)) /\ DOMAIN merged = After(events, hooks)
  /\ \A ev \in HookEvents :
       /\ merged[ev] = Append(Strip(Array(hooks, ev)), {command})
       /\ Array(merged, ev) = merged[ev]
  /\ \A ev \in After(events, hooks) \ HookEvents :
       /\ ev \in events
       /\ hooks[ev] = Scalar => merged[ev] = Scalar /\ Array(merged, ev) = <<>>
       /\ hooks[ev] # Scalar =>
            /\ merged[ev] = Strip(hooks[ev]) /\ Strip(hooks[ev]) # <<>>
            /\ merged[ev] # Scalar /\ Array(merged, ev) = merged[ev]
            /\ hooks[ev] \in Seq(Block)
  /\ IsOurs({command}) /\ {command} \in Block

LEMMA MergeFacts ==
  ASSUME NEW events \in SUBSET Events, NEW hooks \in HooksOf(events),
         NEW command \in OurCommands
  PROVE  MergeGives(events, hooks, command)
<1> DEFINE after == After(events, hooks)
           merged == Merge(hooks, command)
<1>1. DOMAIN hooks = events /\ \A ev \in events : hooks[ev] \in Seq(Block) \cup {Scalar}
  BY DEF HooksOf
<1>2. IsOurs({command}) /\ {command} \in Block
  BY DEF IsOurs, Block, Commands
<1>3. /\ DOMAIN merged = after
      /\ merged = [ev \in after |->
                     IF ev \in HookEvents THEN Append(Strip(Array(hooks, ev)), {command})
                     ELSE IF hooks[ev] = Scalar THEN Scalar
                     ELSE Strip(hooks[ev])]
  BY <1>1 DEF Merge, After
<1>4. \A ev : Array(hooks, ev) \in Seq(Block)
  BY ArrayType
<1>5. Scalar \notin Seq(Block)
  BY InstallAssumption
<1> HIDE DEF merged
<1>6. ASSUME NEW ev \in HookEvents
      PROVE  /\ merged[ev] = Append(Strip(Array(hooks, ev)), {command})
             /\ merged[ev] \in Seq(Block) /\ Array(merged, ev) = merged[ev]
  <2>1. merged[ev] = Append(Strip(Array(hooks, ev)), {command})
    BY <1>3 DEF After
  <2>2. merged[ev] \in Seq(Block)
    BY <1>2, <1>4, <2>1, StripFacts, AppendProperties
  <2> QED
    BY <1>3, <1>5, <2>1, <2>2 DEF Array, After
<1>7. ASSUME NEW ev \in after \ HookEvents
      PROVE  /\ ev \in events
             /\ hooks[ev] = Scalar => merged[ev] = Scalar /\ Array(merged, ev) = <<>>
             /\ hooks[ev] # Scalar =>
                  /\ merged[ev] = Strip(hooks[ev]) /\ Strip(hooks[ev]) # <<>>
                  /\ merged[ev] # Scalar /\ Array(merged, ev) = merged[ev]
                  /\ hooks[ev] \in Seq(Block) /\ merged[ev] \in Seq(Block)
  <2>1. ev \in events \ Emptied(hooks)
    BY DEF After
  <2>2. CASE hooks[ev] = Scalar
    BY <1>3, <2>1, <2>2 DEF Array
  <2>3. CASE hooks[ev] # Scalar
    <3>1. hooks[ev] \in Seq(Block) /\ Strip(hooks[ev]) # <<>>
      BY <1>1, <2>1, <2>3 DEF Emptied
    <3>2. merged[ev] = Strip(hooks[ev]) /\ merged[ev] \in Seq(Block)
      BY <1>3, <2>3, <3>1, StripFacts
    <3> QED
      BY <1>3, <1>5, <2>1, <2>3, <3>1, <3>2 DEF Array
  <2> QED
    BY <2>2, <2>3
<1>8. merged \in HooksOf(after)
  <2>1. \A ev \in after : merged[ev] \in Seq(Block) \cup {Scalar}
    BY <1>6, <1>7
  <2>2. merged = [ev \in after |-> merged[ev]]
    BY <1>3
  <2> QED
    BY <2>1, <2>2 DEF HooksOf
<1> QED
  BY <1>2, <1>3, <1>6, <1>7, <1>8 DEF merged, MergeGives

IsFile(file) == file \in Unusable \/ \E events \in SUBSET Events : file \in HooksOf(events)
AreHooks(hooks) == \E events \in SUBSET Events : hooks \in HooksOf(events)

LEMMA HooksAreUsable == \A hooks : AreHooks(hooks) => hooks \notin Unusable
BY InstallAssumption DEF AreHooks

LEMMA MergeIsHooks ==
  ASSUME NEW hooks, AreHooks(hooks), NEW command \in OurCommands
  PROVE  AreHooks(Merge(hooks, command))
<1>1. PICK events \in SUBSET Events : hooks \in HooksOf(events)
  BY DEF AreHooks
<1>2. After(events, hooks) \in SUBSET Events
  BY DEF Events, After
<1>3. MergeGives(events, hooks, command)
  BY <1>1, MergeFacts
<1> QED
  BY <1>2, <1>3 DEF AreHooks, MergeGives

(* Merging loses nothing of the user's.                                    *)
LEMMA MergeKeeps ==
  ASSUME NEW hooks, AreHooks(hooks), NEW command \in OurCommands
  PROVE  UserBlocks(hooks) \subseteq UserBlocks(Merge(hooks, command))
<1>1. PICK events \in SUBSET Events : hooks \in HooksOf(events)
  BY DEF AreHooks
<1> DEFINE merged == Merge(hooks, command)
           after == After(events, hooks)
<1>2. merged \notin Unusable /\ hooks \notin Unusable
  BY MergeIsHooks, HooksAreUsable
<1>3. /\ DOMAIN merged = after /\ DOMAIN hooks = events
      /\ \A ev \in HookEvents :
           Array(merged, ev) = Append(Strip(Array(hooks, ev)), {command})
      /\ \A ev \in after \ HookEvents :
           hooks[ev] # Scalar => Array(merged, ev) = Strip(hooks[ev])
      /\ {command} \in Block
  <2>1. DOMAIN hooks = events
    BY <1>1 DEF HooksOf
  <2>2. MergeGives(events, hooks, command)
    BY <1>1, MergeFacts
  <2> QED
    BY <2>1, <2>2 DEF MergeGives
<1> HIDE DEF merged
<1> SUFFICES ASSUME NEW own \in UserBlocks(hooks) PROVE own \in UserBlocks(merged)
  BY DEF merged
<1> DEFINE ev == own[1]
           block == own[2]
           array == Array(hooks, ev)
<1>4. /\ own \in events \X Block /\ ~IsOurs(block)
      /\ \E i \in DOMAIN array : array[i] = block
  BY <1>2, <1>3 DEF UserBlocks
<1>5. array \in Seq(Block)
  BY <1>1, ArrayType
<1>6. PICK j \in DOMAIN Strip(array) : Strip(array)[j] = block
  <2> HIDE DEF array, block
  <2> QED
    BY <1>4, <1>5, StripFacts
<1>7. hooks[ev] # Scalar /\ array = hooks[ev]
  <2>1. CASE ev \in DOMAIN hooks /\ hooks[ev] # Scalar
    BY <2>1 DEF Array
  <2>2. CASE ~(ev \in DOMAIN hooks /\ hooks[ev] # Scalar)
    <3>1. array = <<>>
      BY <2>2 DEF Array
    <3>2. DOMAIN array = {}
      BY <3>1
    <3> QED
      BY <1>4, <3>2
  <2> QED
    BY <2>1, <2>2
<1>8. Strip(array) \in Seq(Block)
  BY <1>5, StripFacts
<1> DEFINE kept == Strip(array)
           new == Array(merged, ev)
<1>9. ev \in after /\ \E i \in DOMAIN new : new[i] = block
  <2>1. CASE ev \in HookEvents
    <3>1. new = Append(kept, {command})
      BY <1>3, <2>1
    <3>2. ev \in after
      BY <2>1 DEF After
    <3> HIDE DEF kept, new
    <3>3. /\ Len(new) = Len(kept) + 1 /\ DOMAIN new = 1 .. Len(new) /\ Len(kept) \in Nat
          /\ DOMAIN kept = 1 .. Len(kept) /\ \A i \in 1 .. Len(kept) : new[i] = kept[i]
      BY <1>3, <1>8, <3>1, AppendProperties, LenProperties DEF kept
    <3>4. j \in DOMAIN new /\ new[j] = kept[j]
      BY <1>6, <3>3 DEF kept
    <3> QED
      BY <1>6, <3>2, <3>4 DEF kept
  <2>2. CASE ev \notin HookEvents
    <3>1. kept # <<>>
      <4> SUFFICES ASSUME kept = <<>> PROVE FALSE
        OBVIOUS
      <4>1. DOMAIN kept = {}
        OBVIOUS
      <4> QED
        BY <1>6, <4>1
    <3>2. ev \notin Emptied(hooks)
      BY <1>7, <3>1 DEF Emptied
    <3>3. ev \in after \ HookEvents
      BY <1>4, <2>2, <3>2 DEF After
    <3>4. new = kept
      BY <1>3, <1>7, <3>3
    <3> QED
      BY <1>6, <3>3, <3>4
  <2> QED
    BY <2>1, <2>2
<1>10. own \in after \X Block
  BY <1>4, <1>9
<1> QED
  BY <1>2, <1>3, <1>4, <1>9, <1>10 DEF UserBlocks

-----------------------------------------------------------------------------
(* The inductive invariant: wherever a run is, what the user wants is in a *)
(* file that it is not about to empty, or nothing is wanted.               *)

Types ==
  /\ IsFile(settings) /\ IsFile(backup) /\ AreHooks(run.hooks)
  /\ run.pc \in {"idle", "back up", "copy", "merge", "write"}
  /\ DOMAIN run = {"pc", "command", "hooks"}
  /\ run.pc # "idle" => run.command \in OurCommands

BackedUp == wanted = {} \/ wanted \subseteq UserBlocks(backup)

Held ==
  /\ IF settings \in {Blank, Garbage} THEN BackedUp
     ELSE wanted \subseteq UserBlocks(settings)
  /\ run.pc # "idle" => wanted \subseteq UserBlocks(run.hooks)
  /\ run.pc \in {"back up", "copy"} =>
       (settings \in {Blank, Garbage} => wanted = {})
  /\ run.pc \in {"merge", "write"} => BackedUp

IInv == Types /\ (guarded => Held)

LEMMA NoHooksFacts == AreHooks(NoHooks) /\ UserBlocks(NoHooks) = {}
<1>1. NoHooks \in HooksOf({}) /\ DOMAIN NoHooks = {}
  BY DEF NoHooks, HooksOf
<1> QED
  BY <1>1 DEF AreHooks, UserBlocks

LEMMA UnusableHasNone == \A file \in Unusable : UserBlocks(file) = {}
BY DEF UserBlocks

LEMMA IdleTypes == DOMAIN Idle = {"pc", "command", "hooks"} /\ Idle.pc = "idle" /\ AreHooks(Idle.hooks)
BY NoHooksFacts DEF Idle

LEMMA FileOrHooks == \A file : IsFile(file) /\ file \notin Unusable => AreHooks(file)
BY DEF IsFile, AreHooks

LEMMA HooksAreFile == \A file : AreHooks(file) => IsFile(file)
BY DEF IsFile, AreHooks

LEMMA ReadIInv == ASSUME IInv, NEW command \in OurCommands, Read(command) PROVE IInv'
<1>1. /\ run' = [pc |-> "back up", command |-> command,
                 hooks |-> IF settings \in Unusable THEN NoHooks ELSE settings]
      /\ UNCHANGED <<settings, backup, wanted>> /\ settings # Garbage
      /\ guarded' => guarded /\ (settings = Blank => wanted = {})
  BY DEF Read
<1>2. AreHooks(run'.hooks)
  BY <1>1, NoHooksFacts, FileOrHooks DEF IInv, Types
<1>3. Types'
  BY <1>1, <1>2 DEF IInv, Types
<1>4. ASSUME guarded' PROVE Held'
  <2>1. Held /\ (settings \in {Blank, Garbage} => wanted = {})
    BY <1>1, <1>4 DEF IInv
  <2>2. wanted \subseteq UserBlocks(run'.hooks)
    <3>1. CASE settings \in Unusable
      BY <1>1, <2>1, <3>1, UnusableHasNone DEF Held
    <3>2. CASE settings \notin Unusable
      BY <1>1, <2>1, <3>2 DEF Held, Unusable
    <3> QED
      BY <3>1, <3>2
  <2> QED
    BY <1>1, <2>1, <2>2 DEF Held, BackedUp
<1> QED
  BY <1>3, <1>4 DEF IInv

LEMMA OpenBackupIInv == ASSUME IInv, OpenBackup PROVE IInv'
<1>1. /\ run.pc = "back up" /\ UNCHANGED <<settings, wanted, guarded>>
      /\ DOMAIN run' = DOMAIN run /\ run'.command = run.command /\ run'.hooks = run.hooks
      /\ \/ settings = Missing /\ run'.pc = "merge" /\ backup' = backup
         \/ settings # Missing /\ run'.pc = "copy" /\ backup' = Blank
  BY DEF OpenBackup, IInv, Types
<1>2. Types'
  BY <1>1 DEF IInv, Types, IsFile, Unusable
<1>3. ASSUME guarded' PROVE Held'
  <2>1. Held
    BY <1>1, <1>3 DEF IInv
  <2>2. settings = Missing => wanted = {}
    BY <1>1, <2>1, UnusableHasNone DEF Held, Unusable
  <2> QED
    BY <1>1, <2>1, <2>2 DEF Held, BackedUp
<1> QED
  BY <1>2, <1>3 DEF IInv

LEMMA CopyIInv == ASSUME IInv, Copy PROVE IInv'
<1>1. /\ run.pc = "copy" /\ UNCHANGED <<settings, wanted, guarded>> /\ backup' = settings
      /\ DOMAIN run' = DOMAIN run /\ run'.command = run.command /\ run'.hooks = run.hooks
      /\ run'.pc = "merge"
  BY DEF Copy, IInv, Types
<1>2. Types'
  BY <1>1 DEF IInv, Types
<1>3. ASSUME guarded' PROVE Held'
  BY <1>1, <1>3 DEF IInv, Held, BackedUp
<1> QED
  BY <1>2, <1>3 DEF IInv

LEMMA OpenSettingsIInv == ASSUME IInv, OpenSettings PROVE IInv'
<1>1. /\ run.pc = "merge" /\ UNCHANGED <<backup, wanted, guarded>> /\ settings' = Blank
      /\ DOMAIN run' = DOMAIN run /\ run'.command = run.command /\ run'.hooks = run.hooks
      /\ run'.pc = "write"
  BY DEF OpenSettings, IInv, Types
<1>2. Types'
  BY <1>1 DEF IInv, Types, IsFile, Unusable
<1>3. ASSUME guarded' PROVE Held'
  BY <1>1, <1>3 DEF IInv, Held, BackedUp
<1> QED
  BY <1>2, <1>3 DEF IInv

LEMMA WriteIInv == ASSUME IInv, Write PROVE IInv'
<1>1. /\ run.pc = "write" /\ UNCHANGED <<backup, wanted, guarded>> /\ run' = Idle
      /\ settings' = Merge(run.hooks, run.command)
  BY DEF Write
<1>2. AreHooks(settings') /\ UserBlocks(run.hooks) \subseteq UserBlocks(settings')
  BY <1>1, MergeIsHooks, MergeKeeps DEF IInv, Types
<1>3. Types'
  BY <1>1, <1>2, IdleTypes, HooksAreFile DEF IInv, Types
<1>4. settings' \notin {Blank, Garbage}
  BY <1>2, HooksAreUsable DEF Unusable
<1>5. ASSUME guarded' PROVE Held'
  BY <1>1, <1>2, <1>4, <1>5, IdleTypes DEF IInv, Held
<1> QED
  BY <1>3, <1>5 DEF IInv

LEMMA InterruptedIInv == ASSUME IInv, Interrupted PROVE IInv'
<1>1. /\ run.pc # "idle" /\ UNCHANGED <<wanted, guarded>> /\ run' = Idle
      /\ settings' = settings \/ (run.pc = "write" /\ settings' = Garbage)
      /\ backup' = backup \/ (run.pc = "copy" /\ backup' = Garbage)
  BY DEF Interrupted
<1>2. Types'
  BY <1>1, IdleTypes DEF IInv, Types, IsFile, Unusable
<1>3. ASSUME guarded' PROVE Held'
  <2>1. Held
    BY <1>1, <1>3 DEF IInv
  <2>2. IF settings' \in {Blank, Garbage} THEN BackedUp'
        ELSE wanted' \subseteq UserBlocks(settings')
    <3>1. CASE run.pc = "write"
      BY <1>1, <2>1, <3>1 DEF Held, BackedUp
    <3>2. CASE run.pc = "copy"
      BY <1>1, <2>1, <3>2 DEF Held, BackedUp
    <3>3. CASE run.pc \notin {"write", "copy"}
      BY <1>1, <2>1, <3>3 DEF Held, BackedUp
    <3> QED
      BY <3>1, <3>2, <3>3
  <2> QED
    BY <1>1, <2>2, IdleTypes DEF Held
<1> QED
  BY <1>2, <1>3 DEF IInv

LEMMA EditIInv ==
  ASSUME IInv, NEW ev \in Events, NEW blocks \in Edits, Edit(ev, blocks)
  PROVE  IInv'
<1> DEFINE hooks == IF settings \in Unusable THEN NoHooks ELSE settings
<1>1. /\ settings' = [e \in DOMAIN hooks \cup {ev} |-> IF e = ev THEN blocks ELSE hooks[e]]
      /\ wanted' = UserBlocks(settings') /\ guarded' = (run.pc = "idle")
      /\ UNCHANGED <<backup, run>>
  BY DEF Edit
<1>2. AreHooks(hooks)
  BY NoHooksFacts, FileOrHooks DEF IInv, Types
<1> HIDE DEF hooks
<1>3. PICK events \in SUBSET Events : hooks \in HooksOf(events)
  BY <1>2 DEF AreHooks
<1>4. DOMAIN hooks = events /\ \A e \in events : hooks[e] \in Seq(Block) \cup {Scalar}
  BY <1>3 DEF HooksOf
<1>5. blocks \in Seq(Block) \cup {Scalar}
  BY InstallAssumption
<1>6. settings' \in HooksOf(events \cup {ev}) /\ events \cup {ev} \in SUBSET Events
  BY <1>1, <1>4, <1>5 DEF HooksOf
<1>7. AreHooks(settings')
  BY <1>6 DEF AreHooks
<1>8. Types'
  BY <1>1, <1>7, HooksAreFile DEF IInv, Types
<1>9. settings' \notin {Blank, Garbage}
  BY <1>7, HooksAreUsable DEF Unusable
<1>10. ASSUME guarded' PROVE Held'
  BY <1>1, <1>9, <1>10 DEF Held
<1> QED
  BY <1>8, <1>10 DEF IInv

LEMMA RestoreIInv == ASSUME IInv, Restore PROVE IInv'
<1>1. /\ run.pc = "idle" /\ settings \in {Blank, Garbage} /\ backup \notin Unusable
      /\ settings' = backup /\ UNCHANGED <<backup, run, wanted, guarded>>
  BY DEF Restore
<1>2. Types'
  BY <1>1 DEF IInv, Types
<1>3. ASSUME guarded' PROVE Held'
  BY <1>1, <1>3 DEF IInv, Held, BackedUp, Unusable
<1> QED
  BY <1>2, <1>3 DEF IInv

LEMMA Invariance == Spec => []IInv
<1>1. Init => IInv
  <2> SUFFICES ASSUME Init PROVE IInv
    OBVIOUS
  <2>1. settings \in {Missing, Blank, Scalar, NoHooks} /\ backup = Missing /\ run = Idle
        /\ wanted = {}
    BY DEF Init
  <2>2. Types
    BY <2>1, IdleTypes, NoHooksFacts, HooksAreFile DEF Types, IsFile, Unusable
  <2>3. Held
    BY <2>1, IdleTypes DEF Held, BackedUp
  <2> QED
    BY <2>2, <2>3 DEF IInv
<1>2. IInv /\ [Next]_vars => IInv'
  <2> SUFFICES ASSUME IInv, [Next]_vars PROVE IInv'
    OBVIOUS
  <2>1. CASE UNCHANGED vars
    BY <2>1 DEF vars, IInv, Types, Held, BackedUp
  <2>2. CASE Next
    BY <2>2, ReadIInv, OpenBackupIInv, CopyIInv, OpenSettingsIInv, WriteIInv,
       InterruptedIInv, EditIInv, RestoreIInv DEF Next
  <2> QED
    BY <2>1, <2>2
<1> QED
  BY <1>1, <1>2, PTL DEF Spec

(* Wherever a run of the installer is killed, and however often, what the  *)
(* user had registered is in the settings or in their backup.              *)
THEOREM UserHooksSurvive == Spec => []HooksSurvive
<1>1. IInv => HooksSurvive
  BY DEF IInv, Held, BackedUp, HooksSurvive
<1> QED
  BY <1>1, Invariance, PTL

(* Whatever arrays of hooks the settings hold, two runs leave what the     *)
(* second alone would have left, with one registration of ours for each of *)
(* our events.                                                             *)
THEOREM Idempotent == Spec => []InstallIsIdempotent
<1>1. IInv => InstallIsIdempotent
  <2> SUFFICES ASSUME IInv, settings \notin Unusable,
                      NEW c \in OurCommands, NEW d \in OurCommands
               PROVE  LET once == Merge(settings, d) IN
                      /\ Merge(Merge(settings, c), d) = once
                      /\ \A ev \in DOMAIN once :
                           LET ours == {i \in DOMAIN Array(once, ev) : IsOurs(once[ev][i])}
                           IN  \/ /\ ev \in HookEvents /\ ours = {Len(once[ev])}
                                  /\ once[ev][Len(once[ev])] = {d}
                               \/ ev \notin HookEvents /\ ours = {}
    BY DEF InstallIsIdempotent
  <2> DEFINE once == Merge(settings, d)
             first == Merge(settings, c)
             twice == Merge(first, d)
  <2>1. PICK events \in SUBSET Events : settings \in HooksOf(events)
    BY FileOrHooks DEF IInv, Types, AreHooks
  <2> DEFINE after == After(events, settings)
  <2>0. MergeGives(events, settings, c) /\ MergeGives(events, settings, d)
    BY <2>1, MergeFacts
  <2>2. /\ first \in HooksOf(after) /\ DOMAIN first = after
        /\ \A ev \in HookEvents :
             Array(first, ev) = Append(Strip(Array(settings, ev)), {c})
        /\ \A ev \in after \ HookEvents :
             /\ settings[ev] = Scalar => first[ev] = Scalar
             /\ settings[ev] # Scalar =>
                  /\ first[ev] = Strip(settings[ev]) /\ Strip(settings[ev]) # <<>>
                  /\ first[ev] # Scalar /\ settings[ev] \in Seq(Block)
        /\ IsOurs({c}) /\ {c} \in Block
    BY <2>0 DEF MergeGives
  <2>3. after \in SUBSET Events
    BY DEF Events, After
  <2>4. /\ DOMAIN once = after
        /\ \A ev \in HookEvents :
             /\ once[ev] = Append(Strip(Array(settings, ev)), {d})
             /\ Array(once, ev) = once[ev]
        /\ \A ev \in after \ HookEvents :
             /\ settings[ev] = Scalar => once[ev] = Scalar /\ Array(once, ev) = <<>>
             /\ settings[ev] # Scalar =>
                  once[ev] = Strip(settings[ev]) /\ Array(once, ev) = once[ev]
        /\ IsOurs({d}) /\ {d} \in Block
    BY <2>0 DEF MergeGives
  <2>00. once \in HooksOf(after)
    BY <2>0 DEF MergeGives
  <2> HIDE DEF once, first, after
  <2>5. Emptied(first) = {}
    <3> SUFFICES ASSUME NEW ev \in after \ HookEvents, first[ev] # Scalar
                 PROVE  Strip(first[ev]) # <<>>
      BY <2>2 DEF Emptied
    <3>1. first[ev] = Strip(settings[ev]) /\ Strip(settings[ev]) # <<>> /\ settings[ev] \in Seq(Block)
      BY <2>2
    <3> QED
      BY <3>1, StripTwice
  <2>6. After(after, first) = after
    BY <2>5 DEF after, After
  <2>7. /\ DOMAIN twice = after /\ twice \in HooksOf(after)
        /\ \A ev \in HookEvents : twice[ev] = Append(Strip(Array(first, ev)), {d})
        /\ \A ev \in after \ HookEvents :
             /\ first[ev] = Scalar => twice[ev] = Scalar
             /\ first[ev] # Scalar => twice[ev] = Strip(first[ev])
    <3>1. MergeGives(after, first, d)
      BY <2>2, <2>3, MergeFacts
    <3> QED
      BY <2>6, <3>1 DEF MergeGives
  <2> HIDE DEF twice
  <2>8. ASSUME NEW ev \in after PROVE twice[ev] = once[ev]
    <3>1. CASE ev \in HookEvents
      <4>1. Array(settings, ev) \in Seq(Block)
        BY <2>1, ArrayType
      <4> DEFINE kept == Strip(Array(settings, ev))
      <4>2. kept \in Seq(Block) /\ Strip(kept) = kept
        BY <4>1, StripFacts, StripTwice
      <4> HIDE DEF kept
      <4>3. Strip(Append(kept, {c})) = kept
        BY <2>2, <4>2, StripAppend
      <4> QED
        BY <2>2, <2>4, <2>7, <3>1, <4>3 DEF kept
    <3>2. CASE ev \notin HookEvents
      <4>1. CASE settings[ev] = Scalar
        BY <2>2, <2>4, <2>7, <3>2, <4>1
      <4>2. CASE settings[ev] # Scalar
        <5>1. Strip(Strip(settings[ev])) = Strip(settings[ev])
          BY <2>2, <3>2, <4>2, StripTwice
        <5> QED
          BY <2>2, <2>4, <2>7, <3>2, <4>2, <5>1
      <4> QED
        BY <4>1, <4>2
    <3> QED
      BY <3>1, <3>2
  <2>9. twice = once
    <3> DEFINE Values == Seq(Block) \cup {Scalar}
    <3>1. once \in [after -> Values] /\ twice \in [after -> Values]
      BY <2>7, <2>00 DEF HooksOf
    <3> HIDE DEF Values
    <3> QED
      BY <2>8, <3>1
  <2>10. ASSUME NEW ev \in DOMAIN once
         PROVE  LET ours == {i \in DOMAIN Array(once, ev) : IsOurs(once[ev][i])}
                IN  \/ /\ ev \in HookEvents /\ ours = {Len(once[ev])}
                       /\ once[ev][Len(once[ev])] = {d}
                    \/ ev \notin HookEvents /\ ours = {}
    <3>1. CASE ev \in HookEvents
      <4> DEFINE kept == Strip(Array(settings, ev))
                 new == once[ev]
      <4>1. kept \in Seq(Block) /\ \A j \in DOMAIN kept : ~IsOurs(kept[j])
        <5>1. Array(settings, ev) \in Seq(Block)
          BY <2>1, ArrayType
        <5> QED
          BY <5>1, StripFacts
      <4>2. new = Append(kept, {d}) /\ Array(once, ev) = new
        BY <2>4, <3>1
      <4> HIDE DEF kept, new
      <4>3. /\ Len(new) = Len(kept) + 1 /\ DOMAIN new = 1 .. Len(new) /\ Len(kept) \in Nat
            /\ DOMAIN kept = 1 .. Len(kept) /\ new[Len(new)] = {d}
            /\ \A i \in 1 .. Len(kept) : new[i] = kept[i]
        <5>1. kept \in Seq(Block) /\ {d} \in Block
          BY <2>4, <4>1
        <5>2. /\ new \in Seq(Block) /\ Len(new) = Len(kept) + 1
              /\ \A i \in 1 .. Len(kept) : new[i] = kept[i]
              /\ new[Len(kept) + 1] = {d}
          BY <4>2, <5>1, AppendProperties
        <5>3. /\ Len(kept) \in Nat /\ DOMAIN kept = 1 .. Len(kept)
              /\ Len(new) \in Nat /\ DOMAIN new = 1 .. Len(new)
          BY <5>1, <5>2, LenProperties
        <5> QED
          BY <5>2, <5>3
      <4>4. \A i \in DOMAIN new : IsOurs(new[i]) <=> i = Len(new)
        <5> SUFFICES ASSUME NEW i \in DOMAIN new PROVE IsOurs(new[i]) <=> i = Len(new)
          OBVIOUS
        <5>1. CASE i = Len(new)
          BY <2>4, <4>3, <5>1
        <5>2. CASE i # Len(new)
          <6>1. i \in DOMAIN kept /\ new[i] = kept[i]
            BY <4>3, <5>2
          <6> QED
            BY <4>1, <5>2, <6>1
        <5> QED
          BY <5>1, <5>2
      <4>5. Len(new) \in DOMAIN new
        BY <4>3
      <4>6. {i \in DOMAIN new : IsOurs(new[i])} = {Len(new)}
        BY <4>4, <4>5
      <4> QED
        BY <3>1, <4>2, <4>3, <4>6 DEF new
    <3>2. CASE ev \notin HookEvents
      <4>1. ev \in after \ HookEvents
        BY <2>4, <3>2
      <4>2. CASE settings[ev] = Scalar
        <5>1. Array(once, ev) = <<>>
          BY <2>4, <4>1, <4>2
        <5>2. DOMAIN Array(once, ev) = {}
          BY <5>1
        <5> QED
          BY <3>2, <5>2
      <4>3. CASE settings[ev] # Scalar
        <5>1. once[ev] = Strip(settings[ev]) /\ Array(once, ev) = once[ev] /\ settings[ev] \in Seq(Block)
          BY <2>2, <2>4, <4>1, <4>3
        <5>2. \A j \in DOMAIN once[ev] : ~IsOurs(once[ev][j])
          BY <5>1, StripFacts
        <5> QED
          BY <3>2, <5>1, <5>2
      <4> QED
        BY <4>2, <4>3
    <3> QED
      BY <3>1, <3>2
  <2> QED
    BY <2>9, <2>10 DEF once, first, twice
<1> QED
  BY <1>1, Invariance, PTL
=============================================================================
