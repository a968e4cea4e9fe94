----------------------------- MODULE LinkProofs -----------------------------
(***************************************************************************)
(* The safety of the USB link: its types, that an ack is never glued       *)
(* together from two lines, and that a fault spoils one line.  Proved for  *)
(* any sessions, any frames, wires of any length and any number of faults. *)
(***************************************************************************)
EXTENDS SerialLink, SequenceTheorems, FiniteSetTheorems, TLAPS

(* What the device prints are whole lines, except that the last may be in  *)
(* the making, and what is lost of them is lost from the front: after a    *)
(* beginning comes its rest.                                               *)
WholeLines(q, unfinished) ==
  /\ \A i \in 1..(Len(q) - 1) : q[i].part = "first" => q[i + 1].part = "rest"
  /\ q # <<>> /\ q[Len(q)].part = "first" => unfinished # Nothing

(* While the port is open, what the bridge has read of a line is followed  *)
(* by the rest of it, or the device is about to print that.                *)
RestFollows ==
  /\ Len(rx) <= 1
  /\ open /\ rx # <<>> => IF up = <<>> THEN printing # Nothing ELSE up[1].part = "rest"

LinkInv == TypeOK /\ WholeLines(up, printing) /\ RestFollows

-----------------------------------------------------------------------------
(* Lemmas about sequences of pieces.                                       *)

LEMMA Suffixes ==
  ASSUME NEW S, NEW q \in Seq(S), NEW i \in 1..(Len(q) + 1)
  PROVE  /\ SubSeq(q, i, Len(q)) \in Seq(S)
         /\ Len(SubSeq(q, i, Len(q))) = Len(q) - i + 1
         /\ \A k \in 1..(Len(q) - i + 1) : SubSeq(q, i, Len(q))[k] = q[k + i - 1]
<1>1. Len(q) \in Nat /\ i \in Nat /\ i >= 1
  OBVIOUS
<1>2. \A k \in 1..(Len(q) - i + 1) : k + i - 1 \in 1..Len(q)
  BY <1>1
<1>3. SubSeq(q, i, Len(q)) = [k \in 1..(Len(q) - i + 1) |-> q[k + i - 1]]
  BY <1>1
<1>4. \A k \in 1..(Len(q) - i + 1) : q[k + i - 1] \in S
  BY <1>2
<1> QED
  BY <1>1, <1>3, <1>4

(* A line that loses its front is still a whole line at its end.           *)
LEMMA SuffixIsWhole ==
  ASSUME NEW S, NEW q \in Seq(S), NEW u, WholeLines(q, u), NEW i \in 1..(Len(q) + 1)
  PROVE  WholeLines(SubSeq(q, i, Len(q)), u)
<1> DEFINE r == SubSeq(q, i, Len(q))
<1>1. /\ r \in Seq(S) /\ Len(r) = Len(q) - i + 1 /\ Len(q) \in Nat /\ i \in Nat /\ i >= 1
      /\ \A k \in 1..(Len(q) - i + 1) : r[k] = q[k + i - 1]
  BY Suffixes
<1> HIDE DEF r
<1>2. ASSUME NEW k \in 1..(Len(r) - 1), r[k].part = "first"
      PROVE  r[k + 1].part = "rest"
  <2>1. k + i - 1 \in 1..(Len(q) - 1) /\ (k + 1) + i - 1 = (k + i - 1) + 1
    BY <1>1
  <2>2. r[k] = q[k + i - 1] /\ r[k + 1] = q[(k + i - 1) + 1]
    BY <1>1, <2>1
  <2> QED
    BY <1>2, <2>1, <2>2 DEF WholeLines
<1>3. r # <<>> => Len(q) # 0 /\ r[Len(r)] = q[Len(q)]
  <2> SUFFICES ASSUME r # <<>> PROVE Len(q) # 0 /\ r[Len(r)] = q[Len(q)]
    OBVIOUS
  <2>1. Len(r) \in 1..(Len(q) - i + 1) /\ Len(r) + i - 1 = Len(q)
    BY <1>1
  <2> QED
    BY <1>1, <2>1
<1>4. Len(q) # 0 => q # <<>>
  OBVIOUS
<1>5. WholeLines(r, u)
  BY <1>2, <1>3, <1>4 DEF WholeLines
<1> QED
  BY <1>5 DEF r

LEMMA TailIsWhole ==
  ASSUME NEW S, NEW q \in Seq(S), q # <<>>, NEW u, WholeLines(q, u)
  PROVE  /\ Tail(q) \in Seq(S) /\ WholeLines(Tail(q), u)
         /\ Head(q) = q[1] /\ q[1] \in S
<1>1. Tail(q) = SubSeq(q, 2, Len(q)) /\ 2 \in 1..(Len(q) + 1)
  OBVIOUS
<1>2. Tail(q) \in Seq(S) /\ Head(q) = q[1] /\ q[1] \in S
  OBVIOUS
<1> QED
  BY <1>1, <1>2, SuffixIsWhole

(* After the beginning of a line its rest follows, or is still to come.    *)
LEMMA RestIsNext ==
  ASSUME NEW S, NEW q \in Seq(S), q # <<>>, NEW u, WholeLines(q, u), q[1].part = "first"
  PROVE  IF Tail(q) = <<>> THEN u # Nothing ELSE Tail(q)[1].part = "rest"
<1>1. Len(q) \in Nat \ {0}
  BY EmptySeq
<1>2. CASE Len(q) = 1
  <2>1. u # Nothing
    BY <1>2 DEF WholeLines
  <2>2. Len(Tail(q)) = Len(q) - 1 /\ Tail(q) \in Seq(S)
    BY HeadTailProperties
  <2>3. Len(Tail(q)) = 0
    BY <1>2, <2>2
  <2>4. Tail(q) = <<>>
    BY <2>2, <2>3, EmptySeq, Zenon
  <2> QED
    BY <2>1, <2>4
<1>3. CASE Len(q) # 1
  <2>0. \A n \in Nat \ {0} : n # 1 => 2 \in 1..n /\ 1 \in 1..(n - 1) /\ 1 \in 1..n
    OBVIOUS
  <2>1. 2 \in 1..Len(q) /\ 1 \in 1..(Len(q) - 1) /\ 1 \in 1..Len(q)
    BY <1>1, <1>3, <2>0, Zenon
  <2>2. q[1 + 1].part = "rest"
    BY <2>1 DEF WholeLines
  <2>3. Len(Tail(q)) = Len(q) - 1 /\ Tail(q)[1] = q[1 + 1]
    BY <2>1, HeadTailProperties
  <2>4. Tail(q) # <<>>
    <3>1. Len(Tail(q)) # 0
      BY <1>3, <1>1, <2>3
    <3>2. Len(<<>>) = 0
      BY EmptySeq
    <3> QED
      BY <3>1, <3>2, Zenon
  <2> QED
    BY <2>2, <2>3, <2>4
<1> QED
  BY <1>2, <1>3

(* A piece printed behind whole lines: a rest finishes what is in the      *)
(* making, a beginning comes when nothing is.                              *)
LEMMA PieceAdded ==
  ASSUME NEW S, NEW q \in Seq(S), NEW u, WholeLines(q, u), NEW v, NEW piece \in S,
         \/ piece.part = "rest"
         \/ piece.part = "first" /\ u = Nothing /\ v # Nothing
  PROVE  /\ Append(q, piece) \in Seq(S) /\ WholeLines(Append(q, piece), v)
         /\ Append(q, piece) # <<>>
         /\ Append(q, piece)[1] = IF q = <<>> THEN piece ELSE q[1]
<1> DEFINE r == Append(q, piece)
<1>1. /\ r \in Seq(S) /\ Len(r) = Len(q) + 1 /\ Len(q) \in Nat
      /\ \A i \in 1..Len(q) : r[i] = q[i]
      /\ r[Len(q) + 1] = piece
  BY AppendProperties, LenProperties
<1> HIDE DEF r
<1>2. q = <<>> <=> Len(q) = 0
  BY EmptySeq
<1>3. r # <<>>
  BY <1>1, EmptySeq
<1>4. r[1] = IF q = <<>> THEN piece ELSE q[1]
  BY <1>1, <1>2
<1>5. ASSUME NEW k \in 1..(Len(r) - 1), r[k].part = "first"
      PROVE  r[k + 1].part = "rest"
  <2>1. k \in 1..Len(q) /\ r[k] = q[k]
    BY <1>1
  <2>2. CASE k = Len(q)
    <3>1. u # Nothing /\ r[k + 1] = piece
      BY <1>1, <1>2, <1>5, <2>1, <2>2 DEF WholeLines
    <3> QED
      BY <3>1
  <2>3. CASE k # Len(q)
    <3>1. k \in 1..(Len(q) - 1) /\ k + 1 \in 1..Len(q)
      BY <1>1, <2>1, <2>3
    <3>2. r[k + 1] = q[k + 1]
      BY <1>1, <3>1
    <3> QED
      BY <1>5, <2>1, <3>1, <3>2 DEF WholeLines
  <2> QED
    BY <2>2, <2>3
<1>6. r[Len(r)] = piece
  BY <1>1
<1>7. piece.part = "first" => v # Nothing
  OBVIOUS
<1>8. WholeLines(r, v)
  BY <1>5, <1>6, <1>7 DEF WholeLines
<1> QED
  BY <1>1, <1>3, <1>4, <1>8 DEF r

-----------------------------------------------------------------------------
(* The invariant.                                                          *)

LEMMA InitLinkInv == Init => LinkInv
<1> SUFFICES ASSUME Init PROVE LinkInv
  OBVIOUS
<1>1. TypeOK
  <2>1. 0 \in 0..MaxFaults
    BY LinkAssumption
  <2>2. <<>> \in Seq(PiecesOf(Frames)) /\ <<>> \in Seq(PiecesOf(Ids \cup {Nothing}))
    BY EmptySeq
  <2> QED
    BY <2>1, <2>2 DEF Init, TypeOK
<1>2. WholeLines(up, printing) /\ RestFollows
  BY EmptySeq DEF Init, WholeLines, RestFollows
<1> QED
  BY <1>1, <1>2 DEF LinkInv

(* What the reader makes of a line is a frame, a mixture or what it had.   *)
LEMMA ParsedIsShown ==
  ASSUME TypeOK, NEW line \in Seq(PiecesOf(Frames)), line # <<>>
  PROVE  Parse(line) \subseteq Frames \cup {Mixed, Nothing}
<1>1. \A i \in 1..Len(line) : line[i].of \in Frames
  <2>1. \A i \in 1..Len(line) : line[i] \in PiecesOf(Frames)
    BY ElementOfSeq
  <2> QED
    BY <2>1 DEF PiecesOf
<1>2. DOMAIN line = 1..Len(line)
  BY LenProperties
<1>3. \A i \in Begins(line) : line[i].of \in Frames
  BY <1>1, <1>2 DEF Begins
<1>4. CASE Len(line) = 2 /\ line[1] = FirstOf(line[2].of)
  <2>1. line[2].of \in Frames
    BY <1>1, <1>4
  <2> QED
    BY <1>4, <2>1 DEF Parse
<1>5. CASE ~(Len(line) = 2 /\ line[1] = FirstOf(line[2].of))
  BY <1>3, <1>5 DEF Parse, TypeOK
<1> QED
  BY <1>4, <1>5

(* Steps that print nothing, lose nothing and read nothing of what is      *)
(* printed.                                                                *)
LEMMA UpUntouched ==
  ASSUME LinkInv, TypeOK', UNCHANGED <<open, printing, up, rx>>
  PROVE  LinkInv'
BY DEF LinkInv, WholeLines, RestFollows

LEMMA ReaderTypes == TypeOK /\ Reader => TypeOK'
<1> SUFFICES ASSUME TypeOK, Reader PROVE TypeOK'
  OBVIOUS
<1> DEFINE P == PiecesOf(Frames)
           line == Append(buf, Head(down))
<1>1. /\ down \in Seq(P) /\ buf \in Seq(P) /\ down # <<>>
      /\ Head(down) \in P /\ Tail(down) \in Seq(P) /\ Len(down) \in Nat
  BY HeadTailProperties, LenProperties DEF Reader, TypeOK
<1>2. line \in Seq(P) /\ line # <<>>
  BY <1>1, AppendProperties
<1>3. Parse(line) \subseteq Frames \cup {Mixed, Nothing}
  BY <1>2, ParsedIsShown
<1>4. \A n \in 1..Len(down) : SubSeq(down, n + 1, Len(down)) \in Seq(P)
  <2> SUFFICES ASSUME NEW n \in 1..Len(down) PROVE SubSeq(down, n + 1, Len(down)) \in Seq(P)
    OBVIOUS
  <2>1. n + 1 \in 1..(Len(down) + 1)
    BY <1>1
  <2> QED
    BY <1>1, <2>1, Suffixes
<1>5. down' \in Seq(P)
  BY <1>1, <1>4 DEF Reader
<1>6. buf' \in Seq(P)
  BY <1>2, EmptySeq DEF Reader
<1>7. shown' \in Frames \cup {Mixed, Nothing}
  BY <1>3 DEF Reader, TypeOK
<1> QED
  BY <1>5, <1>6, <1>7 DEF Reader, TypeOK

LEMMA NextLinkInv == LinkInv /\ [Next]_vars => LinkInv'
<1> SUFFICES ASSUME LinkInv, [Next]_vars PROVE LinkInv'
  OBVIOUS
<1> DEFINE P == PiecesOf(Ids \cup {Nothing})
<1>0. TypeOK /\ up \in Seq(P) /\ rx \in Seq(P) /\ WholeLines(up, printing)
  BY DEF LinkInv, TypeOK
<1>1. \A f \in Frames : FirstOf(f) \in PiecesOf(Frames) /\ RestOf(f) \in PiecesOf(Frames)
  BY DEF FirstOf, RestOf, PiecesOf
<1>2. \A id \in Ids \cup {Nothing} :
        /\ FirstOf(id) \in P /\ FirstOf(id).part = "first"
        /\ RestOf(id) \in P /\ RestOf(id).part = "rest"
  BY DEF FirstOf, RestOf, PiecesOf
<1> HIDE DEF P
<1>3. CASE HubChanges
  <2>1. TypeOK'
    BY <1>0, <1>3 DEF HubChanges, TypeOK
  <2> QED
    BY <1>3, <2>1, UpUntouched DEF HubChanges
<1>4. CASE OpenPort
  <2>1. TypeOK'
    BY <1>0, <1>4, EmptySeq DEF OpenPort, TypeOK
  <2>2. WholeLines(up, printing)'
    BY <1>0, <1>4 DEF OpenPort, WholeLines
  <2>3. RestFollows'
    BY <1>4, EmptySeq DEF OpenPort, RestFollows
  <2> QED
    BY <2>1, <2>2, <2>3 DEF LinkInv
<1>5. CASE Poll
  <2>1. down' \in Seq(PiecesOf(Frames))
    BY <1>0, <1>1, <1>5, AppendProperties DEF Poll, TypeOK
  <2>2. TypeOK'
    BY <1>0, <1>5, <2>1 DEF Poll, TypeOK
  <2> QED
    BY <1>5, <2>2, UpUntouched DEF Poll
<1>6. CASE FinishLine
  <2>1. writing \in Frames
    BY <1>0, <1>6 DEF FinishLine, TypeOK
  <2>2. down' \in Seq(PiecesOf(Frames))
    BY <1>0, <1>1, <1>6, <2>1, AppendProperties DEF FinishLine, TypeOK
  <2>3. TypeOK'
    BY <1>0, <1>6, <2>2 DEF FinishLine, TypeOK
  <2> QED
    BY <1>6, <2>3, UpUntouched DEF FinishLine
<1>7. CASE Reader
  BY <1>0, <1>7, ReaderTypes, UpUntouched DEF Reader
<1>8. ASSUME NEW id \in Ids, Tap(id)
      PROVE  LinkInv'
  <2>1. printing = Nothing /\ printing' = id /\ id # Nothing /\ up' = Append(up, FirstOf(id))
    BY <1>8, LinkAssumption DEF Tap
  <2>2. /\ up' \in Seq(P) /\ WholeLines(up', id) /\ up' # <<>>
        /\ up'[1] = IF up = <<>> THEN FirstOf(id) ELSE up[1]
    <3> DEFINE piece == FirstOf(id)
    <3>1. piece \in P /\ piece.part = "first"
      BY <1>2, <2>1
    <3> HIDE DEF piece
    <3>2. piece.part = "rest" \/ (piece.part = "first" /\ printing = Nothing /\ id # Nothing)
      BY <2>1, <3>1
    <3>3. /\ Append(up, piece) \in Seq(P) /\ WholeLines(Append(up, piece), id)
          /\ Append(up, piece) # <<>>
          /\ Append(up, piece)[1] = IF up = <<>> THEN piece ELSE up[1]
      BY <1>0, <3>1, <3>2, PieceAdded
    <3> QED
      BY <2>1, <3>3 DEF piece
  <2>3. TypeOK'
    BY <1>0, <1>8, <2>1, <2>2 DEF Tap, TypeOK, P
  <2>4. WholeLines(up, printing)'
    BY <2>1, <2>2 DEF WholeLines
  <2>5. RestFollows'
    BY <1>8, <2>1, <2>2 DEF Tap, LinkInv, RestFollows
  <2> QED
    BY <2>3, <2>4, <2>5 DEF LinkInv
<1>9. CASE PrintRest
  <2>1. printing \in Ids /\ printing' = Nothing /\ up' = Append(up, RestOf(printing))
    BY <1>0, <1>9 DEF PrintRest, TypeOK
  <2>2. /\ up' \in Seq(P) /\ WholeLines(up', Nothing) /\ up' # <<>>
        /\ up'[1] = IF up = <<>> THEN RestOf(printing) ELSE up[1]
    <3>1. RestOf(printing) \in P /\ RestOf(printing).part = "rest"
      BY <1>2, <2>1
    <3> QED
      BY <1>0, <2>1, <3>1, PieceAdded, Zenon
  <2>3. TypeOK'
    BY <1>0, <1>9, <2>1, <2>2 DEF PrintRest, TypeOK, P
  <2>4. WholeLines(up, printing)'
    BY <2>1, <2>2 DEF WholeLines
  <2>5. RestFollows'
    BY <1>2, <1>9, <2>1, <2>2 DEF PrintRest, LinkInv, RestFollows
  <2> QED
    BY <2>3, <2>4, <2>5 DEF LinkInv
<1>10. CASE Lost
  <2>1. up # <<>> /\ up' = Tail(up) /\ ~open /\ UNCHANGED <<open, printing, rx>>
    BY <1>10 DEF Lost
  <2>2. up' \in Seq(P) /\ WholeLines(up', printing)
    BY <1>0, <2>1, TailIsWhole
  <2>3. TypeOK'
    BY <1>0, <1>10, <2>2 DEF Lost, TypeOK, P
  <2>4. WholeLines(up, printing)'
    BY <2>1, <2>2 DEF WholeLines
  <2> QED
    BY <2>1, <2>3, <2>4 DEF LinkInv, RestFollows
<1>11. CASE ReadAckStart
  <2>1. up # <<>> /\ open /\ up' = Tail(up) /\ rx' = Append(rx, Head(up))
        /\ UNCHANGED <<open, printing>>
    BY <1>11 DEF ReadAckStart, Reads
  <2>2. /\ Tail(up) \in Seq(P) /\ WholeLines(Tail(up), printing)
        /\ Head(up) = up[1] /\ up[1] \in P
    BY <1>0, <2>1, TailIsWhole
  <2>3. up[1].part = "first"
    BY <1>11, <2>2 DEF ReadAckStart
  <2>4. rx = <<>>
    BY <2>1, <2>3 DEF LinkInv, RestFollows
  <2>5. IF Tail(up) = <<>> THEN printing # Nothing ELSE Tail(up)[1].part = "rest"
    BY <1>0, <2>1, <2>3, RestIsNext
  <2>6. rx' \in Seq(P) /\ Len(rx') = 1
    <3>1. Len(rx) = 0
      BY <2>4, EmptySeq
    <3> QED
      BY <1>0, <2>1, <2>2, <3>1, AppendProperties
  <2>7. TypeOK'
    BY <1>0, <1>11, <2>1, <2>2, <2>6 DEF ReadAckStart, TypeOK, P
  <2>8. WholeLines(up, printing)'
    BY <2>1, <2>2 DEF WholeLines
  <2>9. RestFollows'
    BY <2>1, <2>5, <2>6 DEF RestFollows
  <2> QED
    BY <2>7, <2>8, <2>9 DEF LinkInv
<1>12. CASE ForwardAck \/ DropAck
  <2>1. up # <<>> /\ up' = Tail(up) /\ rx' = <<>> /\ UNCHANGED <<open, printing>>
    BY <1>12 DEF ForwardAck, DropAck, Reads
  <2>2. Tail(up) \in Seq(P) /\ WholeLines(Tail(up), printing)
    BY <1>0, <2>1, TailIsWhole
  <2>3. state' \in Frames
    BY <1>0, <1>12 DEF ForwardAck, DropAck, Acked, TypeOK, Frames, Statuses
  <2>4. TypeOK'
    BY <1>0, <1>12, <2>1, <2>2, <2>3, EmptySeq DEF ForwardAck, DropAck, TypeOK, P
  <2>5. WholeLines(up, printing)'
    BY <2>1, <2>2 DEF WholeLines
  <2>6. RestFollows'
    BY <2>1, EmptySeq DEF RestFollows
  <2> QED
    BY <2>4, <2>5, <2>6 DEF LinkInv
<1>13. CASE Disconnect
  <2>1. PICK i \in 1..(Len(up) + 1) : up' = SubSeq(up, i, Len(up))
    BY <1>13 DEF Disconnect
  <2>2. up' \in Seq(P) /\ WholeLines(up', printing)
    BY <1>0, <2>1, Suffixes, SuffixIsWhole
  <2>3. faults' \in 0..MaxFaults /\ open' = FALSE /\ UNCHANGED <<printing, rx>>
    BY <1>0, <1>13, LinkAssumption DEF Disconnect, Fault, TypeOK
  <2>4. TypeOK'
    BY <1>0, <1>13, <2>2, <2>3 DEF Disconnect, TypeOK, P
  <2>5. WholeLines(up, printing)'
    BY <2>2, <2>3 DEF WholeLines
  <2> QED
    BY <2>3, <2>4, <2>5 DEF LinkInv, RestFollows
<1>14. CASE Unplug
  <2>1. faults' \in 0..MaxFaults
    BY <1>0, <1>14, LinkAssumption DEF Unplug, Fault, TypeOK
  <2>2. TypeOK'
    BY <1>0, <1>14, <2>1, EmptySeq DEF Unplug, TypeOK
  <2>3. WholeLines(up, printing)' /\ RestFollows'
    BY <1>14, EmptySeq DEF Unplug, WholeLines, LinkInv, RestFollows
  <2> QED
    BY <2>2, <2>3 DEF LinkInv
<1>15. CASE Reboot
  <2>1. faults' \in 0..MaxFaults /\ printing' = Nothing /\ up' = Append(up, RestOf(Nothing))
    BY <1>0, <1>15, LinkAssumption DEF Reboot, Fault, TypeOK
  <2>2. /\ up' \in Seq(P) /\ WholeLines(up', Nothing) /\ up' # <<>>
        /\ up'[1] = IF up = <<>> THEN RestOf(Nothing) ELSE up[1]
    <3>1. RestOf(Nothing) \in P /\ RestOf(Nothing).part = "rest"
      BY <1>2
    <3> QED
      BY <1>0, <2>1, <3>1, PieceAdded, Zenon
  <2>3. TypeOK'
    BY <1>0, <1>15, <2>1, <2>2, EmptySeq DEF Reboot, TypeOK, P
  <2>4. WholeLines(up, printing)'
    BY <2>1, <2>2 DEF WholeLines
  <2>5. RestFollows'
    BY <1>2, <1>15, <2>2 DEF Reboot, LinkInv, RestFollows
  <2> QED
    BY <2>3, <2>4, <2>5 DEF LinkInv
<1>16. CASE UNCHANGED vars
  <2>1. TypeOK'
    BY <1>0, <1>16 DEF vars, TypeOK
  <2> QED
    BY <1>16, <2>1, UpUntouched DEF vars
<1> QED
  BY <1>3, <1>4, <1>5, <1>6, <1>7, <1>8, <1>9, <1>10, <1>11, <1>12, <1>13, <1>14, <1>15,
     <1>16 DEF Next

LEMMA LinkInvHolds == Spec => []LinkInv
BY InitLinkInv, NextLinkInv, PTL DEF Spec

-----------------------------------------------------------------------------
(* Every variable of the link keeps its type: only whole pieces are ever   *)
(* under way, whatever cuts the line (write_all, the reader thread).       *)
THEOREM TypeCorrect == Spec => []TypeOK
<1>1. LinkInv => TypeOK
  BY DEF LinkInv
<1> QED
  BY <1>1, LinkInvHolds, PTL

(* What the bridge reads of an ack is never followed by the beginning of   *)
(* another, wherever the port was lost or the device was reset             *)
(* (serial_bridge.rs clears rx with each open; a device that boots prints  *)
(* its log first).                                                         *)
THEOREM AcksStayWhole == Spec => []AcksAreWhole
<1>1. LinkInv => AcksAreWhole
  BY DEF LinkInv, RestFollows, AcksAreWhole
<1> QED
  BY <1>1, LinkInvHolds, PTL

-----------------------------------------------------------------------------
(* A line that was cut is seen where a beginning is followed by another    *)
(* beginning, or is the last piece although no line is being written.      *)

Joined == buf \o down

CutsOf(q) == {i \in 1..Len(q) : /\ i + 1 \in 1..Len(q)
                                /\ q[i].part = "first" /\ q[i + 1].part = "first"}
Cuts(q) == Cardinality(CutsOf(q))
OpenEnd(q) == Len(q) # 0 /\ q[Len(q)].part = "first"

CutsAreFaults ==
  /\ Cuts(Joined) <= faults
  /\ writing = Nothing /\ OpenEnd(Joined) => Cuts(Joined) + 1 <= faults

LEMMA CutsType ==
  ASSUME NEW S, NEW q \in Seq(S)
  PROVE  IsFiniteSet(CutsOf(q)) /\ Cuts(q) \in Nat
<1>1. IsFiniteSet(1..Len(q))
  <2>1. 1 \in Int /\ Len(q) \in Int
    BY LenProperties
  <2> QED
    BY <2>1, FS_Interval, Zenon
<1>2. CutsOf(q) \in SUBSET (1..Len(q))
  BY DEF CutsOf
<1> QED
  BY <1>1, <1>2, FS_Subset, FS_CardinalityType DEF Cuts

(* The end of a sequence has no more cuts than all of it.                  *)
LEMMA CutsOfEnd ==
  ASSUME NEW S, NEW q \in Seq(S), NEW r \in Seq(S), NEW k \in Nat,
         Len(q) = Len(r) + k, \A i \in 1..Len(r) : r[i] = q[i + k]
  PROVE  Cuts(r) <= Cuts(q) /\ (OpenEnd(r) => OpenEnd(q))
<1>1. Len(r) \in Nat /\ Len(q) \in Nat
  BY LenProperties
<1> DEFINE shift == [i \in CutsOf(r) |-> i + k]
<1>2. ASSUME NEW i \in CutsOf(r) PROVE i \in Nat /\ i + k \in CutsOf(q)
  <2>1. i \in 1..Len(r) /\ i + 1 \in 1..Len(r) /\ r[i].part = "first" /\ r[i + 1].part = "first"
    BY DEF CutsOf
  <2>2. i + k \in 1..Len(q) /\ (i + k) + 1 \in 1..Len(q) /\ (i + k) + 1 = (i + 1) + k
    BY <1>1, <2>1
  <2>3. r[i] = q[i + k] /\ r[i + 1] = q[(i + k) + 1]
    BY <2>1, <2>2
  <2> QED
    BY <2>1, <2>2, <2>3 DEF CutsOf
<1>3. shift \in Injection(CutsOf(r), CutsOf(q))
  <2>1. shift \in [CutsOf(r) -> CutsOf(q)]
    BY <1>2
  <2>2. \A i, j \in CutsOf(r) : shift[i] = shift[j] => i = j
    BY <1>2
  <2> QED
    BY <2>1, <2>2 DEF Injection, IsInjective
<1>4. Cuts(r) <= Cuts(q)
  <2> HIDE DEF shift
  <2> QED
    BY <1>3, CutsType, FS_Injection DEF Cuts
<1>5. OpenEnd(r) => OpenEnd(q)
  BY <1>1 DEF OpenEnd
<1> QED
  BY <1>4, <1>5

(* One piece more: a cut more only if it begins a line and the last piece  *)
(* did too.                                                                *)
IsLonger(r, q, piece) ==
  /\ Len(r) = Len(q) + 1
  /\ \A i \in 1..Len(q) : r[i] = q[i]
  /\ r[Len(q) + 1] = piece

LEMMA CutsOfLonger ==
  ASSUME NEW S, NEW q \in Seq(S), NEW r \in Seq(S), NEW piece, IsLonger(r, q, piece)
  PROVE  /\ Cuts(r) <= Cuts(q) + 1
         /\ piece.part # "first" \/ ~ OpenEnd(q) => Cuts(r) <= Cuts(q)
         /\ OpenEnd(r) <=> piece.part = "first"
<1>1. Len(q) \in Nat /\ Len(r) = Len(q) + 1
  BY LenProperties DEF IsLonger
<1>2. ASSUME NEW i \in CutsOf(r), i \notin CutsOf(q)
      PROVE  i = Len(q) /\ piece.part = "first" /\ OpenEnd(q)
  <2>1. i \in 1..Len(r) /\ i + 1 \in 1..Len(r) /\ r[i].part = "first" /\ r[i + 1].part = "first"
    BY DEF CutsOf
  <2>2. i \in 1..Len(q) /\ r[i] = q[i]
    BY <1>1, <2>1 DEF IsLonger
  <2>3. CASE i + 1 \in 1..Len(q)
    <3>1. r[i + 1] = q[i + 1]
      BY <2>3 DEF IsLonger
    <3> QED
      BY <1>2, <2>1, <2>2, <2>3, <3>1 DEF CutsOf
  <2>4. CASE i + 1 \notin 1..Len(q)
    <3>1. i = Len(q) /\ Len(q) # 0
      BY <1>1, <2>1, <2>2, <2>4
    <3>2. r[i + 1] = piece
      BY <3>1 DEF IsLonger
    <3> QED
      BY <2>1, <2>2, <3>1, <3>2 DEF OpenEnd
  <2> QED
    BY <2>3, <2>4
<1>3. Cuts(r) <= Cuts(q) + 1
  <2>1. CutsOf(r) \in SUBSET (CutsOf(q) \cup {Len(q)})
    BY <1>2
  <2>2. /\ IsFiniteSet(CutsOf(q) \cup {Len(q)})
        /\ Cardinality(CutsOf(q) \cup {Len(q)}) <= Cuts(q) + 1
    <3> DEFINE cuts == CutsOf(q)
               end == Len(q)
    <3>1. IsFiniteSet(cuts) /\ Cardinality(cuts) \in Nat
      BY CutsType DEF Cuts
    <3> HIDE DEF cuts, end
    <3>2. /\ IsFiniteSet(cuts \cup {end})
          /\ Cardinality(cuts \cup {end}) <= Cardinality(cuts) + 1
      <4>1. /\ IsFiniteSet(cuts \cup {end})
            /\ Cardinality(cuts \cup {end})
                 = IF end \in cuts THEN Cardinality(cuts) ELSE Cardinality(cuts) + 1
        BY <3>1, FS_AddElement, Zenon
      <4> QED
        BY <3>1, <4>1
    <3> QED
      BY <3>2 DEF cuts, end, Cuts
  <2> DEFINE more == CutsOf(q) \cup {Len(q)}
  <2>3. Cardinality(CutsOf(r)) <= Cardinality(more) /\ Cardinality(more) \in Nat
    <3>1. IsFiniteSet(more) /\ CutsOf(r) \in SUBSET more
      BY <2>1, <2>2
    <3> HIDE DEF more
    <3> QED
      BY <3>1, FS_Subset, FS_CardinalityType
  <2>4. Cuts(r) \in Nat /\ Cuts(q) \in Nat
    BY CutsType
  <2> QED
    BY <2>2, <2>3, <2>4 DEF Cuts
<1>4. ASSUME piece.part # "first" \/ ~ OpenEnd(q) PROVE Cuts(r) <= Cuts(q)
  <2>1. CutsOf(r) \in SUBSET CutsOf(q)
    BY <1>2, <1>4
  <2> QED
    BY <2>1, CutsType, FS_Subset DEF Cuts
<1>5. OpenEnd(r) <=> piece.part = "first"
  BY <1>1 DEF OpenEnd, IsLonger
<1> QED
  BY <1>3, <1>4, <1>5

IsJoin(q, a, b) ==
  /\ Len(q) = Len(a) + Len(b)
  /\ \A i \in 1..Len(a) : q[i] = a[i]
  /\ \A i \in 1..Len(b) : q[Len(a) + i] = b[i]

LEMMA JoinedFacts ==
  ASSUME NEW S, NEW a \in Seq(S), NEW b \in Seq(S)
  PROVE  a \o b \in Seq(S) /\ IsJoin(a \o b, a, b)
<1>1. Len(a) \in Nat /\ Len(b) \in Nat
  BY LenProperties
<1>2. /\ a \o b \in Seq(S) /\ Len(a \o b) = Len(a) + Len(b)
      /\ \A i \in 1..(Len(a) + Len(b)) :
           (a \o b)[i] = IF i <= Len(a) THEN a[i] ELSE b[i - Len(a)]
  BY ConcatProperties
<1>3. ASSUME NEW i \in 1..Len(a) PROVE (a \o b)[i] = a[i]
  BY <1>1, <1>2
<1>4. ASSUME NEW i \in 1..Len(b) PROVE (a \o b)[Len(a) + i] = b[i]
  <2>1. Len(a) + i \in 1..(Len(a) + Len(b)) /\ ~ (Len(a) + i <= Len(a)) /\ (Len(a) + i) - Len(a) = i
    BY <1>1
  <2> QED
    BY <1>2, <2>1
<1> QED
  BY <1>2, <1>3, <1>4 DEF IsJoin

(* A line begun or finished adds one piece to what the device has and will *)
(* have.                                                                   *)
LEMMA JoinedLonger ==
  ASSUME NEW S, NEW a \in Seq(S), NEW b \in Seq(S), NEW piece \in S
  PROVE  a \o Append(b, piece) \in Seq(S) /\ IsLonger(a \o Append(b, piece), a \o b, piece)
<1> DEFINE c == Append(b, piece)
<1>1. /\ c \in Seq(S) /\ Len(c) = Len(b) + 1 /\ Len(b) \in Nat /\ Len(a) \in Nat
      /\ \A i \in 1..Len(b) : c[i] = b[i]
      /\ c[Len(b) + 1] = piece
  BY AppendProperties, LenProperties
<1> HIDE DEF c
<1> DEFINE old == a \o b
           new == a \o c
<1>2. old \in Seq(S) /\ IsJoin(old, a, b)
  BY JoinedFacts
<1>3. new \in Seq(S) /\ IsJoin(new, a, c)
  BY <1>1, JoinedFacts
<1> HIDE DEF old, new
<1>4. Len(new) = Len(old) + 1 /\ new[Len(old) + 1] = piece
  <2>1. Len(c) \in 1..Len(c) /\ Len(old) + 1 = Len(a) + Len(c)
    BY <1>1, <1>2 DEF IsJoin
  <2> QED
    BY <1>1, <1>2, <1>3, <2>1 DEF IsJoin
<1>5. ASSUME NEW i \in 1..Len(old) PROVE new[i] = old[i]
  <2>1. CASE i \in 1..Len(a)
    BY <1>2, <1>3, <2>1 DEF IsJoin
  <2>2. CASE i \notin 1..Len(a)
    <3> DEFINE j == i - Len(a)
    <3>1. j \in 1..Len(b) /\ j \in 1..Len(c) /\ Len(a) + j = i
      BY <1>1, <1>2, <2>2 DEF IsJoin
    <3> HIDE DEF j
    <3> QED
      BY <1>1, <1>2, <1>3, <3>1 DEF IsJoin
  <2> QED
    BY <2>1, <2>2
<1>6. IsLonger(new, old, piece)
  BY <1>4, <1>5 DEF IsLonger
<1> QED
  BY <1>3, <1>6 DEF new, old, c

-----------------------------------------------------------------------------
(* The steps of the link.                                                  *)

SpoilInv == LinkInv /\ CutsAreFaults

LEMMA JoinedType == ASSUME LinkInv PROVE Joined \in Seq(PiecesOf(Frames))
BY JoinedFacts DEF LinkInv, TypeOK, Joined

(* The reader hands a piece from what comes down to its buffer, or drops   *)
(* what it has together with it.                                           *)
LEMMA ReaderCuts ==
  ASSUME LinkInv, Reader
  PROVE  \/ Joined' = Joined
         \/ Cuts(Joined') <= Cuts(Joined) /\ (OpenEnd(Joined') => OpenEnd(Joined))
<1> DEFINE P == PiecesOf(Frames)
           piece == Head(down)
<1>1. /\ down \in Seq(P) /\ buf \in Seq(P) /\ down # <<>>
      /\ \/ down' = Tail(down) /\ buf' = Append(buf, piece)
         \/ /\ \E n \in 1..Len(down) : down' = SubSeq(down, n + 1, Len(down))
            /\ buf' = <<>>
  <2>1. down \in Seq(P) /\ down # <<>>
    BY DEF LinkInv, TypeOK, Reader
  <2>2. 1 \in 1..Len(down) /\ Tail(down) = SubSeq(down, 1 + 1, Len(down))
    BY <2>1
  <2> QED
    BY <2>1, <2>2 DEF LinkInv, TypeOK, Reader
<1>2. /\ piece \in P /\ Tail(down) \in Seq(P)
      /\ down = <<piece>> \o Tail(down)
  BY <1>1, HeadTailProperties
<1>3. CASE down' = Tail(down) /\ buf' = Append(buf, piece)
  <2>1. Joined' = Append(buf, piece) \o Tail(down)
    BY <1>1, <1>3 DEF Joined
  <2>2. Append(buf, piece) = buf \o <<piece>> /\ <<piece>> \in Seq(P)
    BY <1>1, <1>2, AppendIsConcat
  <2>3. (buf \o <<piece>>) \o Tail(down) = buf \o (<<piece>> \o Tail(down))
    BY <1>1, <1>2, <2>2, ConcatAssociative
  <2> QED
    BY <1>2, <2>1, <2>2, <2>3 DEF Joined
<1>4. ASSUME NEW n \in 1..Len(down), down' = SubSeq(down, n + 1, Len(down)), buf' = <<>>
      PROVE  Cuts(Joined') <= Cuts(Joined) /\ (OpenEnd(Joined') => OpenEnd(Joined))
  <2> DEFINE q == Joined
             r == SubSeq(down, n + 1, Len(down))
             k == Len(buf) + n
  <2>0. Len(down) \in Nat /\ Len(buf) \in Nat /\ n \in Nat /\ n + 1 \in 1..(Len(down) + 1)
    BY <1>1, LenProperties
  <2>1. /\ r \in Seq(P) /\ Len(r) = Len(down) - (n + 1) + 1
        /\ \A i \in 1..(Len(down) - (n + 1) + 1) : r[i] = down[i + (n + 1) - 1]
    BY <1>1, <2>0, Suffixes
  <2>2. Joined' = r
    BY <1>4, <2>1, ConcatEmptySeq DEF Joined
  <2>3. q \in Seq(P) /\ IsJoin(q, buf, down)
    BY <1>1, JoinedFacts DEF Joined
  <2> HIDE DEF q, r
  <2>4. k \in Nat /\ Len(r) \in Nat /\ Len(q) = Len(r) + k
    BY <2>0, <2>1, <2>3 DEF IsJoin
  <2>5. ASSUME NEW i \in 1..Len(r) PROVE r[i] = q[i + k]
    <3>1. /\ i \in 1..(Len(down) - (n + 1) + 1) /\ i + (n + 1) - 1 = i + n
          /\ i + n \in 1..Len(down) /\ Len(buf) + (i + n) = i + k
      BY <2>0, <2>1
    <3> HIDE DEF k
    <3>2. r[i] = down[i + n]
      BY <2>1, <3>1
    <3>3. q[Len(buf) + (i + n)] = down[i + n]
      BY <2>3, <3>1 DEF IsJoin
    <3> QED
      BY <3>1, <3>2, <3>3
  <2> HIDE DEF k
  <2>6. Cuts(r) <= Cuts(q) /\ (OpenEnd(r) => OpenEnd(q))
    BY <2>1, <2>3, <2>4, <2>5, CutsOfEnd
  <2> QED
    BY <2>2, <2>6 DEF q
<1> QED
  BY <1>1, <1>3, <1>4

(* A reboot drops what was in the buffer.                                  *)
LEMMA RebootCuts ==
  ASSUME LinkInv, Reboot
  PROVE  Cuts(Joined') <= Cuts(Joined) /\ (OpenEnd(Joined') => OpenEnd(Joined))
<1> DEFINE P == PiecesOf(Frames)
           q == Joined
<1>1. down \in Seq(P) /\ buf \in Seq(P) /\ down' = down /\ buf' = <<>>
  BY DEF LinkInv, TypeOK, Reboot
<1>2. Joined' = down
  BY <1>1, ConcatEmptySeq DEF Joined
<1>3. q \in Seq(P) /\ IsJoin(q, buf, down)
  BY <1>1, JoinedFacts DEF Joined
<1> HIDE DEF q
<1>4. Len(buf) \in Nat /\ Len(down) \in Nat
  BY <1>1, LenProperties
<1>5. Len(q) = Len(down) + Len(buf) /\ \A i \in 1..Len(down) : down[i] = q[i + Len(buf)]
  <2>1. \A i \in 1..Len(down) : i + Len(buf) = Len(buf) + i
    BY <1>4
  <2> QED
    BY <1>3, <1>4, <2>1 DEF IsJoin
<1>6. Cuts(down) <= Cuts(q) /\ (OpenEnd(down) => OpenEnd(q))
  BY <1>1, <1>3, <1>4, <1>5, CutsOfEnd
<1> QED
  BY <1>2, <1>6 DEF q

LEMMA NoCuts == Cuts(<<>>) = 0 /\ ~ OpenEnd(<<>>)
<1>1. CutsOf(<<>>) = {}
  BY DEF CutsOf
<1>2. Len(<<>>) = 0
  OBVIOUS
<1> QED
  BY <1>1, <1>2, FS_EmptySet DEF Cuts, OpenEnd

LEMMA InitCuts == Init => CutsAreFaults
<1> SUFFICES ASSUME Init PROVE CutsAreFaults
  OBVIOUS
<1>1. Joined = <<>> /\ faults = 0
  BY DEF Init, Joined
<1> QED
  BY <1>1, NoCuts DEF CutsAreFaults

LEMMA NextCuts == SpoilInv /\ [Next]_vars => CutsAreFaults'
<1> SUFFICES ASSUME LinkInv, CutsAreFaults, [Next]_vars PROVE CutsAreFaults'
  BY DEF SpoilInv
<1> DEFINE P == PiecesOf(Frames)
           q == Joined
           r == Joined'
<1>1. q \in Seq(P) /\ r \in Seq(P) /\ LinkInv'
  <2>1. LinkInv'
    BY NextLinkInv
  <2>2. r \in Seq(P)
    BY <2>1, JoinedFacts DEF LinkInv, TypeOK, Joined
  <2> QED
    BY <2>1, <2>2, JoinedType
<1>2. /\ Cuts(q) \in Nat /\ Cuts(r) \in Nat /\ faults \in Nat /\ faults' \in Nat
      /\ Cuts(q) <= faults /\ (writing = Nothing /\ OpenEnd(q) => Cuts(q) + 1 <= faults)
  <2>1. faults \in Nat /\ faults' \in Nat
    BY <1>1, LinkAssumption DEF LinkInv, TypeOK
  <2> QED
    BY <1>1, <2>1, CutsType DEF CutsAreFaults
<1>3. SUFFICES /\ Cuts(r) <= faults'
               /\ writing' = Nothing /\ OpenEnd(r) => Cuts(r) + 1 <= faults'
  BY DEF CutsAreFaults
<1>4. CASE UNCHANGED <<writing, down, buf, faults>>
  BY <1>2, <1>4 DEF Joined
<1>5. CASE Poll
  <2>1. writing = Nothing /\ writing' = state /\ faults' = faults /\ state \in Frames
        /\ buf' = buf /\ down' = Append(down, FirstOf(state))
    BY <1>5 DEF Poll, LinkInv, TypeOK
  <2>2. IsLonger(r, q, FirstOf(state))
    <3>1. FirstOf(state) \in P
      BY <2>1 DEF FirstOf, PiecesOf
    <3> QED
      BY <2>1, <3>1, JoinedLonger DEF Joined, LinkInv, TypeOK
  <2>3. writing' # Nothing
    BY <2>1, LinkAssumption
  <2> HIDE DEF q, r
  <2>4. Cuts(r) <= Cuts(q) + 1 /\ (~ OpenEnd(q) => Cuts(r) <= Cuts(q))
    BY <1>1, <2>2, CutsOfLonger
  <2> QED
    BY <1>2, <2>1, <2>3, <2>4
<1>6. CASE FinishLine
  <2>1. writing \in Frames /\ faults' = faults
        /\ buf' = buf /\ down' = Append(down, RestOf(writing))
    BY <1>6 DEF FinishLine, LinkInv, TypeOK
  <2>2. IsLonger(r, q, RestOf(writing))
    <3>1. RestOf(writing) \in P
      BY <2>1 DEF RestOf, PiecesOf
    <3> QED
      BY <2>1, <3>1, JoinedLonger DEF Joined, LinkInv, TypeOK
  <2>3. RestOf(writing).part # "first"
    BY DEF RestOf
  <2> HIDE DEF q, r
  <2>4. Cuts(r) <= Cuts(q) /\ ~ OpenEnd(r)
    BY <1>1, <2>2, <2>3, CutsOfLonger
  <2> QED
    BY <1>2, <2>1, <2>4
<1>7. CASE Reader
  <2>1. writing' = writing /\ faults' = faults
    BY <1>7 DEF Reader
  <2>2. r = q \/ (Cuts(r) <= Cuts(q) /\ (OpenEnd(r) => OpenEnd(q)))
    BY <1>7, ReaderCuts
  <2> HIDE DEF q, r
  <2> QED
    BY <1>2, <2>1, <2>2
<1>8. CASE Disconnect
  <2>1. r = q /\ faults' = faults + 1
    BY <1>8 DEF Disconnect, Fault, Joined
  <2> HIDE DEF q, r
  <2> QED
    BY <1>2, <2>1
<1>9. CASE Unplug
  <2>1. r = <<>>
    BY <1>9 DEF Unplug, Joined
  <2> HIDE DEF q, r
  <2> QED
    BY <1>2, <2>1, NoCuts
<1>10. CASE Reboot
  <2>1. writing' = writing /\ faults' = faults + 1
    BY <1>10 DEF Reboot, Fault
  <2>2. Cuts(r) <= Cuts(q) /\ (OpenEnd(r) => OpenEnd(q))
    BY <1>10, RebootCuts
  <2> HIDE DEF q, r
  <2> QED
    BY <1>2, <2>1, <2>2
<1>11. CASE \/ HubChanges \/ OpenPort \/ (\E id \in Ids : Tap(id)) \/ PrintRest \/ Lost
             \/ ReadAckStart \/ ForwardAck \/ DropAck
  <2>1. UNCHANGED <<writing, down, buf, faults>>
    BY <1>11 DEF HubChanges, OpenPort, Tap, PrintRest, Lost, ReadAckStart, ForwardAck, DropAck
  <2> QED
    BY <1>4, <2>1
<1>12. CASE UNCHANGED vars
  BY <1>4, <1>12 DEF vars
<1> QED
  BY <1>5, <1>6, <1>7, <1>8, <1>9, <1>10, <1>11, <1>12 DEF Next

-----------------------------------------------------------------------------
(* Each beginning is the last piece, is cut, or is followed by its rest.   *)
LEMMA BegunIsBounded ==
  ASSUME NEW S, NEW q \in Seq(PiecesOf(S))
  PROVE  Begun(q) \in Nat /\ Ended(q) \in Nat /\ Begun(q) <= Ended(q) + Cuts(q) + 1
<1> DEFINE n == Len(q)
           all == 1..n
           begins == Begins(q)
           rests == all \ begins
           followed == {i \in begins : i + 1 \in rests}
           cuts == CutsOf(q)
<1>1. n \in Nat /\ DOMAIN q = all /\ IsFiniteSet(all) /\ Cardinality(all) = n
  <2>1. n \in Nat /\ DOMAIN q = 1..n
    BY LenProperties
  <2>2. 1 \in Int /\ n \in Int
    BY <2>1
  <2> HIDE DEF n
  <2>3. IsFiniteSet(1..n) /\ Cardinality(1..n) = IF 1 > n THEN 0 ELSE n - 1 + 1
    BY <2>2, FS_Interval
  <2> QED
    BY <2>1, <2>3
<1>2. begins = {i \in all : q[i].part = "first"}
  BY <1>1 DEF Begins
<1> HIDE DEF n, begins
<1>3. IsFiniteSet(begins) /\ Cardinality(begins) \in Nat /\ begins \subseteq all
  BY <1>1, <1>2, FS_Subset, FS_CardinalityType
<1>4. IsFiniteSet(rests) /\ Cardinality(rests) = n - Cardinality(begins) /\ Cardinality(rests) \in Nat
  <2>1. all \cap begins = begins
    BY <1>3
  <2> HIDE DEF all
  <2>2. IsFiniteSet(all \ begins)
        /\ Cardinality(all \ begins) = Cardinality(all) - Cardinality(all \cap begins)
    BY <1>1, FS_Difference, Zenon
  <2> HIDE DEF rests
  <2>3. IsFiniteSet(rests) => Cardinality(rests) \in Nat
    BY FS_CardinalityType
  <2> QED
    BY <1>1, <2>1, <2>2, <2>3 DEF rests
<1>5. Cardinality(followed) <= Cardinality(rests)
  <2> DEFINE next == [i \in followed |-> i + 1]
  <2>1. followed \subseteq Nat
    <3>1. \A i \in all : i \in Nat
      BY <1>1
    <3> QED
      BY <1>3, <3>1
  <2>2. next \in [followed -> rests] /\ \A i, j \in followed : next[i] = next[j] => i = j
    BY <2>1
  <2>3. next \in Injection(followed, rests)
    BY <2>2 DEF Injection, IsInjective
  <2> HIDE DEF next, followed, rests
  <2> QED
    BY <1>4, <2>3, FS_Injection
<1>6. begins \subseteq followed \cup (cuts \cup {n})
  <2> SUFFICES ASSUME NEW i \in begins, i # n, i + 1 \notin rests PROVE i \in cuts
    OBVIOUS
  <2>1. i \in all /\ i + 1 \in all /\ q[i].part = "first"
    BY <1>1, <1>2
  <2>2. q[i + 1].part = "first"
    BY <1>2, <2>1
  <2> QED
    BY <2>1, <2>2 DEF CutsOf, n
<1>7. IsFiniteSet(followed) /\ Cardinality(followed) \in Nat
  <2>1. followed \in SUBSET begins
    OBVIOUS
  <2> HIDE DEF followed
  <2> QED
    BY <1>3, <2>1, FS_Subset, FS_CardinalityType
<1>8. IsFiniteSet(cuts) /\ Cardinality(cuts) \in Nat /\ Cuts(q) = Cardinality(cuts)
  BY CutsType DEF Cuts
<1> HIDE DEF followed, cuts, rests, all
<1> DEFINE late == cuts \cup {n}
           both == followed \cup late
<1>9. IsFiniteSet(late) /\ Cardinality(late) \in Nat /\ Cardinality(late) <= Cardinality(cuts) + 1
  <2>1. IsFiniteSet(late) /\ Cardinality(late) <= Cardinality(cuts) + 1
    <3>1. /\ IsFiniteSet(cuts \cup {n})
          /\ Cardinality(cuts \cup {n})
               = IF n \in cuts THEN Cardinality(cuts) ELSE Cardinality(cuts) + 1
      BY <1>8, FS_AddElement, Zenon
    <3> QED
      BY <1>8, <3>1
  <2> HIDE DEF late
  <2> QED
    BY <2>1, FS_CardinalityType
<1> HIDE DEF late
<1>10. IsFiniteSet(both) /\ Cardinality(both) \in Nat
       /\ Cardinality(both) <= Cardinality(followed) + Cardinality(late)
  <2>1. /\ IsFiniteSet(both)
        /\ Cardinality(both) = Cardinality(followed) + Cardinality(late) - Cardinality(followed \cap late)
    BY <1>7, <1>9, FS_Union
  <2>2. Cardinality(followed \cap late) \in Nat
    BY <1>7, FS_Intersection, FS_CardinalityType
  <2>3. Cardinality(both) \in Nat
    <3> HIDE DEF both
    <3> QED
      BY <2>1, FS_CardinalityType
  <2> QED
    BY <1>7, <1>9, <2>1, <2>2, <2>3
<1>11. Cardinality(begins) <= Cardinality(both)
  <2>1. begins \in SUBSET both
    BY <1>6 DEF late
  <2> HIDE DEF both
  <2> QED
    BY <1>10, <2>1, FS_Subset
<1>12. Begun(q) = Cardinality(begins) /\ Ended(q) = Cardinality(rests)
  BY <1>4 DEF Begun, Ended, begins, n
<1> QED
  BY <1>3, <1>4, <1>5, <1>7, <1>8, <1>9, <1>10, <1>11, <1>12

(* Whatever is cut, and wherever: of the lines that the device has or will *)
(* have, one for each fault is without its rest, and the one that is being *)
(* written (serial_bridge.rs's write_all, main.rs's reader thread).        *)
THEOREM FaultsSpoilOneLine == Spec => []OnePiecePerFault
<1>1. Init => SpoilInv
  BY InitLinkInv, InitCuts DEF SpoilInv
<1>2. SpoilInv /\ [Next]_vars => SpoilInv'
  BY NextLinkInv, NextCuts DEF SpoilInv
<1>3. SpoilInv => OnePiecePerFault
  <2> SUFFICES ASSUME SpoilInv PROVE OnePiecePerFault
    OBVIOUS
  <2> DEFINE q == Joined
  <2>1. q \in Seq(PiecesOf(Frames)) /\ Cuts(q) <= faults /\ faults \in Nat
    BY JoinedType, LinkAssumption DEF SpoilInv, CutsAreFaults, LinkInv, TypeOK
  <2> HIDE DEF q
  <2>2. Begun(q) \in Nat /\ Ended(q) \in Nat /\ Begun(q) <= Ended(q) + Cuts(q) + 1 /\ Cuts(q) \in Nat
    BY <2>1, BegunIsBounded, CutsType
  <2>3. Begun(q) <= Ended(q) + faults + 1
    BY <2>1, <2>2
  <2> QED
    BY <2>3 DEF q, OnePiecePerFault, Joined
<1> QED
  BY <1>1, <1>2, <1>3, PTL DEF Spec
=============================================================================
