----------------------------- MODULE SerialLink -----------------------------
(***************************************************************************)
(* The USB link (bridge/src/bin/serial_bridge.rs and the reader thread of  *)
(* firmware/src/main.rs; the write callback of ble.rs reads the same way). *)
(*                                                                         *)
(* serial_bridge polls /state, writes each answer as one line to the       *)
(* port, and posts the acks that the device prints.  A line is cut when    *)
(* the bridge stops in the middle of it: what the device already has of it *)
(* is joined with the next line.  The device finds its way back only at a  *)
(* newline, or by giving up a line that does not fit its buffer.  An ack   *)
(* is cut in the same way when the device is reset while it prints, or     *)
(* when the port is opened or closed between its two halves.               *)
(***************************************************************************)
EXTENDS Naturals, Sequences, FiniteSets

CONSTANTS
  Ids,         (* ids of the sessions                                      *)
  ShortId,     (* [Ids -> names]: the first 12 characters                  *)
  LongFrames,  (* states whose line does not fit the buffer of the device  *)
  MaxWire,     (* bound: pieces of lines under way in one direction        *)
  MaxFaults,   (* bound: disconnections and reboots                        *)
  Mixed,       (* what parse_state makes of pieces of several lines        *)
  Nothing      (* no frame yet, no line begun                              *)

VARIABLES
  state,    (* the hub: [Ids -> Statuses], what /state answers             *)
  open,     (* serial_bridge has the port open                             *)
  writing,  (* the line it is in the middle of, or Nothing                 *)
  down,     (* pieces of lines on their way to the device                  *)
  buf,      (* the pieces in the buffer of the reader                      *)
  shown,    (* the frame that the display loop finds                       *)
  printing, (* the id whose ack the device is in the middle of, or Nothing *)
  up,       (* pieces of lines on their way to the bridge                  *)
  rx,       (* the pieces in the buffer of the bridge                      *)
  faults    (* number of faults so far                                     *)

vars == <<state, open, writing, down, buf, shown, printing, up, rx, faults>>

Statuses == {"waiting", "working"}
Frames == [Ids -> Statuses]

(* The two pieces of a line: with what it begins, and the rest with the    *)
(* newline.  A line carries a frame down, the id of a tapped session up;   *)
(* of a line of the log that comes up only its newline matters, and it is  *)
(* the rest of Nothing.                                                    *)
FirstOf(x) == [part |-> "first", of |-> x]
RestOf(x) == [part |-> "rest", of |-> x]

ASSUME LinkAssumption ==
  /\ LongFrames \subseteq Frames
  /\ MaxWire \in Nat /\ MaxFaults \in Nat
  /\ {Mixed, Nothing} \cap Frames = {} /\ Nothing \notin Ids

-----------------------------------------------------------------------------
Init ==
  /\ state \in Frames
  /\ open = FALSE /\ writing = Nothing
  /\ down = <<>> /\ buf = <<>> /\ shown = Nothing
  /\ printing = Nothing /\ up = <<>> /\ rx = <<>>
  /\ faults = 0

(* The hub's sessions go on.                                               *)
HubChanges ==
  /\ \E f \in Frames : state' = f
  /\ UNCHANGED <<open, writing, down, buf, shown, printing, up, rx, faults>>

(* open_port succeeds; what was read before is forgotten.  Mutant: it is   *)
(* not.                                                                    *)
OpenWithoutClear ==
  /\ ~open
  /\ open' = TRUE
  /\ UNCHANGED <<state, writing, down, buf, shown, printing, up, rx, faults>>
OpenPort ==
  /\ ~open
  /\ open' = TRUE
  /\ rx' = <<>>
  /\ UNCHANGED <<state, writing, down, buf, shown, printing, up, faults>>

(* The poll: get_state answers, and make_mini's line begins to go out.     *)
(* When it does not answer nothing is written.                             *)
Poll ==
  /\ open /\ writing = Nothing /\ Len(down) < MaxWire
  /\ writing' = state
  /\ down' = Append(down, FirstOf(state))
  /\ UNCHANGED <<state, open, buf, shown, printing, up, rx, faults>>

(* write_all goes on.  Mutant: it does not matter if no line has begun.    *)
FinishUnbegun ==
  /\ open
  /\ writing' = Nothing
  /\ down' = Append(down, RestOf(writing))
  /\ UNCHANGED <<state, open, buf, shown, printing, up, rx, faults>>
FinishLine ==
  /\ open /\ writing # Nothing
  /\ writing' = Nothing
  /\ down' = Append(down, RestOf(writing))
  /\ UNCHANGED <<state, open, buf, shown, printing, up, rx, faults>>

(* What the reader makes of a line: of a whole one, its frame.  In a line  *)
(* joined from several, parse_state takes whatever it finds first, which   *)
(* may be any of the frames begun there or a mixture; a line that is not   *)
(* UTF-8 or does not begin with a brace is ignored.                        *)
Begins(line) == {i \in DOMAIN line : line[i].part = "first"}
Parse(line) ==
  IF Len(line) = 2 /\ line[1] = FirstOf(line[2].of) THEN {line[2].of}
  ELSE {shown, Mixed} \cup {line[i].of : i \in Begins(line)}

(* The reader: what does not fit the buffer empties it, and whatever came  *)
(* in the same read is dropped with it, newlines too; a newline hands the  *)
(* line over.  Mutants: a full buffer stays full; a line that was handed   *)
(* over stays in the buffer.                                               *)
Overflows(piece) ==
  piece.of \in LongFrames \/ Len(buf) > (IF piece.part = "first" THEN 0 ELSE 1)
ReaderSticks ==
  /\ down # <<>>
  /\ LET piece == Head(down) IN
     /\ down' = Tail(down)
     /\ \/ /\ piece.part = "first"
           /\ piece.of \in LongFrames \/ buf # <<>>
           /\ buf' = <<FirstOf(Nothing)>> /\ UNCHANGED shown
        \/ /\ piece.part = "first" /\ piece.of \notin LongFrames
           /\ buf # <<FirstOf(Nothing)>>
           /\ buf' = Append(buf, piece) /\ UNCHANGED shown
        \/ /\ piece.part = "rest" /\ buf # <<FirstOf(Nothing)>>
           /\ buf' = <<>> /\ shown' \in Parse(Append(buf, piece))
        \/ /\ buf = <<FirstOf(Nothing)>> /\ UNCHANGED <<buf, shown>>
  /\ UNCHANGED <<state, open, writing, printing, up, rx, faults>>
ReaderKeepsLine ==
  /\ down # <<>>
  /\ down' = Tail(down)
  /\ buf' = IF Head(down).part = "first" THEN Append(buf, Head(down)) ELSE buf
  /\ shown' \in IF Head(down).part = "first" THEN {shown}
                ELSE Parse(Append(buf, Head(down)))
  /\ UNCHANGED <<state, open, writing, printing, up, rx, faults>>
Reader ==
  /\ down # <<>>
  /\ LET piece == Head(down) IN
     \/ /\ Overflows(piece)
        /\ \E n \in 1..Len(down) : down' = SubSeq(down, n + 1, Len(down))
        /\ buf' = <<>> /\ UNCHANGED shown
     \/ /\ piece.part = "first" /\ piece.of \notin LongFrames
        /\ down' = Tail(down)
        /\ buf' = Append(buf, piece) /\ UNCHANGED shown
     \/ /\ piece.part = "rest"
        /\ down' = Tail(down)
        /\ buf' = <<>> /\ shown' \in Parse(Append(buf, piece))
  /\ UNCHANGED <<state, open, writing, printing, up, rx, faults>>

(* The user taps "Clear waiting" under a session: send_ack begins to print *)
(* the name that came with the row ...                                     *)
Tap(id) ==
  /\ shown \in Frames /\ shown[id] = "waiting"
  /\ printing = Nothing /\ Len(up) < MaxWire
  /\ printing' = id
  /\ up' = Append(up, FirstOf(id))
  /\ UNCHANGED <<state, open, writing, down, buf, shown, rx, faults>>

(* ... and goes on to the newline, if the device is not reset.             *)
PrintRest ==
  /\ printing # Nothing
  /\ printing' = Nothing
  /\ up' = Append(up, RestOf(printing))
  /\ UNCHANGED <<state, open, writing, down, buf, shown, rx, faults>>

(* While nobody reads, what was printed may be lost, the oldest first.     *)
Lost ==
  /\ ~open /\ up # <<>>
  /\ up' = Tail(up)
  /\ UNCHANGED <<state, open, writing, down, buf, shown, printing, rx, faults>>

(* Store::ack, of whatever name.                                           *)
Acked(name) ==
  [id \in Ids |-> IF id = name THEN "working" ELSE state[id]]

(* Between two polls the bridge reads what the device has printed.         *)
Reads == open /\ writing = Nothing /\ up # <<>>

(* It reads the first piece of a line.                                     *)
ReadAckStart ==
  /\ Reads /\ Head(up).part = "first"
  /\ up' = Tail(up)
  /\ rx' = Append(rx, Head(up))
  /\ UNCHANGED <<state, open, writing, down, buf, shown, printing, faults>>

(* It reads the newline.  extract_ack_id takes the first id of the line,   *)
(* post_ack posts it and the hub acknowledges the session of that name.    *)
ForwardAck ==
  /\ Reads /\ Head(up).part = "rest" /\ rx # <<>>
  /\ up' = Tail(up)
  /\ rx' = <<>>
  /\ state' = Acked(ShortId[rx[1].of])
  /\ UNCHANGED <<open, writing, down, buf, shown, printing, faults>>

(* Or there is no id in the line, or the request fails: it is not retried. *)
DropAck ==
  /\ Reads /\ Head(up).part = "rest"
  /\ up' = Tail(up)
  /\ rx' = <<>>
  /\ UNCHANGED <<state, open, writing, down, buf, shown, printing, faults>>

Fault == faults < MaxFaults /\ faults' = faults + 1

(* The bridge loses the port or is restarted, in the middle of a line or   *)
(* not.  The device keeps what it has, and prints into the void.           *)
Disconnect ==
  /\ Fault /\ open
  /\ open' = FALSE /\ writing' = Nothing
  /\ \E i \in 1..(Len(up) + 1) : up' = SubSeq(up, i, Len(up))
  /\ UNCHANGED <<state, down, buf, shown, printing, rx>>

(* The cable is pulled, and with it the power of the device.               *)
Unplug ==
  /\ Fault
  /\ open' = FALSE /\ writing' = Nothing
  /\ down' = <<>> /\ up' = <<>> /\ buf' = <<>>
  /\ shown' = Nothing /\ printing' = Nothing
  /\ UNCHANGED <<state, rx>>

(* The device is reset, in the middle of an ack or not; the bridge does    *)
(* not notice and reads on.  What it hears next is the log of the boot,    *)
(* whose first newline ends the half of an ack that was printed.  Mutant:  *)
(* the device boots in silence.                                            *)
RebootSilently ==
  /\ Fault
  /\ buf' = <<>> /\ shown' = Nothing /\ printing' = Nothing
  /\ UNCHANGED <<state, open, writing, down, up, rx>>
Reboot ==
  /\ Fault
  /\ buf' = <<>> /\ shown' = Nothing /\ printing' = Nothing
  /\ up' = Append(up, RestOf(Nothing))
  /\ UNCHANGED <<state, open, writing, down, rx>>

Next ==
  \/ HubChanges
  \/ OpenPort \/ Poll \/ FinishLine
  \/ Reader
  \/ (\E id \in Ids : Tap(id)) \/ PrintRest \/ Lost
  \/ ReadAckStart \/ ForwardAck \/ DropAck
  \/ Disconnect \/ Unplug \/ Reboot

Spec == Init /\ [][Next]_vars

(* The bridge retries the port, polls again and again, and finishes its    *)
(* lines unless it is interrupted; the reader thread reads on.             *)
FairSpec ==
  /\ Spec
  /\ WF_vars(OpenPort) /\ WF_vars(Poll) /\ WF_vars(FinishLine)
  /\ WF_vars(Reader)

-----------------------------------------------------------------------------
PiecesOf(S) == [part : {"first", "rest"}, of : S]

(* Type invariant of the link and its two ends: only frames go down, only  *)
(* ids and lines of the log come up.                                       *)
TypeOK ==
  /\ state \in Frames /\ open \in BOOLEAN
  /\ writing \in Frames \cup {Nothing}
  /\ shown \in Frames \cup {Mixed, Nothing} /\ printing \in Ids \cup {Nothing}
  /\ down \in Seq(PiecesOf(Frames)) /\ buf \in Seq(PiecesOf(Frames))
  /\ up \in Seq(PiecesOf(Ids \cup {Nothing})) /\ rx \in Seq(PiecesOf(Ids \cup {Nothing}))
  /\ faults \in 0..MaxFaults

(* Each interruption leaves at most one piece without its newline, in the  *)
(* buffer of the reader or before it: a fault spoils one line, not a       *)
(* growing number of them.                                                 *)
Begun(q) == Cardinality(Begins(q))
Ended(q) == Len(q) - Begun(q)
OnePiecePerFault == Begun(buf \o down) <= Ended(buf \o down) + faults + 1

(* An ack is never glued together from two acks: neither what the bridge   *)
(* has read of one before it lost the port, nor the half that a device     *)
(* printed before it was reset, begins the next one (serial_bridge.rs      *)
(* keeps what it has read of a line until its newline).                    *)
AcksAreWhole == Len(rx) <= 1

(* However the link has been interrupted, a frame that fits the device and *)
(* that the hub stays with is on the device in the end, and stays there.   *)
LinkRecovers ==
  \A f \in Frames \ LongFrames : <>[](state = f) => <>[](shown = f)

(* docs/architecture.md says of an ack that comes back over serial that    *)
(* serial_bridge calls POST /ack, which clears the session's waiting flag. *)
AckClears ==
  [][\A id \in Ids :
       (ForwardAck /\ rx = <<FirstOf(id)>>) => state'[id] # "waiting"]_vars
=============================================================================
