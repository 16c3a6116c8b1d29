---------------------------- MODULE CaptureSession ----------------------------
(***************************************************************************)
(* CaptureControl with its data: the packets pcap delivers, the lines      *)
(* startCapture appends to input.txt through a buffered stream, the list   *)
(* packetManager keeps across captures, and the end of the process at any  *)
(* moment (the menus offer no exit: the console window is closed).         *)
(***************************************************************************)
EXTENDS CaptureControl, SequencesExt

CONSTANTS
  MaxLines,    \* bound: packets, and lines, of one capture
  MaxListed    \* bound: packets in the list

ASSUME SessionAssumption == MaxLines \in Nat /\ MaxListed \in Nat

VARIABLES
  delivered,        \* packets pcap has delivered to this capture
  result,           \* what the last pcap_next_ex returned
  lines,            \* packet numbers of the lines inputOut has accepted
  flushed,          \* how many of them are complete on disk
  torn,             \* the disk ends in a piece of a line
  good,             \* inputOut.good(); FALSE once a write to disk has failed
  capturedPackets,  \* the total startCapture prints
  packets           \* packetManager: <<session, packet number>> of each entry

file == <<lines, flushed, torn, good, capturedPackets>>
data == <<delivered, result, file, packets>>
sessionVars == <<vars, data>>

SessionInit ==
  /\ Init
  /\ delivered = 0
  /\ result = "timeout"
  /\ lines = <<>>
  /\ flushed = 0
  /\ torn = FALSE
  /\ good = TRUE
  /\ capturedPackets = 0
  /\ packets = <<>>

-----------------------------------------------------------------------------
(* inputOut *)

\* Seeded defect: the file is opened to append.
OpenToAppend ==
  /\ capturedPackets' = 0
  /\ delivered' = 0
  /\ result' = "timeout"
  /\ UNCHANGED <<lines, flushed, torn, good>>

\* Seeded defect: the file is cut and the write position stays.
KeepPosition ==
  /\ lines' = <<>>
  /\ torn' = FALSE
  /\ good' = TRUE
  /\ capturedPackets' = 0
  /\ delivered' = 0
  /\ result' = "timeout"
  /\ UNCHANGED flushed

\* ios::trunc, and the locals of a new capture
Truncate ==
  /\ lines' = <<>>
  /\ flushed' = 0
  /\ torn' = FALSE
  /\ good' = TRUE
  /\ capturedPackets' = 0
  /\ delivered' = 0
  /\ result' = "timeout"

\* The buffer goes to disk in blocks that do not end where lines end.
Accept(n) ==
  /\ lines' = Append(lines, n)
  /\ flushed' \in flushed..Len(lines')
  /\ torn' \in BOOLEAN
  /\ torn' => flushed' < Len(lines')
  /\ torn /\ flushed' = flushed => torn'
  /\ capturedPackets' = capturedPackets + 1
  /\ UNCHANGED good

\* Seeded defect: the error is cleared and the capture goes on writing.
ClearError ==
  /\ flushed' \in flushed..Len(lines)
  /\ lines' = SubSeq(lines, 1, flushed')
  /\ torn' = FALSE
  /\ UNCHANGED <<good, capturedPackets>>

\* The disk takes a part of the buffer and the rest of it is lost; the line
\* being added is not counted and badbit stays for the rest of the capture.
WriteFails ==
  /\ flushed' \in flushed..Len(lines)
  /\ lines' = SubSeq(lines, 1, flushed')
  /\ torn' \in BOOLEAN
  /\ good' = FALSE
  /\ UNCHANGED capturedPackets

\* Seeded defect: only a packet of a known type is written.
SkipsUnknown(n) ==
  IF frame = "unknown" THEN UNCHANGED file
  ELSE (good /\ Accept(n)) \/ (good /\ WriteFails) \/ (~good /\ UNCHANGED file)

AppendCapturedPacketLine(n) ==
  \/ good /\ Accept(n)
  \/ good /\ WriteFails
  \/ ~good /\ UNCHANGED file

\* if (header && pktData && header->caplen > 0)
Record ==
  IF frame = "none" THEN UNCHANGED file ELSE AppendCapturedPacketLine(delivered)

\* Seeded defect: the stream is left unflushed when startCapture returns.
LeaveBuffer == UNCHANGED file

\* flush and close, or only the destructor after a read error: either way the
\* buffer is written, and a failure goes unnoticed.
CloseFile ==
  \/ /\ good
     /\ flushed' = Len(lines)
     /\ torn' = FALSE
     /\ UNCHANGED <<lines, good, capturedPackets>>
  \/ good /\ flushed < Len(lines) /\ WriteFails
  \/ ~good /\ UNCHANGED file

-----------------------------------------------------------------------------
(* The actions of CaptureControl and what they do to the data. *)

SessionOpenInput ==
  /\ OpenInput
  /\ IF pc' = "top" THEN Truncate ELSE UNCHANGED <<delivered, result, file>>
  /\ UNCHANGED packets

SessionReadTimeout ==
  /\ ReadTimeout
  /\ result' = "timeout"
  /\ UNCHANGED <<delivered, file, packets>>

Room == Len(lines) < MaxLines /\ Len(packets) < MaxListed

SessionReadPacket ==
  /\ Room /\ delivered < MaxLines
  /\ \E k \in Kinds : ReadPacket(k)
  /\ delivered' = delivered + 1
  /\ result' = "packet"
  /\ UNCHANGED <<file, packets>>

SessionReadError ==
  /\ Room
  /\ ReadError
  /\ result' = "error"
  /\ UNCHANGED <<delivered, file, packets>>

SessionParseThrows ==
  /\ ParseThrows
  /\ Record
  /\ UNCHANGED <<delivered, result, packets>>

SessionProcess ==
  /\ Process
  /\ Record
  /\ packets' = IF frame = "parsed" THEN Append(packets, <<session, delivered>>)
                                    ELSE packets
  /\ UNCHANGED <<delivered, result>>

SessionFinish ==
  /\ Finish
  /\ CloseFile
  /\ UNCHANGED <<delivered, result, packets>>

\* The process ends: its memory and its pcap handles are gone, the disk stays.
\* The next one starts with an empty list.
Crash ==
  /\ pc # "idle"
  /\ pc' = "idle"
  /\ handle' = 0
  /\ localHandle' = 0
  /\ opened' = {}
  /\ frame' = "none"
  /\ timeoutCount' = 0
  /\ stopRequested' = FALSE
  /\ listed' = FALSE
  /\ keys' = <<>>
  /\ lines' = SubSeq(lines, 1, flushed)
  /\ packets' = <<>>
  /\ UNCHANGED <<session, delivered, result, flushed, torn, good, capturedPackets>>

NoData ==   \* the steps that touch no data
  \/ Open \/ TestOpened \/ SetFilter \/ ClearFailed
  \/ TestHandle \/ CopyHandle \/ LeaveLoop
  \/ PollKey \/ Prompt \/ Display \/ RefuseIndex \/ AcceptIndex \/ CloseDetail
  \/ \E k \in Key : Press(k)

SessionNext ==
  \/ NoData /\ UNCHANGED data
  \/ SessionOpenInput
  \/ SessionReadTimeout \/ SessionReadPacket \/ SessionReadError
  \/ SessionParseThrows \/ SessionProcess
  \/ SessionFinish
  \/ Crash

SessionSpec == SessionInit /\ [][SessionNext]_sessionVars

-----------------------------------------------------------------------------
Log == INSTANCE CaptureLog WITH disk <- SubSeq(lines, 1, flushed)

(* Every variable has its type; what is flushed is a part of what was       *)
(* accepted.                                                                *)
SessionTypeOK ==
  /\ TypeOK
  /\ delivered \in Nat
  /\ result \in {"packet", "timeout", "error"}
  /\ lines \in Seq(Nat)
  /\ flushed \in 0..Len(lines)
  /\ torn \in BOOLEAN
  /\ good \in BOOLEAN
  /\ capturedPackets \in Nat
  /\ packets \in Seq(Nat \X Nat)

(* input.txt, read at any moment (during the capture, after it, after the   *)
(* process was killed or the disk was full) is a gapless log of the latest  *)
(* capture that set a file up, and only grows until the next one.           *)
DiskIsLog == Log!LogSpec

LastRecorded == IF lines = <<>> THEN 0 ELSE lines[Len(lines)]
Pending == IF pc = "process" /\ result = "packet" THEN 1 ELSE 0

(* While no write has failed, every packet pcap delivered is in the file or *)
(* its buffer, except the one startCapture is just looking at: whatever the *)
(* factory and the parser make of a packet, it is recorded first            *)
(* (PacketCapture.cpp:129 before 145-157).                                  *)
NothingLost ==
  good /\ pc \in Loop \cup {"finish"} =>
    /\ Log!Gapless(lines)
    /\ LastRecorded + Pending = delivered

(* The total printed at the end of a capture is the number of lines a       *)
(* reader of the file finds, unless a write failed: nothing is left in the  *)
(* buffer when startCapture returns, on whichever of its paths.             *)
TotalIsOnDisk ==
  good /\ pc = "idle" /\ handle # 0 =>
    flushed = Len(lines) /\ ~torn /\ capturedPackets = Len(lines)

(* What the user sees in the list of the current capture is in the file:    *)
(* packetManager never runs ahead of input.txt.                             *)
ListedIsRecorded ==
  good => \A i \in 1..Len(packets) :
            packets[i][1] = session => \E j \in 1..Len(lines) : lines[j] = packets[i][2]

(* A packet is written a second time only if pcap reported a read error     *)
(* after it: a timeout, a key, a failed write or a packet whose Parse       *)
(* throws never leads to a line that is there already.                      *)
RepeatsOnlyOnError ==
  [][Len(lines') > Len(lines) /\ lines'[Len(lines')] = LastRecorded
       => result = "error"]_sessionVars

(* README.md:104 and 129: each packet captured is written out, once.        *)
RecordedOnce ==
  \A i, j \in 1..Len(lines) : lines[i] = lines[j] => i = j
=============================================================================
