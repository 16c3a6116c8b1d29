------------------------- MODULE CaptureSessionProofs -------------------------
(***************************************************************************)
(* What input.txt holds, for any number of captures, packets, read errors, *)
(* full disks and ends of the process at any step.                         *)
(***************************************************************************)
EXTENDS CaptureSession, CaptureControlProofs, SequenceTheorems

\* The lines are packets that were delivered, in order and without a gap.
FileInv ==
  /\ Log!Gapless(lines)
  /\ \A i \in 1..Len(lines) : lines[i] \in 1..delivered

\* During a capture: a frame is there once a packet was delivered, and the
\* last line and the count are those of the last packet that was recorded.
CaptureInv ==
  pc \in Loop \cup {"finish"} =>
    /\ frame = "none" <=> delivered = 0
    /\ good => LastRecorded + Pending = delivered /\ capturedPackets = Len(lines)

\* A capture that is being set up has listed nothing yet.
ListInv ==
  /\ ListedIsRecorded
  /\ \A i \in 1..Len(packets) : packets[i][1] <= session
  /\ pc \in Setup => /\ frame = "none"
                     /\ \A i \in 1..Len(packets) : packets[i][1] < session

SessionInv ==
  ControlInv /\ SessionTypeOK /\ FileInv /\ CaptureInv /\ ListInv /\ TotalIsOnDisk

-----------------------------------------------------------------------------
(* Sequences *)

\* What cutting a sequence does.
LEMMA CutIs ==
  ASSUME NEW s \in Seq(Nat), NEW k \in 0..Len(s)
  PROVE  /\ SubSeq(s, 1, k) \in Seq(Nat)
         /\ Len(SubSeq(s, 1, k)) = k
         /\ \A i \in 1..k : SubSeq(s, 1, k)[i] = s[i]
<1>1. \A i \in 1..k : s[i] \in Nat BY ElementOfSeq
<1> QED BY <1>1, SubSeqProperties

\* A log that is cut is a log.
LEMMA GaplessCut ==
  ASSUME NEW s \in Seq(Nat), NEW k \in 0..Len(s), Log!Gapless(s)
  PROVE  Log!Gapless(SubSeq(s, 1, k))
<1> DEFINE t == SubSeq(s, 1, k)
<1>1. Len(t) = k /\ \A i \in 1..k : t[i] = s[i] BY CutIs
<1>2. ASSUME NEW i \in 1..Len(t)
      PROVE  t[i] = 1 \/ (i > 1 /\ t[i] \in {t[i-1], t[i-1] + 1})
  <2>1. i \in 1..Len(s) /\ t[i] = s[i] BY <1>1
  <2>2. CASE s[i] = 1 BY <2>1, <2>2
  <2>3. CASE i > 1 /\ s[i] \in {s[i-1], s[i-1] + 1}
    <3>1. i - 1 \in 1..k BY <1>1, <2>3
    <3>2. t[i-1] = s[i-1] BY <1>1, <3>1
    <3> QED BY <2>1, <2>3, <3>2
  <2> QED BY <2>1, <2>2, <2>3 DEF Log!Gapless
<1> QED BY <1>2 DEF Log!Gapless

\* A log stays one when the next packet, or the last one again, is added.
LEMMA GaplessAppend ==
  ASSUME NEW s \in Seq(Nat), NEW n \in Nat, Log!Gapless(s),
         n = 1 \/ (s # <<>> /\ n \in {s[Len(s)], s[Len(s)] + 1})
  PROVE  Log!Gapless(Append(s, n))
<1> DEFINE t == Append(s, n)
<1>1. /\ Len(t) = Len(s) + 1 /\ t[Len(s) + 1] = n
      /\ \A i \in 1..Len(s) : t[i] = s[i]
  BY AppendProperties
<1>2. ASSUME NEW i \in 1..Len(t)
      PROVE  t[i] = 1 \/ (i > 1 /\ t[i] \in {t[i-1], t[i-1] + 1})
  <2>1. CASE i \in 1..Len(s)
    <3>1. CASE s[i] = 1 BY <1>1, <2>1, <3>1
    <3>2. CASE i > 1 /\ s[i] \in {s[i-1], s[i-1] + 1}
      <4>1. i - 1 \in 1..Len(s) BY <2>1, <3>2
      <4> QED BY <1>1, <2>1, <3>2, <4>1
    <3> QED BY <2>1, <3>1, <3>2 DEF Log!Gapless
  <2>2. CASE i = Len(s) + 1
    <3>1. CASE n = 1 BY <1>1, <2>2, <3>1
    <3>2. CASE s # <<>> /\ n \in {s[Len(s)], s[Len(s)] + 1}
      <4>1. Len(s) \in 1..Len(s) /\ i - 1 = Len(s) BY <2>2, <3>2, LenProperties
      <4> QED BY <1>1, <2>2, <3>2, <4>1
    <3> QED BY <3>1, <3>2
  <2>3. i \in 1..Len(s) \/ i = Len(s) + 1 BY <1>1, LenProperties
  <2> QED BY <2>1, <2>2, <2>3
<1> QED BY <1>2 DEF Log!Gapless

-----------------------------------------------------------------------------
(* The file *)

FileTypeOK ==
  /\ lines \in Seq(Nat)
  /\ flushed \in 0..Len(lines)
  /\ torn \in BOOLEAN
  /\ good \in BOOLEAN
  /\ capturedPackets \in Nat

\* A line that is accepted goes to the end of the log.
LEMMA AcceptKeeps ==
  ASSUME FileTypeOK, FileInv, Accept(delivered), delivered \in Nat \ {0},
         UNCHANGED delivered, delivered \in {LastRecorded, LastRecorded + 1}
  PROVE  /\ FileTypeOK' /\ FileInv'
         /\ good' = good
         /\ capturedPackets' = capturedPackets + 1
         /\ Len(lines') = Len(lines) + 1
         /\ LastRecorded' = delivered
         /\ \A i \in 1..Len(lines) : lines'[i] = lines[i]
         /\ lines'[Len(lines) + 1] = delivered
<1>1. lines' = Append(lines, delivered) BY DEF Accept
<1>2. /\ lines' \in Seq(Nat)
      /\ lines' # <<>>
      /\ Len(lines') = Len(lines) + 1
      /\ \A i \in 1..Len(lines) : lines'[i] = lines[i]
      /\ lines'[Len(lines) + 1] = delivered
  BY <1>1, AppendProperties DEF FileTypeOK
<1>3. torn' \in BOOLEAN /\ good' = good BY DEF Accept
<1>4. FileTypeOK'
  <2>1. flushed' \in 0..Len(lines') BY <1>2 DEF Accept, FileTypeOK
  <2>2. capturedPackets' \in Nat BY DEF Accept, FileTypeOK
  <2>3. good' \in BOOLEAN BY <1>3 DEF FileTypeOK
  <2> QED BY <1>2, <1>3, <2>1, <2>2, <2>3, Zenon DEF FileTypeOK
<1>5. FileInv'
  <2>1. delivered = 1 \/ (lines # <<>> /\ delivered \in {lines[Len(lines)], lines[Len(lines)] + 1})
    BY DEF LastRecorded
  <2>2. Log!Gapless(Append(lines, delivered))
    BY <2>1, GaplessAppend DEF FileInv, FileTypeOK
  <2>3. ASSUME NEW i \in 1..Len(lines') PROVE lines'[i] \in 1..delivered'
    <3>1. CASE i \in 1..Len(lines) BY <1>2, <3>1 DEF FileInv
    <3>2. CASE i = Len(lines) + 1 BY <1>2, <3>2
    <3>3. i \in 1..Len(lines) \/ i = Len(lines) + 1 BY <1>2, LenProperties DEF FileTypeOK
    <3> QED BY <3>1, <3>2, <3>3
  <2>4. Log!Gapless(lines)' BY <1>1, <2>2 DEF Log!Gapless
  <2> QED BY <2>3, <2>4 DEF FileInv
<1>6. LastRecorded' = delivered BY <1>2 DEF LastRecorded
<1>7. capturedPackets' = capturedPackets + 1 BY DEF Accept
<1> QED BY <1>2, <1>3, <1>4, <1>5, <1>6, <1>7

\* A file that is cut, by a failing write or the end of the process, holds a
\* shorter log.
LEMMA CutKeeps ==
  ASSUME FileTypeOK, FileInv, NEW k \in 0..Len(lines),
         lines' = SubSeq(lines, 1, k), UNCHANGED delivered
  PROVE  lines' \in Seq(Nat) /\ Len(lines') = k /\ FileInv'
<1>1. /\ lines' \in Seq(Nat)
      /\ Len(lines') = k
      /\ \A i \in 1..k : lines'[i] = lines[i]
  BY CutIs DEF FileTypeOK
<1>2. Log!Gapless(SubSeq(lines, 1, k)) BY GaplessCut DEF FileInv, FileTypeOK
<1>3. Log!Gapless(lines)' BY <1>2 DEF Log!Gapless
<1>4. \A i \in 1..Len(lines') : lines'[i] \in 1..delivered'
  BY <1>1 DEF FileInv, FileTypeOK
<1> QED BY <1>1, <1>3, <1>4 DEF FileInv

\* A failing write leaves a log, and a stream that refuses everything.
LEMMA WriteFailsKeeps ==
  ASSUME FileTypeOK, FileInv, WriteFails, UNCHANGED delivered
  PROVE  FileTypeOK' /\ FileInv' /\ good' = FALSE
<1>1. flushed' \in 0..Len(lines) /\ lines' = SubSeq(lines, 1, flushed')
  BY DEF WriteFails, FileTypeOK
<1>2. lines' \in Seq(Nat) /\ Len(lines') = flushed' /\ FileInv' BY <1>1, CutKeeps
<1>3. flushed' \in 0..Len(lines')
  <2>1. Len(lines) \in Nat BY LenProperties DEF FileTypeOK
  <2>2. flushed' \in Nat /\ 0 <= flushed' BY <1>1, <2>1
  <2>3. flushed' \in 0..flushed' BY <2>2
  <2>4. Len(lines') = flushed' BY <1>2
  <2> QED BY <2>3, <2>4
<1>4. torn' \in BOOLEAN /\ good' = FALSE /\ capturedPackets' = capturedPackets
  BY DEF WriteFails
<1>5. good' \in BOOLEAN BY <1>4
<1> QED BY <1>2, <1>3, <1>4, <1>5, Zenon DEF FileTypeOK

\* Recording a packet puts it into the log or makes the stream bad.
LEMMA RecordKeeps ==
  ASSUME FileTypeOK, FileInv, Record, delivered \in Nat, UNCHANGED delivered,
         frame = "none" <=> delivered = 0,
         good => delivered \in {LastRecorded, LastRecorded + 1}
  PROVE  /\ FileTypeOK' /\ FileInv'
         /\ good' => good
         /\ frame = "none" => UNCHANGED file
         /\ good' /\ frame # "none" =>
              /\ capturedPackets' = capturedPackets + 1
              /\ Len(lines') = Len(lines) + 1
              /\ LastRecorded' = delivered
              /\ \A i \in 1..Len(lines) : lines'[i] = lines[i]
              /\ lines'[Len(lines) + 1] = delivered
<1>1. CASE UNCHANGED file
  <2>1. FileTypeOK' /\ good' = good BY <1>1 DEF file, FileTypeOK
  <2>2. FileInv' BY <1>1 DEF file, FileInv, Log!Gapless
  <2>3. frame # "none" => ~good
    <3> SUFFICES ASSUME frame # "none", good PROVE FALSE OBVIOUS
    <3>1. Accept(delivered) \/ WriteFails
      BY DEF Record, AppendCapturedPacketLine
    <3>2. CASE Accept(delivered)
      BY <1>1, <3>2 DEF file, Accept, FileTypeOK
    <3>3. CASE WriteFails BY <1>1, <3>3 DEF file, WriteFails
    <3> QED BY <3>1, <3>2, <3>3
  <2> QED BY <1>1, <2>1, <2>2, <2>3
<1>2. CASE good /\ frame # "none" /\ Accept(delivered)
  <2>1. delivered \in Nat \ {0} BY <1>2
  <2> QED BY <1>2, <2>1, AcceptKeeps
<1>3. CASE frame # "none" /\ good /\ WriteFails
  BY <1>3, WriteFailsKeeps
<1> QED BY <1>1, <1>2, <1>3 DEF Record, AppendCapturedPacketLine

\* Closing the file writes out all of it or makes the stream bad.
LEMMA CloseKeeps ==
  ASSUME FileTypeOK, FileInv, CloseFile, UNCHANGED delivered
  PROVE  /\ FileTypeOK' /\ FileInv'
         /\ good' => /\ good /\ flushed' = Len(lines') /\ ~torn'
                     /\ UNCHANGED <<lines, capturedPackets>>
<1>1. CASE good /\ WriteFails BY <1>1, WriteFailsKeeps
<1>2. CASE ~good /\ UNCHANGED file
  BY <1>2 DEF file, FileTypeOK, FileInv, Log!Gapless
<1>3. CASE /\ good /\ flushed' = Len(lines) /\ torn' = FALSE
           /\ UNCHANGED <<lines, good, capturedPackets>>
  <2>1. torn' \in BOOLEAN /\ good' \in BOOLEAN BY <1>3 DEF FileTypeOK
  <2>2. flushed' \in 0..Len(lines') BY <1>3, LenProperties DEF FileTypeOK
  <2>3. FileTypeOK' BY <1>3, <2>1, <2>2 DEF FileTypeOK
  <2>4. FileInv' BY <1>3 DEF FileInv, Log!Gapless
  <2> QED BY <1>3, <2>3, <2>4
<1> QED BY <1>1, <1>2, <1>3 DEF CloseFile

-----------------------------------------------------------------------------
(* The invariant of the session *)

\* SessionTypeOK, by what it is about.
DataTypeOK ==
  /\ delivered \in Nat
  /\ result \in {"packet", "timeout", "error"}
  /\ packets \in Seq(Nat \X Nat)

\* The type invariant is that of the control, the file and the rest.
LEMMA TypeParts == SessionTypeOK <=> TypeOK /\ FileTypeOK /\ DataTypeOK
BY DEF SessionTypeOK, FileTypeOK, DataTypeOK

\* The same of the next state.
LEMMA TypePartsNext == SessionTypeOK' <=> TypeOK' /\ FileTypeOK' /\ DataTypeOK'
BY DEF SessionTypeOK, FileTypeOK, DataTypeOK

\* The invariant holds before the first capture.
LEMMA SessionInvInit == SessionInit => SessionInv
<1> SUFFICES ASSUME SessionInit PROVE SessionInv OBVIOUS
<1>1. ControlInv BY ControlInvInit DEF SessionInit
<1>2. FileTypeOK
  <2>1. lines \in Seq(Nat) /\ Len(lines) = 0 BY EmptySeq DEF SessionInit
  <2>2. torn \in BOOLEAN /\ good \in BOOLEAN BY DEF SessionInit
  <2>3. flushed \in 0..Len(lines) BY <2>1 DEF SessionInit
  <2>4. capturedPackets \in Nat BY DEF SessionInit
  <2> QED BY <2>1, <2>2, <2>3, <2>4 DEF FileTypeOK
<1>3. DataTypeOK
  <2>1. packets \in Seq(Nat \X Nat) BY EmptySeq DEF SessionInit
  <2> QED BY <2>1 DEF SessionInit, DataTypeOK
<1>4. FileInv BY DEF SessionInit, FileInv, Log!Gapless
<1>5. CaptureInv BY DEF SessionInit, Init, CaptureInv, Loop, Blocked
<1>6. ListInv BY DEF SessionInit, Init, ListInv, ListedIsRecorded, Setup
<1>7. TotalIsOnDisk BY DEF SessionInit, Init, TotalIsOnDisk
<1> QED BY <1>1, <1>2, <1>3, <1>4, <1>5, <1>6, <1>7, TypeParts
        DEF SessionInv, ControlInv

\* The end of the process leaves a control state like the first one.
LEMMA CrashControl == ControlInv /\ Crash => ControlInv'
<1> SUFFICES ASSUME ControlInv, Crash PROVE ControlInv' OBVIOUS
<1>1. keys' \in Seq(Key) BY NoKeys DEF Crash
<1>2. stopRequested' \in BOOLEAN /\ listed' \in BOOLEAN BY DEF Crash
<1>3. opened' \subseteq 1..session' BY DEF Crash
<1>4. session' \in 0..MaxSessions /\ handle' \in 0..session' /\ localHandle' \in 0..session'
  BY DEF Crash, ControlInv, TypeOK
<1>5. TypeOK' BY <1>1, <1>2, <1>3, <1>4, ControlAssumption DEF Crash, TypeOK
<1>6. PromptOnlyAtMax' BY DEF Crash, PromptOnlyAtMax
<1>7. HandleInv' BY DEF Crash, HandleInv, HandleIsCurrent, FailedSetupClosed
<1> QED BY <1>5, <1>6, <1>7 DEF ControlInv

\* Every step of the session but Crash is a step of CaptureControl.
LEMMA SessionControl == ControlInv /\ SessionNext => ControlInv'
<1> SUFFICES ASSUME ControlInv, SessionNext PROVE ControlInv' OBVIOUS
<1>1. CASE Crash BY <1>1, CrashControl
<1>2. CASE ~Crash
  <2>1. Next
    BY <1>2 DEF SessionNext, NoData, SessionOpenInput, SessionReadTimeout,
       SessionReadPacket, SessionReadError, SessionParseThrows, SessionProcess,
       SessionFinish, Next, Step, Answer
  <2> QED BY <2>1, ControlInvStep
<1> QED BY <1>1, <1>2

\* Steps that leave the data alone.
LEMMA QuietKeeps ==
  ASSUME SessionInv, NoData, UNCHANGED data
  PROVE  FileTypeOK' /\ DataTypeOK' /\ FileInv' /\ CaptureInv' /\ ListInv' /\ TotalIsOnDisk'
<1>1. FileTypeOK /\ DataTypeOK BY TypeParts DEF SessionInv
<1>2. FileTypeOK' /\ DataTypeOK' BY <1>1 DEF data, file, FileTypeOK, DataTypeOK
<1>3. FileInv' BY DEF SessionInv, data, file, FileInv, Log!Gapless
<1>4. CASE Open
  <2>1. session \in Nat /\ session' = session + 1 /\ packets' = packets
    BY <1>4 DEF Open, SessionInv, ControlInv, TypeOK, data
  <2>2. \A i \in 1..Len(packets') : packets'[i][1] <= session /\ packets'[i][1] \in Nat
    BY <1>1, <2>1, ElementOfSeq DEF SessionInv, ListInv, DataTypeOK
  <2>3. ListInv'
    BY <1>4, <2>1, <2>2 DEF Open, ListInv, ListedIsRecorded
  <2>4. CaptureInv' BY <1>4 DEF Open, CaptureInv, Loop, Blocked
  <2>5. TotalIsOnDisk' BY <1>4 DEF Open, TotalIsOnDisk
  <2> QED BY <1>2, <1>3, <2>3, <2>4, <2>5
<1>5. CASE ~Open
  <2>1. /\ UNCHANGED <<frame, session>>
        /\ pc' \in Loop \cup {"finish"} => pc \in Loop \cup {"finish"}
        /\ pc' = "process" <=> pc = "process"
        /\ pc' \in Setup => pc \in Setup
        /\ pc' = "idle" => handle' = 0
    BY <1>5 DEF NoData, TestOpened, SetFilter, CloseFailed, ClearFailed, TestHandle,
       CopyHandle, LeaveLoop, PollKey,
       AfterPoll, Prompt, Display, RefuseIndex, AcceptIndex, CloseDetail, DisplayReturns, Press,
       Loop, Blocked, Setup, capture
  <2>2. CaptureInv'
    BY <2>1 DEF SessionInv, CaptureInv, data, file, LastRecorded, Pending
  <2>3. ListInv' BY <2>1 DEF SessionInv, ListInv, ListedIsRecorded, data, file
  <2>4. TotalIsOnDisk' BY <2>1 DEF TotalIsOnDisk
  <2> QED BY <1>2, <1>3, <2>2, <2>3, <2>4
<1> QED BY <1>4, <1>5

\* Setting the file up: either a new, empty log or nothing at all.
LEMMA OpenInputKeeps ==
  ASSUME SessionInv, SessionOpenInput
  PROVE  FileTypeOK' /\ DataTypeOK' /\ FileInv' /\ CaptureInv' /\ ListInv' /\ TotalIsOnDisk'
<1>1. FileTypeOK /\ DataTypeOK BY TypeParts DEF SessionInv
<1>2. pc = "input" /\ UNCHANGED <<session, frame, packets>>
  <2>1. UNCHANGED session BY DEF SessionOpenInput, OpenInput, CloseFailed, capture
  <2> QED BY <2>1 DEF SessionOpenInput, OpenInput
<1>3. CASE pc' = "top"
  <2>1. Truncate BY <1>3 DEF SessionOpenInput
  <2>2. lines' = <<>> /\ Len(lines') = 0 /\ lines' \in Seq(Nat)
    BY <2>1, EmptySeq DEF Truncate
  <2>3. torn' \in BOOLEAN /\ good' \in BOOLEAN BY <2>1 DEF Truncate
  <2>4. FileTypeOK' BY <2>1, <2>2, <2>3 DEF Truncate, FileTypeOK
  <2>5. DataTypeOK' BY <1>1, <1>2, <2>1 DEF Truncate, DataTypeOK
  <2>6. FileInv' BY <2>2 DEF FileInv, Log!Gapless
  <2>7. CaptureInv'
    <3>1. frame' = "none" BY <1>2 DEF SessionInv, ListInv, Setup
    <3> QED BY <1>3, <2>1, <2>2, <3>1 DEF Truncate, CaptureInv, LastRecorded, Pending
  <2>8. ListInv'
    <3>1. \A i \in 1..Len(packets') : packets'[i][1] < session' /\ packets'[i][1] <= session'
      BY <1>2 DEF SessionInv, ListInv, Setup
    <3>2. \A i \in 1..Len(packets') : packets'[i][1] # session'
      <4> TAKE i \in 1..Len(packets')
      <4>1. session \in Nat BY DEF SessionInv, ControlInv, TypeOK
      <4> QED BY <1>2, <3>1, <4>1
    <3> QED BY <1>3, <3>1, <3>2 DEF ListInv, ListedIsRecorded, Setup
  <2>9. TotalIsOnDisk' BY <1>3 DEF TotalIsOnDisk
  <2> QED BY <2>4, <2>5, <2>6, <2>7, <2>8, <2>9
<1>4. CASE pc' # "top"
  <2>1. UNCHANGED <<delivered, result, file>> BY <1>4 DEF SessionOpenInput
  <2>2. pc' = "clear" BY <1>4 DEF SessionOpenInput, OpenInput, CloseFailed
  <2>3. FileTypeOK' /\ DataTypeOK' BY <1>1, <1>2, <2>1 DEF file, FileTypeOK, DataTypeOK
  <2>4. FileInv' BY <2>1 DEF SessionInv, file, FileInv, Log!Gapless
  <2>5. CaptureInv' BY <2>2 DEF CaptureInv, Loop, Blocked
  <2>6. ListInv' BY <1>2, <2>1, <2>2 DEF SessionInv, ListInv, ListedIsRecorded, file, Setup
  <2>7. TotalIsOnDisk' BY <2>2 DEF TotalIsOnDisk
  <2> QED BY <2>3, <2>4, <2>5, <2>6, <2>7
<1> QED BY <1>3, <1>4

\* What a read returns: nothing is recorded yet.
LEMMA ReadsKeep ==
  ASSUME SessionInv, SessionReadTimeout \/ SessionReadPacket \/ SessionReadError
  PROVE  FileTypeOK' /\ DataTypeOK' /\ FileInv' /\ CaptureInv' /\ ListInv' /\ TotalIsOnDisk'
<1>1. FileTypeOK /\ DataTypeOK BY TypeParts DEF SessionInv
<1>2. pc = "read" /\ pc' \in {"poll", "process"} /\ UNCHANGED <<session, file, packets>>
  BY DEF SessionReadTimeout, SessionReadPacket, SessionReadError, ReadTimeout,
     ReadPacket, ReadError, capture
<1>3. FileTypeOK' BY <1>1, <1>2 DEF file, FileTypeOK
<1>4. ListInv' BY <1>2 DEF SessionInv, ListInv, ListedIsRecorded, file, Setup
<1>5. TotalIsOnDisk' BY <1>2 DEF TotalIsOnDisk
<1>6. /\ frame = "none" <=> delivered = 0
      /\ good => LastRecorded = delivered /\ capturedPackets = Len(lines)
  <2>1. pc \in Loop \cup {"finish"} /\ Pending = 0 BY <1>2 DEF Loop, Pending
  <2>2. good => LastRecorded + Pending = delivered /\ capturedPackets = Len(lines)
    BY <2>1 DEF SessionInv, CaptureInv
  <2>3. LastRecorded \in Nat
    BY <1>1, ElementOfSeq, LenProperties DEF LastRecorded, FileTypeOK
  <2> QED BY <2>1, <2>2, <2>3 DEF SessionInv, CaptureInv
<1>7. LastRecorded' = LastRecorded BY <1>2 DEF file, LastRecorded
<1>8. CASE SessionReadPacket
  <2>1. delivered' = delivered + 1 /\ result' = "packet" /\ pc' = "process"
    BY <1>8 DEF SessionReadPacket, ReadPacket
  <2>2. frame' # "none" BY <1>8, ControlAssumption DEF SessionReadPacket, ReadPacket
  <2>3. delivered \in Nat BY <1>1 DEF DataTypeOK
  <2>4. FileInv'
    <3>1. \A i \in 1..Len(lines') : lines'[i] \in 1..delivered'
      BY <1>2, <2>1, <2>3 DEF SessionInv, FileInv, file
    <3> QED BY <1>2, <3>1 DEF SessionInv, FileInv, file, Log!Gapless
  <2>5. CaptureInv'
    BY <1>2, <1>6, <1>7, <2>1, <2>2, <2>3 DEF CaptureInv, Pending, file
  <2>6. DataTypeOK' BY <1>1, <1>2, <2>1 DEF DataTypeOK
  <2> QED BY <1>3, <1>4, <1>5, <2>4, <2>5, <2>6
<1>9. CASE SessionReadTimeout \/ SessionReadError
  <2>1. UNCHANGED <<delivered, frame>> /\ result' \in {"timeout", "error"}
    BY <1>9 DEF SessionReadTimeout, SessionReadError, ReadTimeout, ReadError
  <2>2. FileInv' BY <1>2, <2>1 DEF SessionInv, FileInv, file, Log!Gapless
  <2>3. Pending' = 0 BY <2>1 DEF Pending
  <2>4. LastRecorded \in Nat
    BY <1>1, ElementOfSeq, LenProperties DEF LastRecorded, FileTypeOK
  <2>5. CaptureInv' BY <1>2, <1>6, <1>7, <2>1, <2>3, <2>4 DEF CaptureInv, file
  <2>6. DataTypeOK' BY <1>1, <1>2, <2>1 DEF DataTypeOK
  <2> QED BY <1>3, <1>4, <1>5, <2>2, <2>5, <2>6
<1> QED BY <1>8, <1>9

\* A packet is recorded, and perhaps listed.
LEMMA PacketKeeps ==
  ASSUME SessionInv, SessionParseThrows \/ SessionProcess
  PROVE  FileTypeOK' /\ DataTypeOK' /\ FileInv' /\ CaptureInv' /\ ListInv' /\ TotalIsOnDisk'
<1>1. FileTypeOK /\ DataTypeOK BY TypeParts DEF SessionInv
<1>2. /\ pc = "process" /\ pc' \in {"top", "display"}
      /\ Record /\ UNCHANGED <<session, frame, delivered, result>>
  BY DEF SessionParseThrows, SessionProcess, ParseThrows, Process, capture
<1>3. session \in Nat /\ delivered \in Nat
  BY <1>1 DEF SessionInv, ControlInv, TypeOK, DataTypeOK
<1>4. /\ frame = "none" <=> delivered = 0
      /\ good => LastRecorded + Pending = delivered /\ capturedPackets = Len(lines)
  BY <1>2 DEF SessionInv, CaptureInv, Loop
<1>5. good => delivered \in {LastRecorded, LastRecorded + 1}
  <2>1. LastRecorded \in Nat
    BY <1>1, ElementOfSeq, LenProperties DEF LastRecorded, FileTypeOK
  <2>2. Pending \in {0, 1} BY DEF Pending
  <2> QED BY <1>4, <2>1, <2>2
<1>6. /\ FileTypeOK' /\ FileInv'
      /\ good' => good
      /\ frame = "none" => UNCHANGED file
      /\ good' /\ frame # "none" =>
           /\ capturedPackets' = capturedPackets + 1
           /\ Len(lines') = Len(lines) + 1
           /\ LastRecorded' = delivered
           /\ \A i \in 1..Len(lines) : lines'[i] = lines[i]
           /\ lines'[Len(lines) + 1] = delivered
  BY <1>1, <1>2, <1>3, <1>4, <1>5, RecordKeeps DEF SessionInv
<1>7. CaptureInv'
  <2>1. Pending' = 0 BY <1>2 DEF Pending
  <2>2. CASE frame = "none"
    <3>1. good => LastRecorded = 0 /\ capturedPackets = Len(lines)
      <4>1. LastRecorded \in Nat
        BY <1>1, ElementOfSeq, LenProperties DEF LastRecorded, FileTypeOK
      <4>2. Pending \in {0, 1} BY DEF Pending
      <4> QED BY <1>4, <2>2, <4>1, <4>2
    <3>2. LastRecorded' = LastRecorded /\ UNCHANGED <<good, lines, capturedPackets>>
      BY <1>6, <2>2 DEF file, LastRecorded
    <3> QED BY <1>2, <1>4, <2>1, <2>2, <3>1, <3>2 DEF CaptureInv
  <2>3. CASE frame # "none"
    <3>1. good' => capturedPackets' = Len(lines') /\ LastRecorded' + Pending' = delivered'
      BY <1>2, <1>3, <1>4, <1>6, <2>1, <2>3
    <3> QED BY <1>2, <1>4, <2>3, <3>1 DEF CaptureInv
  <2> QED BY <2>2, <2>3
<1>8. TotalIsOnDisk' BY <1>2 DEF TotalIsOnDisk
<1>9. \/ UNCHANGED packets
      \/ frame = "parsed" /\ packets' = Append(packets, <<session, delivered>>)
  BY DEF SessionParseThrows, SessionProcess
<1>10. /\ packets' \in Seq(Nat \X Nat)
       /\ \A i \in 1..Len(packets') :
            \/ i \in 1..Len(packets) /\ packets'[i] = packets[i]
            \/ frame = "parsed" /\ packets'[i] = <<session, delivered>>
  <2>1. CASE UNCHANGED packets BY <1>1, <2>1 DEF DataTypeOK
  <2>2. CASE frame = "parsed" /\ packets' = Append(packets, <<session, delivered>>)
    <3>1. <<session, delivered>> \in Nat \X Nat BY <1>3
    <3>2. /\ packets' \in Seq(Nat \X Nat)
          /\ Len(packets') = Len(packets) + 1
          /\ \A i \in 1..Len(packets) : packets'[i] = packets[i]
          /\ packets'[Len(packets) + 1] = <<session, delivered>>
      BY <1>1, <2>2, <3>1, AppendProperties DEF DataTypeOK
    <3>3. ASSUME NEW i \in 1..Len(packets')
          PROVE  i \in 1..Len(packets) \/ i = Len(packets) + 1
      BY <1>1, <3>2, LenProperties DEF DataTypeOK
    <3> QED BY <2>2, <3>2, <3>3
  <2> QED BY <1>9, <2>1, <2>2
<1>11. DataTypeOK' BY <1>1, <1>2, <1>10 DEF DataTypeOK
<1>12. ListInv'
  <2>1. ASSUME NEW i \in 1..Len(packets')
        PROVE  packets'[i][1] <= session'
    <3>1. CASE frame = "parsed" /\ packets'[i] = <<session, delivered>>
      <4>1. packets'[i][1] = session BY <3>1
      <4> QED BY <1>2, <1>3, <4>1
    <3>2. CASE i \in 1..Len(packets) /\ packets'[i] = packets[i]
      <4>1. packets[i][1] <= session BY <1>2, <3>2 DEF SessionInv, ListInv
      <4> QED BY <1>2, <3>2, <4>1
    <3> QED BY <1>10, <3>1, <3>2
  <2>2. ASSUME good', NEW i \in 1..Len(packets'), packets'[i][1] = session'
        PROVE  \E j \in 1..Len(lines') : lines'[j] = packets'[i][2]
    <3>1. good BY <1>6, <2>2
    <3>2. Len(lines) \in Nat BY <1>1, LenProperties DEF FileTypeOK
    <3>3. CASE frame = "parsed" /\ packets'[i] = <<session, delivered>>
      <4>1. Len(lines) + 1 \in 1..Len(lines') /\ lines'[Len(lines) + 1] = delivered
        BY <1>6, <2>2, <3>2, <3>3
      <4> QED BY <3>3, <4>1
    <3>4. CASE i \in 1..Len(packets) /\ packets'[i] = packets[i]
      <4>1. PICK j \in 1..Len(lines) : lines[j] = packets[i][2]
        BY <1>2, <2>2, <3>1, <3>4 DEF SessionInv, ListInv, ListedIsRecorded
      <4>2. CASE frame = "none" BY <1>6, <3>4, <4>1, <4>2 DEF file
      <4>3. CASE frame # "none"
        <5>1. j \in 1..Len(lines') /\ lines'[j] = lines[j] BY <1>6, <2>2, <3>2, <4>3
        <5> QED BY <3>4, <4>1, <5>1
      <4> QED BY <4>2, <4>3
    <3> QED BY <1>10, <3>3, <3>4
  <2> QED BY <1>2, <2>1, <2>2 DEF ListInv, ListedIsRecorded, Setup
<1> QED BY <1>6, <1>7, <1>8, <1>11, <1>12

\* At the end of a capture the file is closed.
LEMMA FinishKeeps ==
  ASSUME SessionInv, SessionFinish
  PROVE  FileTypeOK' /\ DataTypeOK' /\ FileInv' /\ CaptureInv' /\ ListInv' /\ TotalIsOnDisk'
<1>1. FileTypeOK /\ DataTypeOK BY TypeParts DEF SessionInv
<1>2. /\ pc = "finish" /\ pc' = "idle" /\ CloseFile
      /\ UNCHANGED <<session, delivered, result, packets>>
  BY DEF SessionFinish, Finish, capture
<1>3. /\ FileTypeOK' /\ FileInv'
      /\ good' => /\ good /\ flushed' = Len(lines') /\ ~torn'
                  /\ UNCHANGED <<lines, capturedPackets>>
  BY <1>1, <1>2, CloseKeeps DEF SessionInv
<1>4. DataTypeOK' BY <1>1, <1>2 DEF DataTypeOK
<1>5. CaptureInv' BY <1>2 DEF CaptureInv, Loop, Blocked
<1>6. ListInv' BY <1>2, <1>3 DEF SessionInv, ListInv, ListedIsRecorded, Setup
<1>7. TotalIsOnDisk'
  <2>1. good => capturedPackets = Len(lines) BY <1>2 DEF SessionInv, CaptureInv
  <2> QED BY <1>3, <2>1 DEF TotalIsOnDisk
<1> QED BY <1>3, <1>4, <1>5, <1>6, <1>7

\* The end of the process leaves the lines that were on disk.
LEMMA CrashKeeps ==
  ASSUME SessionInv, Crash
  PROVE  FileTypeOK' /\ DataTypeOK' /\ FileInv' /\ CaptureInv' /\ ListInv' /\ TotalIsOnDisk'
<1>1. FileTypeOK /\ DataTypeOK BY TypeParts DEF SessionInv
<1>2. /\ pc' = "idle" /\ handle' = 0
      /\ lines' = SubSeq(lines, 1, flushed) /\ packets' = <<>>
      /\ UNCHANGED <<session, delivered, result, flushed, torn, good, capturedPackets>>
  BY DEF Crash
<1>3. flushed \in 0..Len(lines) BY <1>1 DEF FileTypeOK
<1>4. lines' \in Seq(Nat) /\ Len(lines') = flushed /\ FileInv'
  BY <1>1, <1>2, <1>3, CutKeeps DEF SessionInv
<1>5. FileTypeOK'
  <2>1. Len(lines) \in Nat BY <1>1, LenProperties DEF FileTypeOK
  <2>2. flushed \in 0..flushed BY <1>3, <2>1
  <2>3. flushed' \in 0..Len(lines') BY <1>2, <1>4, <2>2
  <2> QED BY <1>1, <1>2, <1>4, <2>3 DEF FileTypeOK
<1>6. DataTypeOK'
  <2>1. packets' \in Seq(Nat \X Nat) BY <1>2, EmptySeq
  <2> QED BY <1>1, <1>2, <2>1 DEF DataTypeOK
<1>7. CaptureInv' BY <1>2 DEF CaptureInv, Loop, Blocked
<1>8. ListInv' BY <1>2 DEF ListInv, ListedIsRecorded, Setup
<1>9. TotalIsOnDisk' BY <1>2 DEF TotalIsOnDisk
<1> QED BY <1>4, <1>5, <1>6, <1>7, <1>8, <1>9

\* The invariant is inductive.
LEMMA SessionInvStep == SessionInv /\ [SessionNext]_sessionVars => SessionInv'
<1> SUFFICES ASSUME SessionInv, [SessionNext]_sessionVars PROVE SessionInv' OBVIOUS
<1>1. CASE UNCHANGED sessionVars
  BY <1>1 DEF sessionVars, vars, capture, data, file, SessionInv, ControlInv, TypeOK,
     PromptOnlyAtMax, HandleInv, HandleIsCurrent, FailedSetupClosed, SessionTypeOK,
     FileInv, Log!Gapless, CaptureInv, LastRecorded, Pending, ListInv,
     ListedIsRecorded, TotalIsOnDisk
<1>2. CASE SessionNext
  <2>1. FileTypeOK' /\ DataTypeOK' /\ FileInv' /\ CaptureInv' /\ ListInv' /\ TotalIsOnDisk'
    BY <1>2, QuietKeeps, OpenInputKeeps, ReadsKeep, PacketKeeps, FinishKeeps, CrashKeeps DEF SessionNext
  <2>2. ControlInv' BY <1>2, SessionControl DEF SessionInv
  <2>3. SessionTypeOK' BY <2>1, <2>2, TypePartsNext DEF ControlInv
  <2> QED BY <2>1, <2>2, <2>3 DEF SessionInv
<1> QED BY <1>1, <1>2

\* Every reachable state satisfies the invariant.
LEMMA SessionInvariant == SessionSpec => []SessionInv
BY SessionInvInit, SessionInvStep, PTL DEF SessionSpec

-----------------------------------------------------------------------------
(* The state of a session is type correct; what is flushed is a part of     *)
(* what was accepted.                                                       *)
THEOREM SessionTypeCorrect == SessionSpec => []SessionTypeOK
<1>1. SessionInv => SessionTypeOK BY DEF SessionInv
<1> QED BY <1>1, SessionInvariant, PTL

(* No packet is lost while writes succeed, whatever the parser makes of it. *)
THEOREM NoPacketLost == SessionSpec => []NothingLost
<1>1. SessionInv => NothingLost BY DEF SessionInv, FileInv, CaptureInv, NothingLost
<1> QED BY <1>1, SessionInvariant, PTL

(* The total that is printed is what the file holds, unless a write failed. *)
THEOREM TotalIsTrue == SessionSpec => []TotalIsOnDisk
<1>1. SessionInv => TotalIsOnDisk BY DEF SessionInv
<1> QED BY <1>1, SessionInvariant, PTL

(* What is listed is recorded, unless a write failed.                       *)
THEOREM ListIsTrue == SessionSpec => []ListedIsRecorded
<1>1. SessionInv => ListedIsRecorded BY DEF SessionInv, ListInv
<1> QED BY <1>1, SessionInvariant, PTL

-----------------------------------------------------------------------------
(* Repeated lines *)

\* startCapture looks at a frame only after a read that did not time out.
ResultInv == pc = "process" => result # "timeout"

LEMMA ResultInvariant == SessionSpec => []ResultInv
<1>1. SessionInit => ResultInv BY DEF SessionInit, Init, ResultInv
<1>2. ResultInv /\ [SessionNext]_sessionVars => ResultInv'
  <2> SUFFICES ASSUME ResultInv, [SessionNext]_sessionVars PROVE ResultInv' OBVIOUS
  <2>1. CASE NoData /\ UNCHANGED data
    <3>1. pc' = "process" => pc = "process"
      BY <2>1 DEF NoData, Open, TestOpened, SetFilter, CloseFailed, ClearFailed,
         TestHandle, CopyHandle, LeaveLoop, PollKey,
         AfterPoll, Prompt, Display, RefuseIndex, AcceptIndex, CloseDetail, DisplayReturns,
         Press, capture
    <3> QED BY <2>1, <3>1 DEF data, ResultInv
  <2>2. CASE SessionReadPacket \/ SessionReadError
    BY <2>2 DEF SessionReadPacket, SessionReadError, ResultInv
  <2>3. CASE SessionOpenInput \/ SessionReadTimeout \/ SessionParseThrows \/ SessionProcess
               \/ SessionFinish \/ Crash
    <3>1. pc' # "process"
      BY <2>3 DEF SessionOpenInput, OpenInput, CloseFailed, SessionReadTimeout, ReadTimeout,
         SessionParseThrows, ParseThrows, SessionProcess, Process, SessionFinish, Finish, Crash
    <3> QED BY <3>1 DEF ResultInv
  <2>4. CASE UNCHANGED sessionVars BY <2>4 DEF sessionVars, vars, data, ResultInv
  <2> QED BY <2>1, <2>2, <2>3, <2>4 DEF SessionNext
<1> QED BY <1>1, <1>2, PTL DEF SessionSpec

\* Lines are added by accepting one, while a frame is looked at.
LEMMA GrowthIsAccept ==
  ASSUME SessionInv, [SessionNext]_sessionVars, Len(lines') > Len(lines)
  PROVE  pc = "process" /\ frame # "none" /\ good /\ Accept(delivered)
<1>1. FileTypeOK BY TypeParts DEF SessionInv
<1>2. Len(lines) \in Nat /\ flushed \in 0..Len(lines) BY <1>1, LenProperties DEF FileTypeOK
<1>3. ~UNCHANGED lines BY <1>2
<1>4. ~WriteFails
  <2> SUFFICES ASSUME WriteFails PROVE FALSE OBVIOUS
  <2>1. flushed' \in 0..Len(lines) /\ lines' = SubSeq(lines, 1, flushed')
    BY <1>2 DEF WriteFails
  <2>2. Len(lines') = flushed' BY <1>1, <2>1, CutIs DEF FileTypeOK
  <2> QED BY <1>2, <2>1, <2>2
<1>5. ~Crash
  <2> SUFFICES ASSUME Crash PROVE FALSE OBVIOUS
  <2>1. lines' = SubSeq(lines, 1, flushed) BY DEF Crash
  <2>2. Len(lines') = flushed BY <1>1, <2>1, CutIs DEF FileTypeOK
  <2> QED BY <1>2, <2>2
<1>6. ~(SessionOpenInput \/ SessionFinish)
  <2>1. ~Truncate
    <3> SUFFICES ASSUME Truncate PROVE FALSE OBVIOUS
    <3>1. Len(lines') = 0 BY EmptySeq DEF Truncate
    <3> QED BY <1>2, <3>1
  <2> QED BY <1>3, <1>4, <2>1 DEF SessionOpenInput, SessionFinish, CloseFile, file
<1>7. SessionParseThrows \/ SessionProcess
  BY <1>3, <1>5, <1>6 DEF SessionNext, sessionVars, data, file, SessionReadTimeout,
     SessionReadPacket, SessionReadError
<1>8. pc = "process" /\ Record
  BY <1>7 DEF SessionParseThrows, SessionProcess, ParseThrows, Process
<1> QED BY <1>3, <1>4, <1>8 DEF Record, AppendCapturedPacketLine, file

LEMMA RepeatStep ==
  ASSUME SessionInv, ResultInv, [SessionNext]_sessionVars,
         Len(lines') > Len(lines), lines'[Len(lines')] = LastRecorded
  PROVE  result = "error"
<1>1. pc = "process" /\ frame # "none" /\ good /\ lines' = Append(lines, delivered)
  BY GrowthIsAccept DEF Accept
<1>2. FileTypeOK /\ DataTypeOK BY TypeParts DEF SessionInv
<1>3. lines'[Len(lines')] = delivered
  BY <1>1, <1>2, AppendProperties DEF FileTypeOK, DataTypeOK
<1>4. LastRecorded + Pending = delivered
  BY <1>1 DEF SessionInv, CaptureInv, Loop
<1>5. Pending = 0
  <2>1. delivered \in Nat /\ Pending \in {0, 1} BY <1>2 DEF DataTypeOK, Pending
  <2> QED BY <1>3, <1>4, <2>1
<1>6. result # "packet" BY <1>1, <1>5 DEF Pending
<1> QED BY <1>1, <1>2, <1>6 DEF ResultInv, DataTypeOK

(* A line is repeated only after a read error, in every session and however *)
(* writes fail: the count of deliveries and the last line agree whenever a  *)
(* frame is looked at, and only an error brings a frame that was seen.      *)
THEOREM RepeatsAreErrors == SessionSpec => RepeatsOnlyOnError
<1>1. SessionInv /\ ResultInv /\ [SessionNext]_sessionVars =>
        [Len(lines') > Len(lines) /\ lines'[Len(lines')] = LastRecorded
           => result = "error"]_sessionVars
  BY RepeatStep
<1> QED BY <1>1, SessionInvariant, ResultInvariant, PTL DEF SessionSpec, RepeatsOnlyOnError

-----------------------------------------------------------------------------
(* CaptureSession implements CaptureLog: every step of a session either     *)
(* starts the log again, delivers a packet, adds lines to the disk or       *)
(* leaves it as it is.                                                      *)

onDisk == SubSeq(lines, 1, flushed)

\* A cut of a sequence is a prefix of a longer cut of one that agrees with it.
LEMMA CutIsPrefix ==
  ASSUME NEW s \in Seq(Nat), NEW t \in Seq(Nat),
         NEW f \in 0..Len(s), NEW g \in 0..Len(t), f <= g,
         \A i \in 1..f : t[i] = s[i]
  PROVE  IsPrefix(SubSeq(s, 1, f), SubSeq(t, 1, g))
<1> DEFINE a == SubSeq(s, 1, f)
           b == SubSeq(t, 1, g)
<1>1. a \in Seq(Nat) /\ Len(a) = f /\ \A i \in 1..f : a[i] = s[i] BY CutIs
<1>2. b \in Seq(Nat) /\ Len(b) = g /\ \A i \in 1..g : b[i] = t[i] BY CutIs
<1>3. Len(s) \in Nat /\ Len(t) \in Nat BY LenProperties
<1>4. f \in 0..Len(a) /\ f \in 0..Len(b) BY <1>1, <1>2, <1>3
<1> HIDE DEF a, b
<1>5. /\ SubSeq(a, 1, f) \in Seq(Nat) /\ Len(SubSeq(a, 1, f)) = f
      /\ \A i \in 1..f : SubSeq(a, 1, f)[i] = a[i]
  BY <1>1, <1>4, CutIs
<1>6. /\ SubSeq(b, 1, f) \in Seq(Nat) /\ Len(SubSeq(b, 1, f)) = f
      /\ \A i \in 1..f : SubSeq(b, 1, f)[i] = b[i]
  BY <1>2, <1>4, CutIs
<1>7. \A i \in 1..f : SubSeq(a, 1, f)[i] = SubSeq(b, 1, f)[i]
  <2> SUFFICES ASSUME NEW i \in 1..f PROVE SubSeq(a, 1, f)[i] = SubSeq(b, 1, f)[i]
    OBVIOUS
  <2>1. i \in 1..g BY <1>3
  <2> QED BY <1>1, <1>2, <1>5, <1>6, <2>1
<1>8. SubSeq(a, 1, f) = SubSeq(b, 1, f) BY <1>5, <1>6, <1>7, SeqEqual
<1>9. IsPrefix(a, b) BY <1>1, <1>2, <1>8 DEF IsPrefix
<1> QED BY <1>9 DEF a, b

\* What is on disk after a step is a log of packets that were delivered.
LEMMA DiskHoldsLogNext ==
  ASSUME FileTypeOK', FileInv', delivered' \in Nat
  PROVE  /\ Log!Gapless(onDisk')
         /\ \A i \in 1..Len(onDisk') : onDisk'[i] \in 1..delivered'
<1>1. Log!Gapless(onDisk')
  BY GaplessCut DEF onDisk, FileTypeOK, FileInv, Log!Gapless
<1>2. /\ Len(onDisk') = flushed'
      /\ \A i \in 1..flushed' : onDisk'[i] = lines'[i]
  BY CutIs DEF onDisk, FileTypeOK
<1>3. \A i \in 1..flushed' : i \in 1..Len(lines') BY LenProperties DEF FileTypeOK
<1> QED BY <1>1, <1>2, <1>3 DEF FileInv

\* A step after which no line on disk is different adds lines to the log.
LEMMA GrowthIsWrite ==
  ASSUME FileTypeOK, FileTypeOK', FileInv', delivered \in Nat, UNCHANGED delivered,
         flushed <= flushed', \A i \in 1..flushed : lines'[i] = lines[i]
  PROVE  Log!Write
<1>1. IsPrefix(onDisk, onDisk') BY CutIsPrefix DEF onDisk, FileTypeOK
<1>2. /\ Log!Gapless(onDisk')
      /\ \A i \in 1..Len(onDisk') : onDisk'[i] \in 1..delivered'
  BY DiskHoldsLogNext
<1>3. Log!IsPrefix(onDisk, onDisk') BY <1>1 DEF IsPrefix, Log!IsPrefix
<1> QED BY <1>2, <1>3 DEF onDisk, Log!Write, Log!Gapless

\* A failing write leaves the lines that are on disk where they are.
LEMMA WriteFailsGrows ==
  ASSUME FileTypeOK, WriteFails
  PROVE  flushed <= flushed' /\ \A i \in 1..flushed : lines'[i] = lines[i]
<1>1. Len(lines) \in Nat BY LenProperties DEF FileTypeOK
<1>2. flushed' \in 0..Len(lines) /\ flushed <= flushed' /\ lines' = SubSeq(lines, 1, flushed')
  BY <1>1 DEF WriteFails, FileTypeOK
<1>3. \A i \in 1..flushed' : lines'[i] = lines[i] BY <1>2, CutIs DEF FileTypeOK
<1>4. \A i \in 1..flushed : i \in 1..flushed' BY <1>1, <1>2 DEF FileTypeOK
<1> QED BY <1>2, <1>3, <1>4

\* So does recording a packet.
LEMMA RecordGrows ==
  ASSUME FileTypeOK, Record
  PROVE  flushed <= flushed' /\ \A i \in 1..flushed : lines'[i] = lines[i]
<1>1. Len(lines) \in Nat /\ flushed \in 0..Len(lines)
  BY LenProperties DEF FileTypeOK
<1>2. CASE UNCHANGED file BY <1>1, <1>2 DEF file
<1>3. CASE Accept(delivered)
  <2>1. flushed <= flushed' BY <1>1, <1>3 DEF Accept
  <2>2. lines' = Append(lines, delivered) BY <1>3 DEF Accept
  <2>3. ASSUME NEW i \in 1..flushed PROVE lines'[i] = lines[i]
    <3>1. i \in 1..Len(lines) BY <1>1
    <3>2. Append(lines, delivered)[i] = lines[i]
      BY <3>1 DEF FileTypeOK
    <3> QED BY <2>2, <3>2
  <2> QED BY <2>1, <2>3
<1>4. CASE WriteFails BY <1>4, WriteFailsGrows
<1> QED BY <1>2, <1>3, <1>4 DEF Record, AppendCapturedPacketLine

\* And closing the file.
LEMMA CloseGrows ==
  ASSUME FileTypeOK, CloseFile
  PROVE  flushed <= flushed' /\ \A i \in 1..flushed : lines'[i] = lines[i]
<1>1. Len(lines) \in Nat /\ flushed \in 0..Len(lines)
  BY LenProperties DEF FileTypeOK
<1>2. CASE WriteFails BY <1>2, WriteFailsGrows
<1>3. CASE UNCHANGED file BY <1>1, <1>3 DEF file
<1>4. CASE flushed' = Len(lines) /\ UNCHANGED lines BY <1>1, <1>4
<1> QED BY <1>2, <1>3, <1>4 DEF CloseFile

\* The end of the process cuts the lines to those on disk.
LEMMA CrashLeavesDisk ==
  ASSUME FileTypeOK, Crash
  PROVE  UNCHANGED <<delivered, onDisk>>
<1>1. lines \in Seq(Nat) /\ flushed \in 0..Len(lines) BY DEF FileTypeOK
<1>2. Len(lines) \in Nat BY <1>1, LenProperties
<1>3. onDisk \in Seq(Nat) /\ Len(onDisk) = flushed BY <1>1, CutIs DEF onDisk
<1>4. flushed \in 0..Len(onDisk) BY <1>1, <1>2, <1>3
<1>5. LET c == SubSeq(onDisk, 1, flushed)
      IN  c \in Seq(Nat) /\ Len(c) = flushed /\ \A i \in 1..flushed : c[i] = onDisk[i]
  BY <1>3, <1>4, CutIs
<1>6. SubSeq(onDisk, 1, flushed) = onDisk BY <1>3, <1>5, SeqEqual
<1>7. lines' = onDisk /\ flushed' = flushed /\ delivered' = delivered
  BY DEF Crash, onDisk
<1>8. onDisk' = SubSeq(onDisk, 1, flushed) BY <1>7 DEF onDisk
<1> QED BY <1>6, <1>7, <1>8

-----------------------------------------------------------------------------
\* The first state of a session is the first state of the log.
LEMMA LogInitially == SessionInit => Log!LogInit
<1> SUFFICES ASSUME SessionInit PROVE Log!LogInit OBVIOUS
<1>1. lines = <<>> /\ flushed = 0 /\ delivered = 0 BY DEF SessionInit
<1>2. lines \in Seq(Nat) /\ Len(lines) = 0 BY <1>1, EmptySeq
<1>3. SubSeq(lines, 1, flushed) = <<>> BY <1>1, <1>2, CutIs, EmptySeq
<1> QED BY <1>1, <1>3 DEF Log!LogInit

\* Every step of a session is a step of the log or leaves it alone.
LEMMA LogStep ==
  SessionInv /\ SessionInv' /\ [SessionNext]_sessionVars => [Log!LogNext]_(Log!logVars)
<1> SUFFICES ASSUME SessionInv, SessionInv', [SessionNext]_sessionVars
             PROVE  Log!LogNext \/ UNCHANGED <<delivered, onDisk>>
  BY DEF Log!logVars, onDisk
<1>1. FileTypeOK /\ delivered \in Nat BY DEF SessionInv, SessionTypeOK, FileTypeOK
<1>2. FileTypeOK' /\ FileInv' BY DEF SessionInv, SessionTypeOK, FileTypeOK
<1>3. CASE UNCHANGED data \/ UNCHANGED <<delivered, file>>
  BY <1>3 DEF data, file, onDisk
<1>4. CASE UNCHANGED sessionVars BY <1>3, <1>4 DEF sessionVars
<1>5. CASE SessionOpenInput
  <2>1. CASE Truncate
    <3>1. lines' = <<>> /\ flushed' = 0 /\ delivered' = 0 BY <2>1 DEF Truncate
    <3>2. <<>> \in Seq(Nat) /\ Len(<<>>) = 0 BY EmptySeq
    <3>3. SubSeq(<<>>, 1, 0) = <<>> BY <3>2, CutIs, EmptySeq
    <3>4. onDisk' = <<>> BY <3>1, <3>3 DEF onDisk
    <3> QED BY <3>1, <3>4 DEF onDisk, Log!LogNext, Log!Start
  <2> QED BY <1>3, <1>5, <2>1 DEF SessionOpenInput
<1>6. CASE SessionReadTimeout \/ SessionReadError
  BY <1>3, <1>6 DEF SessionReadTimeout, SessionReadError
<1>7. CASE SessionReadPacket
  BY <1>7 DEF SessionReadPacket, file, onDisk, Log!LogNext, Log!Deliver
<1>8. CASE SessionParseThrows \/ SessionProcess
  <2>1. Record /\ UNCHANGED delivered BY <1>8 DEF SessionParseThrows, SessionProcess
  <2> QED BY <1>1, <1>2, <2>1, RecordGrows, GrowthIsWrite DEF Log!LogNext
<1>9. CASE SessionFinish
  <2>1. CloseFile /\ UNCHANGED delivered BY <1>9 DEF SessionFinish
  <2> QED BY <1>1, <1>2, <2>1, CloseGrows, GrowthIsWrite DEF Log!LogNext
<1>10. CASE Crash BY <1>1, <1>10, CrashLeavesDisk
<1> QED BY <1>3, <1>4, <1>5, <1>6, <1>7, <1>8, <1>9, <1>10 DEF SessionNext

(* What a reader of input.txt is promised holds of every session.           *)
THEOREM SessionImplementsLog == SessionSpec => DiskIsLog
<1>1. SessionInit => Log!LogInit BY LogInitially
<1>2. SessionInv /\ SessionInv' /\ [SessionNext]_sessionVars => [Log!LogNext]_(Log!logVars)
  BY LogStep
<1> QED BY <1>1, <1>2, SessionInvariant, PTL DEF SessionSpec, DiskIsLog, Log!LogSpec
=============================================================================
