------------------------ MODULE CaptureShutdownProofs ------------------------
(***************************************************************************)
(* What survives a second thread that closes the handle at any moment of a *)
(* capture.  HandleIsCurrent does not: the member keeps naming a handle    *)
(* while the closer is between pcap_close and the assignment of nullptr,   *)
(* and the reader may hold a copy of it, or of a member that was emptied   *)
(* after the reader had tested it.  MemberInv says what is left.           *)
(***************************************************************************)
EXTENDS CaptureShutdown, CaptureControlProofs

\* The member names the current session or none, and is stale only between
\* pcap_close and the assignment of null, in closeCapture or after a failure.
MemberInv ==
  handle # 0 =>
    handle = session /\ (handle \in opened \/ closer = "closed" \/ pc = "clear")

ShutdownInv ==
  ShutdownTypeOK /\ PromptOnlyAtMax /\ MemberInv /\ ClosedOnlyByCloser

LEMMA ShutdownInvInit == ShutdownInit => ShutdownInv
<1> SUFFICES ASSUME ShutdownInit PROVE ShutdownInv OBVIOUS
<1>1. TypeOK /\ PromptOnlyAtMax BY ControlInvInit DEF ShutdownInit, ControlInv
<1>2. closer = "out" /\ handle = 0 /\ pc = "idle" BY DEF ShutdownInit, Init
<1> QED BY <1>1, <1>2 DEF ShutdownInv, ShutdownTypeOK, MemberInv, ClosedOnlyByCloser

\* The second thread keeps the types: it only takes handles away.
LEMMA CloserKeepsTypes ==
  ASSUME ShutdownInv, CloserStep
  PROVE  ShutdownTypeOK' /\ PromptOnlyAtMax'
<1>0. TypeOK /\ PromptOnlyAtMax /\ closer \in {"out", "requested", "closing", "closed"}
  BY DEF ShutdownInv, ShutdownTypeOK
<1>1. UNCHANGED <<pc, session, localHandle, frame, timeoutCount, listed, keys>>
  BY DEF CloserStep, RequestStop, TestMember, CloseHandle, ClearHandle, capture, vars
<1>2. PromptOnlyAtMax' BY <1>0, <1>1 DEF PromptOnlyAtMax
<1>3. opened' \subseteq opened /\ handle' \in {0, handle}
  BY DEF CloserStep, RequestStop, TestMember, CloseHandle, ClearHandle, capture, vars
<1>4. stopRequested' = TRUE \/ stopRequested' = stopRequested
  BY DEF CloserStep, RequestStop, TestMember, CloseHandle, ClearHandle, capture, vars
<1>5. closer' \in {"out", "requested", "closing", "closed"}
  BY DEF CloserStep, RequestStop, TestMember, CloseHandle, ClearHandle, capture, vars
<1>6. handle' \in 0..session' /\ opened' \subseteq 1..session'
  BY <1>0, <1>1, <1>3 DEF TypeOK
<1>7. stopRequested' \in BOOLEAN BY <1>0, <1>4 DEF TypeOK
<1>8. TypeOK' BY <1>0, <1>1, <1>6, <1>7 DEF TypeOK
<1> QED BY <1>2, <1>5, <1>8 DEF ShutdownTypeOK

\* The second thread: a handle it closes is stale until it clears the member.
LEMMA CloserKeepsMember ==
  ASSUME ShutdownInv, CloserStep
  PROVE  MemberInv' /\ ClosedOnlyByCloser'
<1> USE DEF ShutdownInv, MemberInv, ClosedOnlyByCloser
<1>1. CASE RequestStop BY <1>1 DEF RequestStop, capture
<1>2. CASE CloseHandle BY <1>2 DEF CloseHandle
<1>3. CASE ClearHandle BY <1>3 DEF ClearHandle
<1>4. CASE TestMember BY <1>4 DEF TestMember, vars, capture
<1> QED BY <1>1, <1>2, <1>3, <1>4 DEF CloserStep

\* The capture thread reads only through a copy of what the member named when
\* it looked.
LEMMA CaptureKeepsMember ==
  ASSUME ShutdownInv, Next, UNCHANGED closer
  PROVE  MemberInv' /\ ClosedOnlyByCloser'
<1> USE DEF ShutdownInv, MemberInv, ClosedOnlyByCloser
<1>1. CASE Open BY <1>1 DEF Open
<1>2. CASE SetFilter BY <1>2 DEF SetFilter, CloseFailed, capture
<1>3. CASE OpenInput BY <1>3 DEF OpenInput, CloseFailed, capture
<1>4. CASE CopyHandle BY <1>4 DEF CopyHandle
<1>5. CASE /\ UNCHANGED <<session, handle, localHandle, opened>>
           /\ pc \notin {"idle"} \cup Setup \/ pc' = pc
           /\ pc' # "read" \/ pc' = pc
  BY <1>5 DEF Setup
<1>6. CASE TestOpened BY <1>6 DEF TestOpened, capture
<1>7. CASE ClearFailed BY <1>7 DEF ClearFailed
<1> QED BY <1>1, <1>2, <1>3, <1>4, <1>5, <1>6, <1>7, HandleKept

LEMMA ShutdownInvStep == ShutdownInv /\ [ShutdownNext]_shutdownVars => ShutdownInv'
<1> SUFFICES ASSUME ShutdownInv, [ShutdownNext]_shutdownVars PROVE ShutdownInv' OBVIOUS
<1>1. CASE Next /\ UNCHANGED closer
  <2>1. TypeOK' /\ PromptOnlyAtMax'
    BY <1>1, StepKeepsTypes DEF ShutdownInv, ShutdownTypeOK
  <2>2. closer' \in {"out", "requested", "closing", "closed"}
    BY <1>1 DEF ShutdownInv, ShutdownTypeOK
  <2> QED BY <1>1, <2>1, <2>2, CaptureKeepsMember DEF ShutdownInv, ShutdownTypeOK
<1>2. CASE CloserStep BY <1>2, CloserKeepsTypes, CloserKeepsMember DEF ShutdownInv
<1>3. CASE UNCHANGED shutdownVars
  <2>1. TypeOK' /\ PromptOnlyAtMax'
    BY <1>3, StepKeepsTypes DEF ShutdownInv, ShutdownTypeOK, shutdownVars
  <2>2. UNCHANGED <<pc, session, handle, localHandle, opened, closer>>
    BY <1>3 DEF shutdownVars, vars, capture
  <2> QED BY <2>1, <2>2 DEF ShutdownInv, ShutdownTypeOK, MemberInv, ClosedOnlyByCloser
<1> QED BY <1>1, <1>2, <1>3 DEF ShutdownNext

LEMMA ShutdownInvariant == ShutdownSpec => []ShutdownInv
BY ShutdownInvInit, ShutdownInvStep, PTL DEF ShutdownSpec

-----------------------------------------------------------------------------
\* A step of the loop without a handle leads to one that is nearer to its end.
LEMMA StepWithoutHandle ==
  ASSUME handle = 0, pc \in Loop, Step
  PROVE  handle' = 0 /\ StepsLeft(pc') < StepsLeft(pc)
<1> USE DEF Loop, Blocked, StepsLeft, capture
<1>1. CASE TestOpened \/ SetFilter \/ OpenInput \/ ClearFailed \/ Finish
  BY <1>1 DEF TestOpened, SetFilter, OpenInput, ClearFailed, Finish
<1>2. CASE TestHandle \/ CopyHandle BY <1>2 DEF TestHandle, CopyHandle
<1>3. CASE LeaveLoop BY <1>3 DEF LeaveLoop
<1>4. CASE ReadTimeout \/ ReadError BY <1>4 DEF ReadTimeout, ReadError
<1>5. CASE \E k \in Kinds : ReadPacket(k) BY <1>5 DEF ReadPacket
<1>6. CASE PollKey BY <1>6 DEF PollKey, AfterPoll
<1>7. CASE Prompt BY <1>7 DEF Prompt
<1>8. CASE ParseThrows \/ Process BY <1>8 DEF ParseThrows, Process
<1>9. CASE Display BY <1>9 DEF Display, DisplayReturns
<1>10. CASE CloseDetail BY <1>10 DEF CloseDetail, DisplayReturns
<1> QED
  BY <1>1, <1>2, <1>3, <1>4, <1>5, <1>6, <1>7, <1>8, <1>9, <1>10 DEF Step

\* So does every other step, or it leaves the loop where it stands.
LEMMA EndStep ==
  ASSUME handle = 0, pc \in Loop, [ShutdownNext]_shutdownVars
  PROVE  handle' = 0 /\ (pc' = pc \/ StepsLeft(pc') < StepsLeft(pc))
<1>1. CASE Step BY <1>1, StepWithoutHandle
<1>2. CASE Answer
  BY <1>2 DEF Answer, RefuseIndex, AcceptIndex, DisplayReturns, StepsLeft, capture
<1>3. CASE Open BY <1>3 DEF Open, Loop, Blocked
<1>4. CASE \E k \in Key : Press(k) BY <1>4 DEF Press, capture
<1>5. CASE CloserStep
  BY <1>5 DEF CloserStep, RequestStop, TestMember, CloseHandle, ClearHandle, capture, vars
<1>6. CASE UNCHANGED shutdownVars BY <1>6 DEF shutdownVars, vars, capture
<1> QED BY <1>1, <1>2, <1>3, <1>4, <1>5, <1>6 DEF ShutdownNext, Next

(* The types hold with two threads as with one: neither can make the count  *)
(* of timeouts pass its maximum or a handle appear that was never opened.   *)
THEOREM ShutdownTypeCorrect == ShutdownSpec => []ShutdownTypeOK
<1>1. ShutdownInv => ShutdownTypeOK BY DEF ShutdownInv
<1> QED BY <1>1, ShutdownInvariant, PTL

(* A read on a closed handle or on none, which the second thread can cause, *)
(* is never one on the handle of another session, and a read on none comes  *)
(* only with the member empty.                                              *)
THEOREM ClosedReadIsBounded == ShutdownSpec => []ClosedOnlyByCloser
<1>1. ShutdownInv => ClosedOnlyByCloser BY DEF ShutdownInv
<1> QED BY <1>1, ShutdownInvariant, PTL

(* closeCapture ends the capture: with the member null the loop has at most *)
(* seven steps left, whatever is read, typed or written to the stop flag,   *)
(* and only a loop that was past the test of the member reads once more.    *)
THEOREM CloseIsFinal == ShutdownSpec => ClosedLoopEnds
<1>1. [ShutdownNext]_shutdownVars =>
        [handle = 0 /\ pc \in Loop =>
           handle' = 0 /\ (pc' = pc \/ StepsLeft(pc') < StepsLeft(pc))]_shutdownVars
  BY EndStep
<1> QED BY <1>1, PTL DEF ShutdownSpec, ClosedLoopEnds
=============================================================================
