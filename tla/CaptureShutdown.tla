---------------------------- MODULE CaptureShutdown ----------------------------
(***************************************************************************)
(* CaptureControl with a second thread that calls requestStop and          *)
(* closeCapture while startCapture runs.  This is the use the members are  *)
(* public, atomic and mutex-guarded for, and that the comment in           *)
(* closeCapture speaks of; CapturePage::show, now disabled, is such a      *)
(* caller.  The pages in use join the capture thread instead.              *)
(***************************************************************************)
EXTENDS CaptureControl

VARIABLE closer   \* "out", or how far its closeCapture has got

shutdownVars == <<vars, closer>>

ShutdownInit == Init /\ closer = "out"

\* requestStop, on its own or as the first statement of closeCapture.
RequestStop ==
  /\ pc # "idle"
  /\ closer = "out"
  /\ stopRequested' = TRUE
  /\ closer' \in {"out", "requested"}
  /\ UNCHANGED <<pc, capture, frame, timeoutCount, listed, keys>>

\* if (handle)
TestMember ==
  /\ closer = "requested"
  /\ closer' = IF handle = 0 THEN "out" ELSE "closing"
  /\ UNCHANGED vars

\* pcap_close(handle), of whatever the member is by now: null or closed if a
\* set-up failed in between, another session's handle if one began.
CloseHandle ==
  /\ closer = "closing"
  /\ opened' = opened \ {handle}
  /\ closer' = "closed"
  /\ UNCHANGED <<pc, session, handle, localHandle, frame, timeoutCount,
                 stopRequested, listed, keys>>

\* Seeded defect: the closed handle is left in the member.
KeepHandle ==
  /\ closer = "closed"
  /\ closer' = "out"
  /\ UNCHANGED vars

\* handle = nullptr
ClearHandle ==
  /\ closer = "closed"
  /\ handle' = 0
  /\ closer' = "out"
  /\ UNCHANGED <<pc, session, localHandle, opened, frame, timeoutCount,
                 stopRequested, listed, keys>>

CloserStep == RequestStop \/ TestMember \/ CloseHandle \/ ClearHandle
ShutdownNext == (Next /\ UNCHANGED closer) \/ CloserStep

\* Both threads are scheduled; nobody has to call closeCapture or press a key.
ShutdownSpec ==
  /\ ShutdownInit
  /\ [][ShutdownNext]_shutdownVars
  /\ WF_shutdownVars(Step /\ UNCHANGED closer)
  /\ WF_shutdownVars(TestMember \/ CloseHandle \/ ClearHandle)

-----------------------------------------------------------------------------
(* Every variable has its type with the second thread, too.                 *)
ShutdownTypeOK == TypeOK /\ closer \in {"out", "requested", "closing", "closed"}

(* The damage a close from another thread can do is bounded: a read is on   *)
(* the handle of its own session or, if the member was emptied after the    *)
(* loop had tested it, on none; never on one left over from an earlier      *)
(* session.  If the handle is closed, the closer is still at work or has    *)
(* emptied the member (PacketCapture.cpp:92-96, 184-188).                   *)
ClosedOnlyByCloser ==
  pc = "read" =>
    \/ localHandle = 0 /\ handle = 0
    \/ /\ localHandle = session
       /\ localHandle \in opened \/ closer = "closed" \/ handle = 0

\* Steps of a loop without a handle until it is over.
StepsLeft(place) ==
  CASE place = "copy" -> 7 [] place = "read" -> 6 [] place = "process" -> 5
    [] place = "display" -> 4 [] place \in {"poll", "index"} -> 3
    [] place \in {"prompt", "detail"} -> 2 [] place = "top" -> 1 [] OTHER -> 0

(* Once the member is null the loop is over after seven of its steps, from  *)
(* wherever it stands and although displayData's result may overwrite the   *)
(* stop request: each step leaves fewer, and nothing brings a handle back.  *)
(* A loop that is already past the test of the member starts one more read  *)
(* (from copy), with no handle; none starts after that.                     *)
ClosedLoopEnds ==
  [][handle = 0 /\ pc \in Loop =>
       handle' = 0 /\ (pc' = pc \/ StepsLeft(pc') < StepsLeft(pc))]_shutdownVars

(* Once the closer has begun to close the handle of a running session, the  *)
(* loop ends or is found waiting for the user: although displayData's       *)
(* result may overwrite the stop request, the handle test at the top of the *)
(* loop (PacketCapture.cpp:92) still ends it, at its next turn at the       *)
(* latest.                                                                  *)
CloseEndsLoop ==
  (pc \in Loop /\ closer = "closed") ~> (pc \in {"idle"} \cup Blocked)

(* closeCapture's comment (PacketCapture.cpp:186): the handle can be closed *)
(* safely.  pcap_next_ex is not called on a handle the closer has closed.   *)
NoReadAfterClose == pc = "read" => localHandle \in opened
=============================================================================
