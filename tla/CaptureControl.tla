---------------------------- MODULE CaptureControl ----------------------------
(***************************************************************************)
(* The control flow of PacketCapture::startCapture and of the displayData  *)
(* it calls: opening a pcap session, the read loop, its timeouts, the      *)
(* keyboard polling and the two places where it blocks on the console.     *)
(* What is captured is reduced to what the packet factory makes of it.     *)
(* CaptureSession adds the data; CaptureShutdown adds a second thread.     *)
(***************************************************************************)
EXTENDS Naturals, Sequences

CONSTANTS
  Kinds,        \* outcomes of createPacket + Parse the traffic can produce
  MaxTimeouts,  \* maxTimeouts of startCapture (20 in the code)
  MaxSessions,  \* bound: calls of startCapture
  MaxKeys       \* bound: key presses waiting in the console

ASSUME ControlAssumption ==
  /\ Kinds \subseteq {"parsed", "unknown", "malformed"}
  /\ MaxTimeouts \in Nat \ {0}
  /\ MaxSessions \in Nat
  /\ MaxKeys \in Nat

VARIABLES
  pc,             \* where startCapture stands; "idle" outside of it
  session,        \* calls of startCapture so far; names the pcap handle it opens
  handle,         \* PacketCapture::handle, 0 for nullptr
  localHandle,    \* the copy the loop hands to pcap_next_ex
  opened,         \* pcap handles opened and not yet closed
  frame,          \* kind of the packet header/pktData describe, "none" if caplen is 0
  timeoutCount,   \* consecutive pcap timeouts
  stopRequested,  \* the atomic flag the loop tests
  listed,         \* packetManager is not empty
  keys            \* key presses not yet read from the console

capture == <<session, handle, localHandle, opened>>
vars == <<pc, capture, frame, timeoutCount, stopRequested, listed, keys>>

Setup == {"opening", "filter", "input", "clear"}
Blocked == {"prompt", "index", "detail"}   \* waiting for the user
Loop == {"top", "copy", "read", "poll", "process", "display"} \cup Blocked
Key == {"quit", "detail", "other"}

Init ==
  /\ pc = "idle"
  /\ session = 0
  /\ handle = 0
  /\ localHandle = 0
  /\ opened = {}
  /\ frame = "none"
  /\ timeoutCount = 0
  /\ stopRequested = FALSE
  /\ listed = FALSE
  /\ keys = <<>>

-----------------------------------------------------------------------------
(* Setting a session up.  Every failure closes what was opened and returns. *)
(* The member is another thread's to change (CaptureShutdown), so that each *)
(* test, use and assignment of it is a step of its own.                     *)

\* pcap_open_live.  The keys that chose the adapter have all been consumed by
\* Render::Select; a fresh pcap handle has a zeroed header.
Open ==
  /\ pc = "idle"
  /\ session < MaxSessions
  /\ session' = session + 1
  /\ keys' = <<>>
  /\ frame' = "none"
  /\ \/ /\ handle' = session + 1
        /\ opened' = opened \cup {session + 1}
     \/ /\ handle' = 0
        /\ UNCHANGED opened
  /\ pc' = "opening"
  /\ UNCHANGED <<localHandle, timeoutCount, stopRequested, listed>>

\* if (handle == nullptr) return
TestOpened ==
  /\ pc = "opening"
  /\ pc' = IF handle = 0 THEN "idle" ELSE "filter"
  /\ UNCHANGED <<capture, frame, timeoutCount, stopRequested, listed, keys>>

\* Seeded defect: the failed set-up returns without closing its handle.
FailWithoutClose ==
  /\ pc' = "clear"
  /\ UNCHANGED capture

\* pcap_close(handle) after a failure
CloseFailed ==
  /\ opened' = opened \ {handle}
  /\ pc' = "clear"
  /\ UNCHANGED <<session, handle, localHandle>>

\* Seeded defect: the closed handle is left in the member.
ReturnWithPointer ==
  /\ pc = "clear"
  /\ pc' = "idle"
  /\ UNCHANGED <<capture, frame, timeoutCount, stopRequested, listed, keys>>

\* handle = nullptr; return
ClearFailed ==
  /\ pc = "clear"
  /\ handle' = 0
  /\ pc' = "idle"
  /\ UNCHANGED <<session, localHandle, opened, frame, timeoutCount, stopRequested,
                 listed, keys>>

\* Seeded defect: a filter that does not compile closes the handle and goes on.
FilterFailureIgnored ==
  /\ pc = "filter"
  /\ opened' \in {opened, opened \ {handle}}
  /\ pc' = "input"
  /\ UNCHANGED <<session, handle, localHandle, frame, timeoutCount,
                 stopRequested, listed, keys>>

SetFilter ==
  /\ pc = "filter"
  /\ \/ pc' = "input" /\ UNCHANGED capture
     \/ CloseFailed
  /\ UNCHANGED <<frame, timeoutCount, stopRequested, listed, keys>>

OpenInput ==
  /\ pc = "input"
  /\ \/ /\ pc' = "top"
        /\ timeoutCount' = 0
        /\ stopRequested' = FALSE
        /\ UNCHANGED capture
     \/ CloseFailed /\ UNCHANGED <<timeoutCount, stopRequested>>
  /\ UNCHANGED <<frame, listed, keys>>

-----------------------------------------------------------------------------
(* The read loop. *)

\* Seeded defect: the loop goes on without a look at the member.
TestHandleOmitted ==
  /\ pc = "top"
  /\ ~stopRequested
  /\ pc' = "copy"
  /\ UNCHANGED <<capture, frame, timeoutCount, stopRequested, listed, keys>>

\* Neither the loop's condition nor if (!handle) ends it.
TestHandle ==
  /\ pc = "top"
  /\ ~stopRequested
  /\ handle # 0
  /\ pc' = "copy"
  /\ UNCHANGED <<capture, frame, timeoutCount, stopRequested, listed, keys>>

\* localHandle = handle, whatever the member is by now
CopyHandle ==
  /\ pc = "copy"
  /\ localHandle' = handle
  /\ pc' = "read"
  /\ UNCHANGED <<session, handle, opened, frame, timeoutCount, stopRequested,
                 listed, keys>>

LeaveLoop ==
  /\ pc = "top"
  /\ stopRequested \/ handle = 0
  /\ pc' = "finish"
  /\ UNCHANGED <<capture, frame, timeoutCount, stopRequested, listed, keys>>

\* Seeded defect: a result of 0 is handled like a packet.
ReadTimeoutProcessed ==
  /\ pc = "read"
  /\ timeoutCount' = 0
  /\ pc' = "process"
  /\ UNCHANGED <<capture, frame, stopRequested, listed, keys>>

ReadTimeout ==
  /\ pc = "read"
  /\ timeoutCount' = timeoutCount + 1
  /\ pc' = "poll"
  /\ UNCHANGED <<capture, frame, stopRequested, listed, keys>>

\* Seeded defect: a packet does not start the count of timeouts again.
ReadPacketKeepsCount(k) ==
  /\ pc = "read"
  /\ frame' = k
  /\ pc' = "process"
  /\ UNCHANGED <<capture, timeoutCount, stopRequested, listed, keys>>

\* pcap_next_ex has delivered a packet of kind k.
ReadPacket(k) ==
  /\ pc = "read"
  /\ frame' = k
  /\ timeoutCount' = 0
  /\ pc' = "process"
  /\ UNCHANGED <<capture, stopRequested, listed, keys>>

\* pcap_next_ex returned -1: the loop goes on with whatever header and pktData
\* still describe.
ReadError ==
  /\ pc = "read"
  /\ timeoutCount' = 0
  /\ pc' = "process"
  /\ UNCHANGED <<capture, frame, stopRequested, listed, keys>>

-----------------------------------------------------------------------------
(* The keyboard after a timeout. *)

AfterPoll == pc' = IF timeoutCount >= MaxTimeouts THEN "prompt" ELSE "top"

\* Seeded defect: the key is taken from the console and never looked at.
PollDropsKey ==
  /\ pc = "poll"
  /\ keys' = IF keys = <<>> THEN keys ELSE Tail(keys)
  /\ AfterPoll
  /\ UNCHANGED <<capture, frame, timeoutCount, stopRequested, listed>>

\* Seeded defect: the keyboard is left to the prompt.
PollOmitted ==
  /\ pc = "poll"
  /\ AfterPoll
  /\ UNCHANGED <<capture, frame, timeoutCount, stopRequested, listed, keys>>

PollKey ==
  /\ pc = "poll"
  /\ \/ keys = <<>> /\ AfterPoll /\ UNCHANGED keys
     \/ /\ keys # <<>>
        /\ keys' = Tail(keys)
        /\ IF Head(keys) = "quit" THEN pc' = "finish" ELSE AfterPoll
  /\ UNCHANGED <<capture, frame, timeoutCount, stopRequested, listed>>

\* Seeded defect: the count goes on after the user chose to continue.
PromptKeepsCount ==
  /\ pc = "prompt"
  /\ keys # <<>>
  /\ keys' = Tail(keys)
  /\ pc' = IF Head(keys) = "quit" THEN "finish" ELSE "top"
  /\ UNCHANGED <<capture, frame, timeoutCount, stopRequested, listed>>

\* maxTimeouts reached: _getch blocks until a key is there.
Prompt ==
  /\ pc = "prompt"
  /\ keys # <<>>
  /\ keys' = Tail(keys)
  /\ \/ Head(keys) = "quit" /\ pc' = "finish" /\ UNCHANGED timeoutCount
     \/ Head(keys) # "quit" /\ pc' = "top" /\ timeoutCount' = 0
  /\ UNCHANGED <<capture, frame, stopRequested, listed>>

-----------------------------------------------------------------------------
(* A packet, and displayData after it. *)

\* Parse threw: the handler's continue skips displayData and its key poll.
ParseThrows ==
  /\ pc = "process"
  /\ frame = "malformed"
  /\ pc' = "top"
  /\ UNCHANGED <<capture, frame, timeoutCount, stopRequested, listed, keys>>

Process ==
  /\ pc = "process"
  /\ frame # "malformed"
  /\ listed' = (listed \/ frame = "parsed")
  /\ pc' = "display"
  /\ UNCHANGED <<capture, frame, timeoutCount, stopRequested, keys>>

\* stopRequested = displayData()
DisplayReturns(stop) ==
  /\ stopRequested' = stop
  /\ pc' = "top"

Display ==
  /\ pc = "display"
  /\ \/ keys = <<>> /\ DisplayReturns(FALSE) /\ UNCHANGED keys
     \/ /\ keys # <<>>
        /\ keys' = Tail(keys)
        /\ CASE Head(keys) = "quit" -> DisplayReturns(TRUE)
             [] Head(keys) = "detail" /\ listed ->
                  pc' = "index" /\ UNCHANGED stopRequested
             [] OTHER -> DisplayReturns(FALSE)
  /\ UNCHANGED <<capture, frame, timeoutCount, listed>>

\* cin >> idx reads a line, with every key that was waiting in front of it.
RefuseIndex ==
  /\ pc = "index"
  /\ keys' = <<>>
  /\ DisplayReturns(FALSE)
  /\ UNCHANGED <<capture, frame, timeoutCount, listed>>

AcceptIndex ==
  /\ pc = "index"
  /\ keys' = <<>>
  /\ pc' = "detail"
  /\ UNCHANGED <<capture, frame, timeoutCount, stopRequested, listed>>

\* "Press any key to return"
CloseDetail ==
  /\ pc = "detail"
  /\ keys # <<>>
  /\ keys' = Tail(keys)
  /\ DisplayReturns(FALSE)
  /\ UNCHANGED <<capture, frame, timeoutCount, listed>>

\* startCapture returns; the handle stays open and stays in the member.
Finish ==
  /\ pc = "finish"
  /\ pc' = "idle"
  /\ UNCHANGED <<capture, frame, timeoutCount, stopRequested, listed, keys>>

-----------------------------------------------------------------------------
Press(k) ==
  /\ pc # "idle"
  /\ Len(keys) < MaxKeys
  /\ keys' = Append(keys, k)
  /\ UNCHANGED <<pc, capture, frame, timeoutCount, stopRequested, listed>>

Step ==   \* the capture thread, when it is not waiting for the user
  \/ TestOpened \/ SetFilter \/ OpenInput \/ ClearFailed
  \/ TestHandle \/ CopyHandle \/ LeaveLoop
  \/ ReadTimeout \/ ReadError \/ (\E k \in Kinds : ReadPacket(k))
  \/ PollKey \/ Prompt
  \/ ParseThrows \/ Process
  \/ Display \/ CloseDetail
  \/ Finish

Answer == RefuseIndex \/ AcceptIndex   \* the user answers the index prompt

Next == Open \/ Step \/ Answer \/ \E k \in Key : Press(k)

Spec == Init /\ [][Next]_vars

\* The capture thread is never stopped for good; the user and the caller may be.
FairSpec == Spec /\ WF_vars(Step)

-----------------------------------------------------------------------------
(* Every variable has its type; the sessions bound the handles. *)
TypeOK ==
  /\ pc \in {"idle", "finish"} \cup Setup \cup Loop
  /\ session \in 0..MaxSessions
  /\ handle \in 0..session
  /\ localHandle \in 0..session
  /\ opened \subseteq 1..session
  /\ frame \in {"none"} \cup Kinds
  /\ timeoutCount \in 0..MaxTimeouts
  /\ stopRequested \in BOOLEAN
  /\ listed \in BOOLEAN
  /\ keys \in Seq(Key)

(* pcap_next_ex is only ever called on a handle that is open, and in a      *)
(* session whose handle is the member's (PacketCapture.cpp:92-96): no       *)
(* failed set-up falls through into the loop with a closed handle.          *)
ReadsOpenHandle ==
  pc = "read" => localHandle \in opened /\ localHandle = session

(* The handle member never dangles but between the two statements that end  *)
(* a failed set-up: it is null or names an open session, and the only       *)
(* session it can name is the current one, whatever failures and restarts   *)
(* came before.                                                             *)
HandleIsCurrent ==
  handle # 0 => handle = session /\ (handle \in opened \/ pc = "clear")

(* A session that failed while it was set up leaves no handle behind: the   *)
(* handles open between two sessions all belong to sessions that captured.  *)
FailedSetupClosed ==
  pc = "idle" /\ handle = 0 => session \notin opened

(* The blocking _getch of the timeout path is reached with exactly the      *)
(* maximum of consecutive timeouts and nowhere else, so any packet or read  *)
(* error in between starts the count again.                                 *)
PromptOnlyAtMax ==
  /\ pc = "prompt" => timeoutCount = MaxTimeouts
  /\ pc \in {"top", "copy", "read"} => timeoutCount < MaxTimeouts
  /\ pc \in {"process", "display", "index", "detail"} => timeoutCount = 0

(* README.md:68, "press q or Esc to stop while capturing": a quit key that   *)
(* is next in the console, while the loop runs and no detail view is open,  *)
(* ends the capture.                                                        *)
QuitNext == pc \in Loop \ {"index", "detail"} /\ keys # <<>> /\ Head(keys) = "quit"
QuitStops == QuitNext ~> (pc = "idle")

(* What holds of it: the key ends the capture unless, from some moment on,  *)
(* every read brings a packet whose Parse throws.                           *)
QuitStopsWhenPolled == []<>(pc \notin {"top", "copy", "read", "process"}) => QuitStops

\* The loop is over, or will be found to be over at its top.
Leaving == pc = "finish" \/ (pc = "top" /\ stopRequested)

\* Steps of the loop until it looks at the keyboard.
Distance(place) ==
  CASE place = "top" -> 5 [] place = "copy" -> 4 [] place = "read" -> 3
    [] place \in {"poll", "process"} -> 2 [] place = "display" -> 1 [] OTHER -> 0

(* No step swallows a quit key that is next in the console, at whichever    *)
(* place that reads keys: it stays next, and every step of the loop comes   *)
(* nearer to the place that takes it, whatever is read, except the continue *)
(* after a packet whose Parse throws (PacketCapture.cpp:154): five steps at *)
(* most.  The step that takes it decides to leave, and nothing the loop     *)
(* does after that goes on reading packets.                                 *)
QuitNearer ==
  [][/\ QuitNext => \/ Leaving'
                    \/ /\ QuitNext'
                       /\ \/ pc' = pc
                          \/ Distance(pc') < Distance(pc)
                          \/ pc = "process" /\ frame = "malformed"
     /\ Leaving => Leaving' \/ pc' = "idle"]_vars
=============================================================================
