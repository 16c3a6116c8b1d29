------------------------- MODULE CaptureControlProofs -------------------------
(***************************************************************************)
(* Safety of the capture loop for any number of sessions, timeouts, keys   *)
(* and any traffic.                                                        *)
(***************************************************************************)
EXTENDS CaptureControl, TLAPS

\* What makes the handle properties inductive: once it has been tested the
\* member names the current session, and while a read is going on so does the
\* copy; what a failure has closed, or could not open, is not open.
HandleInv ==
  /\ HandleIsCurrent
  /\ FailedSetupClosed
  /\ pc \notin {"idle", "opening"} => handle # 0
  /\ pc = "opening" /\ handle = 0 => session \notin opened
  /\ pc = "clear" => session \notin opened
  /\ pc = "read" => localHandle = handle

ControlInv == TypeOK /\ PromptOnlyAtMax /\ HandleInv

\* Taking the next key from the console leaves a console of keys.
LEMMA KeysTail ==
  ASSUME keys \in Seq(Key), keys # <<>>
  PROVE  Tail(keys) \in Seq(Key) /\ Head(keys) \in Key
OBVIOUS

\* A console nobody has typed at holds keys, all none of them.
LEMMA NoKeys == <<>> \in Seq(Key)
OBVIOUS

\* A handle is a positive number, the sessions so far are natural numbers.
LEMMA SessionsGrow ==
  ASSUME TypeOK
  PROVE  /\ session \in Nat
         /\ session + 1 \notin opened
         /\ opened \subseteq 1..(session + 1)
BY DEF TypeOK

-----------------------------------------------------------------------------
\* The invariant holds before the first capture.
LEMMA ControlInvInit == Init => ControlInv
<1> SUFFICES ASSUME Init PROVE ControlInv OBVIOUS
<1>1. keys \in Seq(Key) BY NoKeys DEF Init
<1>2. stopRequested \in BOOLEAN /\ listed \in BOOLEAN BY DEF Init
<1>3. opened \subseteq 1..session BY DEF Init
<1>4. TypeOK BY <1>1, <1>2, <1>3, ControlAssumption DEF Init, TypeOK
<1>5. PromptOnlyAtMax BY DEF Init, PromptOnlyAtMax
<1>6. HandleInv BY DEF Init, HandleInv, HandleIsCurrent, FailedSetupClosed
<1> QED BY <1>4, <1>5, <1>6 DEF ControlInv

\* Setting a session up keeps the types and the count of timeouts, on the
\* failing paths too.
LEMMA SetupKeepsTypes ==
  ASSUME TypeOK, PromptOnlyAtMax,
         Open \/ TestOpened \/ SetFilter \/ OpenInput \/ ClearFailed
  PROVE  TypeOK' /\ PromptOnlyAtMax'
<1> USE ControlAssumption DEF TypeOK, PromptOnlyAtMax, Setup, Loop, Blocked, capture
<1>1. CASE Open
  <2>1. session' = session + 1 /\ session + 1 \notin opened
    BY <1>1, SessionsGrow DEF Open
  <2>2. TypeOK'
    <3>1. keys' \in Seq(Key) BY <1>1, NoKeys DEF Open
    <3>2. opened' \subseteq 1..session'
      <4>1. opened' \subseteq opened \cup {session + 1} BY <1>1 DEF Open
      <4>2. session + 1 \in 1..(session + 1) BY SessionsGrow
      <4> QED BY <2>1, <4>1, <4>2, SessionsGrow
    <3>4. handle' \in 0..session' BY <1>1, <2>1, SessionsGrow DEF Open
    <3>3. localHandle' \in 0..session' /\ session' \in 0..MaxSessions
      BY <1>1, <2>1 DEF Open
    <3> QED BY <1>1, <3>1, <3>2, <3>3, <3>4 DEF Open
  <2>3. PromptOnlyAtMax'
    BY <1>1 DEF Open
  <2> QED BY <2>2, <2>3
<1>2. CASE SetFilter
  <2>1. CASE pc' = "input" /\ UNCHANGED capture
    BY <1>2, <2>1 DEF SetFilter
  <2>2. CASE CloseFailed
    BY <1>2, <2>2 DEF SetFilter, CloseFailed
  <2> QED BY <1>2, <2>1, <2>2 DEF SetFilter
<1>3. CASE OpenInput
  <2>1. CASE pc' = "top" /\ timeoutCount' = 0 /\ stopRequested' = FALSE /\ UNCHANGED capture
    <3>1. stopRequested' \in BOOLEAN BY <2>1
    <3> QED BY <1>3, <2>1, <3>1 DEF OpenInput
  <2>2. CASE CloseFailed /\ UNCHANGED <<timeoutCount, stopRequested>>
    BY <1>3, <2>2 DEF OpenInput, CloseFailed
  <2> QED BY <1>3, <2>1, <2>2 DEF OpenInput
<1>4. CASE TestOpened BY <1>4 DEF TestOpened
<1>5. CASE ClearFailed BY <1>5 DEF ClearFailed
<1> QED BY <1>1, <1>2, <1>3, <1>4, <1>5

\* A read, whatever it returns, keeps them.
LEMMA ReadKeepsTypes ==
  ASSUME TypeOK, PromptOnlyAtMax,
         TestHandle \/ CopyHandle \/ LeaveLoop \/ ReadTimeout \/ ReadError
           \/ \E k \in Kinds : ReadPacket(k)
  PROVE  TypeOK' /\ PromptOnlyAtMax'
<1> USE ControlAssumption DEF TypeOK, PromptOnlyAtMax, Setup, Loop, Blocked, capture
<1>1. CASE TestHandle BY <1>1 DEF TestHandle
<1>2. CASE CopyHandle BY <1>2 DEF CopyHandle
<1>3. CASE LeaveLoop BY <1>3 DEF LeaveLoop
<1>4. CASE ReadTimeout BY <1>4 DEF ReadTimeout
<1>5. CASE ReadError BY <1>5 DEF ReadError
<1>6. CASE \E k \in Kinds : ReadPacket(k) BY <1>6 DEF ReadPacket
<1> QED BY <1>1, <1>2, <1>3, <1>4, <1>5, <1>6

\* Looking at the keyboard keeps them; the count of timeouts decides on the prompt.
LEMMA KeyboardKeepsTypes ==
  ASSUME TypeOK, PromptOnlyAtMax, PollKey \/ Prompt \/ \E k \in Key : Press(k)
  PROVE  TypeOK' /\ PromptOnlyAtMax'
<1> USE ControlAssumption DEF TypeOK, PromptOnlyAtMax, Setup, Loop, Blocked, capture
<1>1. CASE PollKey
  <2>1. keys' \in Seq(Key) BY <1>1, KeysTail DEF PollKey
  <2>2. pc' = "finish" \/ AfterPoll BY <1>1 DEF PollKey
  <2> QED BY <1>1, <2>1, <2>2 DEF PollKey, AfterPoll
<1>2. CASE Prompt
  <2>1. keys' \in Seq(Key) BY <1>2, KeysTail DEF Prompt
  <2> QED BY <1>2, <2>1 DEF Prompt
<1>3. CASE \E k \in Key : Press(k) BY <1>3 DEF Press
<1> QED BY <1>1, <1>2, <1>3

\* Handling a packet and showing the list keeps them, whatever the user answers.
LEMMA PacketKeepsTypes ==
  ASSUME TypeOK, PromptOnlyAtMax,
         ParseThrows \/ Process \/ Display \/ CloseDetail \/ Finish \/ Answer
  PROVE  TypeOK' /\ PromptOnlyAtMax'
<1> USE ControlAssumption DEF TypeOK, PromptOnlyAtMax, Setup, Loop, Blocked, capture
<1>1. CASE ParseThrows BY <1>1 DEF ParseThrows
<1>2. CASE Process BY <1>2 DEF Process
<1>3. CASE Display
  <2>1. keys' \in Seq(Key) BY <1>3, KeysTail DEF Display
  <2>2. \/ pc' = "top" /\ stopRequested' \in BOOLEAN
        \/ pc' = "index" /\ UNCHANGED stopRequested
    BY <1>3 DEF Display, DisplayReturns
  <2> QED BY <1>3, <2>1, <2>2 DEF Display
<1>4. CASE CloseDetail
  <2>1. keys' \in Seq(Key) BY <1>4, KeysTail DEF CloseDetail
  <2>2. stopRequested' \in BOOLEAN BY <1>4 DEF CloseDetail, DisplayReturns
  <2> QED BY <1>4, <2>1, <2>2 DEF CloseDetail, DisplayReturns
<1>5. CASE Finish BY <1>5 DEF Finish
<1>6. CASE Answer
  <2>1. keys' \in Seq(Key) BY <1>6, NoKeys DEF Answer, RefuseIndex, AcceptIndex
  <2>2. CASE RefuseIndex
    <3>1. stopRequested' \in BOOLEAN BY <2>2 DEF RefuseIndex, DisplayReturns
    <3> QED BY <2>1, <2>2, <3>1 DEF RefuseIndex, DisplayReturns
  <2>3. CASE AcceptIndex BY <2>1, <2>3 DEF AcceptIndex
  <2> QED BY <1>6, <2>2, <2>3 DEF Answer
<1> QED BY <1>1, <1>2, <1>3, <1>4, <1>5, <1>6

\* So does every step.
LEMMA StepKeepsTypes ==
  ASSUME TypeOK, PromptOnlyAtMax, [Next]_vars
  PROVE  TypeOK' /\ PromptOnlyAtMax'
<1>1. CASE UNCHANGED vars
  BY <1>1 DEF vars, capture, TypeOK, PromptOnlyAtMax
<1>2. CASE Next
  BY <1>2, SetupKeepsTypes, ReadKeepsTypes, KeyboardKeepsTypes, PacketKeepsTypes
     DEF Next, Step
<1> QED BY <1>1, <1>2

\* Only setting a session up touches the handle member and the open handles,
\* and only the start of a read touches the copy.
LEMMA HandleKept ==
  ASSUME Next
  PROVE  \/ Open \/ TestOpened \/ SetFilter \/ OpenInput \/ ClearFailed \/ CopyHandle
         \/ /\ UNCHANGED <<session, handle, localHandle, opened>>
            /\ pc \notin {"idle"} \cup Setup \/ pc' = pc
            /\ pc' # "read" \/ pc' = pc
            /\ pc' \notin Setup \/ pc' = pc
            /\ pc' = "idle" => pc \in {"idle", "finish"}
BY DEF Next, Step, Answer, TestHandle, LeaveLoop, ReadTimeout, ReadError, ReadPacket, PollKey, AfterPoll,
   Prompt, ParseThrows, Process, Display, DisplayReturns, RefuseIndex, AcceptIndex,
   CloseDetail, Finish, Press, capture, Setup

\* The handles stay as they should be.
LEMMA StepKeepsHandle ==
  ASSUME ControlInv, [Next]_vars
  PROVE  HandleInv'
<1> USE DEF HandleInv, HandleIsCurrent, FailedSetupClosed
<1>0. TypeOK /\ HandleInv BY DEF ControlInv
<1>1. CASE Open BY <1>0, <1>1, SessionsGrow DEF Open
<1>2. CASE SetFilter BY <1>0, <1>2 DEF SetFilter, CloseFailed, capture
<1>3. CASE OpenInput BY <1>0, <1>3 DEF OpenInput, CloseFailed, capture
<1>4. CASE CopyHandle BY <1>0, <1>4 DEF CopyHandle
<1>5. CASE /\ UNCHANGED <<session, handle, localHandle, opened>>
           /\ pc \notin {"idle"} \cup Setup \/ pc' = pc
           /\ pc' # "read" \/ pc' = pc
           /\ pc' \notin Setup \/ pc' = pc
  BY <1>0, <1>5 DEF Setup
<1>6. CASE UNCHANGED vars BY <1>0, <1>6 DEF vars, capture
<1>7. CASE TestOpened BY <1>0, <1>7 DEF TestOpened, capture
<1>8. CASE ClearFailed BY <1>0, <1>8 DEF ClearFailed
<1> QED BY <1>1, <1>2, <1>3, <1>4, <1>5, <1>6, <1>7, <1>8, HandleKept

\* The invariant is inductive.
LEMMA ControlInvStep == ControlInv /\ [Next]_vars => ControlInv'
BY StepKeepsTypes, StepKeepsHandle DEF ControlInv

\* Every reachable state satisfies the invariant.
LEMMA ControlInvariant == Spec => []ControlInv
BY ControlInvInit, ControlInvStep, PTL DEF Spec

-----------------------------------------------------------------------------
(* Type correctness of startCapture's state: in particular the count of     *)
(* timeouts never passes its maximum, and no handle is named that was never *)
(* opened.                                                                  *)
THEOREM TypeCorrect == Spec => []TypeOK
<1>1. ControlInv => TypeOK BY DEF ControlInv
<1> QED BY <1>1, ControlInvariant, PTL

(* Whatever fails while a session is set up, in whatever session, the loop  *)
(* reads only from the handle of its own session, and that handle is open.  *)
THEOREM ReadsAreSafe == Spec => []ReadsOpenHandle
<1>1. ControlInv => ReadsOpenHandle
  BY DEF ControlInv, HandleInv, HandleIsCurrent, ReadsOpenHandle
<1> QED BY <1>1, ControlInvariant, PTL

(* The handle member never dangles but where a failed set-up empties it.    *)
THEOREM HandleNeverDangles == Spec => []HandleIsCurrent
<1>1. ControlInv => HandleIsCurrent BY DEF ControlInv, HandleInv
<1> QED BY <1>1, ControlInvariant, PTL

(* A failed set-up leaves no open handle behind.                            *)
THEOREM FailuresClean == Spec => []FailedSetupClosed
<1>1. ControlInv => FailedSetupClosed BY DEF ControlInv, HandleInv
<1> QED BY <1>1, ControlInvariant, PTL

(* The user is asked whether to go on after exactly MaxTimeouts timeouts in *)
(* a row, for every value of MaxTimeouts.                                   *)
THEOREM PromptIsExact == Spec => []PromptOnlyAtMax
<1>1. ControlInv => PromptOnlyAtMax BY DEF ControlInv
<1> QED BY <1>1, ControlInvariant, PTL

-----------------------------------------------------------------------------
\* A key that is pressed waits behind those that are there.
LEMMA PressAppends ==
  ASSUME keys \in Seq(Key), keys # <<>>, NEW k \in Key
  PROVE  Append(keys, k) # <<>> /\ Head(Append(keys, k)) = Head(keys)
OBVIOUS

\* Where a step of the loop leads with a quit key next in the console: on
\* towards the keyboard with the key still there, or to the end of the loop.
LEMMA QuitStep ==
  ASSUME ControlInv, QuitNext, Step
  PROVE  \/ Leaving'
         \/ /\ QuitNext'
            /\ \/ Distance(pc') < Distance(pc)
               \/ pc = "process" /\ frame = "malformed"
<1> USE DEF QuitNext, Loop, Blocked
<1>1. CASE TestOpened \/ SetFilter \/ OpenInput \/ ClearFailed
  BY <1>1 DEF TestOpened, SetFilter, OpenInput, ClearFailed
<1>2. CASE TestHandle \/ CopyHandle BY <1>2 DEF TestHandle, CopyHandle, Distance
<1>3. CASE LeaveLoop BY <1>3 DEF LeaveLoop, Leaving
<1>4. CASE ReadTimeout BY <1>4 DEF ReadTimeout, Distance
<1>5. CASE ReadError BY <1>5 DEF ReadError, Distance
<1>6. CASE \E k \in Kinds : ReadPacket(k) BY <1>6 DEF ReadPacket, Distance
<1>7. CASE PollKey BY <1>7 DEF PollKey, Leaving
<1>8. CASE Prompt BY <1>8 DEF Prompt, Leaving
<1>9. CASE ParseThrows BY <1>9 DEF ParseThrows
<1>10. CASE Process BY <1>10 DEF Process, Distance
<1>11. CASE Display BY <1>11 DEF Display, DisplayReturns, Leaving
<1>12. CASE CloseDetail \/ Finish BY <1>12 DEF CloseDetail, Finish
<1> QED
  BY <1>1, <1>2, <1>3, <1>4, <1>5, <1>6, <1>7, <1>8, <1>9, <1>10, <1>11, <1>12 DEF Step

\* What the user types, and a step that changes nothing, leave the key next.
LEMMA QuitStays ==
  ASSUME ControlInv, QuitNext, (\E k \in Key : Press(k)) \/ UNCHANGED vars
  PROVE  QuitNext' /\ pc' = pc
<1>1. CASE \E k \in Key : Press(k)
  <2>1. PICK k \in Key : Press(k) BY <1>1
  <2>2. keys' = Append(keys, k) /\ pc' = pc BY <2>1 DEF Press
  <2>3. keys \in Seq(Key) /\ keys # <<>> BY DEF ControlInv, TypeOK, QuitNext
  <2>4. keys' # <<>> /\ Head(keys') = Head(keys) BY <2>2, <2>3, PressAppends
  <2> QED BY <2>2, <2>4 DEF QuitNext
<1>2. CASE UNCHANGED vars BY <1>2 DEF vars, QuitNext
<1> QED BY <1>1, <1>2

\* Neither a caller nor an answer to the index prompt is in the way.
LEMMA QuitOthers ==
  ASSUME QuitNext
  PROVE  ~Open /\ ~Answer
BY DEF QuitNext, Loop, Blocked, Open, Answer, RefuseIndex, AcceptIndex

\* Once the end of the loop is decided, it comes.
LEMMA LeavingStays ==
  ASSUME Leaving, [Next]_vars
  PROVE  Leaving' \/ pc' = "idle"
<1>1. CASE UNCHANGED vars BY <1>1 DEF vars, Leaving
<1>2. CASE \E k \in Key : Press(k) BY <1>2 DEF Press, Leaving
<1>3. CASE Open \/ Answer BY <1>3 DEF Open, Answer, RefuseIndex, AcceptIndex, Leaving
<1>4. CASE Step
  <2>1. LeaveLoop \/ Finish
    BY <1>4 DEF Leaving, Step, TestOpened, SetFilter, OpenInput, ClearFailed, TestHandle,
       CopyHandle, ReadTimeout, ReadError,
       ReadPacket, PollKey, Prompt, ParseThrows, Process, Display, CloseDetail
  <2> QED BY <2>1 DEF LeaveLoop, Finish, Leaving
<1> QED BY <1>1, <1>2, <1>3, <1>4 DEF Next

\* One step of the whole, with a quit key next in the console.
LEMMA QuitNextStep ==
  ASSUME ControlInv, QuitNext, [Next]_vars
  PROVE  \/ Leaving'
         \/ /\ QuitNext'
            /\ \/ pc' = pc
               \/ Distance(pc') < Distance(pc)
               \/ pc = "process" /\ frame = "malformed"
BY QuitStep, QuitStays, QuitOthers DEF Next

(* A quit key that is next in the console is never swallowed, for any       *)
(* traffic and any number of keys, and the loop reaches the place that      *)
(* takes it in at most five of its steps, but for packets whose Parse       *)
(* throws.  What is left of QuitStopsWhenPolled is only that the thread     *)
(* goes on.                                                                 *)
THEOREM QuitIsNear == Spec => QuitNearer
<1>1. ControlInv /\ [Next]_vars =>
        [/\ QuitNext => \/ Leaving'
                        \/ /\ QuitNext'
                           /\ \/ pc' = pc
                              \/ Distance(pc') < Distance(pc)
                              \/ pc = "process" /\ frame = "malformed"
         /\ Leaving => Leaving' \/ pc' = "idle"]_vars
  BY QuitNextStep, LeavingStays
<1> QED BY <1>1, ControlInvariant, PTL DEF Spec, QuitNearer
=============================================================================
