--------------------------- MODULE NavigationProofs ---------------------------
(***************************************************************************)
(* What holds of the pages for every console input and any number of       *)
(* captures.  The invariant: the stack is the path to the page, and        *)
(* output.txt may differ from input.txt after a finished parse only from   *)
(* the truncation of input.txt to the parse that follows.                  *)
(***************************************************************************)
EXTENDS Navigation, SequenceTheorems, TLAPS

Places == {"menu", "choice", "newline", "filter", "adapter", "setup", "capturing",
           "index", "parse", "parsing", "analyze", "enter", "enter again", "rest"}

\* Between a capture and the end of its parse.
Unparsed == (page = "capture" /\ at \in {"capturing", "index", "parse"}) \/ at = "parsing"

FilesInv == finished /\ ~Unparsed => output = input

NavInv == TypeOK /\ StackIsPath /\ FilesInv

\* Init establishes the invariant.
LEMMA NavInit == Init => NavInv
<1> SUFFICES ASSUME Init PROVE NavInv
  OBVIOUS
<1>1. <<>> \in Seq(Char)
  OBVIOUS
<1>2. TypeOK
  <2>1. 0 \in 0..MaxInput /\ 0 \in 0..0
    BY NavigationAssumption
  <2>2. typed \in Seq(Char)
    BY <1>1 DEF Init
  <2>3. page \in {"home", "device", "statistics", "http", "capture"} /\ at \in Places
    BY DEF Init, Places
  <2>4. failed \in BOOLEAN /\ finished \in BOOLEAN /\ input \in 0..MaxInput /\ output \in 0..input
    BY <2>1 DEF Init
  <2> QED
    BY <2>2, <2>3, <2>4 DEF TypeOK, Places
<1>3. StackIsPath /\ FilesInv
  BY DEF Init, StackIsPath, Path, FilesInv
<1> QED
  BY <1>2, <1>3 DEF NavInv

\* Each read leaves a sequence of characters in the console.
LEMMA ConsoleType ==
  ASSUME typed \in Seq(Char),
         \/ \E c \in Char : Extract(c)
         \/ TakeChar \/ TakeLine
         \/ \E l \in Lines : typed' = typed \o l
         \/ UNCHANGED typed
  PROVE  typed' \in Seq(Char)
<1>1. CASE \E c \in Char : Extract(c)
  <2>1. typed' = typed \/ (typed # <<>> /\ typed' = Tail(typed))
    BY <1>1 DEF Extract
  <2> QED
    BY <2>1, HeadTailProperties
<1>2. CASE TakeChar
  BY <1>2, HeadTailProperties DEF TakeChar
<1>3. CASE TakeLine
  <2>1. PICK i \in 1..Len(typed) : typed' = SubSeq(typed, i + 1, Len(typed))
    BY <1>3 DEF TakeLine
  <2>2. Len(typed) \in Nat
    BY LenProperties
  <2>3. i \in Nat /\ i + 1 >= 1
    BY <2>2
  <2>4. \A k \in (i + 1)..Len(typed) : typed[k] \in Char
    BY <2>2, <2>3, ElementOfSeq
  <2> QED
    BY <2>1, <2>2, <2>3, <2>4, SubSeqProperties
<1>4. CASE \E l \in Lines : typed' = typed \o l
  <2>1. PICK l \in Lines : typed' = typed \o l
    BY <1>4
  <2>2. l \in Seq(Char)
    BY NavigationAssumption
  <2> QED
    BY <2>1, <2>2, ConcatProperties
<1>5. CASE UNCHANGED typed
  BY <1>5
<1> QED
  BY <1>1, <1>2, <1>3, <1>4, <1>5

\* A page is put on a stack of one, and taken off a stack of two.
LEMMA AppendToOne == Append(<<"home">>, "device") = <<"home", "device">>
<1> DEFINE P == {"home", "device"}
<1> DEFINE s == Append(<<"home">>, "device")
<1>1. <<"home">> \in Seq(P) /\ Len(<<"home">>) = 1 /\ <<"home">>[1] = "home"
  OBVIOUS
<1>2. <<"home", "device">> \in Seq(P) /\ Len(<<"home", "device">>) = 2
  OBVIOUS
<1>3. s \in Seq(P) /\ Len(s) = 2 /\ s[1] = "home" /\ s[2] = "device"
  BY <1>1, AppendProperties
<1>4. \A i \in 1..2 : s[i] = <<"home", "device">>[i]
  BY <1>3
<1> QED
  BY <1>2, <1>3, <1>4, SeqEqual

LEMMA FirstOfTwo == SubSeq(<<"home", "device">>, 1, 1) = <<"home">>
<1> DEFINE P == {"home", "device"}
<1> DEFINE s == SubSeq(<<"home", "device">>, 1, 1)
<1>1. \A i \in 1..1 : <<"home", "device">>[i] \in P
  OBVIOUS
<1>2. s \in Seq(P) /\ Len(s) = 1 /\ s[1] = <<"home", "device">>[1]
  BY <1>1, SubSeqProperties
<1>3. <<"home">> \in Seq(P) /\ Len(<<"home">>) = 1
  OBVIOUS
<1>4. \A i \in 1..1 : s[i] = <<"home">>[i]
  BY <1>2
<1> QED
  BY <1>2, <1>3, <1>4, SeqEqual

\* Back from a page other than home displays the page before it on the path.
LEMMA BackOnPath ==
  ASSUME StackIsPath, page \in {"device", "statistics", "http", "capture"}, Back
  PROVE  /\ page' = (IF page = "capture" THEN "device" ELSE "home")
         /\ at' = (IF page = "capture" THEN "choice" ELSE "menu")
         /\ StackIsPath'
<1>1. CASE page = "capture"
  <2>1. pageStack = <<"home", "device">>
    BY <1>1 DEF StackIsPath, Path
  <2>2. pageStack # <<>> /\ Len(pageStack) = 2 /\ pageStack[2] = "device"
    BY <2>1
  <2>3. SubSeq(pageStack, 1, 1) = <<"home">>
    BY <2>1, FirstOfTwo
  <2>4. Show("device") /\ pageStack' = SubSeq(pageStack, 1, 1)
    BY <2>2 DEF Back
  <2> QED
    BY <1>1, <2>3, <2>4 DEF Show, First, StackIsPath, Path
<1>2. CASE page # "capture"
  <2>1. pageStack = <<"home">>
    BY <1>2 DEF StackIsPath, Path
  <2>2. pageStack # <<>> /\ Len(pageStack) = 1 /\ pageStack[1] = "home"
    BY <2>1
  <2>3. SubSeq(pageStack, 1, 0) = <<>>
    BY <2>1
  <2>4. Show("home") /\ pageStack' = <<>>
    BY <2>2, <2>3 DEF Back
  <2> QED
    BY <1>2, <2>4 DEF Show, First, StackIsPath, Path
<1> QED
  BY <1>1, <1>2

\* Every step keeps the stack the path to the page.
LEMMA PathStep == NavInv /\ [Next]_vars => StackIsPath'
<1> SUFFICES ASSUME NavInv, [Next]_vars PROVE StackIsPath'
  OBVIOUS
<1>0. StackIsPath
  BY DEF NavInv
<1>1. CASE UNCHANGED <<page, pageStack>>
  BY <1>0, <1>1 DEF StackIsPath
<1>2. CASE Back /\ page \in {"device", "statistics", "http", "capture"}
  BY <1>0, <1>2, BackOnPath
<1>3. CASE HomeMenu
  <2>1. PICK p \in {"device", "statistics", "http"} : Forward(p)
    BY <1>3 DEF HomeMenu
  <2>2. pageStack = <<>>
    BY <1>0, <1>3 DEF HomeMenu, StackIsPath, Path
  <2>3. page = "home" /\ page' = p /\ pageStack' = Append(pageStack, page)
    BY <1>3, <2>1 DEF Forward, Show, HomeMenu
  <2> QED
    BY <2>2, <2>3 DEF StackIsPath, Path
<1>4. CASE DeviceAdapter
  <2>1. pageStack = <<"home">> /\ page = "device"
    BY <1>0, <1>4 DEF DeviceAdapter, StackIsPath, Path
  <2>2. page' = "capture" /\ pageStack' = Append(pageStack, page)
    BY <1>4 DEF DeviceAdapter, Forward, Show
  <2>3. Append(<<"home">>, "device") = <<"home", "device">>
    BY AppendToOne
  <2>4. pageStack' = <<"home", "device">>
    BY <2>1, <2>2, <2>3
  <2> QED
    BY <2>2, <2>4 DEF StackIsPath, Path
<1>5. CASE Restart
  BY <1>5 DEF Restart, StackIsPath, Path
<1>6. CASE DeviceChoice
  BY <1>1, <1>2, <1>6 DEF DeviceChoice, Stay
<1>7. CASE Enter
  BY <1>1, <1>2, <1>7 DEF Enter, Stay
<1>8. CASE HttpChoice
  BY <1>1, <1>2, <1>8 DEF HttpChoice, Stay
<1>9. CASE SkipLineEnd \/ DeviceNewline \/ DeviceFilter \/ CaptureSetup \/ AskIndex \/ CaptureIndex
  BY <1>1, <1>9 DEF SkipLineEnd, DeviceNewline, DeviceFilter, CaptureSetup, AskIndex, CaptureIndex, Stay
<1>10. CASE StopCapture \/ OpenFiles \/ ParseDone \/ Analyze \/ HttpRest \/ HttpEnter \/ Type \/ UNCHANGED vars
  BY <1>1, <1>10 DEF StopCapture, OpenFiles, ParseDone, Analyze, HttpRest, HttpEnter, Type, Stay, vars
<1> QED
  BY <1>3, <1>4, <1>5, <1>6, <1>7, <1>8, <1>9, <1>10 DEF Next, Display, Key

\* Every step keeps what is claimed of the files.
LEMMA FilesStep == NavInv /\ [Next]_vars => FilesInv'
<1> SUFFICES ASSUME NavInv, [Next]_vars PROVE FilesInv'
  OBVIOUS
<1>0. StackIsPath /\ FilesInv
  BY DEF NavInv
<1>1. ASSUME UNCHANGED files, ~Unparsed PROVE FilesInv'
  BY <1>0, <1>1 DEF FilesInv, files, Unparsed
<1>2. CASE HomeMenu \/ DeviceNewline \/ DeviceFilter \/ DeviceAdapter \/ Analyze \/ HttpRest \/ HttpEnter
  BY <1>1, <1>2 DEF Analyze, HomeMenu, DeviceNewline, DeviceFilter, DeviceAdapter, HttpRest, HttpEnter, Unparsed
<1>3. CASE DeviceChoice \/ HttpChoice \/ Enter
  BY <1>1, <1>3 DEF DeviceChoice, HttpChoice, Enter, Unparsed
<1>4. CASE SkipLineEnd \/ Type \/ UNCHANGED vars
  BY <1>0, <1>4 DEF SkipLineEnd, Type, vars, files, FilesInv, Unparsed
<1>5. CASE Restart
  BY <1>5 DEF Restart, FilesInv
<1>6. CASE CaptureSetup \/ AskIndex \/ CaptureIndex \/ StopCapture
  <2>1. page' = "capture" /\ at' \in {"capturing", "index", "parse"}
    BY <1>6 DEF CaptureSetup, AskIndex, CaptureIndex, StopCapture, Stay
  <2> QED
    BY <2>1 DEF FilesInv, Unparsed
<1>7. CASE OpenFiles
  BY <1>7 DEF OpenFiles, Stay, FilesInv, Unparsed
<1>8. CASE ParseDone
  BY <1>8 DEF ParseDone, Stay, FilesInv
<1> QED
  BY <1>2, <1>3, <1>4, <1>5, <1>6, <1>7, <1>8 DEF Next, Display, Key

\* Every step goes to a place of a page.
LEMMA PlaceStep ==
  NavInv /\ [Next]_vars =>
    page' \in {"home", "device", "statistics", "http", "capture"} /\ at' \in Places
<1> SUFFICES ASSUME NavInv, [Next]_vars
             PROVE page' \in {"home", "device", "statistics", "http", "capture"} /\ at' \in Places
  OBVIOUS
<1>0. StackIsPath /\ TypeOK
  BY DEF NavInv
<1>1. ASSUME UNCHANGED page, at' \in Places PROVE page' \in {"home", "device", "statistics", "http", "capture"} /\ at' \in Places
  BY <1>0, <1>1 DEF TypeOK
<1>2. CASE Back /\ page \in {"device", "statistics", "http", "capture"}
  <2>1. /\ page' = (IF page = "capture" THEN "device" ELSE "home")
        /\ at' = (IF page = "capture" THEN "choice" ELSE "menu")
    BY <1>0, <1>2, BackOnPath
  <2> QED
    BY <2>1 DEF Places
<1>3. CASE HomeMenu
  BY <1>3 DEF HomeMenu, Forward, Show, First, Places
<1>4. CASE DeviceAdapter
  BY <1>4 DEF DeviceAdapter, Forward, Show, First, Places
<1>5. CASE Restart
  BY <1>5 DEF Restart, Places
<1>6. CASE DeviceChoice
  BY <1>1, <1>2, <1>6 DEF DeviceChoice, Stay, Places
<1>7. CASE Enter
  BY <1>1, <1>2, <1>7 DEF Enter, Stay, Places
<1>8. CASE HttpChoice
  BY <1>1, <1>2, <1>8 DEF HttpChoice, Stay, Places
<1>9. CASE DeviceNewline \/ DeviceFilter \/ CaptureSetup \/ AskIndex \/ CaptureIndex
  BY <1>1, <1>9 DEF DeviceNewline, DeviceFilter, CaptureSetup, AskIndex, CaptureIndex, Stay, Places
<1>10. CASE StopCapture \/ OpenFiles \/ ParseDone \/ Analyze \/ HttpRest \/ HttpEnter
  BY <1>1, <1>10 DEF StopCapture, OpenFiles, ParseDone, Analyze, AfterParse, HttpRest, HttpEnter, Stay, Places
<1>11. CASE SkipLineEnd \/ Type \/ UNCHANGED vars
  BY <1>0, <1>11 DEF SkipLineEnd, Type, vars, TypeOK, Places
<1> QED
  BY <1>3, <1>4, <1>5, <1>6, <1>7, <1>8, <1>9, <1>10, <1>11 DEF Next, Display, Key

\* Every step leaves characters in the console.
LEMMA TypedStep == NavInv /\ [Next]_vars => typed' \in Seq(Char)
<1> SUFFICES ASSUME NavInv, [Next]_vars PROVE typed' \in Seq(Char)
  OBVIOUS
<1>0. typed \in Seq(Char)
  BY DEF NavInv, TypeOK
<1>1. CASE UNCHANGED typed
  BY <1>1, <1>0
<1>2. CASE TakeChar \/ TakeLine
  BY <1>2, <1>0, ConsoleType
<1>3. CASE \E c \in Char : Extract(c)
  BY <1>3, <1>0, ConsoleType
<1>4. CASE Type
  <2>1. \E l \in Lines : typed' = typed \o l
    BY <1>4 DEF Type
  <2> QED
    BY <2>1, <1>0, ConsoleType
<1>5. CASE Restart
  <2>1. <<>> \in Seq(Char)
    OBVIOUS
  <2> QED
    BY <1>5, <2>1 DEF Restart
<1>6. CASE DeviceChoice \/ CaptureIndex \/ HttpChoice
  BY <1>1, <1>2, <1>3, <1>6 DEF DeviceChoice, CaptureIndex, HttpChoice, Number, ClearAndIgnore, Char
<1>7. CASE SkipLineEnd \/ DeviceNewline \/ DeviceFilter \/ Enter \/ HttpRest \/ HttpEnter
  BY <1>1, <1>2, <1>7 DEF SkipLineEnd, DeviceNewline, DeviceFilter, Enter, HttpRest, HttpEnter
<1>8. CASE HomeMenu \/ DeviceAdapter \/ CaptureSetup \/ AskIndex \/ StopCapture \/ OpenFiles \/ ParseDone \/ Analyze
  BY <1>1, <1>8 DEF Analyze, HomeMenu, DeviceAdapter, CaptureSetup, AskIndex, StopCapture, OpenFiles, ParseDone
<1>9. CASE UNCHANGED vars
  BY <1>1, <1>9 DEF vars
<1> QED
  BY <1>4, <1>5, <1>6, <1>7, <1>8, <1>9 DEF Next, Display, Key

\* Every step keeps the flag and the files' types.
LEMMA FlagsStep ==
  NavInv /\ [Next]_vars =>
    failed' \in BOOLEAN /\ finished' \in BOOLEAN /\ input' \in 0..MaxInput /\ output' \in 0..input'
<1> DEFINE Goal == failed' \in BOOLEAN /\ finished' \in BOOLEAN
                   /\ input' \in 0..MaxInput /\ output' \in 0..input'
<1> SUFFICES ASSUME NavInv, [Next]_vars PROVE Goal
  OBVIOUS
<1>0. /\ failed \in BOOLEAN /\ finished \in BOOLEAN
      /\ input \in 0..MaxInput /\ output \in 0..input /\ MaxInput \in Nat
  BY NavigationAssumption DEF NavInv, TypeOK
<1>1. ASSUME UNCHANGED files, failed' \in BOOLEAN PROVE Goal
  BY <1>0, <1>1 DEF files
<1>2. CASE HomeMenu \/ DeviceFilter \/ DeviceAdapter \/ AskIndex \/ StopCapture \/ Analyze \/ HttpRest \/ Type
  BY <1>0, <1>1, <1>2 DEF Analyze, HomeMenu, DeviceFilter, DeviceAdapter, AskIndex, StopCapture, HttpRest, Type
<1>3. CASE SkipLineEnd \/ DeviceNewline \/ Enter \/ HttpEnter
  BY <1>0, <1>1, <1>3 DEF SkipLineEnd, DeviceNewline, Enter, HttpEnter, TakeChar
<1>4. CASE DeviceChoice \/ CaptureIndex \/ HttpChoice
  <2>1. UNCHANGED files
    BY <1>4 DEF DeviceChoice, CaptureIndex, HttpChoice
  <2>2. (\E c \in Char : Extract(c)) \/ UNCHANGED failed \/ ClearAndIgnore
    BY <1>4 DEF DeviceChoice, CaptureIndex, HttpChoice, Number, Char
  <2>3. failed' \in BOOLEAN
    BY <1>0, <2>2 DEF Extract, ClearAndIgnore
  <2> QED
    BY <1>1, <2>1, <2>3
<1>5. CASE CaptureSetup
  BY <1>0, <1>5 DEF CaptureSetup
<1>6. CASE OpenFiles
  <2>1. input' = input /\ failed' = failed
    BY <1>6 DEF OpenFiles
  <2>2. finished' = FALSE \/ finished' = finished
    BY <1>6 DEF OpenFiles
  <2>3. output' = 0 \/ output' = output
    BY <1>6 DEF OpenFiles
  <2>4. output' \in 0..input'
    BY <1>0, <2>1, <2>3
  <2> QED
    BY <1>0, <2>1, <2>2, <2>4
<1>7. CASE ParseDone
  <2>1. input' = input /\ failed' = failed /\ finished' \in BOOLEAN
    BY <1>7 DEF ParseDone
  <2>2. output' = input \/ output' = 0
    BY <1>7 DEF ParseDone
  <2>3. output' \in 0..input'
    BY <1>0, <2>1, <2>2
  <2> QED
    BY <1>0, <2>1, <2>3
<1>8. CASE Restart
  BY <1>0, <1>8 DEF Restart
<1>9. CASE UNCHANGED vars
  BY <1>0, <1>1, <1>9 DEF vars
<1> QED
  BY <1>2, <1>3, <1>4, <1>5, <1>6, <1>7, <1>8, <1>9 DEF Next, Display, Key

LEMMA NavStep == NavInv /\ [Next]_vars => NavInv'
BY PathStep, FilesStep, PlaceStep, TypedStep, FlagsStep DEF NavInv, TypeOK, Places

LEMMA NavInvariant == Spec => []NavInv
BY NavInit, NavStep, PTL DEF Spec

\* The pages' state is type correct; no display returns null, so that the
\* program never ends by itself.
THEOREM NavTypeCorrect == Spec => []TypeOK
<1>1. NavInv => TypeOK
  BY DEF NavInv
<1> QED
  BY NavInvariant, <1>1, PTL

\* The page stack is the path to the page displayed, whatever the console holds.
THEOREM StackFollowsPages == Spec => []StackIsPath
<1>1. NavInv => StackIsPath
  BY DEF NavInv
<1> QED
  BY NavInvariant, <1>1, PTL

\* A parse reported finished stays true of the files until the next capture.
THEOREM OutputStaysCurrent == Spec => []OutputIsCurrent
<1>1. NavInv => OutputIsCurrent
  BY DEF NavInv, FilesInv, Unparsed, OutputIsCurrent
<1> QED
  BY NavInvariant, <1>1, PTL

-----------------------------------------------------------------------------
(* The HTTP page and a failed cin *)

\* What waits in the console are whole lines, but for the part of the first one
\* that was read.
WholeLines(s) == s # <<>> => s[Len(s)] = "nl"

\* The HTTP page is entered, and gets its cin failed, at its prompt only.
FailedAtPrompt == page = "http" /\ failed => at = "choice"

ReadyInv == WholeLines(typed) /\ FailedAtPrompt

LEMMA RestIsWhole ==
  ASSUME NEW s \in Seq(Char), WholeLines(s), NEW i \in 1..Len(s)
  PROVE  WholeLines(SubSeq(s, i + 1, Len(s)))
<1> DEFINE t == SubSeq(s, i + 1, Len(s))
<1>1. Len(s) \in Nat /\ i \in Nat
  BY LenProperties
<1>2. \A k \in (i + 1)..Len(s) : s[k] \in Char
  BY <1>1, ElementOfSeq
<1>3. /\ t \in Seq(Char)
      /\ Len(t) = IF i + 1 <= Len(s) THEN Len(s) - (i + 1) + 1 ELSE 0
      /\ \A k \in 1..(Len(s) - (i + 1) + 1) : t[k] = s[i + 1 + k - 1]
  BY <1>1, <1>2, SubSeqProperties
<1>4. CASE i + 1 <= Len(s)
  <2>1. Len(t) = Len(s) - i /\ t[Len(s) - i] = s[Len(s)]
    BY <1>1, <1>3, <1>4
  <2>2. s # <<>>
    BY <1>1, <1>4
  <2> QED
    BY <2>1, <2>2 DEF WholeLines
<1>5. CASE ~(i + 1 <= Len(s))
  BY <1>3, <1>5, EmptySeq DEF WholeLines
<1> QED
  BY <1>4, <1>5

LEMMA TailIsWhole ==
  ASSUME NEW s \in Seq(Char), WholeLines(s), s # <<>>
  PROVE  WholeLines(Tail(s))
<1>1. Len(s) \in Nat \ {0}
  BY EmptySeq
<1>2. Tail(s) \in Seq(Char) /\ Len(Tail(s)) = Len(s) - 1
      /\ \A i \in 1..Len(Tail(s)) : Tail(s)[i] = s[i + 1]
  BY HeadTailProperties
<1>3. CASE Tail(s) # <<>>
  <2>1. Len(Tail(s)) \in Nat \ {0}
    BY <1>2, <1>3, EmptySeq
  <2> QED
    BY <1>1, <1>2, <2>1 DEF WholeLines
<1> QED
  BY <1>3 DEF WholeLines

LEMMA LineIsWhole ==
  ASSUME NEW s \in Seq(Char), NEW l \in Lines
  PROVE  WholeLines(s \o l)
<1>1. l \in Seq(Char) /\ l # <<>> /\ l[Len(l)] = "nl"
  BY NavigationAssumption
<1>2. Len(s) \in Nat /\ Len(l) \in Nat \ {0}
  BY <1>1, EmptySeq, LenProperties
<1>3. /\ Len(s \o l) = Len(s) + Len(l)
      /\ (s \o l)[Len(s) + Len(l)] = l[Len(l)]
  <2>1. Len(s) + Len(l) \in 1..(Len(s) + Len(l)) /\ ~(Len(s) + Len(l) <= Len(s))
    BY <1>2
  <2>2. Len(s) + Len(l) - Len(s) = Len(l)
    BY <1>2
  <2> QED
    BY <1>1, <2>1, <2>2, ConcatProperties
<1> QED
  BY <1>1, <1>3 DEF WholeLines

\* Whatever is read or typed, whole lines are left.
LEMMA WholeStep == NavInv /\ WholeLines(typed) /\ [Next]_vars => WholeLines(typed')
<1> SUFFICES ASSUME NavInv, WholeLines(typed), [Next]_vars PROVE WholeLines(typed')
  OBVIOUS
<1>0. typed \in Seq(Char)
  BY DEF NavInv, TypeOK
<1>1. CASE UNCHANGED typed
  BY <1>1
<1>2. CASE TakeChar
  BY <1>0, <1>2, TailIsWhole DEF TakeChar
<1>3. CASE TakeLine
  <2>1. PICK i \in 1..Len(typed) : typed' = SubSeq(typed, i + 1, Len(typed))
    BY <1>3 DEF TakeLine
  <2> QED
    BY <1>0, <2>1, RestIsWhole
<1>4. CASE \E c \in Char : Extract(c)
  <2>1. typed' = typed \/ (typed # <<>> /\ typed' = Tail(typed))
    BY <1>4 DEF Extract
  <2> QED
    BY <1>0, <2>1, TailIsWhole
<1>5. CASE Type
  <2>1. PICK l \in Lines : typed' = typed \o l
    BY <1>5 DEF Type
  <2> QED
    BY <1>0, <2>1, LineIsWhole
<1>6. CASE Restart
  BY <1>6 DEF Restart, WholeLines
<1>7. CASE DeviceChoice \/ CaptureIndex \/ HttpChoice
  BY <1>1, <1>3, <1>4, <1>7 DEF DeviceChoice, CaptureIndex, HttpChoice, Number, ClearAndIgnore, Char
<1>8. CASE SkipLineEnd \/ DeviceNewline \/ DeviceFilter \/ Enter \/ HttpRest \/ HttpEnter
  BY <1>1, <1>2, <1>3, <1>8 DEF SkipLineEnd, DeviceNewline, DeviceFilter, Enter, HttpRest, HttpEnter
<1>9. CASE HomeMenu \/ DeviceAdapter \/ CaptureSetup \/ AskIndex \/ StopCapture \/ OpenFiles \/ ParseDone \/ Analyze
  BY <1>1, <1>9 DEF Analyze, HomeMenu, DeviceAdapter, CaptureSetup, AskIndex, StopCapture, OpenFiles, ParseDone
<1>10. CASE UNCHANGED vars
  BY <1>1, <1>10 DEF vars
<1> QED
  BY <1>5, <1>6, <1>7, <1>8, <1>9, <1>10 DEF Next, Display, Key

\* What a step may do on the HTTP page while cin is failed: the line is dropped,
\* the user types, or the program is ended.
LEMMA FailedStep ==
  ASSUME FailedAtPrompt, page = "http", failed, [Next]_vars
  PROVE  ~failed' \/ UNCHANGED <<page, at, pageStack, failed, files>>
<1>0. at = "choice"
  BY DEF FailedAtPrompt
<1>1. CASE HttpChoice
  <2>1. ~\E c \in Char : Extract(c)
    BY DEF Extract
  <2>2. ClearAndIgnore
    BY <1>1, <2>1 DEF HttpChoice, Char
  <2> QED
    BY <2>2 DEF ClearAndIgnore
<1>2. CASE Type \/ UNCHANGED vars
  BY <1>2 DEF Type, vars
<1>3. CASE Restart
  BY <1>3 DEF Restart
<1>4. ~(SkipLineEnd \/ DeviceChoice \/ DeviceNewline \/ DeviceFilter \/ CaptureSetup \/ CaptureIndex
        \/ OpenFiles \/ ParseDone \/ Analyze \/ Enter \/ HttpRest \/ HttpEnter \/ Key)
  BY <1>0 DEF SkipLineEnd, DeviceChoice, DeviceNewline, DeviceFilter, CaptureSetup, CaptureIndex,
     OpenFiles, ParseDone, Analyze, Enter, HttpRest, HttpEnter, Key, HomeMenu, DeviceAdapter,
     AskIndex, StopCapture
<1> QED
  BY <1>1, <1>2, <1>3, <1>4 DEF Next, Display

\* A page shown is the HTTP page at its prompt only; the page itself fails at
\* its prompt only.
LEMMA PromptStep == NavInv /\ FailedAtPrompt /\ [Next]_vars => FailedAtPrompt'
<1> SUFFICES ASSUME NavInv, FailedAtPrompt, [Next]_vars, page' = "http", failed'
             PROVE at' = "choice"
  BY DEF FailedAtPrompt
<1>1. CASE HomeMenu
  BY <1>1 DEF HomeMenu, Forward, Show, First
<1>2. CASE Back /\ page \in {"device", "statistics", "http", "capture"}
  BY <1>2, BackOnPath DEF NavInv
<1>3. CASE HttpChoice
  BY <1>2, <1>3 DEF HttpChoice, Extract, ClearAndIgnore, Stay
<1>4. CASE HttpRest \/ HttpEnter
  BY <1>4 DEF HttpRest, HttpEnter, TakeChar, Stay, FailedAtPrompt
<1>5. CASE DeviceChoice \/ Enter
  BY <1>2, <1>5 DEF DeviceChoice, Enter, Stay
<1>6. CASE DeviceNewline \/ DeviceFilter \/ DeviceAdapter \/ CaptureSetup \/ AskIndex \/ CaptureIndex
           \/ StopCapture \/ OpenFiles \/ Analyze \/ Restart
  BY <1>6 DEF DeviceNewline, DeviceFilter, DeviceAdapter, Forward, Show, CaptureSetup, AskIndex,
     CaptureIndex, StopCapture, OpenFiles, Analyze, Restart, Stay
<1>7. CASE SkipLineEnd \/ Type \/ ParseDone \/ UNCHANGED vars
  <2>1. CASE ParseDone
    BY <2>1 DEF ParseDone, Stay, FailedAtPrompt
  <2>2. CASE SkipLineEnd \/ Type \/ UNCHANGED vars
    BY <2>2 DEF SkipLineEnd, TakeChar, Type, vars, FailedAtPrompt
  <2> QED
    BY <1>7, <2>1, <2>2
<1> QED
  BY <1>1, <1>3, <1>4, <1>5, <1>6, <1>7 DEF Next, Display, Key

LEMMA ReadyInvariant == Spec => []ReadyInv
<1>1. Init => ReadyInv
  BY DEF Init, ReadyInv, WholeLines, FailedAtPrompt
<1>2. NavInv /\ ReadyInv /\ [Next]_vars => ReadyInv'
  BY WholeStep, PromptStep DEF ReadyInv
<1> QED
  BY <1>1, <1>2, NavInvariant, PTL DEF Spec

\* The page looks for the end of the line it drops, and finds one: anything
\* that waits in the console ends in one.  So the drop is never held up in the
\* middle of a line, whatever the pages before have left there.
DropIsReady ==
  page = "http" /\ failed /\ typed # <<>> =>
    at = "choice" /\ \E i \in 1..Len(typed) : typed[i] = "nl"

\* A cin that has failed stays as it is on the HTTP page, and so do page, stack
\* and files, until the line is dropped (or the program ended): nothing is
\* analysed, and no page displayed, on a failed extraction.
FailedIsKeptOrCleared ==
  [][page = "http" /\ failed =>
       ~failed' \/ UNCHANGED <<page, at, pageStack, failed, files>>]_vars

\* What is left of FailedLineDropped is only that the program goes on: the line
\* can be dropped, for any lines the user types, and nothing else happens.
THEOREM RecoveryIsReady == Spec => []DropIsReady /\ FailedIsKeptOrCleared
<1>1. NavInv /\ ReadyInv => DropIsReady
  <2> SUFFICES ASSUME NavInv, ReadyInv, page = "http", failed, typed # <<>>
               PROVE  at = "choice" /\ \E i \in 1..Len(typed) : typed[i] = "nl"
    BY DEF DropIsReady
  <2>1. Len(typed) \in Nat \ {0}
    BY EmptySeq DEF NavInv, TypeOK
  <2> QED
    BY <2>1 DEF ReadyInv, WholeLines, FailedAtPrompt
<1>2. ReadyInv /\ [Next]_vars =>
        [page = "http" /\ failed =>
           ~failed' \/ UNCHANGED <<page, at, pageStack, failed, files>>]_vars
  BY FailedStep DEF ReadyInv
<1> QED
  BY <1>1, <1>2, NavInvariant, ReadyInvariant, PTL DEF Spec, FailedIsKeptOrCleared
=============================================================================
