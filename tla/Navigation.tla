------------------------------ MODULE Navigation ------------------------------
(***************************************************************************)
(* The pages: StartApplication displays one after the other, a page pushes *)
(* itself on pageStack before it names the next one and Back pops.  Pages  *)
(* read the console each in its own way and leave the rest of a line to    *)
(* whoever reads next; they share input.txt and output.txt, which outlive  *)
(* the process.                                                            *)
(***************************************************************************)
EXTENDS Naturals, Sequences

CONSTANTS
  Lines,       \* what the user may type up to Enter, as a sequence ending in "nl"
  MaxTyped,    \* bound: characters waiting in the console
  MaxInput     \* bound: captures that write input.txt

Char == {"0", "1", "2", "x", "nl"}   \* "2": any other number, "x": no digit

ASSUME NavigationAssumption ==
  /\ Lines \subseteq Seq(Char)
  /\ \A l \in Lines : l # <<>> /\ l[Len(l)] = "nl"
  /\ MaxTyped \in Nat /\ MaxInput \in Nat

VARIABLES
  page,        \* currentPage; "exit" once display has returned null
  at,          \* where its display is
  pageStack,
  typed,       \* characters in stdin, which cin reads through as well
  failed,      \* cin.fail()
  input,       \* which capture input.txt is of, 0 if there is none
  output,      \* which input.txt output.txt was made from, 0 for none or a part
  finished     \* history: the last parse of this process wrote all its rows

files == <<input, output, finished>>
vars == <<page, at, pageStack, typed, failed, files>>

Init ==
  /\ page = "home" /\ at = "menu" /\ pageStack = <<>>
  /\ typed = <<>> /\ failed = FALSE
  /\ input = 0 /\ output = 0 /\ finished = FALSE

First(p) ==
  CASE p = "home" -> "menu" [] p \in {"device", "http"} -> "choice"
    [] p = "capture" -> "setup" [] p = "statistics" -> "parse" [] OTHER -> "none"

Show(p) == page' = p /\ at' = First(p)

\* The page puts itself on the stack and names the next one.
Forward(p) == Show(p) /\ pageStack' = Append(pageStack, page)

\* Seeded defect: the page is left on the stack.
BackKeeps ==
  IF pageStack = <<>> THEN Show("exit") /\ UNCHANGED pageStack
  ELSE Show(pageStack[Len(pageStack)]) /\ UNCHANGED pageStack

\* Pages::Back
Back ==
  IF pageStack = <<>> THEN Show("exit") /\ UNCHANGED pageStack
  ELSE /\ Show(pageStack[Len(pageStack)])
       /\ pageStack' = SubSeq(pageStack, 1, Len(pageStack) - 1)

Stay(place) == at' = place /\ UNCHANGED <<page, pageStack>>

-----------------------------------------------------------------------------
(* The console: a read waits until it has what it takes. *)

\* cin >> n stops at the first character that is no line end; it takes a
\* number, and leaves anything else and sets the fail bit.
Extract(c) ==
  /\ ~failed /\ typed # <<>>
  /\ c = Head(typed) /\ c # "nl"
  /\ typed' = IF c = "x" THEN typed ELSE Tail(typed)
  /\ failed' = (c = "x")

Number == \E c \in {"0", "1", "2"} : Extract(c)

\* getchar, cin.get
TakeChar == typed # <<>> /\ typed' = Tail(typed) /\ UNCHANGED failed

\* cin.ignore(..., '\n'), and what getline takes
TakeLine ==
  \E i \in 1..Len(typed) :
    /\ typed[i] = "nl" /\ \A j \in 1..(i - 1) : typed[j] # "nl"
    /\ typed' = SubSeq(typed, i + 1, Len(typed))

\* The extraction fails now, or has to since an earlier one did.
Fails == failed \/ (typed # <<>> /\ Head(typed) = "x")

\* Seeded defect: cin is not cleared.
IgnoreLine == TakeLine /\ UNCHANGED failed

\* cin.clear and cin.ignore
ClearAndIgnore == TakeLine /\ failed' = FALSE

\* cin >> n skips a line end.
SkipLineEnd ==
  /\ at = "choice" \/ at = "index"
  /\ ~failed /\ typed # <<>> /\ Head(typed) = "nl"
  /\ TakeChar
  /\ UNCHANGED <<page, at, pageStack, files>>

-----------------------------------------------------------------------------
(* The pages *)

\* Render::Select: the arrows move, Enter takes one of the entries.
HomeMenu ==
  /\ page = "home" /\ at = "menu"
  /\ \E p \in {"device", "statistics", "http"} : Forward(p)
  /\ UNCHANGED <<typed, failed, files>>

\* A failed extraction stores 0.  On a cin that has failed before nothing is
\* stored, and n was never given a value.
DeviceChoice ==
  /\ page = "device" /\ at = "choice"
  /\ \/ Extract("1") /\ Stay("newline")
     \/ (\E c \in {"0", "2", "x"} : Extract(c)) /\ Back
     \/ failed /\ (Stay("newline") \/ Back) /\ UNCHANGED <<typed, failed>>
  /\ UNCHANGED files

DeviceNewline ==
  /\ page = "device" /\ at = "newline"
  /\ TakeChar /\ Stay("filter")
  /\ UNCHANGED files

\* getline(cin, port) takes nothing from a cin that has failed.
DeviceFilter ==
  /\ page = "device" /\ at = "filter"
  /\ IF failed THEN UNCHANGED typed ELSE TakeLine
  /\ Stay("adapter")
  /\ UNCHANGED <<failed, files>>

DeviceAdapter ==
  /\ page = "device" /\ at = "adapter"
  /\ Forward("capture")
  /\ UNCHANGED <<typed, failed, files>>

\* startCapture returns before it has opened input.txt, or has truncated it.
CaptureSetup ==
  /\ page = "capture" /\ at = "setup"
  /\ \/ Stay("parse") /\ UNCHANGED input
     \/ input < MaxInput /\ Stay("capturing") /\ input' = input + 1
  /\ UNCHANGED <<typed, failed, output, finished>>

\* displayData's prompt for an index
AskIndex ==
  /\ page = "capture" /\ at = "capturing"
  /\ Stay("index")
  /\ UNCHANGED <<typed, failed, files>>

CaptureIndex ==
  /\ page = "capture" /\ at = "index"
  /\ \/ Number
     \/ Fails /\ ClearAndIgnore
  /\ Stay("capturing")
  /\ UNCHANGED files

\* Seeded defect: the page does not parse what it has captured.
StopUnparsed ==
  /\ page = "capture" /\ at = "capturing"
  /\ Stay("enter")
  /\ UNCHANGED <<typed, failed, files>>

\* startCapture has returned: the thread is joined.
StopCapture ==
  /\ page = "capture" /\ at = "capturing"
  /\ Stay("parse")
  /\ UNCHANGED <<typed, failed, files>>

AfterParse == IF page = "statistics" THEN "analyze" ELSE "enter"

\* ParseInputFileToOutput: a file that cannot be opened, or output.txt truncated.
OpenFiles ==
  /\ page \in {"capture", "statistics"} /\ at = "parse"
  /\ \/ Stay(AfterParse) /\ finished' = FALSE /\ UNCHANGED output
     \/ input # 0 /\ Stay("parsing") /\ output' = 0 /\ UNCHANGED finished
  /\ UNCHANGED <<typed, failed, input>>

\* The rows are written, or the disk is full and the rest of them is lost: out
\* is never tested, so that the page is told of a finished parse both times.
ParseDone ==
  /\ at = "parsing"
  /\ Stay(AfterParse)
  /\ \/ output' = input /\ finished' = TRUE
     \/ output' = 0 /\ finished' = FALSE
  /\ UNCHANGED <<typed, failed, input>>

\* analyzeTraffic and generateReport
Analyze ==
  /\ page = "statistics" /\ at = "analyze"
  /\ Stay("enter")
  /\ UNCHANGED <<typed, failed, files>>

\* Press [Enter] to continue: StatisticsPage takes two characters, CapturePage one.
Enter ==
  /\ page \in {"capture", "statistics"}
  /\ TakeChar
  /\ \/ page = "statistics" /\ at = "enter" /\ Stay("enter again")
     \/ at = (IF page = "statistics" THEN "enter again" ELSE "enter") /\ Back
  /\ UNCHANGED files

HttpChoice ==
  /\ page = "http" /\ at = "choice"
  /\ \/ Extract("0") /\ Back
     \/ Extract("1") /\ Stay("rest")
     \/ Extract("2") /\ Stay("choice")
     \/ Fails /\ ClearAndIgnore /\ Stay("choice")
  /\ UNCHANGED files

\* The analysis is printed; cin.ignore drops the rest of the line, cin.get waits.
HttpRest ==
  /\ page = "http" /\ at = "rest"
  /\ TakeLine /\ Stay("enter")
  /\ UNCHANGED <<failed, files>>

HttpEnter ==
  /\ page = "http" /\ at = "enter"
  /\ TakeChar /\ Stay("choice")
  /\ UNCHANGED files

\* The user types a line.
Type ==
  /\ page # "exit"
  /\ \E l \in Lines :
       /\ Len(typed) + Len(l) <= MaxTyped
       /\ typed' = typed \o l
  /\ UNCHANGED <<page, at, pageStack, failed, files>>

\* The console window is closed at any moment and the program started again.
Restart ==
  /\ page' = "home" /\ at' = "menu" /\ pageStack' = <<>>
  /\ typed' = <<>> /\ failed' = FALSE /\ finished' = FALSE
  /\ UNCHANGED <<input, output>>

\* StartApplication: what the program does by itself.
Display ==
  \/ SkipLineEnd
  \/ DeviceChoice \/ DeviceNewline \/ DeviceFilter
  \/ CaptureSetup \/ CaptureIndex \/ OpenFiles \/ ParseDone \/ Analyze \/ Enter
  \/ HttpChoice \/ HttpRest \/ HttpEnter

\* The keys the user presses in the menus and while capturing.
Key == HomeMenu \/ DeviceAdapter \/ AskIndex \/ StopCapture

Next == Display \/ Key \/ Type \/ Restart

Spec == Init /\ [][Next]_vars

\* The program runs on by itself; the user need not do anything.
FairSpec == Spec /\ WF_vars(Display)

-----------------------------------------------------------------------------
(* Properties *)

Path(p) ==
  CASE p = "home" -> <<>> [] p = "capture" -> <<"home", "device">> [] OTHER -> <<"home">>

\* The state's types: display never returns null, output.txt is never of a
\* later capture than input.txt.
TypeOK ==
  /\ page \in {"home", "device", "statistics", "http", "capture"}
  /\ at \in {"menu", "choice", "newline", "filter", "adapter", "setup", "capturing",
            "index", "parse", "parsing", "analyze", "enter", "enter again", "rest"}
  /\ typed \in Seq(Char) /\ failed \in BOOLEAN
  /\ input \in 0..MaxInput /\ output \in 0..input /\ finished \in BOOLEAN

\* Whatever the user chooses, types or leaves in the console, the stack holds
\* the pages on the way from the home page to the one displayed: Back never
\* finds it empty and it does not grow from one visit to the next.
\* About Pages::Back and the pushes of HomePage and DevicePage.
StackIsPath == pageStack = Path(page)

\* Where a parse has written all its rows and no capture goes on, output.txt is
\* made from the input.txt that is there now: captures that fail before they
\* open the file, parses that fail or run out of disk and ends of the process in
\* between included.
\* About CapturePage::display and StatisticsPage::display, for HttpPage.
OutputIsCurrent == (page # "capture" /\ at # "parsing" /\ finished) => output = input

\* The HTTP page recovers from a line that is no number, also when the device
\* page has left cin failed, provided there is a line to drop.
\* About HttpPage::display.
FailedLineDropped == (page = "http" /\ failed /\ typed # <<>>) ~> ~failed
=============================================================================
