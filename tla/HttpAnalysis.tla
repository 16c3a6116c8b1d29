----------------------------- MODULE HttpAnalysis -----------------------------
(***************************************************************************)
(* From input.txt to the records of the HTTP page: ParseInputFileToOutput  *)
(* turns the lines into the rows of output.txt, and                        *)
(* HttpPage::analyzeInputOutput then reads both files side by side to find *)
(* the payload of each TCP row.  A line is what the two readers make of    *)
(* it: the state it is in and the frame its hex digits stand for.          *)
(***************************************************************************)
EXTENDS Naturals, Sequences

CONSTANTS
  States,   \* states of the lines, out of those below
  Frames,   \* frames in them, out of those below
  MaxLines, \* bound: lines of input.txt
  MaxStale  \* bound: lines a later capture, ended by force, left there

\* blank: empty.  broken: fewer than three tabs, or not a whole number of hex
\* digits.  corrupt: well-formed, and its length or CRC is not the frame's.
\* http: Ethernet, IPv4, TCP and a payload the page recognises by its first 64
\* bytes.  hello: the same with one it recognises only whole, a longer TLS
\* ClientHello.  ack: the same with none it recognises.  raw and rawhello: TCP at
\* offset 0 or 4, with payloads like those of http and hello.  short: the TCP
\* header is cut off.  other: anything that is no TCP.
ASSUME AnalysisAssumption ==
  /\ States \subseteq {"blank", "broken", "corrupt", "intact"}
  /\ Frames \subseteq {"http", "hello", "ack", "raw", "rawhello", "short", "other"}
  /\ MaxLines \in Nat
  /\ MaxStale \in Nat

VARIABLES
  pc,
  input,     \* input.txt
  fresh,     \* output.txt was made from all of the input.txt that is there
  inPos,     \* lines read from it, by whichever of the two reads it
  rows,      \* output.txt: its rows
  ok, bad,   \* the counts ParseInputFileToOutput prints
  outPos,    \* rows analyzeInputOutput has read
  reports    \* what it found: the row shown and the line of the payload

vars == <<pc, input, fresh, inPos, rows, ok, bad, outPos, reports>>

Line ==
  [state : States \ {"blank", "broken"}, frame : Frames]
    \cup [state : States \ {"corrupt", "intact"}, frame : {"other"}]
Inputs(max) == UNION {[1..n -> Line] : n \in 0..max}
Proto(frame) == IF frame = "other" THEN "other" ELSE "TCP"

\* HexToBytes succeeds on the fourth column.
Decodes(line) == line.state \in {"corrupt", "intact"}

\* ExtractTcpPayload: offset 14 only, and a whole TCP header.
ExtractTcpPayload(frame) == frame \in {"http", "hello", "ack"}

\* A request, a response or a whole ClientHello is recognised in that payload.
PayloadKnown(frame) == frame \in {"http", "hello"}

\* The row holds at most 64 bytes of the payload, wherever parseAt found it.  A
\* ClientHello that is cut is not recognised, the start of a request is.
PreviewKnown(frame) == frame \in {"http", "raw"}

Row == [proto : {"TCP", "other"}, preview : BOOLEAN, from : Nat \ {0}]
RowOf(frame, n) ==
  [proto |-> Proto(frame), preview |-> PreviewKnown(frame), from |-> n]

Init ==
  /\ pc = "parse"
  /\ input \in Inputs(MaxLines)
  /\ fresh = TRUE
  /\ inPos = 0
  /\ rows = <<>>
  /\ ok = 0
  /\ bad = 0
  /\ outPos = 0
  /\ reports = {}

-----------------------------------------------------------------------------
(* ParseInputFileToOutput *)

\* Seeded defect: a line with a wrong CRC is decoded all the same.
ParseUnchecked ==
  /\ pc = "parse"
  /\ inPos < Len(input)
  /\ inPos' = inPos + 1
  /\ LET line == input[inPos']
     IN IF Decodes(line)
        THEN /\ rows' = Append(rows, RowOf(line.frame, inPos'))
             /\ ok' = ok + 1
             /\ bad' = IF line.state = "corrupt" THEN bad + 1 ELSE bad
        ELSE /\ bad' = IF line.state = "broken" THEN bad + 1 ELSE bad
             /\ UNCHANGED <<rows, ok>>
  /\ UNCHANGED <<pc, input, fresh, outPos, reports>>

ParseLine ==
  /\ pc = "parse"
  /\ inPos < Len(input)
  /\ inPos' = inPos + 1
  /\ LET line == input[inPos']
     IN CASE line.state = "blank" -> UNCHANGED <<rows, ok, bad>>
          [] line.state \in {"broken", "corrupt"} ->
               bad' = bad + 1 /\ UNCHANGED <<rows, ok>>
          [] line.state = "intact" ->
               /\ rows' = Append(rows, RowOf(line.frame, inPos'))
               /\ ok' = ok + 1
               /\ UNCHANGED bad
  /\ UNCHANGED <<pc, input, fresh, outPos, reports>>

\* What a full disk leaves of the rows, as out is never tested, or the end of the
\* process while they are written.  The last one may have lost so many digits of
\* its preview that it is not recognised any more.
CutOff ==
  {SubSeq(rows, 1, k) : k \in 0..Len(rows)}
    \cup {[SubSeq(rows, 1, k) EXCEPT ![k].preview = FALSE] : k \in 1..Len(rows)}

\* The user opens the HTTP page, perhaps with output.txt cut off, perhaps after
\* one more capture that has replaced input.txt only: it was ended by force, or
\* its parse could not open output.txt; perhaps both.
Analyze ==
  /\ pc = "parse"
  /\ inPos = Len(input)
  /\ pc' = "row"
  /\ inPos' = 0
  /\ \/ UNCHANGED <<input, fresh, rows>>
     \/ input' \in Inputs(MaxStale) \cup {input} /\ rows' \in CutOff /\ fresh' = FALSE
  /\ UNCHANGED <<ok, bad, outPos, reports>>

-----------------------------------------------------------------------------
(* analyzeInputOutput *)

current == rows[outPos]

NextRow ==
  /\ pc = "row"
  /\ outPos < Len(rows)
  /\ outPos' = outPos + 1
  /\ pc' = IF rows[outPos'].proto = "TCP" THEN "line" ELSE "row"
  /\ UNCHANGED <<input, fresh, inPos, rows, ok, bad, reports>>

Report(n) == reports' = reports \cup {[row |-> outPos, from |-> n]}

\* Seeded defect: a row without a payload in input.txt is left out.
FallbackOmitted == UNCHANGED reports

\* No payload from input.txt: the row's own preview takes its place and makes a
\* record if it is recognised.
Fallback ==
  IF current.preview THEN Report(current.from) ELSE UNCHANGED reports

\* Seeded defect: the search goes on to the next line with a TCP payload.
TakeTcpLine ==
  /\ pc = "line"
  /\ inPos < Len(input)
  /\ inPos' = inPos + 1
  /\ LET line == input[inPos']
     IN IF ~Decodes(line) \/ ~ExtractTcpPayload(line.frame)
        THEN UNCHANGED <<pc, reports>>
        ELSE /\ pc' = "row"
             /\ IF PayloadKnown(line.frame) THEN Report(inPos') ELSE UNCHANGED reports
  /\ UNCHANGED <<input, fresh, rows, ok, bad, outPos>>

\* Lines that do not decode are passed over; the first that does ends the
\* search, whatever packet it holds.
TakeLine ==
  /\ pc = "line"
  /\ inPos < Len(input)
  /\ inPos' = inPos + 1
  /\ LET line == input[inPos']
     IN IF ~Decodes(line) THEN UNCHANGED <<pc, reports>>
        ELSE /\ pc' = "row"
             /\ IF ~ExtractTcpPayload(line.frame) THEN Fallback
                ELSE IF PayloadKnown(line.frame) THEN Report(inPos')
                ELSE UNCHANGED reports
  /\ UNCHANGED <<input, fresh, rows, ok, bad, outPos>>

\* Seeded defect: the row is tried again at the end of the input.
RetryAtEnd ==
  /\ pc = "line"
  /\ inPos = Len(input)
  /\ inPos' = 0
  /\ Fallback
  /\ UNCHANGED <<pc, input, fresh, rows, ok, bad, outPos>>

EndOfInput ==
  /\ pc = "line"
  /\ inPos = Len(input)
  /\ pc' = "row"
  /\ Fallback
  /\ UNCHANGED <<input, fresh, inPos, rows, ok, bad, outPos>>

Done ==
  /\ pc = "row"
  /\ outPos = Len(rows)
  /\ pc' = "done"
  /\ UNCHANGED <<input, fresh, inPos, rows, ok, bad, outPos, reports>>

Next == ParseLine \/ Analyze \/ NextRow \/ TakeLine \/ EndOfInput \/ Done

Spec == Init /\ [][Next]_vars

\* Both functions run until they return.
FairSpec == Spec /\ WF_vars(Next)

-----------------------------------------------------------------------------
(* Every variable has its type; the counts cover no line twice.             *)
TypeOK ==
  /\ pc \in {"parse", "row", "line", "done"}
  /\ input \in Seq(Line)
  /\ fresh \in BOOLEAN
  /\ inPos \in 0..Len(input)
  /\ rows \in Seq(Row)
  /\ ok \in Nat
  /\ bad \in Nat
  /\ pc = "parse" => ok + bad <= inPos
  /\ outPos \in 0..Len(rows)
  /\ reports \subseteq [row : 1..Len(rows), from : Nat \ {0}]

(* output.txt has one row for each line whose CRC and length are right, in  *)
(* the order of input.txt, and no row for any other line; the number of     *)
(* packets printed is that of the rows.                                     *)
RowsAreIntactLines ==
  fresh /\ pc # "parse" =>
    /\ ok = Len(rows)
    /\ {rows[i].from : i \in 1..Len(rows)}
         = {n \in 1..Len(input) : input[n].state = "intact"}
    /\ \A i, j \in 1..Len(rows) : i < j => rows[i].from < rows[j].from

(* The side-by-side reading never gets ahead: when a TCP row looks for its  *)
(* payload, the line it came from has not been passed yet, although rows    *)
(* and lines are skipped by different rules (HttpPage.cpp:241 and 249-267). *)
PayloadNotPassed == fresh /\ pc = "line" => inPos < current.from

(* The reading stays in step as long as every line that decodes is intact   *)
(* and TCP: up to there each record shows the payload of its own row.       *)
InStepWhileAllTcp ==
  fresh => \A r \in reports :
    LET own == rows[r.row].from
    IN (\A n \in 1..own : Decodes(input[n]) =>
                            input[n].state = "intact" /\ input[n].frame # "other")
         => r.from = own

\* Rows whose search is over.
Searched == IF pc = "line" THEN outPos - 1 ELSE outPos

(* Nothing is missed there either: each row of a packet has its record if   *)
(* its payload is recognised behind an Ethernet header, however long it is, *)
(* or, where ExtractTcpPayload finds no such header and the preview has to  *)
(* do, by the 64 bytes of it that are in the row (HttpPage.cpp:265-307).    *)
NoneMissedWhileAllTcp ==
  fresh => \A i \in 1..Searched :
    LET own == rows[i].from
    IN (\A n \in 1..own : Decodes(input[n]) =>
                            input[n].state = "intact" /\ input[n].frame # "other")
         /\ (PayloadKnown(input[own].frame) \/ PreviewKnown(input[own].frame))
         => [row |-> i, from |-> own] \in reports

(* The analysis ends, also when input.txt no longer belongs to output.txt.  *)
Finishes == <>(pc = "done")

\* Rows and lines analyzeInputOutput has not read; a row may lead to a search.
ToRead ==
  2 * (Len(rows) - outPos) + (Len(input) - inPos) + (IF pc = "line" THEN 1 ELSE 0)

(* The parse reads a line in each step, and neither file is gone through    *)
(* twice by the analysis, however little they belong together: each step    *)
(* leaves less to read, so that it is done after two steps for a row and    *)
(* one for a line at most.                                                  *)
AnalysisShrinks ==
  [][IF pc = "parse" THEN pc' = "row" \/ Len(input') - inPos' < Len(input) - inPos
     ELSE pc' = "done" \/ ToRead' < ToRead]_vars

(* README.md:97: HTTP is recognised from the payload of each TCP packet.    *)
(* The record printed with a row's time and flow is made from the payload   *)
(* of that row's packet.                                                    *)
OwnPayload == fresh => \A r \in reports : r.from = rows[r.row].from
=============================================================================
