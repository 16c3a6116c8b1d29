----------------------------- MODULE TrafficStats -----------------------------
(***************************************************************************)
(* The statistics page on top of Navigation: analyzeTraffic reads whatever *)
(* is in output.txt into records_, and generateReport prints them with the *)
(* totals of each address class.  output.txt is written anew by each parse *)
(* and may be cut off by a full disk or the end of the process; records_   *)
(* belongs to the page, which lives from one visit to the next.            *)
(***************************************************************************)
EXTENDS Navigation, FiniteSets

CONSTANT
  Captured     \* the packets of the sound lines each capture leaves in input.txt

\* A packet as parseAt finds it: an IPv4 header, its protocol, the header of TCP
\* or UDP captured as a whole, and the first octet of the destination.
Packet == [ip4 : BOOLEAN, proto : 0..255, whole : BOOLEAN, dst : 0..255]

ASSUME StatsAssumption == Captured \in [1..MaxInput -> Seq(Packet)]

VARIABLES
  content,     \* the rows in output.txt
  records,     \* records_, each with the row it was made from
  rowPos,      \* rows analyzeTraffic has read, 0 while it does not run
  analysis,    \* where it is: before it has opened the file, in the rows, done
  opened       \* history: the last analysis could open output.txt

statVars == <<content, records, rowPos, analysis, opened>>
allVars == <<vars, statVars>>

-----------------------------------------------------------------------------
(* The rows ParseInputFileToOutput writes *)

Dotless == 256   \* a column of addresses with no dot in it

\* Seeded defect: the addresses are written whatever was captured.
HasAddressesUnchecked(p) == p.ip4

\* Those of TCP and UDP are written together with the ports.
HasAddresses(p) == p.ip4 /\ (p.proto \in {6, 17} => p.whole)

\* The column of the protocol; number is what stands in IP(...).
Column(p) ==
  LET plain(name) == [name |-> name, number |-> 0]
  IN CASE ~p.ip4 -> plain("NON_IPV4")
       [] p.ip4 /\ p.proto = 1 -> plain("ICMP")
       [] p.ip4 /\ p.proto = 6 -> plain("TCP")
       [] p.ip4 /\ p.proto = 17 -> plain("UDP")
       [] OTHER -> [name |-> "IP", number |-> p.proto]

RowOf(p) ==
  [column |-> Column(p), addressed |-> HasAddresses(p),
   dst |-> IF HasAddresses(p) THEN p.dst ELSE Dotless]

Rows(n) == [i \in 1..Len(Captured[n]) |-> RowOf(Captured[n][i])]

\* What there is of the rows when the writing stops: some of them, and perhaps
\* the next one up to the first digits of its destination.
CutOff(all) ==
  {SubSeq(all, 1, k) : k \in 0..Len(all)}
    \cup {Append(SubSeq(all, 1, k), [all[k + 1] EXCEPT !.dst = Dotless]) : k \in 0..(Len(all) - 1)}

-----------------------------------------------------------------------------
(* analyzeTraffic's reading of a row *)

\* Seeded defect: the upper end of class B is left out.
IPClassShort(octet) ==
  CASE octet \in 1..126 -> "A" [] octet = 127 -> "L" [] octet \in 128..190 -> "B"
    [] octet \in 192..223 -> "C" [] octet \in 224..239 -> "D" [] OTHER -> "E"

\* The classes are keys of the totals, and E what no range takes.
GetIPClass(octet) ==
  CASE octet \in 1..126 -> "A" [] octet = 127 -> "L" [] octet \in 128..191 -> "B"
    [] octet \in 192..223 -> "C" [] octet \in 224..239 -> "D" [] OTHER -> "E"

Protocol(column) ==
  CASE column.name = "ICMP" -> 1 [] column.name = "TCP" -> 6 [] column.name = "UDP" -> 17
    [] column.name = "IP" -> column.number [] OTHER -> 0

RecordOf(n) ==
  [row |-> n, protocol |-> Protocol(content[n].column), class |-> GetIPClass(content[n].dst)]

\* Seeded defect: records_ is cleared once the file is open.
ClearOnOpen ==
  /\ page = "statistics" /\ at = "analyze" /\ analysis = "open"
  /\ \/ opened' = TRUE /\ analysis' = "rows" /\ records' = <<>>
     \/ opened' = FALSE /\ analysis' = "done" /\ UNCHANGED records
  /\ UNCHANGED <<vars, content, rowPos>>

OpenOutput ==
  /\ page = "statistics" /\ at = "analyze" /\ analysis = "open"
  /\ records' = <<>>
  /\ \/ opened' = TRUE /\ analysis' = "rows"
     \/ opened' = FALSE /\ analysis' = "done"
  /\ UNCHANGED <<vars, content, rowPos>>

\* Seeded defect: the line is not moved on where the row is left out.
ReadRowAgain ==
  /\ analysis = "rows" /\ rowPos < Len(content)
  /\ content[rowPos + 1].addressed
  /\ rowPos' = rowPos + 1
  /\ records' = Append(records, RecordOf(rowPos'))
  /\ UNCHANGED <<vars, content, analysis, opened>>

ReadRow ==
  /\ analysis = "rows" /\ rowPos < Len(content)
  /\ rowPos' = rowPos + 1
  /\ records' = IF content[rowPos'].addressed THEN Append(records, RecordOf(rowPos')) ELSE records
  /\ UNCHANGED <<vars, content, analysis, opened>>

EndOfRows ==
  /\ analysis = "rows" /\ rowPos = Len(content)
  /\ analysis' = "done"
  /\ UNCHANGED <<vars, content, records, rowPos, opened>>

\* Seeded defect: the next analysis goes on where this one ended.
ReportUnrewound ==
  /\ analysis = "done"
  /\ Analyze
  /\ analysis' = "open"
  /\ UNCHANGED <<content, records, rowPos, opened>>

\* generateReport prints records_ and changes nothing.
GenerateReport ==
  /\ analysis = "done"
  /\ Analyze
  /\ rowPos' = 0 /\ analysis' = "open"
  /\ UNCHANGED <<content, records, opened>>

Classes == {"A", "B", "C", "D", "E", "L"}

\* printIPClassStatistics
ClassCounts ==
  [c \in Classes |-> Cardinality({i \in 1..Len(records) : records[i].class = c})]

-----------------------------------------------------------------------------
(* The rest of the program *)

StatsInit ==
  /\ Init
  /\ content = <<>> /\ records = <<>> /\ rowPos = 0 /\ analysis = "open" /\ opened = FALSE

\* A parse that opens both files truncates output.txt.
Truncate ==
  /\ OpenFiles
  /\ content' = IF at' = "parsing" THEN <<>> ELSE content
  /\ UNCHANGED <<records, rowPos, analysis, opened>>

WriteRows ==
  /\ ParseDone
  /\ IF finished' THEN content' = Rows(input) ELSE content' \in CutOff(Rows(input))
  /\ UNCHANGED <<records, rowPos, analysis, opened>>

\* The process ends, perhaps while the rows are written, and with it records_.
StatsRestart ==
  /\ Restart
  /\ IF at = "parsing" THEN content' \in CutOff(Rows(input)) ELSE UNCHANGED content
  /\ records' = <<>> /\ rowPos' = 0 /\ analysis' = "open" /\ opened' = FALSE

\* Steps that touch neither output.txt nor records_.
Elsewhere ==
  /\ \/ SkipLineEnd
     \/ DeviceChoice \/ DeviceNewline \/ DeviceFilter
     \/ CaptureSetup \/ CaptureIndex \/ Enter
     \/ HttpChoice \/ HttpRest \/ HttpEnter
  /\ UNCHANGED statVars

UserStep == (Key \/ Type) /\ UNCHANGED statVars

StatsDisplay ==
  \/ Elsewhere \/ Truncate \/ WriteRows
  \/ OpenOutput \/ ReadRow \/ EndOfRows \/ GenerateReport

StatsNext == StatsDisplay \/ UserStep \/ StatsRestart

StatsSpec == StatsInit /\ [][StatsNext]_allVars

\* As in Navigation, only the program runs on by itself.
StatsFairSpec == StatsSpec /\ WF_allVars(StatsDisplay)

-----------------------------------------------------------------------------
(* Properties *)

Row ==
  [column : [name : {"NON_IPV4", "ICMP", "TCP", "UDP", "IP"}, number : 0..255],
   addressed : BOOLEAN, dst : 0..Dotless]
Record == [row : Nat \ {0}, protocol : 0..255, class : Classes]

RowTypeOK ==
  /\ content \in Seq(Row)
  /\ records \in Seq(Record)
  /\ rowPos \in 0..Len(content)
  /\ analysis \in {"open", "rows", "done"}
  /\ IF analysis = "open" THEN rowPos = 0 ELSE page = "statistics" /\ at = "analyze"
  /\ opened \in BOOLEAN

\* The types of the state, the pages' included; rows are read only while the
\* page is displayed.
StatsTypeOK == TypeOK /\ RowTypeOK

\* The report is on the screen.
Shown == page = "statistics" /\ at \in {"enter", "enter again"}

\* The class by the leading bits of the address, 0 and 127 set apart.
LeadingBits(octet) ==
  CASE octet \in {0, Dotless} -> "E" [] octet = 127 -> "L"
    [] octet \notin {0, 127} /\ octet \div 128 = 0 -> "A"
    [] octet \div 64 = 2 -> "B" [] octet \div 32 = 6 -> "C" [] octet \div 16 = 14 -> "D"
    [] octet \div 16 = 15 -> "E"

Addressed == {n \in 1..Len(content) : content[n].addressed}

\* The report shows the rows with addresses that are in output.txt, in their
\* order and each once, with their class; no record of an earlier visit is in
\* it, also when the parse or the opening of output.txt has failed or the file
\* was cut off when it was last written.
\* About analyzeTraffic, records_.clear() and StatisticsPage::display.
ReportIsOfFile ==
  Shown =>
    /\ {records[i].row : i \in 1..Len(records)} = IF opened THEN Addressed ELSE {}
    /\ \A i, j \in 1..Len(records) : i < j => records[i].row < records[j].row
    /\ \A i \in 1..Len(records) : records[i].class = LeadingBits(content[records[i].row].dst)

\* Each of the six totals is the number of rows of its class in output.txt.
\* About printIPClassStatistics.
TotalsAreOfFile ==
  Shown /\ opened =>
    \A c \in Classes :
      ClassCounts[c] = Cardinality({n \in Addressed : LeadingBits(content[n].dst) = c})

\* After a parse that wrote all its rows the report is of the packets in the
\* present input.txt: all of those whose addresses can be told, each with the
\* protocol and class of the packet itself, although the number has become a
\* name and a number again.  A TCP or UDP packet whose header was cut off, and
\* one that is not IPv4, is left out.
\* About ParseInputFileToOutput, analyzeTraffic and the captures in between.
ReportIsCurrent ==
  Shown /\ opened /\ finished =>
    LET packets == Captured[input]
        counted == {n \in 1..Len(packets) :
                      packets[n].ip4 /\ (packets[n].proto \notin {6, 17} \/ packets[n].whole)}
    IN /\ {records[i].row : i \in 1..Len(records)} = counted
       /\ \A i \in 1..Len(records) :
            LET p == packets[records[i].row]
            IN records[i].protocol = p.proto /\ records[i].class = LeadingBits(p.dst)

\* The statistics page comes to its prompt, whatever output.txt holds.
\* About the loop in analyzeTraffic.
ReportComes == (page = "statistics" /\ at = "parse") ~> (Shown \/ page = "home")
=============================================================================
