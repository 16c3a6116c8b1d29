-------------------------- MODULE TrafficStatsProofs --------------------------
(***************************************************************************)
(* What holds of the report for every console input, any number of         *)
(* captures and whatever packets they hold.  The invariant adds two parts  *)
(* to that of the pages: output.txt is made of the present input.txt since *)
(* a parse that wrote all its rows, and records_ is made of the rows read  *)
(* so far.                                                                 *)
(***************************************************************************)
EXTENDS TrafficStats, NavigationProofs, FiniteSetTheorems

ContentInv ==
  /\ at = "parsing" \/ finished => input # 0
  /\ finished /\ ~Unparsed => content = Rows(input)

\* The records are those of the first k rows.
ReadTo(k) ==
  /\ {records[i].row : i \in 1..Len(records)} = {n \in 1..k : content[n].addressed}
  /\ \A i, j \in 1..Len(records) : i < j => records[i].row < records[j].row
  /\ \A i \in 1..Len(records) : records[i] = RecordOf(records[i].row)

RecordsInv ==
  /\ analysis = "rows" => opened /\ ReadTo(rowPos)
  /\ analysis = "done" \/ Shown =>
       IF opened THEN ReadTo(Len(content)) ELSE records = <<>>

StatsInv == NavInv /\ RowTypeOK /\ ContentInv /\ RecordsInv

\* Every octet is put in the class its leading bits say.
THEOREM ClassIsLeadingBits == \A o \in 0..Dotless : GetIPClass(o) = LeadingBits(o)
<1> SUFFICES ASSUME NEW o \in 0..Dotless PROVE GetIPClass(o) = LeadingBits(o)
  OBVIOUS
<1>1. CASE o \in {0, Dotless}
  BY <1>1 DEF GetIPClass, LeadingBits, Dotless
<1>2. CASE o \in 1..127
  <2>1. o \div 128 = 0 /\ o \div 64 \in {0, 1} /\ o \div 32 \in 0..3 /\ o \div 16 \in 0..7
    BY <1>2
  <2> QED
    BY <1>2, <2>1 DEF GetIPClass, LeadingBits, Dotless
<1>3. CASE o \in 128..191
  <2>1. o \div 128 = 1 /\ o \div 64 = 2 /\ o \div 32 \in {4, 5} /\ o \div 16 \in 8..11
    BY <1>3
  <2> QED
    BY <1>3, <2>1 DEF GetIPClass, LeadingBits, Dotless
<1>4. CASE o \in 192..223
  <2>1. o \div 128 = 1 /\ o \div 64 = 3 /\ o \div 32 = 6 /\ o \div 16 \in {12, 13}
    BY <1>4
  <2> QED
    BY <1>4, <2>1 DEF GetIPClass, LeadingBits, Dotless
<1>5. CASE o \in 224..239
  <2>1. o \div 128 = 1 /\ o \div 64 = 3 /\ o \div 32 = 7 /\ o \div 16 = 14
    BY <1>5
  <2> QED
    BY <1>5, <2>1 DEF GetIPClass, LeadingBits, Dotless
<1>6. CASE o \in 240..255
  <2>1. o \div 128 = 1 /\ o \div 64 = 3 /\ o \div 32 = 7 /\ o \div 16 = 15
    BY <1>6
  <2> QED
    BY <1>6, <2>1 DEF GetIPClass, LeadingBits, Dotless
<1> QED
  BY <1>1, <1>2, <1>3, <1>4, <1>5, <1>6 DEF Dotless

\* The protocol number survives its way through the column of output.txt.
THEOREM ProtocolSurvives ==
  \A p \in Packet : HasAddresses(p) => Protocol(Column(p)) = p.proto
BY DEF Packet, HasAddresses, Protocol, Column

LEMMA WhoHasAddresses ==
  \A p \in Packet :
    /\ RowOf(p).addressed <=> p.ip4 /\ (p.proto \notin {6, 17} \/ p.whole)
    /\ p.dst \in 0..Dotless
<1> SUFFICES ASSUME NEW p \in Packet
             PROVE /\ RowOf(p).addressed <=> p.ip4 /\ (p.proto \notin {6, 17} \/ p.whole)
                   /\ p.dst \in 0..Dotless
  OBVIOUS
<1>1. p.dst \in 0..255
  BY DEF Packet
<1>2. RowOf(p).addressed = HasAddresses(p)
  BY DEF RowOf
<1>3. HasAddresses(p) <=> p.ip4 /\ (p.proto \notin {6, 17} \/ p.whole)
  BY DEF HasAddresses
<1> QED
  BY <1>1, <1>2, <1>3 DEF Dotless

\* Every step is a step of the pages, or leaves them alone.
LEMMA StatsStepIsStep == [StatsNext]_allVars => [Next]_vars
<1> SUFFICES ASSUME [StatsNext]_allVars PROVE [Next]_vars
  OBVIOUS
<1>1. CASE Elsewhere \/ Truncate \/ WriteRows \/ GenerateReport
  BY <1>1 DEF Elsewhere, Truncate, WriteRows, GenerateReport, Next, Display
<1>2. CASE OpenOutput \/ ReadRow \/ EndOfRows
  BY <1>2 DEF OpenOutput, ReadRow, EndOfRows
<1>3. CASE UserStep
  BY <1>3 DEF UserStep, Next
<1>4. CASE StatsRestart
  BY <1>4 DEF StatsRestart, Next
<1>5. CASE UNCHANGED allVars
  BY <1>5 DEF allVars
<1> QED
  BY <1>1, <1>2, <1>3, <1>4, <1>5 DEF StatsNext, StatsDisplay

\* The statistics page leaves the pages as Navigation has them, so that all
\* that is proved there holds here.
THEOREM StatsImplementsNavigation == StatsSpec => Spec
<1>1. StatsInit => Init
  BY DEF StatsInit
<1> QED
  BY <1>1, StatsStepIsStep, PTL DEF StatsSpec, Spec

\* The rows of a packet and of a capture have their type.
LEMMA RowType == \A p \in Packet : RowOf(p) \in Row
<1> SUFFICES ASSUME NEW p \in Packet PROVE RowOf(p) \in Row
  OBVIOUS
<1>1. p.proto \in 0..255 /\ p.dst \in 0..255 /\ p.ip4 \in BOOLEAN /\ p.whole \in BOOLEAN
  BY DEF Packet
<1>2. Column(p) \in [name : {"NON_IPV4", "ICMP", "TCP", "UDP", "IP"}, number : 0..255]
  BY <1>1 DEF Column
<1>3. HasAddresses(p) \in BOOLEAN
  BY <1>1 DEF HasAddresses
<1>4. (IF HasAddresses(p) THEN p.dst ELSE Dotless) \in 0..Dotless
  BY <1>1 DEF Dotless
<1> QED
  BY <1>2, <1>3, <1>4 DEF RowOf, Row

LEMMA RowsType ==
  ASSUME NEW n \in 1..MaxInput
  PROVE  /\ Captured[n] \in Seq(Packet)
         /\ Rows(n) \in Seq(Row)
         /\ Len(Rows(n)) = Len(Captured[n])
<1>1. Captured[n] \in Seq(Packet)
  BY StatsAssumption
<1>2. Len(Captured[n]) \in Nat /\ \A i \in 1..Len(Captured[n]) : Captured[n][i] \in Packet
  BY <1>1, LenProperties, ElementOfSeq
<1>3. \A i \in 1..Len(Captured[n]) : RowOf(Captured[n][i]) \in Row
  BY <1>2, RowType
<1> QED
  BY <1>1, <1>2, <1>3 DEF Rows

LEMMA CutOffType ==
  ASSUME NEW s \in Seq(Row), NEW t \in CutOff(s)
  PROVE  t \in Seq(Row)
<1>0. Len(s) \in Nat /\ \A i \in 1..Len(s) : s[i] \in Row
  BY LenProperties, ElementOfSeq
<1>1. ASSUME NEW k \in 0..Len(s) PROVE SubSeq(s, 1, k) \in Seq(Row)
  <2>1. \A i \in 1..k : s[i] \in Row
    BY <1>0
  <2>2. 1 \in Nat /\ k \in Nat
    BY <1>0
  <2> QED
    BY <1>0, <2>1, <2>2, SubSeqProperties
<1>2. ASSUME NEW k \in 0..(Len(s) - 1)
      PROVE Append(SubSeq(s, 1, k), [s[k + 1] EXCEPT !.dst = Dotless]) \in Seq(Row)
  <2>1. SubSeq(s, 1, k) \in Seq(Row)
    BY <1>0, <1>1
  <2>2. s[k + 1] \in Row
    BY <1>0
  <2>3. [s[k + 1] EXCEPT !.dst = Dotless] \in Row
    BY <2>2 DEF Row, Dotless
  <2> QED
    BY <2>1, <2>3, AppendProperties
<1> QED
  BY <1>1, <1>2 DEF CutOff

\* Where finished holds there is an input.txt that can be named.
LEMMA InputKnown ==
  ASSUME NavInv, input # 0
  PROVE  input \in 1..MaxInput
<1>1. MaxInput \in Nat
  BY NavigationAssumption
<1>2. input \in 0..MaxInput
  BY DEF NavInv, TypeOK
<1> QED
  BY <1>1, <1>2

LEMMA StatsInitially == StatsInit => StatsInv
<1> SUFFICES ASSUME StatsInit PROVE StatsInv
  OBVIOUS
<1>1. NavInv
  BY NavInit DEF StatsInit
<1>2. content = <<>> /\ records = <<>> /\ rowPos = 0 /\ analysis = "open" /\ opened = FALSE
  BY DEF StatsInit
<1>3. page = "home" /\ at = "menu" /\ finished = FALSE
  BY DEF StatsInit, Init
<1>4. <<>> \in Seq(Row) /\ <<>> \in Seq(Record) /\ Len(<<>>) = 0
  OBVIOUS
<1>5. RowTypeOK
  <2>1. content \in Seq(Row) /\ records \in Seq(Record)
    BY <1>2, <1>4
  <2>2. rowPos \in 0..Len(content)
    BY <1>2, <1>4
  <2>3. \A i \in 1..Len(records) : FALSE
    BY <1>2, <1>4
  <2> QED
    BY <1>2, <2>1, <2>2, <2>3 DEF RowTypeOK
<1>6. ContentInv /\ RecordsInv
  BY <1>2, <1>3 DEF ContentInv, RecordsInv, Shown
<1> QED
  BY <1>1, <1>5, <1>6 DEF StatsInv

\* Steps of the pages that leave output.txt and records_ alone keep what is
\* claimed of them, unless they come to the report.
LEMMA ElsewhereKeeps ==
  ASSUME StatsInv, UNCHANGED statVars, Elsewhere \/ UserStep \/ UNCHANGED allVars
  PROVE  ContentInv' /\ RecordsInv' /\ RowTypeOK'
<1>0. /\ NavInv /\ RowTypeOK /\ ContentInv /\ RecordsInv
      /\ content' = content /\ records' = records /\ rowPos' = rowPos
      /\ analysis' = analysis /\ opened' = opened
  BY DEF StatsInv, statVars
<1>1. (at # "parsing" /\ analysis = "open") \/ UNCHANGED <<page, at>>
  <2>1. CASE SkipLineEnd \/ Type \/ UNCHANGED allVars
    BY <2>1 DEF SkipLineEnd, Type, allVars, vars
  <2>2. CASE DeviceChoice \/ DeviceNewline \/ DeviceFilter \/ CaptureSetup \/ CaptureIndex
    BY <1>0, <2>2 DEF DeviceChoice, DeviceNewline, DeviceFilter, CaptureSetup, CaptureIndex, RowTypeOK
  <2>3. CASE Enter \/ HttpChoice \/ HttpRest \/ HttpEnter
    BY <1>0, <2>3 DEF Enter, HttpChoice, HttpRest, HttpEnter, RowTypeOK
  <2>4. CASE Key
    BY <1>0, <2>4 DEF Key, HomeMenu, DeviceAdapter, AskIndex, StopCapture, RowTypeOK
  <2> QED
    BY <2>1, <2>2, <2>3, <2>4 DEF Elsewhere, UserStep
<1>2. /\ at' = "parsing" => at = "parsing"
      /\ Shown' => Shown
      /\ finished' = finished
      /\ input' = input \/ (input' = input + 1 /\ Unparsed')
      /\ ~Unparsed' => ~Unparsed
  <2>1. CASE SkipLineEnd \/ Type \/ UNCHANGED allVars
    BY <2>1 DEF SkipLineEnd, Type, allVars, vars, files, Shown, Unparsed
  <2>2. CASE Back /\ UNCHANGED files /\ page \in {"device", "statistics", "http", "capture"}
             /\ ~Unparsed
    <3>1. page' = (IF page = "capture" THEN "device" ELSE "home")
          /\ at' = (IF page = "capture" THEN "choice" ELSE "menu")
      BY <1>0, <2>2, BackOnPath DEF NavInv
    <3> QED
      BY <2>2, <3>1 DEF files, Shown
  <2>3. CASE DeviceNewline \/ DeviceFilter \/ HttpRest \/ HttpEnter
    BY <2>3 DEF DeviceNewline, DeviceFilter, HttpRest, HttpEnter, Stay, files, Shown, Unparsed
  <2>4. CASE DeviceChoice \/ HttpChoice
    BY <2>2, <2>4 DEF DeviceChoice, HttpChoice, Stay, files, Shown, Unparsed
  <2>5. CASE Enter
    BY <2>2, <2>5 DEF Enter, Stay, files, Shown, Unparsed
  <2>6. CASE CaptureSetup
    BY <2>6 DEF CaptureSetup, Stay, Shown, Unparsed
  <2>7. CASE CaptureIndex \/ AskIndex \/ StopCapture
    BY <2>7 DEF CaptureIndex, AskIndex, StopCapture, Stay, files, Shown, Unparsed
  <2>8. CASE HomeMenu \/ DeviceAdapter
    BY <2>8 DEF HomeMenu, DeviceAdapter, Forward, Show, First, files, Shown, Unparsed
  <2> QED
    BY <2>1, <2>3, <2>4, <2>5, <2>6, <2>7, <2>8 DEF Elsewhere, UserStep, Key
<1>3. ContentInv'
  <2>1. input \in Nat
    <3>1. MaxInput \in Nat
      BY NavigationAssumption
    <3>2. input \in 0..MaxInput
      BY <1>0 DEF NavInv, TypeOK
    <3> QED
      BY <3>1, <3>2
  <2>2. input # 0 => input' # 0
    BY <1>2, <2>1
  <2>3. at' = "parsing" \/ finished' => input' # 0
    BY <1>0, <1>2, <2>2 DEF ContentInv
  <2>4. ASSUME finished', ~Unparsed' PROVE content' = Rows(input)'
    BY <1>0, <1>2, <2>4 DEF ContentInv, Rows
  <2> QED
    BY <2>3, <2>4 DEF ContentInv
<1>4. RecordsInv'
  BY <1>0, <1>2 DEF RecordsInv, ReadTo, RecordOf
<1>5. RowTypeOK'
  BY <1>0, <1>1 DEF RowTypeOK
<1> QED
  BY <1>3, <1>4, <1>5

\* A row read or left out makes the records those of one more row.
LEMMA ReadRowKeeps ==
  ASSUME StatsInv, ReadRow
  PROVE  records' \in Seq(Record) /\ rowPos' \in 0..Len(content) /\ ReadTo(rowPos)'
<1> DEFINE k == rowPos + 1
<1>0. /\ content \in Seq(Row) /\ records \in Seq(Record) /\ rowPos \in 0..Len(content)
      /\ ReadTo(rowPos) /\ rowPos < Len(content) /\ rowPos' = k /\ content' = content
      /\ Len(content) \in Nat /\ Len(records) \in Nat
  BY LenProperties DEF StatsInv, RowTypeOK, RecordsInv, ReadRow
<1>1. k \in 1..Len(content) /\ k \in Nat /\ k > rowPos
  BY <1>0
<1>2. content[k] \in Row
  BY <1>0, <1>1, ElementOfSeq
<1>3. \A i \in 1..Len(records) : records[i].row \in 1..rowPos
  BY <1>0 DEF ReadTo
<1>4. CASE content[k].addressed
  <2>1. records' = Append(records, RecordOf(k))
    <3>1. records' = Append(records, RecordOf(rowPos'))
      BY <1>0, <1>4 DEF ReadRow
    <3> QED
      BY <1>0, <3>1
  <2>2. RecordOf(k) \in Record
    <3>1. GetIPClass(content[k].dst) \in Classes
      BY DEF GetIPClass, Classes
    <3>2. Protocol(content[k].column) \in 0..255
      BY <1>2 DEF Protocol, Row
    <3> QED
      BY <1>1, <3>1, <3>2 DEF RecordOf, Record
  <2>3. /\ records' \in Seq(Record) /\ Len(records') = Len(records) + 1
        /\ \A i \in 1..Len(records) : records'[i] = records[i]
        /\ records'[Len(records) + 1] = RecordOf(k)
    BY <1>0, <2>1, <2>2, AppendProperties
  <2>4. RecordOf(k).row = k
    BY DEF RecordOf
  <2>5. \A i \in 1..Len(records') : i \in 1..Len(records) \/ i = Len(records) + 1
    BY <1>0, <2>3
  <2>6. {records'[i].row : i \in 1..Len(records')} = {n \in 1..k : content[n].addressed}
    <3>1. {records'[i].row : i \in 1..Len(records')} = {records[i].row : i \in 1..Len(records)} \cup {k}
      BY <1>0, <2>3, <2>4, <2>5
    <3>2. {n \in 1..k : content[n].addressed} = {n \in 1..rowPos : content[n].addressed} \cup {k}
      BY <1>0, <1>1, <1>4
    <3> QED
      BY <1>0, <3>1, <3>2 DEF ReadTo
  <2>7. \A i, j \in 1..Len(records') : i < j => records'[i].row < records'[j].row
    <3> SUFFICES ASSUME NEW i \in 1..Len(records'), NEW j \in 1..Len(records'), i < j
                 PROVE records'[i].row < records'[j].row
      OBVIOUS
    <3>1. CASE j \in 1..Len(records)
      BY <1>0, <2>3, <2>5, <3>1 DEF ReadTo
    <3>2. CASE j = Len(records) + 1
      <4>1. i \in 1..Len(records)
        BY <1>0, <2>3, <2>5, <3>2
      <4>2. records'[i].row \in 1..rowPos
        BY <1>3, <2>3, <4>1
      <4>3. records'[j].row = k
        BY <2>3, <2>4, <3>2
      <4> QED
        BY <1>0, <4>2, <4>3
    <3> QED
      BY <2>5, <3>1, <3>2
  <2>8. \A i \in 1..Len(records') : records'[i] = RecordOf(records'[i].row)
    BY <1>0, <2>3, <2>4, <2>5 DEF ReadTo
  <2>9. \A n : RecordOf(n)' = RecordOf(n)
    BY <1>0 DEF RecordOf
  <2> QED
    BY <1>0, <1>1, <2>3, <2>6, <2>7, <2>8, <2>9 DEF ReadTo
<1>5. CASE ~content[k].addressed
  <2>1. records' = records
    <3>1. ~content[rowPos'].addressed
      BY <1>0, <1>5
    <3> QED
      BY <3>1 DEF ReadRow
  <2>2. {n \in 1..k : content[n].addressed} = {n \in 1..rowPos : content[n].addressed}
    BY <1>0, <1>1, <1>5
  <2>3. \A n : RecordOf(n)' = RecordOf(n)
    BY <1>0 DEF RecordOf
  <2> QED
    BY <1>0, <1>1, <2>1, <2>2, <2>3 DEF ReadTo
<1> QED
  BY <1>4, <1>5

\* Every step keeps the invariant.
LEMMA StatsStep == StatsInv /\ [StatsNext]_allVars => StatsInv'
<1> SUFFICES ASSUME StatsInv, [StatsNext]_allVars PROVE StatsInv'
  OBVIOUS
<1>0. NavInv /\ RowTypeOK /\ ContentInv /\ RecordsInv
  BY DEF StatsInv
<1>1. NavInv'
  BY <1>0, StatsStepIsStep, NavStep
<1>2. CASE Elsewhere \/ UserStep \/ UNCHANGED allVars
  <2>1. UNCHANGED statVars
    BY <1>2 DEF Elsewhere, UserStep, allVars
  <2> QED
    BY <1>1, <1>2, <2>1, ElsewhereKeeps DEF StatsInv
<1>3. CASE Truncate
  <2>1. /\ page' = page /\ at = "parse" /\ input' = input /\ UNCHANGED <<records, rowPos, analysis, opened>>
        /\ \/ at' = AfterParse /\ finished' = FALSE /\ content' = content
           \/ at' = "parsing" /\ input # 0 /\ finished' = finished /\ content' = <<>>
    BY <1>3 DEF Truncate, OpenFiles, Stay, AfterParse
  <2>2. analysis = "open" /\ rowPos = 0 /\ at' # "enter again" /\ (page' = "statistics" => at' # "enter")
    BY <1>0, <2>1 DEF RowTypeOK, AfterParse
  <2>3. <<>> \in Seq(Row) /\ Len(<<>>) = 0
    OBVIOUS
  <2>4. content' \in Seq(Row) /\ 0 \in 0..Len(content')
    <3>1. content' = content \/ content' = <<>>
      BY <2>1
    <3>2. content' \in Seq(Row)
      BY <1>0, <2>3, <3>1 DEF RowTypeOK
    <3>3. Len(content') \in Nat
      BY <3>2, LenProperties
    <3> QED
      BY <3>2, <3>3
  <2>5. RowTypeOK'
    BY <1>0, <2>1, <2>2, <2>4 DEF RowTypeOK
  <2>6. ContentInv'
    BY <1>0, <2>1 DEF ContentInv, Unparsed, AfterParse
  <2>7. RecordsInv'
    BY <2>1, <2>2 DEF RecordsInv, Shown
  <2> QED
    BY <1>1, <2>5, <2>6, <2>7 DEF StatsInv
<1>4. CASE WriteRows
  <2>1. /\ page' = page /\ at = "parsing" /\ at' = AfterParse /\ input' = input
        /\ UNCHANGED <<records, rowPos, analysis, opened>>
        /\ \/ content' = Rows(input) /\ finished' = TRUE
           \/ content' \in CutOff(Rows(input)) /\ finished' = FALSE
    BY <1>4 DEF WriteRows, ParseDone, Stay
  <2>2. analysis = "open" /\ rowPos = 0
    BY <1>0, <2>1 DEF RowTypeOK
  <2>3. input \in 1..MaxInput
    BY <1>0, <2>1, InputKnown DEF ContentInv
  <2>4. content' \in Seq(Row)
    BY <2>1, <2>3, RowsType, CutOffType
  <2>5. RowTypeOK'
    <3>1. 0 \in 0..Len(content')
      BY <2>4, LenProperties
    <3> QED
      BY <1>0, <2>1, <2>2, <2>4, <3>1 DEF RowTypeOK
  <2>6. ContentInv'
    <3>1. Rows(input)' = Rows(input)
      BY <2>1 DEF Rows
    <3> QED
      BY <2>1, <2>3, <3>1 DEF ContentInv, AfterParse
  <2>7. RecordsInv'
    BY <2>1, <2>2 DEF RecordsInv, Shown, AfterParse
  <2> QED
    BY <1>1, <2>5, <2>6, <2>7 DEF StatsInv
<1>5. CASE OpenOutput
  <2>1. /\ page = "statistics" /\ at = "analyze" /\ analysis = "open" /\ records' = <<>>
        /\ UNCHANGED <<page, at, input, finished, content, rowPos>>
        /\ \/ opened' = TRUE /\ analysis' = "rows"
           \/ opened' = FALSE /\ analysis' = "done"
    BY <1>5 DEF OpenOutput, vars, files
  <2>2. rowPos = 0
    BY <1>0, <2>1 DEF RowTypeOK
  <2>3. <<>> \in Seq(Record) /\ Len(<<>>) = 0
    OBVIOUS
  <2>4. RowTypeOK'
    <3>1. \A i \in 1..Len(records') : FALSE
      BY <2>1, <2>3
    <3> QED
      BY <1>0, <2>1, <2>3, <3>1 DEF RowTypeOK
  <2>5. ReadTo(rowPos)'
    BY <2>1, <2>2, <2>3 DEF ReadTo
  <2>6. RecordsInv'
    BY <2>1, <2>5 DEF RecordsInv, Shown
  <2>7. ContentInv'
    BY <1>0, <2>1 DEF ContentInv, Unparsed, Rows
  <2> QED
    BY <1>1, <2>4, <2>6, <2>7 DEF StatsInv
<1>6. CASE ReadRow
  <2>1. /\ analysis = "rows" /\ UNCHANGED <<page, at, input, finished, content, analysis, opened>>
    BY <1>6 DEF ReadRow, vars, files
  <2>2. records' \in Seq(Record) /\ rowPos' \in 0..Len(content) /\ ReadTo(rowPos)'
    BY <1>6, ReadRowKeeps
  <2>3. RowTypeOK'
    BY <1>0, <2>1, <2>2 DEF RowTypeOK
  <2>4. RecordsInv'
    BY <1>0, <2>1, <2>2 DEF RecordsInv, Shown, RowTypeOK
  <2>5. ContentInv'
    BY <1>0, <2>1 DEF ContentInv, Unparsed, Rows
  <2> QED
    BY <1>1, <2>3, <2>4, <2>5 DEF StatsInv
<1>7. CASE EndOfRows
  <2>1. /\ analysis = "rows" /\ rowPos = Len(content) /\ analysis' = "done"
        /\ UNCHANGED <<page, at, input, finished, content, records, rowPos, opened>>
    BY <1>7 DEF EndOfRows, vars, files
  <2>2. RowTypeOK'
    BY <1>0, <2>1 DEF RowTypeOK
  <2>3. ReadTo(Len(content))'
    BY <1>0, <2>1 DEF RecordsInv, ReadTo, RecordOf
  <2>4. RecordsInv'
    BY <1>0, <2>1, <2>3 DEF RecordsInv
  <2>5. ContentInv'
    BY <1>0, <2>1 DEF ContentInv, Unparsed, Rows
  <2> QED
    BY <1>1, <2>2, <2>4, <2>5 DEF StatsInv
<1>8. CASE GenerateReport
  <2>1. /\ analysis = "done" /\ analysis' = "open" /\ page = "statistics" /\ at = "analyze" /\ at' = "enter"
        /\ rowPos' = 0 /\ UNCHANGED <<page, input, finished, content, records, opened>>
    BY <1>8 DEF GenerateReport, Analyze, Stay, files
  <2>2. RowTypeOK'
    <3>1. 0 \in 0..Len(content')
      BY <1>0, <2>1, LenProperties DEF RowTypeOK
    <3> QED
      BY <1>0, <2>1, <3>1 DEF RowTypeOK
  <2>3. RecordsInv'
    <3>1. opened => ReadTo(Len(content))'
      BY <1>0, <2>1 DEF RecordsInv, ReadTo, RecordOf
    <3>2. ~opened => records' = <<>>
      BY <1>0, <2>1 DEF RecordsInv
    <3> QED
      BY <2>1, <3>1, <3>2 DEF RecordsInv
  <2>4. ContentInv'
    BY <1>0, <2>1 DEF ContentInv, Unparsed, Rows
  <2> QED
    BY <1>1, <2>2, <2>3, <2>4 DEF StatsInv
<1>9. CASE StatsRestart
  <2>1. /\ page' = "home" /\ at' = "menu" /\ finished' = FALSE /\ input' = input
        /\ records' = <<>> /\ rowPos' = 0 /\ analysis' = "open" /\ opened' = FALSE
        /\ \/ at = "parsing" /\ content' \in CutOff(Rows(input))
           \/ content' = content
    BY <1>9 DEF StatsRestart, Restart
  <2>2. content' \in Seq(Row)
    <3>1. CASE at = "parsing" /\ content' \in CutOff(Rows(input))
      <4>1. input \in 1..MaxInput
        BY <1>0, <3>1, InputKnown DEF ContentInv
      <4> QED
        BY <3>1, <4>1, RowsType, CutOffType
    <3>2. CASE content' = content
      BY <1>0, <3>2 DEF RowTypeOK
    <3> QED
      BY <2>1, <3>1, <3>2
  <2>3. RowTypeOK'
    <3>1. 0 \in 0..Len(content')
      BY <2>2, LenProperties
    <3>2. <<>> \in Seq(Record)
      OBVIOUS
    <3> QED
      BY <2>1, <2>2, <3>1, <3>2 DEF RowTypeOK
  <2>4. ContentInv' /\ RecordsInv'
    BY <2>1 DEF ContentInv, RecordsInv, Shown
  <2> QED
    BY <1>1, <2>3, <2>4 DEF StatsInv
<1> QED
  BY <1>2, <1>3, <1>4, <1>5, <1>6, <1>7, <1>8, <1>9 DEF StatsNext, StatsDisplay

LEMMA StatsInvariant == StatsSpec => []StatsInv
BY StatsInitially, StatsStep, PTL DEF StatsSpec

\* The statistics page's state is type correct for all packets.
THEOREM StatsTypeCorrect == StatsSpec => []StatsTypeOK
<1>1. StatsInv => StatsTypeOK
  BY DEF StatsInv, NavInv, StatsTypeOK
<1> QED
  BY StatsInvariant, <1>1, PTL

\* What is shown is what output.txt holds, whatever is in it and whatever was
\* shown before.
THEOREM ReportMatchesFile == StatsSpec => []ReportIsOfFile
<1>1. StatsInv => ReportIsOfFile
  <2> SUFFICES ASSUME StatsInv, Shown PROVE ReportIsOfFile
    BY DEF ReportIsOfFile
  <2>1. content \in Seq(Row) /\ records \in Seq(Record)
    BY DEF StatsInv, RowTypeOK
  <2>2. CASE ~opened
    <3>1. records = <<>>
      BY <2>2 DEF StatsInv, RecordsInv
    <3>2. Len(records) = 0 /\ {records[i].row : i \in 1..Len(records)} = {}
      BY <3>1
    <3> QED
      BY <2>2, <3>2 DEF ReportIsOfFile
  <2>3. CASE opened
    <3>1. ReadTo(Len(content))
      BY <2>3 DEF StatsInv, RecordsInv
    <3>2. \A i \in 1..Len(records) : records[i].row \in 1..Len(content)
      BY <3>1 DEF ReadTo
    <3>3. \A n \in 1..Len(content) : content[n].dst \in 0..Dotless
      <4>1. \A n \in 1..Len(content) : content[n] \in Row
        BY <2>1, ElementOfSeq
      <4> QED
        BY <4>1 DEF Row
    <3>4. \A i \in 1..Len(records) : records[i].class = LeadingBits(content[records[i].row].dst)
      <4> SUFFICES ASSUME NEW i \in 1..Len(records)
                   PROVE records[i].class = LeadingBits(content[records[i].row].dst)
        OBVIOUS
      <4>1. records[i] = RecordOf(records[i].row)
        BY <3>1 DEF ReadTo
      <4>2. content[records[i].row].dst \in 0..Dotless
        BY <3>2, <3>3
      <4>3. RecordOf(records[i].row).class = GetIPClass(content[records[i].row].dst)
        BY DEF RecordOf
      <4> QED
        BY <4>1, <4>2, <4>3, ClassIsLeadingBits
    <3> QED
      BY <2>3, <3>1, <3>4 DEF ReportIsOfFile, ReadTo, Addressed
  <2> QED
    BY <2>2, <2>3
<1> QED
  BY StatsInvariant, <1>1, PTL

\* After a parse that wrote all its rows the report is of the packets captured.
THEOREM ReportMatchesCapture == StatsSpec => []ReportIsCurrent
<1>1. StatsInv => ReportIsCurrent
  <2> SUFFICES ASSUME StatsInv, Shown, opened, finished PROVE ReportIsCurrent
    BY DEF ReportIsCurrent
  <2> DEFINE packets == Captured[input]
  <2>1. input \in 1..MaxInput
    BY InputKnown DEF StatsInv, ContentInv
  <2>2. content = Rows(input)
    BY DEF StatsInv, ContentInv, Shown, Unparsed
  <2>3. Len(content) = Len(packets)
    BY <2>1, <2>2, RowsType
  <2>4. \A n \in 1..Len(packets) : content[n] = RowOf(packets[n]) /\ packets[n] \in Packet
    <3>1. packets \in Seq(Packet)
      BY <2>1, RowsType
    <3>2. \A n \in 1..Len(packets) : packets[n] \in Packet
      BY <3>1, ElementOfSeq
    <3> QED
      BY <2>2, <3>2 DEF Rows
  <2>5. ReadTo(Len(packets))
    BY <2>3 DEF StatsInv, RecordsInv
  <2>6. \A n \in 1..Len(packets) :
          content[n].addressed <=>
            packets[n].ip4 /\ (packets[n].proto \notin {6, 17} \/ packets[n].whole)
    BY <2>4, WhoHasAddresses
  <2>7. \A i \in 1..Len(records) :
          LET p == packets[records[i].row]
          IN records[i].protocol = p.proto /\ records[i].class = LeadingBits(p.dst)
    <3> SUFFICES ASSUME NEW i \in 1..Len(records)
                 PROVE LET p == packets[records[i].row]
                       IN records[i].protocol = p.proto /\ records[i].class = LeadingBits(p.dst)
      OBVIOUS
    <3> DEFINE n == records[i].row
    <3> DEFINE p == packets[n]
    <3>1. n \in 1..Len(packets) /\ content[n].addressed /\ records[i] = RecordOf(n)
      BY <2>5 DEF ReadTo
    <3>2. p \in Packet /\ content[n] = RowOf(p) /\ HasAddresses(p)
      BY <2>4, <3>1 DEF RowOf
    <3>3. content[n].column = Column(p) /\ content[n].dst = p.dst
      BY <3>2 DEF RowOf
    <3>4. p.dst \in 0..Dotless
      BY <3>2, WhoHasAddresses
    <3>5. records[i].protocol = p.proto
      BY <3>1, <3>2, <3>3, ProtocolSurvives DEF RecordOf
    <3>6. records[i].class = LeadingBits(p.dst)
      BY <3>1, <3>3, <3>4, ClassIsLeadingBits DEF RecordOf
    <3> QED
      BY <3>5, <3>6
  <2>8. {records[i].row : i \in 1..Len(records)}
          = {n \in 1..Len(packets) :
               packets[n].ip4 /\ (packets[n].proto \notin {6, 17} \/ packets[n].whole)}
    BY <2>5, <2>6 DEF ReadTo
  <2> QED
    BY <2>7, <2>8 DEF ReportIsCurrent
<1> QED
  BY StatsInvariant, <1>1, PTL

\* The totals are right because the records of a class and the rows of that
\* class are in one-to-one correspondence.
THEOREM TotalsMatchFile == StatsSpec => []TotalsAreOfFile
<1>1. StatsInv => TotalsAreOfFile
  <2> SUFFICES ASSUME StatsInv, Shown, opened, NEW c \in Classes
               PROVE ClassCounts[c]
                       = Cardinality({n \in Addressed : LeadingBits(content[n].dst) = c})
    BY DEF TotalsAreOfFile
  <2> DEFINE S == {i \in 1..Len(records) : records[i].class = c}
  <2> DEFINE T == {n \in Addressed : LeadingBits(content[n].dst) = c}
  <2> DEFINE f == [i \in S |-> records[i].row]
  <2>1. content \in Seq(Row) /\ records \in Seq(Record) /\ Len(records) \in Nat
    BY LenProperties DEF StatsInv, RowTypeOK
  <2>2. ReadTo(Len(content))
    BY DEF StatsInv, RecordsInv
  <2>3. \A n \in 1..Len(content) : content[n].dst \in 0..Dotless
    <3>1. \A n \in 1..Len(content) : content[n] \in Row
      BY <2>1, ElementOfSeq
    <3> QED
      BY <3>1 DEF Row
  <2>4. \A i \in 1..Len(records) :
          records[i].row \in Addressed /\ records[i].class = LeadingBits(content[records[i].row].dst)
    <3> SUFFICES ASSUME NEW i \in 1..Len(records)
                 PROVE records[i].row \in Addressed
                       /\ records[i].class = LeadingBits(content[records[i].row].dst)
      OBVIOUS
    <3>1. records[i].row \in Addressed /\ records[i] = RecordOf(records[i].row)
      BY <2>2 DEF ReadTo, Addressed
    <3>2. content[records[i].row].dst \in 0..Dotless
      BY <2>3, <3>1 DEF Addressed
    <3>3. RecordOf(records[i].row).class = GetIPClass(content[records[i].row].dst)
      BY DEF RecordOf
    <3> QED
      BY <3>1, <3>2, <3>3, ClassIsLeadingBits
  <2>5. \A n \in Addressed : \E i \in 1..Len(records) : records[i].row = n
    BY <2>2 DEF ReadTo, Addressed
  <2>6. f \in Injection(S, T)
    <3>1. f \in [S -> T]
      BY <2>4
    <3>2. \A i, j \in S : f[i] = f[j] => i = j
      <4> SUFFICES ASSUME NEW i \in S, NEW j \in S, i # j PROVE f[i] # f[j]
        OBVIOUS
      <4>1. \A a, b \in 1..Len(records) : a < b => records[a].row < records[b].row
        BY <2>2 DEF ReadTo
      <4>2. \A a \in 1..Len(records) : records[a].row \in Nat
        <5>1. \A a \in 1..Len(records) : records[a] \in Record
          BY <2>1, ElementOfSeq
        <5> QED
          BY <5>1 DEF Record
      <4>3. i < j \/ j < i
        BY <2>1
      <4>4. i \in 1..Len(records) /\ j \in 1..Len(records) /\ f[i] = records[i].row /\ f[j] = records[j].row
        OBVIOUS
      <4>5. records[i].row # records[j].row
        BY <4>1, <4>2, <4>3, <4>4
      <4> QED
        BY <4>4, <4>5
    <3> QED
      BY <3>1, <3>2 DEF Injection, IsInjective
  <2>7. f \in Surjection(S, T)
    <3>1. ASSUME NEW n \in T PROVE \E i \in S : f[i] = n
      <4>1. PICK i \in 1..Len(records) : records[i].row = n
        BY <2>5
      <4>2. i \in S
        BY <2>4, <4>1
      <4> QED
        BY <4>1, <4>2
    <3> QED
      BY <2>4, <3>1 DEF Surjection
  <2>8. IsFiniteSet(S)
    <3>1. IsFiniteSet(1..Len(records))
      BY <2>1, FS_Interval
    <3> QED
      BY <3>1, FS_Subset
  <2>9. Cardinality(T) = Cardinality(S)
    <3>1. ExistsBijection(S, T)
      BY <2>6, <2>7 DEF ExistsBijection, Bijection
    <3> QED
      BY <2>8, <3>1, FS_Bijection
  <2> QED
    BY <2>9 DEF ClassCounts
<1> QED
  BY StatsInvariant, <1>1, PTL

-----------------------------------------------------------------------------
(* How far the report is *)

\* From the parse to the report.
Reporting == page = "statistics" /\ at \in {"parse", "parsing", "analyze"}

Stage ==
  CASE at = "parse" -> 4 [] at = "parsing" -> 3
    [] at = "analyze" /\ analysis = "open" -> 2 [] at = "analyze" /\ analysis = "rows" -> 1
    [] OTHER -> 0

\* Each step leads to the report or the program's end, or comes nearer to it:
\* to a later stage or, reading, to a later row.  Only the user can put in
\* steps between, by typing ahead.
ReportNearer ==
  [][Reporting =>
       \/ Shown' \/ page' = "home"
       \/ Reporting' /\ UNCHANGED <<at, statVars>>
       \/ Reporting' /\ Stage' < Stage
       \/ /\ Reporting' /\ Stage' = Stage
          /\ rowPos < Len(content) /\ content' = content /\ rowPos' = rowPos + 1]_allVars

\* Nothing else runs while the report is made.
LEMMA OnlyReporting ==
  ASSUME Reporting, Elsewhere \/ UserStep
  PROVE  Type
BY DEF Reporting, Elsewhere, UserStep, SkipLineEnd, DeviceChoice, DeviceNewline, DeviceFilter,
   CaptureSetup, CaptureIndex, Enter, HttpChoice, HttpRest, HttpEnter, Key, HomeMenu,
   DeviceAdapter, AskIndex, StopCapture

LEMMA ReportStep ==
  ASSUME StatsInv, Reporting, [StatsNext]_allVars
  PROVE  \/ Shown' \/ page' = "home"
         \/ Reporting' /\ UNCHANGED <<at, statVars>>
         \/ Reporting' /\ Stage' < Stage
         \/ /\ Reporting' /\ Stage' = Stage
            /\ rowPos < Len(content) /\ content' = content /\ rowPos' = rowPos + 1
<1>0. RowTypeOK
  BY DEF StatsInv
<1>1. CASE Elsewhere \/ UserStep \/ UNCHANGED allVars
  <2>1. UNCHANGED <<page, at, statVars>>
    BY <1>1, OnlyReporting DEF Elsewhere, UserStep, Type, allVars, vars
  <2> QED
    BY <2>1 DEF Reporting
<1>2. CASE Truncate
  <2>1. /\ page' = page /\ at = "parse" /\ analysis' = analysis
        /\ at' \in {"analyze", "parsing"}
    BY <1>2 DEF Truncate, OpenFiles, Stay, AfterParse, Reporting
  <2> QED
    BY <2>1 DEF Reporting, Stage
<1>3. CASE WriteRows
  <2>1. page' = page /\ at = "parsing" /\ at' = "analyze"
    BY <1>3 DEF WriteRows, ParseDone, Stay, AfterParse, Reporting
  <2> QED
    BY <2>1 DEF Reporting, Stage
<1>4. CASE OpenOutput
  <2>1. UNCHANGED <<page, at>> /\ at = "analyze" /\ analysis = "open" /\ analysis' \in {"rows", "done"}
    BY <1>4 DEF OpenOutput, vars
  <2> QED
    BY <2>1 DEF Reporting, Stage
<1>5. CASE ReadRow
  <2>1. UNCHANGED <<page, at, analysis, content>> /\ rowPos < Len(content) /\ rowPos' = rowPos + 1
    BY <1>5 DEF ReadRow, vars
  <2> QED
    BY <2>1 DEF Reporting, Stage
<1>6. CASE EndOfRows
  <2>1. UNCHANGED <<page, at>> /\ at = "analyze" /\ analysis = "rows" /\ analysis' = "done"
    BY <1>0, <1>6 DEF EndOfRows, vars, RowTypeOK
  <2> QED
    BY <2>1 DEF Reporting, Stage
<1>7. CASE GenerateReport
  BY <1>7 DEF GenerateReport, Analyze, Stay, Shown
<1>8. CASE StatsRestart
  BY <1>8 DEF StatsRestart, Restart
<1> QED
  BY <1>1, <1>2, <1>3, <1>4, <1>5, <1>6, <1>7, <1>8 DEF StatsNext, StatsDisplay

\* The report is shown after five steps and one for each row of output.txt at
\* most, whatever the file holds and whether it could be parsed and opened or
\* not: what is left of ReportComes is only that the program goes on.
THEOREM ReportIsNear == StatsSpec => ReportNearer
<1>1. StatsInv /\ [StatsNext]_allVars =>
        [Reporting =>
           \/ Shown' \/ page' = "home"
           \/ Reporting' /\ UNCHANGED <<at, statVars>>
           \/ Reporting' /\ Stage' < Stage
           \/ /\ Reporting' /\ Stage' = Stage
              /\ rowPos < Len(content) /\ content' = content /\ rowPos' = rowPos + 1]_allVars
  BY ReportStep
<1> QED
  BY <1>1, StatsInvariant, PTL DEF StatsSpec, ReportNearer
=============================================================================
