-------------------------- MODULE HttpAnalysisProofs --------------------------
(***************************************************************************)
(* What holds of the two files read side by side for input files of any    *)
(* length.  The rows are the intact lines in order (RowsInv), so each row  *)
(* starts its search before the line it came from; since that line decodes *)
(* the search ends there at the latest (PlaceInv).  As long as every line  *)
(* that decodes is TCP it ends exactly there (SyncInv).                    *)
(***************************************************************************)
EXTENDS HttpAnalysis, SequenceTheorems, TLAPS

Intact(n) == input[n].state = "intact"

\* Every line up to n that decodes is an intact TCP packet.
AllTcp(n) ==
  \A m \in 1..n : Decodes(input[m]) => input[m].state = "intact" /\ input[m].frame # "other"

RowsUpTo(n) ==
  /\ ok = Len(rows)
  /\ {rows[i].from : i \in 1..Len(rows)} = {m \in 1..n : Intact(m)}
  /\ \A i, j \in 1..Len(rows) : i < j => rows[i].from < rows[j].from
  /\ \A i \in 1..Len(rows) : rows[i] = RowOf(input[rows[i].from].frame, rows[i].from)

RowsInv ==
  /\ pc = "parse" => fresh /\ RowsUpTo(inPos)
  /\ fresh /\ pc # "parse" => RowsUpTo(Len(input))

PlaceInv ==
  /\ pc = "parse" => outPos = 0 /\ reports = {}
  /\ pc = "line" => outPos # 0
  /\ fresh /\ pc = "row" => IF outPos = 0 THEN inPos = 0 ELSE inPos <= current.from
  /\ fresh /\ pc = "line" => inPos < current.from

SyncInv ==
  fresh =>
    /\ pc = "row" /\ outPos # 0 /\ AllTcp(current.from) => inPos = current.from
    /\ pc = "line" /\ AllTcp(current.from) =>
         \A n \in (inPos + 1)..(current.from - 1) : ~Decodes(input[n])
    /\ \A r \in reports : AllTcp(rows[r.row].from) => r.from = rows[r.row].from

HttpInv == TypeOK /\ RowsInv /\ PlaceInv /\ SyncInv

LEMMA LineType ==
  \A l \in Line : l.state \in {"blank", "broken", "corrupt", "intact"}
                  /\ l.frame \in {"http", "hello", "ack", "raw", "rawhello", "short", "other"}
BY AnalysisAssumption DEF Line

LEMMA InputsType ==
  ASSUME NEW max \in Nat, NEW s \in Inputs(max)
  PROVE  s \in Seq(Line)
<1>1. PICK n \in 0..max : s \in [1..n -> Line]
  BY DEF Inputs
<1>2. n \in Nat
  BY <1>1
<1> QED
  BY <1>1, <1>2, SeqDef

LEMMA RowOfType ==
  \A l \in Line, n \in Nat \ {0} : RowOf(l.frame, n) \in Row
BY DEF RowOf, Row, Proto, PreviewKnown

LEMMA CutOffType ==
  ASSUME rows \in Seq(Row), NEW t \in CutOff
  PROVE  t \in Seq(Row)
<1>0. Len(rows) \in Nat /\ \A i \in 1..Len(rows) : rows[i] \in Row
  BY LenProperties, ElementOfSeq
<1>1. ASSUME NEW k \in 0..Len(rows)
      PROVE SubSeq(rows, 1, k) \in Seq(Row) /\ Len(SubSeq(rows, 1, k)) = k
  <2>1. \A i \in 1..k : rows[i] \in Row
    BY <1>0
  <2>2. 1 \in Nat /\ k \in Nat
    BY <1>0
  <2> QED
    BY <1>0, <2>1, <2>2, SubSeqProperties
<1>2. ASSUME NEW k \in 1..Len(rows)
      PROVE [SubSeq(rows, 1, k) EXCEPT ![k].preview = FALSE] \in Seq(Row)
  <2> DEFINE s == SubSeq(rows, 1, k)
  <2>1. s \in Seq(Row) /\ Len(s) = k
    BY <1>0, <1>1
  <2>2. k \in 1..Len(s)
    BY <1>0, <2>1
  <2>3. s[k] \in Row
    BY <2>1, <2>2, ElementOfSeq
  <2>4. [s[k] EXCEPT !.preview = FALSE] \in Row
    BY <2>3 DEF Row
  <2> HIDE DEF s
  <2>5. [s EXCEPT ![k] = [s[k] EXCEPT !.preview = FALSE]] \in Seq(Row)
    BY <2>1, <2>2, <2>4, ExceptSeq
  <2> QED
    BY <2>5 DEF s
<1> QED
  BY <1>1, <1>2 DEF CutOff

LEMMA HttpInit == Init => HttpInv
<1> SUFFICES ASSUME Init PROVE HttpInv
  OBVIOUS
<1>1. input \in Seq(Line)
  BY AnalysisAssumption, InputsType DEF Init
<1>2. Len(input) \in Nat /\ 0 \in 0..Len(input)
  BY <1>1, LenProperties
<1>3. <<>> \in Seq(Row) /\ Len(<<>>) = 0
  OBVIOUS
<1>4. TypeOK
  BY <1>1, <1>2, <1>3 DEF Init, TypeOK
<1>5. RowsUpTo(0)
  BY <1>3 DEF Init, RowsUpTo
<1> QED
  BY <1>4, <1>5 DEF Init, HttpInv, RowsInv, PlaceInv, SyncInv

\* What is known of the types, in one place.
LEMMA Typed ==
  ASSUME TypeOK
  PROVE  /\ Len(input) \in Nat /\ Len(rows) \in Nat
         /\ inPos \in Nat /\ outPos \in Nat /\ inPos <= Len(input) /\ outPos <= Len(rows)
         /\ \A n \in 1..Len(input) : input[n] \in Line
         /\ \A i \in 1..Len(rows) : rows[i] \in Row /\ rows[i].from \in Nat \ {0}
<1>1. Len(input) \in Nat /\ Len(rows) \in Nat
  BY LenProperties DEF TypeOK
<1>2. \A n \in 1..Len(input) : input[n] \in Line
  BY ElementOfSeq DEF TypeOK
<1>3. \A i \in 1..Len(rows) : rows[i] \in Row
  BY ElementOfSeq DEF TypeOK
<1>4. \A i \in 1..Len(rows) : rows[i].from \in Nat \ {0}
  BY <1>3 DEF Row
<1> QED
  BY <1>1, <1>2, <1>3, <1>4 DEF TypeOK

\* The three outcomes of a line.
LEMMA ParseLineCases ==
  ASSUME TypeOK, ParseLine
  PROVE  LET n == inPos + 1 IN
         /\ n \in 1..Len(input) /\ inPos' = n
         /\ UNCHANGED <<pc, input, fresh, outPos, reports>>
         /\ \/ /\ Intact(n) /\ rows' = Append(rows, RowOf(input[n].frame, n))
               /\ ok' = ok + 1 /\ bad' = bad
            \/ /\ ~Intact(n) /\ rows' = rows /\ ok' = ok
               /\ bad' = bad \/ bad' = bad + 1
<1> DEFINE n == inPos + 1
<1> DEFINE line == input[n]
<1>1. n \in 1..Len(input) /\ inPos' = n
  BY Typed DEF ParseLine
<1>2. line \in Line
  BY <1>1, Typed
<1>3. line.state \in {"blank", "broken", "corrupt", "intact"}
  BY <1>2, LineType
<1>4. inPos' = inPos + 1 /\ input[inPos'] = line
  BY <1>1
<1>5. CASE line.state = "blank"
  <2>1. UNCHANGED <<rows, ok, bad>>
    BY <1>4, <1>5 DEF ParseLine
  <2> QED
    BY <1>1, <1>5, <2>1 DEF ParseLine, Intact
<1>6. CASE line.state \in {"broken", "corrupt"}
  <2>1. bad' = bad + 1 /\ UNCHANGED <<rows, ok>>
    BY <1>4, <1>6 DEF ParseLine
  <2> QED
    BY <1>1, <1>6, <2>1 DEF ParseLine, Intact
<1>7. CASE line.state = "intact"
  <2>1. rows' = Append(rows, RowOf(line.frame, inPos')) /\ ok' = ok + 1 /\ bad' = bad
    BY <1>4, <1>7 DEF ParseLine
  <2> QED
    BY <1>1, <1>7, <2>1 DEF ParseLine, Intact
<1> QED
  BY <1>3, <1>5, <1>6, <1>7

LEMMA TypeStep == HttpInv /\ [Next]_vars => TypeOK'
<1> SUFFICES ASSUME HttpInv, [Next]_vars PROVE TypeOK'
  OBVIOUS
<1>0. TypeOK
  BY DEF HttpInv
<1>1. CASE ParseLine
  <2> DEFINE n == inPos + 1
  <2>1. n \in 1..Len(input) /\ n \in Nat \ {0} /\ inPos' = n /\ UNCHANGED <<pc, input, fresh, outPos, reports>>
    BY <1>0, <1>1, Typed, ParseLineCases
  <2>2. pc = "parse"
    BY <1>1 DEF ParseLine
  <2>3. /\ pc' \in {"parse", "row", "line", "done"} /\ input' \in Seq(Line) /\ fresh' \in BOOLEAN
        /\ inPos' \in 0..Len(input')
    BY <1>0, <2>1, Typed DEF TypeOK
  <2>4. CASE Intact(n) /\ rows' = Append(rows, RowOf(input[n].frame, n)) /\ ok' = ok + 1 /\ bad' = bad
    <3>1. RowOf(input[n].frame, n) \in Row
      BY <1>0, <2>1, Typed, RowOfType
    <3>2. rows' \in Seq(Row) /\ Len(rows') = Len(rows) + 1
      BY <1>0, <2>4, <3>1, AppendProperties DEF TypeOK
    <3>3. outPos' \in 0..Len(rows')
      BY <1>0, <2>1, <3>2, Typed
    <3>4. reports' \subseteq [row : 1..Len(rows'), from : Nat \ {0}]
      BY <1>0, <2>1, <3>2, Typed DEF TypeOK
    <3>5. ok' \in Nat /\ bad' \in Nat /\ ok' + bad' <= inPos'
      BY <1>0, <2>1, <2>2, <2>4, Typed DEF TypeOK
    <3> QED
      BY <2>3, <3>2, <3>3, <3>4, <3>5 DEF TypeOK
  <2>5. CASE rows' = rows /\ ok' = ok /\ (bad' = bad \/ bad' = bad + 1)
    <3>1. ok' \in Nat /\ bad' \in Nat /\ ok' + bad' <= inPos'
      BY <1>0, <2>1, <2>2, <2>5, Typed DEF TypeOK
    <3>2. rows' \in Seq(Row) /\ outPos' \in 0..Len(rows')
          /\ reports' \subseteq [row : 1..Len(rows'), from : Nat \ {0}]
      BY <1>0, <2>1, <2>5 DEF TypeOK
    <3> QED
      BY <2>3, <3>1, <3>2 DEF TypeOK
  <2> QED
    BY <1>0, <1>1, <2>4, <2>5, ParseLineCases
<1>2. CASE Analyze
  <2>1. outPos = 0 /\ pc' = "row" /\ inPos' = 0 /\ UNCHANGED <<ok, bad, outPos, reports>>
    BY <1>2 DEF Analyze, HttpInv, PlaceInv
  <2>2. input' \in Seq(Line)
    BY <1>0, <1>2, AnalysisAssumption, InputsType DEF Analyze, TypeOK
  <2>3. rows' \in Seq(Row)
    BY <1>0, <1>2, CutOffType DEF Analyze, TypeOK
  <2>4. Len(input') \in Nat /\ Len(rows') \in Nat
    BY <2>2, <2>3, LenProperties
  <2>5. fresh' \in BOOLEAN
    BY <1>0, <1>2 DEF Analyze, TypeOK
  <2>6. reports = {}
    BY <1>2 DEF Analyze, HttpInv, PlaceInv
  <2> QED
    BY <1>0, <2>1, <2>2, <2>3, <2>4, <2>5, <2>6 DEF TypeOK
<1>3. CASE NextRow
  <2>1. outPos' = outPos + 1 /\ outPos < Len(rows) /\ pc' \in {"row", "line"}
        /\ UNCHANGED <<input, fresh, inPos, rows, ok, bad, reports>>
    BY <1>3 DEF NextRow
  <2> QED
    BY <1>0, <2>1, Typed DEF TypeOK
<1>4. ASSUME pc = "line", NEW n \in Nat \ {0}, Report(n), UNCHANGED <<rows, outPos>>
      PROVE reports' \subseteq [row : 1..Len(rows'), from : Nat \ {0}]
  <2>1. outPos \in 1..Len(rows)
    BY <1>0, <1>4, Typed DEF HttpInv, PlaceInv
  <2> QED
    BY <1>0, <1>4, <2>1 DEF Report, TypeOK
<1>5. ASSUME pc = "line", Fallback, UNCHANGED <<rows, outPos>>
      PROVE reports' \subseteq [row : 1..Len(rows'), from : Nat \ {0}]
  <2>1. outPos \in 1..Len(rows)
    BY <1>0, <1>5, Typed DEF HttpInv, PlaceInv
  <2>2. current.from \in Nat \ {0}
    BY <1>0, <2>1, Typed DEF current
  <2> QED
    BY <1>0, <1>4, <1>5, <2>2 DEF Fallback, TypeOK
<1>6. CASE TakeLine
  <2>1. /\ pc = "line" /\ inPos' = inPos + 1 /\ inPos < Len(input) /\ pc' \in {"line", "row"}
        /\ UNCHANGED <<input, fresh, rows, ok, bad, outPos>>
        /\ UNCHANGED reports \/ Fallback \/ Report(inPos')
    <3>1. pc' = pc \/ pc' = "row"
      BY <1>6 DEF TakeLine
    <3> QED
      BY <1>6, <3>1 DEF TakeLine
  <2>2. inPos' \in 0..Len(input) /\ inPos' \in Nat \ {0}
    BY <1>0, <2>1, Typed
  <2>3. reports' \subseteq [row : 1..Len(rows'), from : Nat \ {0}]
    <3>1. CASE UNCHANGED reports
      BY <1>0, <2>1, <3>1 DEF TypeOK
    <3> QED
      BY <1>4, <1>5, <2>1, <2>2, <3>1
  <2> QED
    BY <1>0, <2>1, <2>2, <2>3 DEF TypeOK
<1>7. CASE EndOfInput
  <2>1. reports' \subseteq [row : 1..Len(rows'), from : Nat \ {0}]
    BY <1>5, <1>7 DEF EndOfInput
  <2> QED
    BY <1>0, <1>7, <2>1 DEF EndOfInput, TypeOK
<1>8. CASE Done \/ UNCHANGED vars
  BY <1>0, <1>8 DEF Done, vars, TypeOK
<1> QED
  BY <1>1, <1>2, <1>3, <1>6, <1>7, <1>8 DEF Next

\* A line read adds its row exactly if it is intact; nothing else touches the
\* rows as long as they are fresh.
LEMMA RowsStep == HttpInv /\ [Next]_vars => RowsInv'
<1> SUFFICES ASSUME HttpInv, [Next]_vars PROVE RowsInv'
  OBVIOUS
<1>0. TypeOK /\ RowsInv
  BY DEF HttpInv
<1>1. ASSUME UNCHANGED <<input, rows, ok>>, NEW n, RowsUpTo(n) PROVE RowsUpTo(n)'
  BY <1>1 DEF RowsUpTo, Intact
<1>2. CASE ParseLine
  <2> DEFINE n == inPos + 1
  <2>1. n \in 1..Len(input) /\ n \in Nat \ {0} /\ inPos' = n /\ inPos \in Nat
        /\ UNCHANGED <<pc, input, fresh, outPos, reports>>
    BY <1>0, <1>2, Typed, ParseLineCases
  <2>2. pc = "parse" /\ fresh /\ RowsUpTo(inPos)
    BY <1>0, <1>2 DEF ParseLine, RowsInv
  <2>3. \A m \in 1..n : m \in 1..inPos \/ m = n
    BY <2>1
  <2>4. CASE Intact(n) /\ rows' = Append(rows, RowOf(input[n].frame, n)) /\ ok' = ok + 1
    <3> DEFINE new == RowOf(input[n].frame, n)
    <3>0. new \in Row /\ new.from = n
      BY <1>0, <2>1, Typed, RowOfType DEF RowOf
    <3>1. /\ Len(rows) \in Nat /\ Len(rows') = Len(rows) + 1
          /\ \A i \in 1..Len(rows) : rows'[i] = rows[i]
          /\ rows'[Len(rows) + 1] = new
      BY <1>0, <2>4, <3>0, Typed, AppendProperties DEF TypeOK
    <3>2. \A i \in 1..Len(rows') : i \in 1..Len(rows) \/ i = Len(rows) + 1
      BY <3>1
    <3>3. {rows'[i].from : i \in 1..Len(rows')} = {rows[i].from : i \in 1..Len(rows)} \cup {n}
      BY <3>0, <3>1, <3>2
    <3>4. {m \in 1..n : Intact(m)} = {m \in 1..inPos : Intact(m)} \cup {n}
      BY <2>1, <2>3, <2>4
    <3>5. {rows'[i].from : i \in 1..Len(rows')} = {m \in 1..n : Intact(m)'}
      BY <2>1, <2>2, <3>3, <3>4 DEF RowsUpTo, Intact
    <3>6. ok' = Len(rows')
      BY <2>2, <2>4, <3>1 DEF RowsUpTo
    <3>7. \A i, j \in 1..Len(rows') : i < j => rows'[i].from < rows'[j].from
      <4> SUFFICES ASSUME NEW i \in 1..Len(rows'), NEW j \in 1..Len(rows'), i < j
                   PROVE rows'[i].from < rows'[j].from
        OBVIOUS
      <4>1. CASE j \in 1..Len(rows)
        BY <2>2, <3>1, <3>2, <4>1 DEF RowsUpTo
      <4>2. CASE j = Len(rows) + 1
        <5>1. i \in 1..Len(rows)
          BY <3>1, <3>2, <4>2
        <5>2. rows[i].from \in 1..inPos
          BY <2>2, <5>1 DEF RowsUpTo
        <5>3. rows'[i].from = rows[i].from /\ rows'[j].from = n
          BY <3>0, <3>1, <4>2, <5>1
        <5> QED
          BY <2>1, <5>2, <5>3
      <4> QED
        BY <3>2, <4>1, <4>2
    <3>8. \A i \in 1..Len(rows') : rows'[i] = RowOf(input[rows'[i].from].frame, rows'[i].from)
      BY <2>2, <3>0, <3>1, <3>2 DEF RowsUpTo
    <3> QED
      BY <2>1, <2>2, <3>5, <3>6, <3>7, <3>8 DEF RowsInv, RowsUpTo
  <2>5. CASE ~Intact(n) /\ rows' = rows /\ ok' = ok
    <3>1. {m \in 1..n : Intact(m)} = {m \in 1..inPos : Intact(m)}
      BY <2>1, <2>3, <2>5
    <3>2. RowsUpTo(n)
      BY <2>2, <3>1 DEF RowsUpTo
    <3> QED
      BY <1>1, <2>1, <2>2, <2>5, <3>2 DEF RowsInv
  <2> QED
    BY <1>0, <1>2, <2>4, <2>5, ParseLineCases
<1>3. CASE Analyze
  <2>1. pc' = "row" /\ (fresh' => UNCHANGED <<input, rows, ok>> /\ RowsUpTo(Len(input)))
    BY <1>0, <1>3 DEF Analyze, RowsInv
  <2> QED
    BY <1>1, <2>1 DEF RowsInv
<1>4. CASE NextRow \/ TakeLine \/ EndOfInput \/ Done
  <2>1. pc # "parse" /\ pc' # "parse" /\ UNCHANGED <<input, rows, ok, fresh>>
    BY <1>4 DEF NextRow, TakeLine, EndOfInput, Done
  <2> QED
    BY <1>0, <1>1, <2>1 DEF RowsInv
<1>5. CASE UNCHANGED vars
  BY <1>0, <1>1, <1>5 DEF vars, RowsInv
<1> QED
  BY <1>2, <1>3, <1>4, <1>5 DEF Next

\* A row is of an intact line, which decodes.
LEMMA RowLine ==
  ASSUME TypeOK, RowsInv, fresh, pc # "parse", NEW i \in 1..Len(rows)
  PROVE  /\ rows[i].from \in 1..Len(input)
         /\ Intact(rows[i].from) /\ Decodes(input[rows[i].from])
         /\ rows[i] = RowOf(input[rows[i].from].frame, rows[i].from)
BY DEF RowsInv, RowsUpTo, Intact, Decodes

\* The line a row looks at is at most its own; its own ends the search.
LEMMA PlaceStep == HttpInv /\ [Next]_vars => PlaceInv'
<1> SUFFICES ASSUME HttpInv, [Next]_vars PROVE PlaceInv'
  OBVIOUS
<1>0. TypeOK /\ RowsInv /\ PlaceInv
  BY DEF HttpInv
<1>1. CASE ParseLine
  BY <1>0, <1>1 DEF ParseLine, PlaceInv
<1>2. CASE Analyze
  BY <1>0, <1>2 DEF Analyze, PlaceInv
<1>3. CASE NextRow
  <2> DEFINE o == outPos + 1
  <2>1. /\ pc = "row" /\ outPos' = o /\ o \in 1..Len(rows) /\ o # 0 /\ pc' \in {"row", "line"}
        /\ UNCHANGED <<input, fresh, inPos, rows, reports>>
    BY <1>0, <1>3, Typed DEF NextRow
  <2>2. ASSUME fresh PROVE inPos < rows[o].from
    <3>1. rows[o].from \in Nat \ {0}
      BY <1>0, <2>1, Typed
    <3>2. CASE outPos = 0
      BY <1>0, <2>1, <2>2, <3>1, <3>2 DEF PlaceInv
    <3>3. CASE outPos # 0
      <4>1. outPos \in 1..Len(rows) /\ outPos < o
        BY <1>0, <2>1, <3>3, Typed
      <4>2. rows[outPos].from < rows[o].from
        BY <1>0, <2>1, <2>2, <4>1 DEF RowsInv, RowsUpTo
      <4>3. inPos <= rows[outPos].from
        BY <1>0, <2>1, <2>2, <3>3 DEF PlaceInv, current
      <4>4. inPos \in Nat /\ rows[outPos].from \in Nat
        BY <1>0, <4>1, Typed
      <4> QED
        BY <3>1, <4>2, <4>3, <4>4
    <3> QED
      BY <3>2, <3>3
  <2>3. fresh => inPos <= rows[o].from /\ inPos < rows[o].from
    BY <1>0, <2>1, <2>2, Typed
  <2>4. current' = rows[o]
    BY <2>1 DEF current
  <2> QED
    BY <2>1, <2>3, <2>4 DEF PlaceInv
<1>4. CASE TakeLine
  <2> DEFINE n == inPos + 1
  <2>1. /\ pc = "line" /\ inPos' = n /\ n \in 1..Len(input) /\ pc' \in {"row", "line"}
        /\ UNCHANGED <<input, fresh, rows, outPos>>
    <3>1. pc' = pc \/ pc' = "row"
      BY <1>4 DEF TakeLine
    <3> QED
      BY <1>0, <1>4, <3>1, Typed DEF TakeLine
  <2>2. outPos \in 1..Len(rows) /\ outPos # 0
    BY <1>0, <2>1, Typed DEF PlaceInv
  <2>3. pc' = "line" => ~Decodes(input[n])
    BY <1>4, <2>1 DEF TakeLine
  <2>4. current' = current /\ current = rows[outPos]
    BY <2>1 DEF current
  <2>5. ASSUME fresh PROVE n <= current.from /\ (pc' = "line" => n < current.from)
    <3>1. inPos < current.from
      BY <1>0, <2>1, <2>5 DEF PlaceInv
    <3>2. current.from \in Nat /\ inPos \in Nat
      BY <1>0, <2>2, <2>4, Typed
    <3>3. Decodes(input[current.from])
      BY <1>0, <2>1, <2>2, <2>4, <2>5, RowLine
    <3>4. pc' = "line" => n # current.from
      BY <2>3, <3>3
    <3> QED
      BY <3>1, <3>2, <3>4
  <2> QED
    BY <2>1, <2>2, <2>4, <2>5 DEF PlaceInv
<1>5. CASE EndOfInput
  <2>1. pc = "line" /\ inPos = Len(input) /\ pc' = "row" /\ UNCHANGED <<input, fresh, inPos, rows, outPos>>
    BY <1>5 DEF EndOfInput
  <2>2. outPos \in 1..Len(rows) /\ outPos # 0
    BY <1>0, <2>1, Typed DEF PlaceInv
  <2>3. ~fresh
    <3> SUFFICES ASSUME fresh PROVE FALSE
      OBVIOUS
    <3>1. rows[outPos].from \in 1..Len(input)
      BY <1>0, <2>1, <2>2, RowLine
    <3>2. inPos < rows[outPos].from
      BY <1>0, <2>1 DEF PlaceInv, current
    <3> QED
      BY <1>0, <2>1, <3>1, <3>2, Typed
  <2> QED
    BY <2>1, <2>2, <2>3 DEF PlaceInv
<1>6. CASE Done
  BY <1>0, <1>6 DEF Done, PlaceInv
<1>7. CASE UNCHANGED vars
  BY <1>0, <1>7 DEF vars, PlaceInv, current
<1> QED
  BY <1>1, <1>2, <1>3, <1>4, <1>5, <1>6, <1>7 DEF Next

\* No intact line lies between the lines of two rows that follow each other,
\* and none before that of the first.
LEMMA NoneBetween ==
  ASSUME TypeOK, RowsInv, fresh, pc # "parse",
         NEW o \in 1..Len(rows), NEW n \in 1..Len(input), Intact(n),
         n < rows[o].from, o # 1 => rows[o - 1].from < n
  PROVE  FALSE
<1>1. PICK k \in 1..Len(rows) : rows[k].from = n
  BY DEF RowsInv, RowsUpTo
<1>2. \A i, j \in 1..Len(rows) : i < j => rows[i].from < rows[j].from
  BY DEF RowsInv, RowsUpTo
<1>3. \A i \in 1..Len(rows) : rows[i].from \in Nat
  BY Typed
<1>4. n \in Nat /\ k \in Nat /\ o \in Nat /\ Len(rows) \in Nat
  BY Typed
<1>5. k < o
  <2>1. CASE k = o
    BY <1>1, <1>4, <2>1
  <2>2. CASE o < k
    BY <1>1, <1>2, <1>3, <1>4, <2>2
  <2> QED
    BY <1>4, <2>1, <2>2
<1>6. o # 1 /\ o - 1 \in 1..Len(rows) /\ rows[o - 1].from < n
  BY <1>1, <1>4, <1>5
<1>7. CASE k = o - 1
  BY <1>1, <1>4, <1>6, <1>7
<1>8. CASE k < o - 1
  <2>1. rows[k].from < rows[o - 1].from
    BY <1>1, <1>2, <1>6, <1>8
  <2> QED
    BY <1>1, <1>3, <1>4, <1>6, <2>1
<1> QED
  BY <1>1, <1>4, <1>5, <1>6, <1>7, <1>8

LEMMA AllTcpBelow ==
  ASSUME NEW a \in Nat, NEW b \in Nat, a <= b, AllTcp(b)
  PROVE  AllTcp(a)
BY DEF AllTcp

\* Where all lines so far are TCP, the search ends at the row's own line.
LEMMA SyncStep == HttpInv /\ [Next]_vars => SyncInv'
<1> SUFFICES ASSUME HttpInv, [Next]_vars, fresh' PROVE SyncInv'
  BY DEF SyncInv
<1>0. TypeOK /\ RowsInv /\ PlaceInv /\ SyncInv
  BY DEF HttpInv
<1>1. CASE ParseLine
  BY <1>0, <1>1 DEF ParseLine, PlaceInv, SyncInv
<1>2. CASE Analyze
  BY <1>0, <1>2 DEF Analyze, PlaceInv, SyncInv
<1>3. CASE NextRow
  <2> DEFINE o == outPos + 1
  <2>1. /\ pc = "row" /\ fresh /\ outPos' = o /\ o \in 1..Len(rows) /\ o # 0
        /\ pc' = (IF rows[o].proto = "TCP" THEN "line" ELSE "row")
        /\ UNCHANGED <<input, fresh, inPos, rows, reports>>
    <3>1. fresh' = fresh /\ outPos' = o /\ outPos < Len(rows)
      BY <1>3 DEF NextRow
    <3>2. fresh
      BY <3>1
    <3>3. o \in 1..Len(rows) /\ o # 0
      BY <1>0, <3>1, Typed
    <3>4. pc' = (IF rows[o].proto = "TCP" THEN "line" ELSE "row")
      BY <1>3, <3>1 DEF NextRow
    <3> QED
      BY <1>3, <3>2, <3>3, <3>4 DEF NextRow
  <2>2. current' = rows[o]
    BY <2>1 DEF current
  <2>3. /\ rows[o].from \in 1..Len(input) /\ rows[o].from \in Nat \ {0} /\ Intact(rows[o].from)
        /\ rows[o] = RowOf(input[rows[o].from].frame, rows[o].from)
        /\ Decodes(input[rows[o].from])
    BY <1>0, <2>1, RowLine, Typed
  <2>4. ASSUME AllTcp(rows[o].from) PROVE rows[o].proto = "TCP"
    <3>1. input[rows[o].from].frame # "other"
      BY <2>3, <2>4 DEF AllTcp
    <3> QED
      BY <2>3, <3>1 DEF RowOf, Proto
  <2>5. ASSUME AllTcp(rows[o].from), NEW n \in (inPos + 1)..(rows[o].from - 1), Decodes(input[n])
        PROVE FALSE
    <3>1. inPos \in Nat /\ n \in 1..Len(input) /\ n < rows[o].from /\ inPos < n /\ n \in 1..rows[o].from
      BY <1>0, <2>3, Typed
    <3>2. Intact(n)
      BY <2>5, <3>1 DEF AllTcp, Intact
    <3>3. o # 1 => rows[o - 1].from < n
      <4> SUFFICES ASSUME o # 1 PROVE rows[outPos].from < n
        BY <1>0, Typed
      <4>1. outPos \in 1..Len(rows) /\ outPos # 0 /\ outPos < o
        BY <1>0, <2>1, Typed
      <4>2. rows[outPos].from < rows[o].from /\ rows[outPos].from \in Nat
        BY <1>0, <2>1, <4>1, Typed DEF RowsInv, RowsUpTo
      <4>3. AllTcp(rows[outPos].from)
        BY <2>3, <2>5, <4>2, AllTcpBelow
      <4>4. inPos = rows[outPos].from
        BY <1>0, <2>1, <4>1, <4>3 DEF SyncInv, current
      <4> QED
        BY <3>1, <4>4
    <3> QED
      BY <1>0, <2>1, <3>1, <3>2, <3>3, NoneBetween
  <2>6. AllTcp(current.from)' <=> AllTcp(rows[o].from)
    BY <2>1, <2>2 DEF AllTcp
  <2>7. \A r \in reports : AllTcp(rows[r.row].from)' <=> AllTcp(rows[r.row].from)
    BY <2>1 DEF AllTcp
  <2>8. pc' = "line" /\ AllTcp(current.from)' =>
          \A n \in (inPos' + 1)..(current.from' - 1) : ~Decodes(input'[n])
    BY <2>1, <2>2, <2>5, <2>6
  <2>9. ~(pc' = "row" /\ AllTcp(current.from)')
    BY <2>1, <2>2, <2>4, <2>6
  <2>10. \A r \in reports' : AllTcp(rows[r.row].from)' => r.from = rows'[r.row].from
    BY <1>0, <2>1, <2>7 DEF SyncInv
  <2> QED
    BY <2>8, <2>9, <2>10 DEF SyncInv
<1>4. CASE TakeLine
  <2> DEFINE n == inPos + 1
  <2>1. /\ pc = "line" /\ fresh /\ inPos' = n /\ n \in 1..Len(input) /\ inPos \in Nat
        /\ UNCHANGED <<input, fresh, rows, outPos>>
    <3>1. fresh' = fresh /\ inPos' = n /\ inPos < Len(input)
      BY <1>4 DEF TakeLine
    <3>2. fresh
      BY <3>1
    <3>3. n \in 1..Len(input) /\ inPos \in Nat
      BY <1>0, <3>1, Typed
    <3> QED
      BY <1>4, <3>2, <3>3 DEF TakeLine
  <2>2. outPos \in 1..Len(rows) /\ outPos # 0 /\ current' = current /\ current = rows[outPos]
    BY <1>0, <2>1, Typed DEF PlaceInv, current
  <2>3. \A m : AllTcp(m)' <=> AllTcp(m)
    BY <2>1 DEF AllTcp
  <2>4. current.from \in Nat /\ inPos < current.from
    BY <1>0, <2>1, <2>2, Typed DEF PlaceInv
  <2>5. CASE ~Decodes(input[n])
    <3>1. pc' = "line" /\ reports' = reports
      BY <1>4, <2>1, <2>5 DEF TakeLine
    <3>2. AllTcp(current.from) => \A m \in (n + 1)..(current.from - 1) : ~Decodes(input[m])
      <4>1. \A m \in (n + 1)..(current.from - 1) : m \in (inPos + 1)..(current.from - 1)
        BY <2>1, <2>4
      <4> QED
        BY <1>0, <2>1, <4>1 DEF SyncInv
    <3> QED
      BY <1>0, <2>1, <2>2, <2>3, <3>1, <3>2 DEF SyncInv
  <2>6. CASE Decodes(input[n])
    <3>1. /\ pc' = "row"
          /\ \/ UNCHANGED reports
             \/ reports' = reports \cup {[row |-> outPos, from |-> current.from]}
             \/ reports' = reports \cup {[row |-> outPos, from |-> n]}
      BY <1>4, <2>1, <2>6 DEF TakeLine, Fallback, Report
    <3>2. AllTcp(current.from) => n = current.from
      <4> SUFFICES ASSUME AllTcp(current.from), n # current.from PROVE FALSE
        OBVIOUS
      <4>1. n \in (inPos + 1)..(current.from - 1)
        BY <2>1, <2>4
      <4> QED
        BY <1>0, <2>1, <2>6, <4>1 DEF SyncInv
    <3>3. ASSUME NEW r \in reports', AllTcp(rows[r.row].from) PROVE r.from = rows[r.row].from
      <4>1. CASE r \in reports
        BY <1>0, <2>1, <3>3, <4>1 DEF SyncInv
      <4>2. CASE r \in {[row |-> outPos, from |-> current.from], [row |-> outPos, from |-> n]}
        <5>1. r.row = outPos /\ r.from \in {current.from, n}
          BY <4>2
        <5>2. AllTcp(current.from) /\ rows[r.row].from = current.from
          BY <2>2, <3>3, <5>1
        <5> QED
          BY <3>2, <5>1, <5>2
      <4> QED
        BY <3>1, <4>1, <4>2
    <3> QED
      BY <2>1, <2>2, <2>3, <3>1, <3>2, <3>3 DEF SyncInv
  <2> QED
    BY <2>5, <2>6
<1>5. CASE EndOfInput
  <2>1. pc = "line" /\ fresh /\ inPos = Len(input)
    BY <1>5 DEF EndOfInput
  <2>2. outPos \in 1..Len(rows)
    BY <1>0, <2>1, Typed DEF PlaceInv
  <2>3. rows[outPos].from \in 1..Len(input)
    BY <1>0, <2>1, <2>2, RowLine
  <2>4. inPos < rows[outPos].from
    BY <1>0, <2>1 DEF PlaceInv, current
  <2>5. FALSE
    BY <1>0, <2>1, <2>3, <2>4, Typed
  <2> QED
    BY <2>5
<1>6. CASE Done
  <2>1. pc' = "done" /\ fresh /\ UNCHANGED <<input, rows, reports>>
    BY <1>6 DEF Done
  <2>2. \A m : AllTcp(m)' <=> AllTcp(m)
    BY <2>1 DEF AllTcp
  <2> QED
    BY <1>0, <2>1, <2>2 DEF SyncInv
<1>7. CASE UNCHANGED vars
  <2>1. \A m : AllTcp(m)' <=> AllTcp(m)
    BY <1>7 DEF AllTcp, vars
  <2> QED
    BY <1>0, <1>7, <2>1 DEF SyncInv, vars, current
<1> QED
  BY <1>1, <1>2, <1>3, <1>4, <1>5, <1>6, <1>7 DEF Next

LEMMA HttpInvariant == Spec => []HttpInv
<1>1. HttpInv /\ [Next]_vars => HttpInv'
  BY TypeStep, RowsStep, PlaceStep, SyncStep DEF HttpInv
<1> QED
  BY HttpInit, <1>1, PTL DEF Spec

\* The state of both functions is type correct; no line is counted twice.
THEOREM HttpTypeCorrect == Spec => []TypeOK
<1>1. HttpInv => TypeOK
  BY DEF HttpInv
<1> QED
  BY HttpInvariant, <1>1, PTL

\* output.txt has one row for each intact line, in order, for every input.txt.
THEOREM RowsMatchLines == Spec => []RowsAreIntactLines
<1>1. HttpInv => RowsAreIntactLines
  BY DEF HttpInv, RowsInv, RowsUpTo, Intact, RowsAreIntactLines
<1> QED
  BY HttpInvariant, <1>1, PTL

\* A row's own line is still ahead while its payload is looked for.
THEOREM PayloadIsAhead == Spec => []PayloadNotPassed
<1>1. HttpInv => PayloadNotPassed
  BY DEF HttpInv, PlaceInv, PayloadNotPassed
<1> QED
  BY HttpInvariant, <1>1, PTL

\* A record shows its own packet if all lines up to it that decode are TCP.
THEOREM StaysInStep == Spec => []InStepWhileAllTcp
<1>1. HttpInv => InStepWhileAllTcp
  BY DEF HttpInv, SyncInv, AllTcp, InStepWhileAllTcp
<1> QED
  BY HttpInvariant, <1>1, PTL

-----------------------------------------------------------------------------
\* While all lines are TCP, the line that ends a row's search is its own.
LEMMA EndsAtOwn ==
  ASSUME HttpInv, fresh, pc = "line", AllTcp(current.from),
         inPos + 1 \in 1..Len(input), Decodes(input[inPos + 1])
  PROVE  inPos + 1 = current.from
<1> SUFFICES ASSUME inPos + 1 # current.from PROVE FALSE
  OBVIOUS
<1>1. TypeOK /\ RowsInv /\ PlaceInv /\ SyncInv
  BY DEF HttpInv
<1>2. inPos \in Nat /\ outPos \in 1..Len(rows)
  BY <1>1, Typed DEF PlaceInv
<1>3. current.from \in Nat /\ inPos < current.from
  BY <1>1, <1>2, Typed DEF PlaceInv, current
<1>4. inPos + 1 \in (inPos + 1)..(current.from - 1)
  BY <1>2, <1>3
<1> QED
  BY <1>1, <1>4 DEF SyncInv

\* The record of a row that should have one, if it is made.
Recorded(i) ==
  AllTcp(rows[i].from)
    /\ (PayloadKnown(input[rows[i].from].frame) \/ PreviewKnown(input[rows[i].from].frame))
    => [row |-> i, from |-> rows[i].from] \in reports

NoneMissed == fresh => \A i \in 1..Searched : Recorded(i)

\* A row is read; one that is no TCP needs no record.
LEMMA NextRowMisses ==
  ASSUME HttpInv, NoneMissed, NextRow, fresh
  PROVE  \A i \in 1..Searched' : Recorded(i)
<1> DEFINE o == outPos + 1
<1>1. TypeOK /\ RowsInv
  BY DEF HttpInv
<1>2. /\ pc = "row" /\ outPos' = o /\ outPos < Len(rows)
      /\ pc' = IF rows[o].proto = "TCP" THEN "line" ELSE "row"
  <2>1. outPos' = o
    BY DEF NextRow
  <2> QED
    BY <2>1 DEF NextRow
<1>3. outPos \in Nat /\ o \in 1..Len(rows)
  BY <1>1, <1>2, Typed
<1>4. \A i \in 1..outPos : Recorded(i)
  BY <1>2 DEF NoneMissed, Searched
<1>5. CASE rows[o].proto = "TCP"
  <2>1. Searched' = outPos
    BY <1>2, <1>3, <1>5 DEF Searched
  <2> QED
    BY <1>4, <2>1
<1>6. CASE rows[o].proto # "TCP"
  <2>1. Searched' = o
    BY <1>2, <1>6 DEF Searched
  <2>2. rows[o] = RowOf(input[rows[o].from].frame, rows[o].from)
    BY <1>1, <1>2, <1>3, RowLine
  <2>3. input[rows[o].from].frame = "other"
    BY <1>6, <2>2 DEF RowOf, Proto
  <2>4. Recorded(o)
    BY <2>3 DEF Recorded, PayloadKnown, PreviewKnown
  <2>5. \A i \in 1..o : i \in 1..outPos \/ i = o
    BY <1>3
  <2> QED
    BY <1>4, <2>1, <2>4, <2>5
<1> QED
  BY <1>5, <1>6

\* A search that ends at the row's own line makes the record.
LEMMA TakeLineMisses ==
  ASSUME HttpInv, NoneMissed, TakeLine, fresh
  PROVE  \A i \in 1..Searched' : Recorded(i)'
<1> DEFINE n == inPos + 1
           own == current.from
<1>1. TypeOK /\ RowsInv
  BY DEF HttpInv
<1>2. /\ pc = "line" /\ inPos' = n /\ inPos < Len(input)
      /\ UNCHANGED <<input, fresh, rows, outPos>>
  BY DEF TakeLine
<1>3. outPos \in 1..Len(rows) /\ outPos \in Nat /\ n \in 1..Len(input) /\ current = rows[outPos]
  BY <1>1, <1>2, Typed DEF HttpInv, PlaceInv, current
<1>4. \A i \in 1..(outPos - 1) : Recorded(i)
  BY <1>2 DEF NoneMissed, Searched
<1>5. reports \subseteq reports'
  <2>1. UNCHANGED reports \/ Fallback \/ Report(inPos')
    BY DEF TakeLine
  <2> QED
    BY <2>1 DEF Fallback, Report
<1>6. ASSUME NEW i, Recorded(i) PROVE Recorded(i)'
  BY <1>2, <1>5, <1>6 DEF Recorded, AllTcp, PayloadKnown, PreviewKnown
<1>7. CASE ~Decodes(input[n])
  <2>1. pc' = "line"
    BY <1>2, <1>7 DEF TakeLine
  <2>2. Searched' = outPos - 1
    BY <1>2, <2>1 DEF Searched
  <2> QED
    BY <1>4, <1>6, <2>2
<1>8. CASE Decodes(input[n])
  <2>1. /\ pc' = "row"
        /\ IF ~ExtractTcpPayload(input[n].frame) THEN Fallback
           ELSE IF PayloadKnown(input[n].frame) THEN Report(n) ELSE UNCHANGED reports
    BY <1>2, <1>8 DEF TakeLine
  <2>2. Searched' = outPos
    BY <1>2, <2>1 DEF Searched
  <2>3. ASSUME AllTcp(own), PayloadKnown(input[own].frame) \/ PreviewKnown(input[own].frame)
        PROVE  [row |-> outPos, from |-> own] \in reports'
    <3>1. n = own
      BY <1>2, <1>3, <1>8, <2>3, EndsAtOwn
    <3>2. CASE PayloadKnown(input[own].frame)
      <4>1. Report(n)
        BY <2>1, <3>1, <3>2 DEF ExtractTcpPayload, PayloadKnown
      <4> QED
        BY <3>1, <4>1 DEF Report
    <3>3. CASE input[own].frame = "raw"
      <4>1. Fallback
        BY <2>1, <3>1, <3>3 DEF ExtractTcpPayload
      <4>2. rows[outPos] = RowOf(input[rows[outPos].from].frame, rows[outPos].from)
        BY <1>1, <1>2, <1>3, RowLine
      <4>3. rows[outPos].preview = PreviewKnown("raw")
        BY <1>3, <3>3, <4>2 DEF RowOf
      <4>4. current.preview
        BY <1>3, <4>3 DEF PreviewKnown
      <4> QED
        BY <4>1, <4>4 DEF Fallback, Report
    <3> QED
      BY <2>3, <3>2, <3>3 DEF PayloadKnown, PreviewKnown
  <2>4. \A i \in 1..outPos : i \in 1..(outPos - 1) \/ i = outPos
    BY <1>3
  <2>5. ASSUME NEW i \in 1..outPos PROVE Recorded(i)'
    <3>1. CASE i \in 1..(outPos - 1)
      BY <1>4, <1>6, <3>1
    <3>2. CASE i = outPos
      BY <1>2, <1>3, <2>3, <3>2 DEF Recorded, AllTcp, PayloadKnown, PreviewKnown
    <3> QED
      BY <2>4, <3>1, <3>2
  <2> QED
    BY <2>2, <2>5
<1> QED
  BY <1>7, <1>8

LEMMA MissStep ==
  ASSUME HttpInv, NoneMissed, [Next]_vars
  PROVE  NoneMissed'
<1> SUFFICES ASSUME fresh' PROVE \A i \in 1..Searched' : Recorded(i)'
  BY DEF NoneMissed
<1>1. TypeOK /\ RowsInv /\ PlaceInv
  BY DEF HttpInv
<1>2. CASE ParseLine \/ Analyze
  <2>1. outPos' = 0 /\ pc' # "line"
    BY <1>1, <1>2 DEF ParseLine, Analyze, PlaceInv
  <2> QED
    BY <2>1 DEF Searched
<1>3. CASE NextRow
  <2>1. UNCHANGED <<fresh, input, rows, reports>>
    BY <1>3 DEF NextRow
  <2>2. \A i \in 1..Searched' : Recorded(i)
    BY <1>3, <2>1, NextRowMisses
  <2> QED
    BY <2>1, <2>2 DEF Recorded, AllTcp, PayloadKnown, PreviewKnown
<1>4. CASE TakeLine
  BY <1>4, TakeLineMisses DEF TakeLine
<1>5. CASE EndOfInput
  <2>1. pc = "line" /\ fresh /\ inPos = Len(input)
    BY <1>5 DEF EndOfInput
  <2>2. outPos \in 1..Len(rows)
    BY <1>1, <2>1, Typed DEF PlaceInv
  <2>3. rows[outPos].from \in 1..Len(input)
    BY <1>1, <2>1, <2>2, RowLine
  <2>4. inPos < rows[outPos].from
    BY <1>1, <2>1 DEF PlaceInv, current
  <2>5. FALSE
    BY <1>1, <2>1, <2>3, <2>4, Typed
  <2> QED
    BY <2>5
<1>6. CASE Done
  <2>1. UNCHANGED <<fresh, input, rows, outPos, reports>> /\ pc # "line" /\ pc' # "line"
    BY <1>6 DEF Done
  <2> QED
    BY <2>1 DEF NoneMissed, Searched, Recorded, AllTcp, PayloadKnown, PreviewKnown
<1>7. CASE UNCHANGED vars
  BY <1>7 DEF vars, NoneMissed, Searched, Recorded, AllTcp, PayloadKnown, PreviewKnown
<1> QED
  BY <1>2, <1>3, <1>4, <1>5, <1>6, <1>7 DEF Next

(* As long as every line that decodes is an intact TCP packet, the analysis *)
(* has a record of each packet whose payload it recognises, from the line   *)
(* or from the 64 bytes in the row, for files of any length.                *)
THEOREM NoRowMissed == Spec => []NoneMissedWhileAllTcp
<1>1. Init => NoneMissed
  BY DEF Init, NoneMissed, Searched
<1>2. HttpInv /\ NoneMissed /\ [Next]_vars => NoneMissed'
  BY MissStep
<1>3. NoneMissed => NoneMissedWhileAllTcp
  BY DEF NoneMissed, Recorded, AllTcp, NoneMissedWhileAllTcp
<1> QED
  BY <1>1, <1>2, <1>3, HttpInvariant, PTL DEF Spec

-----------------------------------------------------------------------------
\* A row read leaves less to read, whether it leads to a search or not.
LEMMA LessRows ==
  ASSUME NEW r \in Nat, NEW o \in Nat, NEW i \in Nat, NEW b \in {0, 1}
  PROVE  o < r => 2 * (r - (o + 1)) + i + b < 2 * (r - o) + i + 0
OBVIOUS

\* So does a line, and so does the end of a search.
LEMMA LessLines ==
  ASSUME NEW r \in Nat, NEW o \in Nat, NEW l \in Nat, NEW i \in Nat, NEW b \in {0, 1},
         o <= r, i < l
  PROVE  2 * (r - o) + (l - (i + 1)) + b < 2 * (r - o) + (l - i) + 1
OBVIOUS

LEMMA ShrinkStep ==
  ASSUME TypeOK, Next, pc # "parse", pc' # "done"
  PROVE  ToRead' < ToRead
<1>1. /\ Len(input) \in Nat /\ Len(rows) \in Nat /\ inPos \in Nat /\ outPos \in Nat
      /\ inPos <= Len(input) /\ outPos <= Len(rows)
  BY Typed
<1>2. NextRow \/ TakeLine \/ EndOfInput BY DEF Next, ParseLine, Analyze, Done
<1>3. CASE NextRow
  <2>1. /\ pc = "row" /\ outPos < Len(rows) /\ outPos' = outPos + 1
        /\ UNCHANGED <<input, inPos, rows>>
    BY <1>3 DEF NextRow
  <2> DEFINE b == IF pc' = "line" THEN 1 ELSE 0
             i == Len(input) - inPos
  <2>2. ToRead = 2 * (Len(rows) - outPos) + i + 0 BY <2>1 DEF ToRead
  <2>3. ToRead' = 2 * (Len(rows) - (outPos + 1)) + i + b BY <2>1 DEF ToRead
  <2>4. i \in Nat /\ b \in {0, 1} BY <1>1
  <2> HIDE DEF b, i
  <2> QED BY <1>1, <2>1, <2>2, <2>3, <2>4, LessRows
<1>4. CASE TakeLine
  <2>1. /\ pc = "line" /\ inPos < Len(input) /\ inPos' = inPos + 1
        /\ UNCHANGED <<input, outPos, rows>>
    BY <1>4 DEF TakeLine
  <2> DEFINE b == IF pc' = "line" THEN 1 ELSE 0
  <2>2. ToRead = 2 * (Len(rows) - outPos) + (Len(input) - inPos) + 1 BY <2>1 DEF ToRead
  <2>3. ToRead' = 2 * (Len(rows) - outPos) + (Len(input) - (inPos + 1)) + b
    BY <2>1 DEF ToRead
  <2>4. b \in {0, 1} OBVIOUS
  <2> HIDE DEF b
  <2> QED BY <1>1, <2>1, <2>2, <2>3, <2>4, LessLines
<1>5. CASE EndOfInput
  <2>1. pc = "line" /\ pc' = "row" /\ UNCHANGED <<input, inPos, outPos, rows>>
    BY <1>5 DEF EndOfInput
  <2> DEFINE n == 2 * (Len(rows) - outPos) + (Len(input) - inPos)
  <2>2. ToRead = n + 1 /\ ToRead' = n + 0 BY <2>1 DEF ToRead
  <2>3. n \in Nat BY <1>1
  <2> HIDE DEF n
  <2> QED BY <2>2, <2>3
<1> QED BY <1>2, <1>3, <1>4, <1>5

LEMMA ParseShrinks ==
  ASSUME TypeOK, Next, pc = "parse", pc' # "row"
  PROVE  Len(input') - inPos' < Len(input) - inPos
<1>1. Len(input) \in Nat /\ inPos \in Nat BY Typed
<1>2. ParseLine BY DEF Next, Analyze, NextRow, TakeLine, EndOfInput, Done
<1>3. inPos' = inPos + 1 /\ input' = input BY <1>2 DEF ParseLine
<1> QED BY <1>1, <1>3

(* Parse and analysis read every row and every line at most once each,      *)
(* whatever the two files hold and whether or not they belong together.     *)
THEOREM AnalysisIsBounded == Spec => AnalysisShrinks
<1>1. TypeOK /\ [Next]_vars =>
        [IF pc = "parse" THEN pc' = "row" \/ Len(input') - inPos' < Len(input) - inPos
         ELSE pc' = "done" \/ ToRead' < ToRead]_vars
  BY ShrinkStep, ParseShrinks
<1> QED BY <1>1, HttpTypeCorrect, PTL DEF Spec, AnalysisShrinks
=============================================================================
