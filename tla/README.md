# NetworkPackageGrab in TLA+

Specifications of the packet capture program in
`NetworkGrabPackage/NetworkGrabPackage`, the TLC runs that check them and the
proofs about them. File names below are relative to that directory; `src/` in
`PROJECT.json` is the repository.

## The system

A Windows console program. Pages are displayed one after the other; one of them
captures packets with Npcap and shows them as they come, writes each packet as
a line of hex to `../Output/input.txt`, and parses that file into
`../Output/output.txt` when the capture ends. Two other pages read the files
offline: HTTP/TLS analysis and traffic statistics.

| Part | State | Operations | Talks to |
|---|---|---|---|
| `Core/PacketCapture` | `handle`, `stopRequested`, `header`/`pktData`, `packetManager`; in the loop `timeoutCount`, `capturedPackets`, `inputOut` | `startCapture`, `displayData`, `requestStop`, `closeCapture` | pcap, the console (`_kbhit`, `_getch`, `cin`), `input.txt` |
| `Core/PacketFilter`, `NetWork/NetworkInterface` | `fcode`; adapter list | `setFilter`; adapters, subnet masks | pcap |
| `Data/PacketFactory`, `Ethernet`, `IP`, `TCP`, `UDP` | one packet | `createPacket`, `Parse` (may throw), `display` | called by the loop |
| `Data/PacketManager` | `packets` | `AddPacket`, `GetPackets` | filled by the loop, read by `displayData` |
| `Common/PacketFilePipeline` | the two files | `AppendCapturedPacketLine`, `ParseInputFileToOutput` | loop; `CapturePage` |
| `Render/HttpPage` | positions in the two files; in the TLS parser `pos` | `analyzeInputOutput`, `ExtractTcpPayload`, `parseTLSClientHello` | both files |
| `Statistics/TrafficStatistics` | `records_`, kept from visit to visit | `analyzeTraffic`, `generateReport` | `output.txt` |
| `Render/*Page`, `Pages`, `Core/Application` | `currentPage`, `pageStack`, `deviceName`, `port` | `display`, `Back` | the console; `CapturePage` runs `startCapture` in a thread and joins it |

What is hard here:

* **Time and the user.** The loop polls the keyboard in two places (after a
  timeout, after a packet was shown) and blocks for it in three (the prompt after
  20 timeouts, the packet index, the detail view).
* **Restarts of the same object.** One static `PacketCapture` serves every
  capture; `handle`, the list and the last packet survive from one to the next.
* **Two threads.** `stopRequested` is atomic, `handleMutex` exists and
  `closeCapture` is public so that another thread can end a capture. The page
  that did so (`CapturePage::show`) is commented out; the members remain.
* **Files and the end of the process.** The menus lead to no exit: the program
  ends when its window is closed, with lines in a buffer. Disks fill up.
* **Two files read side by side**, with different rules for what to skip.
* **Length fields** that may claim anything, and three decoders of the same frame
  that must agree on them.
* **Pages share the console.** Each reads it in its own way (`cin >>`, `getline`,
  `getchar`, `_getch`), leaves what it does not need to the next one, and `cin` may stay failed.

What makes each part correct:

| Part | Correct if |
|---|---|
| capture loop | reads its own open handle only; failed set-ups leave nothing behind; a quit key ends the capture |
| writing `input.txt` | at any moment the file is a gapless log of the capture; nothing delivered is lost while writes succeed |
| parsing, HTTP page | rows are the intact lines, payloads belong to their rows, both readers end |
| the decoders | stay inside the frame and agree with each other |
| TLS parser | stays inside the payload, returns, takes a name from the extension it belongs to |
| pages | Back leads where the user came from, no page gets stuck, `output.txt` is of the present `input.txt` |
| statistics | the report is of the rows with addresses in `output.txt`, each once; after a complete parse, of the packets in `input.txt` |

## Modules

| Module | What it is |
|---|---|
| `CaptureControl` | control flow of `startCapture` and `displayData` |
| `CaptureControlProofs` | its safety and what becomes of a quit key proved for all constants |
| `CaptureShutdown` | `CaptureControl` with a second thread in `requestStop`/`closeCapture` |
| `CaptureShutdownProofs` | what a second thread leaves intact, and how soon it ends the loop, proved for all constants |
| `CaptureSession` | `CaptureControl` with packets, file and list, and with the process ending at any step |
| `CaptureSessionProofs` | its file and list proved for all constants, and that it implements `CaptureLog` |
| `CaptureLog` | the abstract specification of `input.txt` that `CaptureSession` implements |
| `TlsClientHello` | `parseTLSClientHello` |
| `TlsClientHelloProofs` | its memory safety and the length of its walk proved for all payloads and length fields |
| `HttpAnalysis` | `ParseInputFileToOutput` followed by `analyzeInputOutput` |
| `HttpAnalysisProofs` | rows, order, step, completeness and length of the analysis proved for every `input.txt` |
| `FrameDecode`, `MCFrameDecode` | one frame through the factory and `Parse`, `parseAt` and `ExtractTcpPayload`; the headers TLC takes |
| `FrameDecodeProofs` | bounds and agreement proved for all frames |
| `Navigation` | the pages, the console they share and the two files |
| `NavigationProofs` | the page stack and the currency of `output.txt` proved for any input |
| `TrafficStats`, `MCTrafficStats` | `Navigation` with the rows of `output.txt`, `analyzeTraffic` and `generateReport`; the lines and captures TLC takes |
| `TrafficStatsProofs` | the report proved for all captures; `TrafficStats` implements `Navigation` |

`CaptureShutdown` and `CaptureSession` extend `CaptureControl`: each of their
steps is a step of it joined with what happens to the new variables, or a step
of the new actor. `TrafficStats` extends `Navigation` in the same way: the pages
say when a file is written or read, `TrafficStats` what is in it.

### CaptureControl

`pc` is the place in `startCapture`: set-up (`opening`, `filter`, `input`, and
`clear` between `pcap_close` and the assignment of null where it fails), the top
of the loop, `copy` between the test of `handle` and its copy, the read, the poll after a timeout, the prompt, the processing of a
packet, `display`, and the two places inside `displayData` that wait (`index`,
`detail`). `session` numbers the calls and names the pcap handle each one opens;
`opened` is the set of handles not closed yet, which the program has no variable
for. `localHandle` is the loop's copy. Each use of the member (test, copy, close,
assignment) is a step of its own, since `CaptureShutdown` has a second thread at it. `frame` is what the factory and the
parser make of the packet that `header`/`pktData` describe: `parsed` (a packet
that is listed), `unknown` (the factory returns null), `malformed` (`Parse`
throws), or `none` while a fresh handle has delivered nothing. `keys` are key
presses in the console, which `_kbhit`/`_getch` take one by one and
`cin >> idx` takes as a line.

A read error (`pcap_next_ex` returns -1) is handled like a packet by the code,
and so by the model: `frame` stays what it was. At the end of a capture the
handle stays open and in the member, as in the code.

`MaxTimeouts` is the code's `maxTimeouts` (20); runs use 3 or less, which is
enough for a count that is below, at and beyond the limit, and the proofs cover
every value. `MaxSessions` bounds the calls; three cover a failed set-up before
and after a capture that left its handle open. `MaxKeys` bounds the keys waiting.

### CaptureShutdown

One more variable, `closer`, for how far another thread is in `closeCapture`:
the request, the test of `handle`, `pcap_close` and the assignment of null are four
steps that interleave with set-up and loop. Both threads are fairly scheduled; nobody has to call
`closeCapture`.

`HandleIsCurrent` and `ReadsOpenHandle` do not survive the second thread: the
member names a closed handle between `pcap_close` and the assignment of null,
the loop's copy may be older still (`shutdown_handle`), and null may be what is
copied, when the member is emptied between its test (`PacketCapture.cpp:92`) and
its copy (`:94`). What survives is `ClosedOnlyByCloser`: the copy is of the
present session's handle, or of none with the member null; and if the handle is closed
the closer is at work or has emptied the member. The closer closes whatever the
member is by then, also null or a handle that a failed set-up has closed, or that
of a capture begun since. A read without a handle, a close of null and a second
close are undefined for pcap: what else they might do, the end of the process included, is not modelled;
the model goes on as if the call had returned.

### CaptureSession and CaptureLog

A packet is its number in the capture, and so is its line. `lines` are the lines
the stream has accepted, `flushed` how many are complete on disk, `torn` whether
a piece of the next one is there too. The buffer is written out at moments the
program does not choose, so an append may complete any number of earlier lines.
A failing write loses the rest of the buffer and leaves the stream refusing
everything (`good`), which the code reports and ignores. `Crash` is the end of
the process at any step of a capture: memory and handles are gone, the disk
stays. Recording and parsing a packet form one step, since only the loop's own
thread sees what is between them.

`CaptureLog` has two variables and three actions: a capture starts the file
afresh, packets are delivered, and the lines on disk grow without a gap.
`CaptureSession` implements it with `disk <- SubSeq(lines, 1, flushed)`.

`MaxLines` bounds packets and lines of a capture, `MaxListed` the list. Three of
each let a line be complete, a second torn and a third in memory.

### TlsClientHello

One action per field, as the code tests before each. The bytes are chosen when
they are read, which is sound because no byte is read twice; `read` is one past
the highest index that was read in the last step. `extEnd` and `aligned` are history: whether
the extension looked at began where the one before ended. The run takes payloads
of every length from 0 to 72 (the shortest ClientHello that reaches the
extensions has 49 bytes) and lengths that are zero, end exactly and overshoot.

### HttpAnalysis

A line of `input.txt` is what its two readers distinguish: blank; broken (fewer
than three tabs, no whole hex digits), which both skip; corrupt (length or CRC
wrong), which the parser drops and the page decodes; intact. A frame is what
they extract from it: TCP behind Ethernet with a payload that can be recognised from its
first 64 bytes (`http`), only as a whole (`hello`: a ClientHello longer than that), or not at all (`ack`); the
first two again with TCP found only at offset 0 or 4 (`raw`, `rawhello`); TCP with its header cut off (`short`);
anything else. That the two readers find the same payload is assumed here; it is
what `FrameDecode` is about. The parser writes rows; the page then reads a row and, for a TCP row, the next line
that decodes. `fresh` is false when `output.txt` is not all that the parser made of
this `input.txt`: a later capture replaced the input and was ended by force, or
could not open the output; or a full disk (the parser does not test `out` again
after opening it) or the end of the process cut the rows off (`CutOff`); or both. All inputs of up to three lines
are taken, three being what the loss of step needs: one line the page skips no
row for and two TCP lines that are mixed up.

As long as every line that decodes is an intact TCP packet, the analysis is both
right and as complete as it can be: `InStepWhileAllTcp` says that a record is of its own row's
packet, `NoneMissedWhileAllTcp` that each row has one whose payload the page
can recognise. Where `ExtractTcpPayload` sees no TCP because there is no Ethernet header,
that is only what the row keeps of the payload, 64 bytes (`HexPreview`): enough for an
HTTP request (`raw`), not for a longer ClientHello (`rawhello`), which has no record.

### FrameDecode

The state is one frame and what each decoder makes of it, one after the other:
`live` (what is listed while capturing), `row` (what is written to `output.txt`)
and `payload` (where the HTTP page finds it). A frame is its length, whether its
EtherType is IPv4, and what would be an IP header at the three offsets where one
is looked for (14 behind Ethernet, 0 without, 4 behind a loopback header), of
which the decoders use version, header length, protocol and the data offset of a
TCP header behind it. These overlap in a real frame only in byte 13, which
`Frames` accounts for; ports and addresses are left out.

`read` is one past the last byte looked at in a step. `RowAgrees` is stated for
`WellFormed` frames, a whole IPv4 header behind an Ethernet header. For others
the decoders differ by design or by accident: the factory always takes the
header behind raw IP to begin where an Ethernet frame would have it.

The run takes 22 lengths, on both sides of every boundary the decoders test (14,
20, 34, header plus 8 or 20, header plus data offset), and headers too short,
minimal, with options and longest. The proofs take all natural numbers.

### Navigation

`page` is `currentPage`, `at` the place in its `display`. `typed` are the
characters waiting in stdin. `cin` and `getchar` are taken to read through the same buffer,
as Microsoft's library does whatever `sync_with_stdio` is given. `_getch` reads the keyboard
itself, so `Render::Select` and the keys during a capture are steps of the user
that leave `typed` alone. A failed extraction leaves `failed` set until
`cin.clear`. The device page's `n` has no value when `cin` had failed before:
both outcomes are taken. `input` numbers the captures that have truncated
`input.txt` and `output` says of which one `output.txt` was made; both outlive
the process, which `Restart` ends at any step. `finished` is history: the last parse
of this process wrote all its rows. The code has no variable for it and reports a
finished parse on a full disk as well.

The run is that of `TrafficStats`. The user types the lines of `MCLines`: empty, each kind of number, no number, a
number with something behind it. Up to five characters wait (`MaxTyped`, two
lines and a half, as much as one page leaves to the next), and two captures
(`MaxInput`) give an old and a new file.

### TrafficStats

`Captured[n]` are the packets of the sound lines that capture `n` leaves in
`input.txt`, however the capture ended. `content` are the rows of `output.txt`: of each the
protocol column, whether there are addresses, and the first octet of the
destination (`Dotless` where the column has no dot, as in a row cut off there).
A parse truncates the file and writes all rows, or as many as the disk takes,
or as many as were flushed when the process ended (`CutOff`). `records` is
`records_`; each record carries the `row` it was made from, which the program
does not keep. `rowPos` and `analysis` are the place in `analyzeTraffic`;
`opened` is history: the last analysis could open the file.

`records_` survives from visit to visit, because the page object does, and
`output.txt` from process to process. What is shown is therefore stated twice:
`ReportIsOfFile` and `TotalsAreOfFile` for whatever is in the file, and
`ReportIsCurrent` for a file the process itself has completed.

The packets of `MCCaptured` have octets at the ends of the classes (0, 127, 191,
224, 240) and protocols with a name, with a number only, with their header cut
off and none. Two captures of three and two packets let a new report be shorter
than the one before, and a cut fall in front of, inside and behind each row. The
proofs take all packets.

## Runs

Deadlock is not checked where a capture may be the last one of a behaviour
(`MaxSessions`) and for the parsers and decoders, which return. In `TrafficStats` it is.

| Run | Shows |
|---|---|
| `control` | `TypeOK`; `PromptOnlyAtMax`; `ReadsOpenHandle`, `HandleIsCurrent`, `FailedSetupClosed` over three captures; `QuitStopsWhenPolled`: a quit key that is next in the console ends the capture, unless only packets whose `Parse` throws keep coming; `QuitNearer`: no step swallows that key, and each comes nearer to the place that takes it |
| `control_quit_lost` | **violation** of `QuitStops`, which makes no such exception: the `continue` at `PacketCapture.cpp:154` skips the only other place that reads keys |
| `shutdown_close` | `CloseEndsLoop`: closing from another thread ends the loop even if its stop request is overwritten; `ClosedLoopEnds`: within seven steps once the member is null; `ClosedOnlyByCloser`: the present session's handle or none is all a read may meet meanwhile |
| `shutdown_handle` | **violation** of `NoReadAfterClose`: the handle is closed between its copy and the read |
| `session_file` | `DiskIsLog` (the refinement), `NothingLost`, `TotalIsOnDisk`, `ListedIsRecorded`, `RepeatsOnlyOnError` (nothing but a read error makes a line appear twice), with read errors, full disks and the process ending anywhere |
| `session_once` | **violation** of `RecordedOnce`: a read error records the last packet again |
| `tls_walk` | `ReadsInBounds`, `NameInExtensions`; `Returns`, and `WalkShrinks`: after at most one step for each byte and one more |
| `tls_sni` | **violation** of `NameIsServerName`: an entry of another type leaves the walk inside the extension |
| `http_join` | `RowsAreIntactLines`, `PayloadNotPassed`, `InStepWhileAllTcp`, `NoneMissedWhileAllTcp` (whole payloads, or the 64 bytes of a row); `Finishes`, and `AnalysisShrinks`: after two steps for a row and one for a line at most |
| `http_own` | **violation** of `OwnPayload`: after one packet that is no TCP, rows and payloads are mixed up |
| `frame_decode` | `ReadsInFrame`, `PayloadAgrees`, `RowAgrees` |
| `navigation` | of the pages `StackIsPath`, `OutputIsCurrent`, `FailedLineDropped`; of the statistics `ReportIsOfFile`, `TotalsAreOfFile`, `ReportIsCurrent` and `ReportComes`, with full disks, failed parses and the process ending anywhere |

The violations are disagreements between the code and what the repository says
of it; `findings` in `PROJECT.json` quotes both sides.

### Fairness

* `CaptureControl`, `CaptureShutdown`: weak fairness of the capture thread's
  steps. It never sleeps for good and `pcap_next_ex` returns after 3 seconds at
  the latest; where the thread waits for a key, the step is not enabled. No
  fairness for the user, for `Open`, or for any outcome of a read: a timeout need
  never come, packets need never come. In `CaptureShutdown` also weak fairness
  of the closing thread once it has begun.
* `TlsClientHello`, `HttpAnalysis`: weak fairness of `Next`, for functions that run until they return.
* `Navigation`, `TrafficStats`: weak fairness of what the program does by itself (`Display`, `StatsDisplay`);
  none for the user, who need neither type nor choose. A page that waits for characters is not enabled.

Every checked property is also checked to be able to fail: `mutants` in
`PROJECT.json` pairs it with a definition and a seeded defect of the kind the
code could have had (an `ios::app`, a missing close, a dropped reset, a length
believed).

## Proofs

`CaptureControlProofs` proves, for all constants that satisfy
`ControlAssumption` (at least one timeout; any number of sessions and keys; any
kinds of traffic): `TypeCorrect`, `ReadsAreSafe`, `HandleNeverDangles`,
`FailuresClean` and `PromptIsExact`. None of the properties is inductive alone.
The bound on `timeoutCount` needs `PromptOnlyAtMax` (the read happens below the
maximum only), and that needs the bound; "the handle that is read is open" needs
to know that the loop is entered with a handle (`HandleInv`, which excepts the
place `clear`), and "a failed
set-up leaves nothing open" that a handle with the next session's number has never
been opened (`SessionsGrow`). `ControlInv` is their conjunction. One lemma per
group of actions shows that it is preserved; the theorems follow. The lemmas keep
the types and the handles apart, because only the types survive a second thread.

`QuitIsNear` proves what each step does to a quit key that is next in the
console. It stays next under every step but those that take it, and each of
these decides to leave; the decision is never overwritten by the result of
`displayData`, since the loop's top is the next place. Meanwhile the loop has
ever fewer steps to the keyboard (`Distance`), but where a packet's `Parse`
throws; that is the violation of `QuitStops`.

`CaptureShutdownProofs` proves `ShutdownTypeCorrect`, `ClosedReadIsBounded` and
`CloseIsFinal`. `ClosedOnlyByCloser` is not inductive, since the loop may copy a
member that is stale: `MemberInv` says that the member names the present session
or none, and is stale only between a `pcap_close` and the null that follows it, in
`closeCapture` or after a failed set-up. `CloseIsFinal` needs no invariant: without
a handle (also where the loop is past its test of the member) every step of the loop has fewer steps left (`StepsLeft`), and nothing
but a new `startCapture` brings a handle back.

`TlsClientHelloProofs` proves `TlsTypeCorrect`, `TlsReadsInBounds` and
`TlsNameInExtensions` for every length of the payload and all length fields that
are natural numbers (the code's are at most 255 and 65535). `TlsInv` adds what
each test in front of a field has established (`Tested`). `TlsWalkShrinks` proves
that every step passes a byte or returns, also where a length is zero.

`CaptureSessionProofs` proves `SessionTypeCorrect`, `NoPacketLost`, `TotalIsTrue`
and `ListIsTrue` for any number of captures, packets, lines and list entries.
`SessionInv` is `ControlInv` (the session's steps are steps of `CaptureControl`),
the types, and four parts that need each other: `FileInv` (the lines are a
gapless log of delivered packets), `CaptureInv` (the last line and the count are
those of the last packet recorded, up to the one between the read and its
record; without it nothing says which number the next line has), `ListInv` (a
list entry of this session has a line, and no entry is of a later session, which
is needed when a new capture starts with an empty file and an old list) and
`TotalIsOnDisk`. The control actions need no new argument: they leave the data
alone, or set it as `CaptureControl` says. `RepeatsAreErrors` adds that a packet
is processed only with the result of its own read (`ResultInv`): after a read of
a packet its number is new, so that a line that is there already can only come
from an error.

The same module proves `SessionImplementsLog`: `CaptureSession` implements
`CaptureLog`. Every step maps to one abstract action or a stutter: opening the
file to `Start`, a packet from pcap to `Deliver`, the append (failing or not) and the close
to `Write`; the end of the process changes nothing on disk. That what is cut off the stream at `flushed` is
still a gapless log of delivered packets is `FileInv`; that the lines on disk are never
changed is that appending leaves `flushed` where it is or moves it on.

`FrameDecodeProofs` proves `FrameTypeCorrect`, `FrameReadsInBounds`,
`PayloadsAgree` and `RowsAgree` for every length of the frame and all values of the fields. `FrameInv`
carries from one decoder to the next what it has found (`FactoryInv`: what the
factory's tests established when `Parse` runs; `DecodedInv`: for a well-formed
frame, what is listed and written as a function of the header; `PayloadInv`).
That the page finds nothing else than what was written follows from the tests of
`ExtractTcpPayload` (`FoundIsWritten`). That it finds all of it (`WrittenIsFound`)
needs an invariant of its own (`FoundInv`): a row that was taken behind an Ethernet header is of a well-formed
frame, so that what `parseAt` tested implies what `ExtractTcpPayload` tests.

`NavigationProofs` proves `NavTypeCorrect`, `StackFollowsPages` and
`OutputStaysCurrent` for any lines the user may type and any number of captures.
The stack is its own invariant: `Back` from a page on its path leads to the page
before. For the files the invariant adds the places between a capture and the
end of its parse, where the two may differ. `RecoveryIsReady` is about a `cin` that has
failed on the HTTP page, or before it: page, stack and files stay as they are
until the line is dropped, and a line end to drop it at is there as soon as
anything waits, because what the pages before have left are whole lines but for
the start of the first (`WholeLines`, which is an invariant of every read).

`HttpAnalysisProofs` proves `HttpTypeCorrect`, `RowsMatchLines`, `PayloadIsAhead`
and `StaysInStep` for files of any length. `RowsInv` says which lines the rows
are made of while they are written. `PlaceInv` says where the two readers stand:
between rows not beyond the line of the row just done, in search of a payload
before the line of the current row. It needs `RowsInv` (rows are in the order of
their lines) and itself gives `PayloadNotPassed`. `SyncInv` says that as long as
every line that decodes is TCP the readers stand at the same packet; it rests
on the other two and on a lemma (`NoneBetween`): no intact line lies between the
lines of two rows in sequence. All three are claimed only while `fresh`. `NoRowMissed` adds for each row
already searched that its record is there (`NoneMissed`); the step that decides a
row's search does so at the row's own line (`EndsAtOwn`), by its payload or by
the preview. `AnalysisIsBounded` counts what is left of the two files.

`TrafficStatsProofs` proves first that `TrafficStats` implements `Navigation`
(`StatsImplementsNavigation`: every step is one of its steps or leaves the pages
alone), so that all that is proved of the pages holds here. `StatsInv` adds to their invariant
`ContentInv` (since a complete parse `output.txt` has the rows of the present
`input.txt`, unless a newer one is not parsed yet) and `RecordsInv` (the records
are those of the rows read so far, at the prompt of the whole file). From it
follow `StatsTypeCorrect`, `ReportMatchesFile`, `ReportMatchesCapture` and
`TotalsMatchFile`, of which the last needs that a class has as many records as rows, which
is a bijection between them. `ClassIsLeadingBits` and `ProtocolSurvives` are the two facts
about the conversions: `getIPClass` for every octet, and a number that becomes
the text of a column and a number again, for every protocol. `ReportIsNear` proves
`ReportNearer`: from the parse on, each step but the user's comes nearer to the
report, which is five steps and one for each row of `output.txt` away at most.

Assumed are only the `ASSUME`s on the constants, which say of what sort they are
(`ControlAssumption` also that the limit of timeouts is at least one).

Only model-checked: liveness (`QuitStopsWhenPolled`, `CloseEndsLoop`, `Returns`,
`Finishes`, `FailedLineDropped`, `ReportComes`), since fairness and `ENABLED` are out of
the prover's reach. The part of it that fairness does not supply is proved for
all constants: `QuitNearer`, `ClosedLoopEnds`, `WalkShrinks`, `AnalysisShrinks` and
`ReportNearer` bound the steps that are left before what must happen has
happened, and `RecoveryIsReady` says that nothing but the drop of the line can
happen to a failed `cin` on the HTTP page. That the steps are taken is the
fairness of the thread, and that one is possible is what TLC checks (for the
drop it is proved, too). Every invariant and every
other action property a passing run checks is proved.

## Not modelled

* `dumpPacket`, `Data/HTTP`, `PacketManager::ParseAll`/`displayAll`, the pages'
  stack members in `Application.hpp`: called by nothing that runs.
* `Render/Render` beyond the choice it returns, `NetworkInterface` (lists and masks
  from Npcap): input, output and library calls around no state of their own.
* The index a user enters for the detail view: the code tests only its upper end,
  so that nothing can be stated of it; `AcceptIndex` leaves it open.
* Everything under `Include/` and `Lib/`: third-party headers and libraries (JSON, OpenSSL, curl, cpprest,
  Npcap, zlib), about 97% of the repository's lines; most are included by no source file of the program.
  pcap is modelled by the outcomes of its calls. Of the program's own lines the map covers about half; the rest is declarations, output and what is listed here.
* Pages allocated and never freed, the pcap handle a finished capture leaves open
  (`PacketCapture.cpp:38`): leaks no behaviour depends on.
* The second place where `analyzeTraffic` and `HttpPage` look for the files (`Output/` instead of
  `../Output/`, `TrafficStatistics.cpp:77-82`): the program writes to the first only, so that the second
  would be somebody else's file.
* The end of file on `cin` (Ctrl+Z): the user's lines end in a line end.
* Wrong contents: `OutputIsCurrent` and `ReportIsCurrent` speak of a parse that wrote all its rows
  (`finished`). Of a stale or cut off `output.txt` only `ReportIsOfFile` and `TotalsAreOfFile` say
  something (that the report is true to the file), and of the HTTP page that it ends.
* Ports, source addresses and all of a destination but its first octet; text: carried along by the program,
  tested by nothing modelled.

## Plan

The order is that of what the program is for: capturing, then what it writes,
then what is made of that. Done, in this order: `CaptureControl` and its proofs,
`CaptureShutdown`, `CaptureSession` with `CaptureLog` and their proofs, `TlsClientHello` and its proofs,
`HttpAnalysis`, `FrameDecode` and its proofs, `Navigation` and its proofs,
`TrafficStats` on top of it with its proofs, the proofs of `HttpAnalysis`, the
action properties and their proofs, `CaptureShutdownProofs`. Left: a composition of `HttpAnalysis` with `Navigation`, as
`TrafficStats` is one, so that the HTTP page too sees every history of the two
files and not only the replacements and cuts `Analyze` chooses from.
