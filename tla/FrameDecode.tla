----------------------------- MODULE FrameDecode -----------------------------
(***************************************************************************)
(* One captured frame and the three decoders that look at it: the factory  *)
(* and Parse while capturing (what is listed), ParseInputFileToOutput (the *)
(* row in output.txt) and ExtractTcpPayload (what the HTTP page analyses). *)
(* Each has its own rule for where the IP header is and what it may read.  *)
(***************************************************************************)
EXTENDS Naturals

CONSTANTS
  Sizes,             \* bytes captured of a frame
  At14, At0, At4     \* what may stand where an IP header is looked for

\* The bytes a decoder looks at if it takes an offset for an IP header: both
\* halves of the first one, the protocol, and the data offset of a TCP header
\* that would follow.
Header == [version : Nat, ihl : Nat, proto : Nat, doff : Nat]

ASSUME FrameAssumption == Sizes \subseteq Nat /\ At14 \cup At0 \cup At4 \subseteq Header

VARIABLES
  pc,        \* the decoder at work
  frame,     \* the frame; nothing changes it
  type,      \* PacketType found by identifyPacketType
  from,      \* where the bytes begin that createPacket hands to the packet
  live,      \* what is listed: the packet's type and the length of its payload
  row,       \* what is written: protocol, where IP was found, ports, payload
  payload,   \* where the payload begins that the HTTP page gets, 0 for none
  read       \* one past the last byte that was read in the last step

vars == <<pc, frame, type, from, live, row, payload, read>>

\* Byte 13 is the second one of the EtherType 0x0800, and the protocol of an
\* IP header at offset 4.
Frames ==
  {f \in [size : Sizes, ether : BOOLEAN, ip14 : At14, ip0 : At0, ip4 : At4] :
     f.ether => f.ip4.proto = 0}

Nothing == [type |-> "none", payload |-> 0]
NoRow == [proto |-> "NON_IPV4", at |-> 0, ports |-> FALSE, payload |-> 0]

Init ==
  /\ frame \in Frames
  /\ pc = "identify"
  /\ type = "UNKNOWN"
  /\ from = 0
  /\ live = Nothing
  /\ row = NoRow
  /\ payload = 0
  /\ read = 0

Bytes(header) == 4 * header.ihl

\* Where the header behind an IP header begins.
L4(off, header) == off + Bytes(header)

-----------------------------------------------------------------------------
(* The factory and Parse *)

TypeOf(proto) == CASE proto = 6 -> "TCP" [] proto = 17 -> "UDP" [] OTHER -> "IP"

Found(t, last) == type' = t /\ read' = last

IdentifyPacketType ==
  /\ pc = "identify"
  /\ pc' = "create"
  /\ \/ frame.size < 14 /\ Found("UNKNOWN", 0)
     \/ frame.size \in 14..33 /\ frame.ether /\ Found("IP", 14)
     \/ frame.size >= 34 /\ frame.ether /\ Found(TypeOf(frame.ip14.proto), 24)
     \/ /\ frame.size >= 20 /\ ~frame.ether
        /\ frame.ip0.version \in {4, 6}
        /\ Found(TypeOf(frame.ip0.proto), 14)
     \/ /\ frame.size >= 14 /\ ~frame.ether
        /\ (frame.size < 20 \/ frame.ip0.version \notin {4, 6})
        /\ Found("ETHERNET", 14)
  /\ UNCHANGED <<frame, from, live, row, payload>>

\* No test of version or ihl.
CreateWith(offset) ==
  /\ pc = "create"
  /\ \/ type = "ETHERNET" /\ from' = 0 /\ pc' = "parse" /\ read' = 0
     \/ type = "IP" /\ frame.size > 14 /\ from' = 14 /\ pc' = "parse" /\ read' = 0
     \/ /\ type \in {"TCP", "UDP"} /\ frame.size > 34 /\ frame.size > offset
        /\ from' = offset /\ pc' = "parse" /\ read' = 15
     \/ /\ \/ type = "UNKNOWN"
           \/ type = "IP" /\ frame.size <= 14
           \/ type \in {"TCP", "UDP"} /\ (frame.size <= 34 \/ frame.size <= offset)
        /\ pc' = "ethernet" /\ read' = 0 /\ UNCHANGED from
  /\ UNCHANGED <<frame, type, live, row, payload>>

\* Seeded defect: ihl counts bytes.
CreateUnscaled == CreateWith(14 + frame.ip14.ihl)

\* The offset of TCP and UDP is that of an Ethernet frame, whichever way the
\* type was found.
CreatePacket == CreateWith(L4(14, frame.ip14))

Listed(length, last) ==
  /\ live' = [type |-> type, payload |-> length]
  /\ read' = last

Throws == UNCHANGED live /\ read' = 0

ParseEthernet ==
  /\ type = "ETHERNET"
  /\ IF frame.size < 14 THEN Throws ELSE Listed(0, 14)

ParseIP ==
  /\ type = "IP"
  /\ IF frame.size < from + 20 \/ frame.ip14.version # 4 THEN Throws ELSE Listed(0, from + 20)

ParseTCP ==
  /\ type = "TCP"
  /\ LET start == from + 4 * frame.ip14.doff
         rest == IF frame.size > start THEN frame.size - start ELSE 0
     IN  IF frame.size < from + 20 THEN Throws ELSE Listed(rest, from + 13)

ParseUDP ==
  /\ type = "UDP"
  /\ IF frame.size < from + 8 THEN Throws ELSE Listed(0, from + 6)

\* Packet::Parse of the packet created.
Parse ==
  /\ pc = "parse"
  /\ ParseEthernet \/ ParseIP \/ ParseTCP \/ ParseUDP
  /\ pc' = "ethernet"
  /\ UNCHANGED <<frame, type, from, row, payload>>

-----------------------------------------------------------------------------
(* ParseInputFileToOutput *)

ProtoName(proto) ==
  CASE proto = 6 -> "TCP" [] proto = 17 -> "UDP" [] proto = 1 -> "ICMP" [] OTHER -> "IP"

\* What parseAt asks of an IP header.
ParseAt(off, header) ==
  /\ frame.size >= off + 20
  /\ header.version = 4
  /\ Bytes(header) >= 20
  /\ Bytes(header) <= frame.size - off

\* A row, with the payload of a TCP packet left out unless its start is valid.
RowIf(off, header, valid) ==
  LET l4 == L4(off, header)
      tcp == header.proto = 6 /\ frame.size >= l4 + 20
      udp == header.proto = 17 /\ frame.size >= l4 + 8
  IN  [proto   |-> ProtoName(header.proto),
       at      |-> off,
       ports   |-> tcp \/ udp,
       payload |-> CASE tcp /\ valid -> frame.size - (l4 + 4 * header.doff)
                     [] udp          -> frame.size - (l4 + 8)
                     [] OTHER        -> 0]

\* Seeded defect: the data offset of TCP is believed.
BelievedRow(off, header) == RowIf(off, header, TRUE)

\* The row of a frame whose IP header is at off.
RowAt(off, header) ==
  RowIf(off, header,
        header.doff >= 5 /\ L4(off, header) + 4 * header.doff <= frame.size)

\* The last byte RowAt looks at: the TCP data offset, a port or an address.
RowReads(off, header) ==
  LET l4 == L4(off, header) IN
    CASE header.proto = 6 /\ frame.size >= l4 + 20 -> l4 + 13
      [] header.proto = 17 /\ frame.size >= l4 + 8 -> l4 + 4
      [] OTHER -> off + 20

Try(off, header, here, next) ==
  /\ pc = here
  /\ \/ /\ ParseAt(off, header)
        /\ row' = RowAt(off, header)
        /\ read' = RowReads(off, header)
        /\ pc' = "extract"
     \/ /\ ~ParseAt(off, header)
        /\ read' = IF frame.size >= off + 20 THEN off + 1 ELSE 0
        /\ pc' = next
        /\ UNCHANGED row
  /\ UNCHANGED <<frame, type, from, live, payload>>

TryEthernet == frame.ether /\ frame.size >= 14 /\ Try(14, frame.ip14, "ethernet", "raw")

\* Another EtherType, or too short to have one.
SkipEthernet ==
  /\ pc = "ethernet"
  /\ (~frame.ether \/ frame.size < 14)
  /\ pc' = "raw"
  /\ read' = IF frame.size >= 14 THEN 14 ELSE 0
  /\ UNCHANGED <<frame, type, from, live, row, payload>>

TryRaw == Try(0, frame.ip0, "raw", "loopback")

TryLoopback == Try(4, frame.ip4, "loopback", "extract")

-----------------------------------------------------------------------------
(* The HTTP page *)

tcpAt == L4(14, frame.ip14)

\* Seeded defect: a header with options is refused.
IsTcpPlain ==
  /\ frame.size >= 34 /\ frame.ether
  /\ frame.ip14.version = 4
  /\ Bytes(frame.ip14) = 20
  /\ frame.ip14.proto = 6

\* Up to the protocol of the IP header: each test guards what is read next.
IsTcp ==
  /\ frame.size >= 34 /\ frame.ether
  /\ frame.ip14.version = 4
  /\ Bytes(frame.ip14) >= 20
  /\ Bytes(frame.ip14) <= frame.size - 14
  /\ frame.ip14.proto = 6

\* The page gets a payload if the bytes of a TCP header are there and its data
\* offset is neither too small nor too large.
ExtractIf(complete) ==
  LET start == tcpAt + 4 * frame.ip14.doff
      valid == frame.ip14.doff >= 5 /\ start <= frame.size
  IN  /\ pc = "extract"
      /\ \/ /\ ~(IsTcp /\ complete)
            /\ read' = IF frame.size < 14 THEN 0
                       ELSE IF frame.size < 34 \/ ~frame.ether THEN 14 ELSE 24
            /\ UNCHANGED payload
         \/ /\ IsTcp /\ complete /\ valid
            /\ payload' = start
            /\ read' = frame.size
         \/ /\ IsTcp /\ complete /\ ~valid
            /\ read' = tcpAt + 13
            /\ UNCHANGED payload
      /\ pc' = "done"
      /\ UNCHANGED <<frame, type, from, live, row>>

\* Seeded defect: no test that the TCP header is there.
ExtractUnchecked == ExtractIf(TRUE)

ExtractTcpPayload == ExtractIf(frame.size >= tcpAt + 20)

Next ==
  \/ IdentifyPacketType \/ CreatePacket \/ Parse
  \/ TryEthernet \/ SkipEthernet \/ TryRaw \/ TryLoopback
  \/ ExtractTcpPayload

Spec == Init /\ [][Next]_vars

-----------------------------------------------------------------------------
(* Every variable has its type; no payload is longer than the frame.        *)
TypeOK ==
  /\ pc \in {"identify", "create", "parse", "ethernet", "raw", "loopback", "extract", "done"}
  /\ frame \in Frames
  /\ type \in {"UNKNOWN", "ETHERNET", "IP", "TCP", "UDP"}
  /\ from \in Nat
  /\ live \in [type : {"none", "ETHERNET", "IP", "TCP", "UDP"}, payload : 0..frame.size]
  /\ row \in [proto : {"NON_IPV4", "TCP", "UDP", "ICMP", "IP"}, at : {0, 4, 14},
              ports : BOOLEAN, payload : 0..frame.size]
  /\ payload \in 0..frame.size
  /\ read \in Nat

(* No decoder reads past the end of the frame, whatever the lengths in it   *)
(* claim and wherever it is cut off (PacketFactory.cpp:8-36 and 66-89, the  *)
(* tests of each Parse, parseAt, ExtractTcpPayload).                        *)
ReadsInFrame == read <= frame.size

(* The HTTP page, by rules of its own, analyses the payloads in output.txt  *)
(* and no others, but for frames without an Ethernet header: what it finds  *)
(* was listed as TCP and written as TCP behind an Ethernet header, with the *)
(* same length; and where such a row has a payload, the page finds it.      *)
PayloadAgrees ==
  /\ payload # 0 =>
       /\ live = [type |-> "TCP", payload |-> frame.size - payload]
       /\ row = [proto |-> "TCP", at |-> 14, ports |-> TRUE, payload |-> frame.size - payload]
  /\ pc = "done" /\ row.proto = "TCP" /\ row.at = 14 /\ row.payload # 0 =>
       payload = frame.size - row.payload

\* An IPv4 header behind an Ethernet header, all of it captured.
WellFormed ==
  /\ frame.ether
  /\ frame.ip14.version = 4
  /\ frame.ip14.ihl >= 5
  /\ tcpAt <= frame.size

(* For a frame with a whole IPv4 header behind an Ethernet header, the list *)
(* and the row agree however short the rest was cut: TCP or UDP is listed   *)
(* exactly if the row has ports, anything else as IP, and the payload is of *)
(* the same length unless the TCP header claims to be shorter than it is.   *)
RowAgrees ==
  pc = "done" /\ WellFormed =>
    /\ row.at = 14
    /\ \A t \in {"TCP", "UDP"} : (live.type = t <=> row.proto = t /\ row.ports)
    /\ (live.type = "IP" <=> row.proto \in {"ICMP", "IP"})
    /\ (live.type = "TCP" /\ frame.ip14.doff >= 5 => row.payload = live.payload)
=============================================================================
