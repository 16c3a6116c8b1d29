-------------------------- MODULE FrameDecodeProofs --------------------------
(***************************************************************************)
(* The three decoders stay inside the frame and agree on TCP payloads, for *)
(* frames of every size and all values of the fields they look at.         *)
(***************************************************************************)
EXTENDS FrameDecode, TLAPS

\* What the tests of one step of the factory leave true for the next one.
FactoryInv ==
  /\ pc = "create" /\ type \in {"ETHERNET", "IP"} => frame.size >= 14
  /\ pc = "parse" => from <= frame.size
  /\ pc \in {"identify", "create", "parse"} => live = Nothing

start14 == tcpAt + 4 * frame.ip14.doff

\* What is decided about a well formed frame after each step.
DecodedInv ==
  WellFormed =>
    /\ pc = "create" => type = TypeOf(frame.ip14.proto)
    /\ pc = "parse" => /\ type = TypeOf(frame.ip14.proto)
                       /\ type \in {"TCP", "UDP"} => from = tcpAt
                       /\ type = "IP" => from = 14
    /\ pc \in {"ethernet", "extract", "done"} =>
         /\ live.type = "TCP" <=> frame.ip14.proto = 6 /\ frame.size >= tcpAt + 20
         /\ live.type = "UDP" <=> frame.ip14.proto = 17 /\ frame.size >= tcpAt + 8
         /\ live.type = "IP" <=> frame.ip14.proto \notin {6, 17}
         /\ live.type = "TCP" =>
              live.payload = IF frame.size > start14 THEN frame.size - start14 ELSE 0
    /\ pc \notin {"raw", "loopback"}
    /\ pc \in {"extract", "done"} => row = RowAt(14, frame.ip14)

\* Only the last step finds a payload.
PayloadInv ==
  payload # 0 =>
    /\ pc = "done" /\ payload = start14
    /\ IsTcp /\ frame.size >= tcpAt + 20
    /\ frame.ip14.doff >= 5 /\ start14 <= frame.size

FrameInv == TypeOK /\ ReadsInFrame /\ FactoryInv /\ DecodedInv /\ PayloadInv

-----------------------------------------------------------------------------
\* The fields of a frame are numbers.
LEMMA FieldTypes ==
  ASSUME frame \in Frames
  PROVE  /\ frame.size \in Nat /\ frame.ether \in BOOLEAN
         /\ frame.ip14 \in Header /\ frame.ip0 \in Header /\ frame.ip4 \in Header
BY FrameAssumption DEF Frames

\* So are the offsets computed from them.
LEMMA Offsets ==
  ASSUME frame \in Frames
  PROVE  /\ frame.size \in Nat /\ tcpAt \in Nat /\ tcpAt >= 14 /\ start14 \in Nat
         /\ start14 >= tcpAt
         /\ frame.ip14.ihl \in Nat /\ frame.ip14.doff \in Nat
         /\ tcpAt = 14 + 4 * frame.ip14.ihl
         /\ start14 = tcpAt + 4 * frame.ip14.doff
<1>1. frame.size \in Nat /\ frame.ip14.ihl \in Nat /\ frame.ip14.doff \in Nat
  BY FieldTypes DEF Header
<1> QED BY <1>1 DEF tcpAt, start14, L4, Bytes

\* A well formed frame has room for the fixed part of its IP header.
LEMMA WellFormedSize ==
  ASSUME frame \in Frames, WellFormed
  PROVE  frame.size >= 34 /\ ParseAt(14, frame.ip14)
BY Offsets DEF WellFormed, ParseAt, Bytes, tcpAt, L4

\* The factory's type of a protocol.
LEMMA TypeOfIs ==
  ASSUME NEW p \in Nat
  PROVE  /\ TypeOf(p) \in {"TCP", "UDP", "IP"}
         /\ TypeOf(p) = "TCP" <=> p = 6
         /\ TypeOf(p) = "UDP" <=> p = 17
         /\ TypeOf(p) = "IP" <=> p \notin {6, 17}
BY DEF TypeOf

\* The parser's name of a protocol.
LEMMA ProtoNameIs ==
  ASSUME NEW p \in Nat
  PROVE  /\ ProtoName(p) \in {"TCP", "UDP", "ICMP", "IP"}
         /\ ProtoName(p) = "TCP" <=> p = 6
         /\ ProtoName(p) = "UDP" <=> p = 17
         /\ ProtoName(p) \in {"ICMP", "IP"} <=> p \notin {6, 17}
BY DEF ProtoName

\* What a row says of an IP header that is inside the frame.
LEMMA RowIs ==
  ASSUME frame \in Frames, NEW off \in {0, 4, 14}, NEW h \in Header
  PROVE  LET l4 == off + 4 * h.ihl
             tcp == h.proto = 6 /\ frame.size >= l4 + 20
             udp == h.proto = 17 /\ frame.size >= l4 + 8
             s == l4 + 4 * h.doff
         IN  /\ RowAt(off, h).proto = ProtoName(h.proto)
             /\ RowAt(off, h).at = off
             /\ RowAt(off, h).ports = (tcp \/ udp)
             /\ tcp /\ h.doff >= 5 /\ s <= frame.size =>
                  RowAt(off, h).payload = frame.size - s
             /\ tcp /\ ~(h.doff >= 5 /\ s <= frame.size) => RowAt(off, h).payload = 0
             /\ RowAt(off, h).payload \in 0..frame.size
             /\ RowAt(off, h) \in [proto : {"NON_IPV4", "TCP", "UDP", "ICMP", "IP"},
                                   at : {0, 4, 14}, ports : BOOLEAN, payload : 0..frame.size]
<1> DEFINE l4 == off + 4 * h.ihl
           tcp == h.proto = 6 /\ frame.size >= l4 + 20
           udp == h.proto = 17 /\ frame.size >= l4 + 8
           s == l4 + 4 * h.doff
           valid == h.doff >= 5 /\ s <= frame.size
           p == CASE tcp /\ valid -> frame.size - s
                  [] udp          -> frame.size - (l4 + 8)
                  [] OTHER        -> 0
<1>1. frame.size \in Nat /\ h.ihl \in Nat /\ h.doff \in Nat /\ h.proto \in Nat
  BY FieldTypes DEF Header
<1>2. l4 \in Nat /\ s \in Nat BY <1>1
<1>3. RowAt(off, h) = [proto |-> ProtoName(h.proto), at |-> off,
                       ports |-> tcp \/ udp, payload |-> p]
  BY DEF RowAt, RowIf, L4, Bytes
<1>4. p \in 0..frame.size
  <2>1. CASE tcp /\ valid
    <3>1. p = frame.size - s BY <2>1
    <3> QED BY <1>1, <1>2, <2>1, <3>1
  <2>2. CASE ~(tcp /\ valid) /\ udp
    <3>1. p = frame.size - (l4 + 8) BY <2>2
    <3> QED BY <1>1, <1>2, <2>2, <3>1
  <2>3. CASE ~(tcp /\ valid) /\ ~udp
    <3>1. p = 0 BY <2>3
    <3> QED BY <1>1, <3>1
  <2> QED BY <2>1, <2>2, <2>3
<1>5. (tcp /\ valid => p = frame.size - s) /\ (tcp /\ ~valid => p = 0)
  <2>1. tcp => ~udp BY <1>1
  <2> QED BY <2>1
<1>6. ProtoName(h.proto) \in {"NON_IPV4", "TCP", "UDP", "ICMP", "IP"}
  BY <1>1, ProtoNameIs
<1>7. (tcp \/ udp) \in BOOLEAN OBVIOUS
<1> HIDE DEF p
<1>8. RowAt(off, h) \in [proto : {"NON_IPV4", "TCP", "UDP", "ICMP", "IP"},
                         at : {0, 4, 14}, ports : BOOLEAN, payload : 0..frame.size]
  BY <1>3, <1>4, <1>6, <1>7
<1> QED BY <1>3, <1>4, <1>5, <1>8

\* The reads of a row are inside the frame if the IP header is.
LEMMA RowReadsInFrame ==
  ASSUME frame \in Frames, NEW off \in {0, 4, 14}, NEW h \in Header, ParseAt(off, h)
  PROVE  RowReads(off, h) \in Nat /\ RowReads(off, h) <= frame.size
<1>1. frame.size \in Nat /\ h.ihl \in Nat /\ h.proto \in Nat BY FieldTypes DEF Header
<1>2. frame.size >= off + 20 BY DEF ParseAt
<1>3. CASE h.proto = 6 /\ frame.size >= L4(off, h) + 20
  <2>1. RowReads(off, h) = L4(off, h) + 13 BY <1>1, <1>3 DEF RowReads
  <2> QED BY <1>1, <1>3, <2>1 DEF L4, Bytes
<1>4. CASE h.proto = 17 /\ frame.size >= L4(off, h) + 8
  <2>1. RowReads(off, h) = L4(off, h) + 4 BY <1>1, <1>4 DEF RowReads
  <2> QED BY <1>1, <1>4, <2>1 DEF L4, Bytes
<1>5. CASE /\ ~(h.proto = 6 /\ frame.size >= L4(off, h) + 20)
           /\ ~(h.proto = 17 /\ frame.size >= L4(off, h) + 8)
  <2>1. RowReads(off, h) = off + 20 BY <1>5 DEF RowReads
  <2> QED BY <1>1, <1>2, <2>1
<1> QED BY <1>3, <1>4, <1>5

-----------------------------------------------------------------------------
\* The invariant holds of every frame before it is decoded.
LEMMA FrameInvInit == Init => FrameInv
<1> SUFFICES ASSUME Init PROVE FrameInv OBVIOUS
<1>1. frame.size \in Nat BY FieldTypes DEF Init
<1>2. TypeOK
  <2>1. live \in [type : {"none", "ETHERNET", "IP", "TCP", "UDP"}, payload : 0..frame.size]
    BY <1>1 DEF Init, Nothing
  <2>2. row \in [proto : {"NON_IPV4", "TCP", "UDP", "ICMP", "IP"}, at : {0, 4, 14},
                 ports : BOOLEAN, payload : 0..frame.size]
    BY <1>1 DEF Init, NoRow
  <2>3. payload \in 0..frame.size BY <1>1 DEF Init
  <2> QED BY <2>1, <2>2, <2>3 DEF Init, TypeOK
<1>3. ReadsInFrame BY <1>1 DEF Init, ReadsInFrame
<1> QED BY <1>2, <1>3 DEF Init, FrameInv, FactoryInv, DecodedInv, PayloadInv

\* Steps that touch the factory's variables leave what the frame says.
LEMMA SameFrame ==
  ASSUME UNCHANGED frame
  PROVE  /\ tcpAt' = tcpAt /\ start14' = start14 /\ (WellFormed' <=> WellFormed)
         /\ (IsTcp' <=> IsTcp)
         /\ \A off, h : RowAt(off, h)' = RowAt(off, h)
BY DEF tcpAt, start14, WellFormed, IsTcp, L4, Bytes, RowAt, RowIf, ProtoName

\* The factory finds a type.
LEMMA IdentifyKeeps == FrameInv /\ IdentifyPacketType => FrameInv'
<1> SUFFICES ASSUME FrameInv, IdentifyPacketType PROVE FrameInv' OBVIOUS
<1>1. /\ pc = "identify" /\ pc' = "create"
      /\ UNCHANGED <<frame, from, live, row, payload>>
  BY DEF IdentifyPacketType
<1>2. TypeOK /\ payload = 0 BY <1>1 DEF FrameInv, PayloadInv
<1>3. /\ frame.size \in Nat /\ frame.ip14.proto \in Nat /\ frame.ip0.proto \in Nat
  BY <1>2, FieldTypes DEF TypeOK, Header
<1>4. /\ TypeOf(frame.ip14.proto) \in {"TCP", "UDP", "IP"}
      /\ TypeOf(frame.ip0.proto) \in {"TCP", "UDP", "IP"}
  BY <1>3, TypeOfIs
<1>5. /\ type' \in {"UNKNOWN", "ETHERNET", "IP", "TCP", "UDP"}
      /\ read' \in Nat /\ read' <= frame.size
      /\ type' \in {"ETHERNET", "IP"} => frame.size >= 14
      /\ frame.ether /\ frame.size >= 34 => type' = TypeOf(frame.ip14.proto)
  BY <1>3, <1>4 DEF IdentifyPacketType, Found
<1>6. TypeOK' BY <1>1, <1>2, <1>5 DEF TypeOK
<1>7. ReadsInFrame' BY <1>1, <1>5 DEF ReadsInFrame
<1>8. FactoryInv' BY <1>1, <1>5 DEF FrameInv, FactoryInv
<1>9. DecodedInv'
  <2>1. WellFormed => frame.ether /\ frame.size >= 34
    BY <1>2, WellFormedSize DEF TypeOK, WellFormed
  <2> QED BY <1>1, <1>5, <2>1, SameFrame DEF DecodedInv
<1>10. PayloadInv' BY <1>1, <1>2 DEF PayloadInv
<1> QED BY <1>6, <1>7, <1>8, <1>9, <1>10 DEF FrameInv

\* The factory makes a packet of the bytes from an offset inside the frame.
LEMMA CreateKeeps == FrameInv /\ CreatePacket => FrameInv'
<1> SUFFICES ASSUME FrameInv, CreatePacket PROVE FrameInv' OBVIOUS
<1>1. /\ pc = "create" /\ pc' \in {"parse", "ethernet"}
      /\ UNCHANGED <<frame, type, live, row, payload>>
  BY DEF CreatePacket, CreateWith
<1>2. TypeOK /\ payload = 0 BY <1>1 DEF FrameInv, PayloadInv
<1>3. frame \in Frames /\ from \in Nat /\ frame.size \in Nat /\ tcpAt \in Nat
  BY <1>2, Offsets DEF TypeOK
<1>4. type \in {"ETHERNET", "IP"} => frame.size >= 14 BY <1>1 DEF FrameInv, FactoryInv
<1>5. /\ from' \in Nat /\ read' \in Nat /\ read' <= frame.size
      /\ pc' = "parse" => /\ from' <= frame.size
                          /\ type \in {"TCP", "UDP"} => from' = tcpAt
                          /\ type = "IP" => from' = 14
  BY <1>3, <1>4 DEF CreatePacket, CreateWith, tcpAt
<1>6. TypeOK' BY <1>1, <1>2, <1>5 DEF TypeOK
<1>7. ReadsInFrame' BY <1>1, <1>5 DEF ReadsInFrame
<1>8. FactoryInv' BY <1>1, <1>5 DEF FrameInv, FactoryInv
<1>9. DecodedInv'
  <2> SUFFICES ASSUME WellFormed PROVE DecodedInv'
    BY <1>1, SameFrame DEF DecodedInv
  <2>1. frame.size >= 34 /\ type = TypeOf(frame.ip14.proto)
    BY <1>1, <1>3, WellFormedSize DEF FrameInv, DecodedInv
  <2>2. CASE pc' = "parse" BY <1>1, <1>5, <2>1, <2>2, SameFrame DEF DecodedInv
  <2>3. CASE pc' = "ethernet"
    <3>1. /\ type = "IP" => frame.size <= 14
          /\ type \in {"TCP", "UDP"} => frame.size <= 34 \/ frame.size <= tcpAt
      BY <1>1, <2>3 DEF CreatePacket, CreateWith, tcpAt
    <3>2. frame.ip14.proto \in Nat BY <1>3, FieldTypes DEF Header
    <3>3. tcpAt >= 34 /\ tcpAt <= frame.size
      BY <1>3, Offsets DEF WellFormed
    <3>4. /\ frame.ip14.proto \in {6, 17} => frame.size < tcpAt + 8
          /\ frame.ip14.proto \in {6, 17}
      BY <1>3, <2>1, <3>1, <3>2, <3>3, TypeOfIs
    <3>5. live'.type = "none" BY <1>1 DEF FrameInv, FactoryInv, Nothing
    <3>6. ~(frame.size >= tcpAt + 20) /\ ~(frame.size >= tcpAt + 8)
      BY <1>3, <3>4
    <3> QED BY <1>1, <2>3, <3>4, <3>5, <3>6, SameFrame DEF DecodedInv
  <2> QED BY <1>1, <2>2, <2>3
<1>10. PayloadInv' BY <1>1, <1>2 DEF PayloadInv
<1> QED BY <1>6, <1>7, <1>8, <1>9, <1>10 DEF FrameInv

\* When Parse throws: the packet is too short, or no IPv4 though it should be.
TooShort ==
  \/ type = "ETHERNET" /\ frame.size < 14
  \/ type = "IP" /\ (frame.size < from + 20 \/ frame.ip14.version # 4)
  \/ type = "TCP" /\ frame.size < from + 20
  \/ type = "UDP" /\ frame.size < from + 8

\* Parse reads the packet it was given and lists it, or throws.
LEMMA ParseKeeps == FrameInv /\ Parse => FrameInv'
<1> SUFFICES ASSUME FrameInv, Parse PROVE FrameInv' OBVIOUS
<1> DEFINE start == from + 4 * frame.ip14.doff
           rest == IF frame.size > start THEN frame.size - start ELSE 0
<1>1. /\ pc = "parse" /\ pc' = "ethernet"
      /\ UNCHANGED <<frame, type, from, row, payload>>
  BY DEF Parse
<1>2. TypeOK /\ payload = 0 BY <1>1 DEF FrameInv, PayloadInv
<1>3. /\ frame \in Frames /\ from \in Nat /\ frame.size \in Nat /\ tcpAt \in Nat
      /\ frame.ip14.doff \in Nat /\ frame.ip14.proto \in Nat
      /\ from <= frame.size /\ live = Nothing
  BY <1>1, <1>2, Offsets, FieldTypes DEF TypeOK, Header, FrameInv, FactoryInv
<1>4. start \in Nat /\ rest \in 0..frame.size BY <1>3
<1>5. \/ TooShort /\ live' = live /\ read' = 0
      \/ ~TooShort /\ type = "ETHERNET" /\ Listed(0, 14)
      \/ ~TooShort /\ type = "IP" /\ Listed(0, from + 20)
      \/ ~TooShort /\ type = "UDP" /\ Listed(0, from + 6)
      \/ ~TooShort /\ type = "TCP" /\ Listed(rest, from + 13)
  BY DEF Parse, ParseEthernet, ParseIP, ParseTCP, ParseUDP, Throws, TooShort
<1> HIDE DEF rest
<1>6. read' \in Nat /\ read' <= frame.size
  <2>1. CASE TooShort /\ read' = 0 BY <1>3, <2>1
  <2>2. CASE ~TooShort /\ type = "ETHERNET" /\ Listed(0, 14)
    BY <1>3, <2>2 DEF TooShort, Listed
  <2>3. CASE ~TooShort /\ type = "IP" /\ Listed(0, from + 20)
    BY <1>3, <2>3 DEF TooShort, Listed
  <2>4. CASE ~TooShort /\ type = "UDP" /\ Listed(0, from + 6)
    BY <1>3, <2>4 DEF TooShort, Listed
  <2>5. CASE ~TooShort /\ type = "TCP" /\ Listed(rest, from + 13)
    BY <1>3, <2>5 DEF TooShort, Listed
  <2> QED BY <1>5, <2>1, <2>2, <2>3, <2>4, <2>5
<1>7. /\ TooShort => live' = Nothing
      /\ ~TooShort => /\ live'.type = type
                      /\ type = "TCP" => live'.payload = rest
                      /\ live' \in [type : {"ETHERNET", "IP", "TCP", "UDP"}, payload : 0..frame.size]
  <2>1. 0 \in 0..frame.size BY <1>3
  <2> QED BY <1>3, <1>4, <1>5, <2>1 DEF Listed
<1>8. TypeOK'
  <2>1. live' \in [type : {"none", "ETHERNET", "IP", "TCP", "UDP"}, payload : 0..frame.size]
    <3>1. Nothing \in [type : {"none"}, payload : 0..frame.size] BY <1>3 DEF Nothing
    <3> QED BY <1>7, <3>1
  <2> QED BY <1>1, <1>2, <1>6, <2>1 DEF TypeOK
<1>9. ReadsInFrame' BY <1>1, <1>6 DEF ReadsInFrame
<1>10. FactoryInv' BY <1>1 DEF FactoryInv
<1>11. DecodedInv'
  <2> SUFFICES ASSUME WellFormed PROVE DecodedInv'
    BY <1>1, SameFrame DEF DecodedInv
  <2>1. /\ type = TypeOf(frame.ip14.proto)
        /\ type \in {"TCP", "UDP"} => from = tcpAt
        /\ type = "IP" => from = 14
    BY <1>1 DEF FrameInv, DecodedInv
  <2>2. /\ type \in {"TCP", "UDP", "IP"}
        /\ type = "TCP" <=> frame.ip14.proto = 6
        /\ type = "UDP" <=> frame.ip14.proto = 17
        /\ type = "IP" <=> frame.ip14.proto \notin {6, 17}
    BY <1>3, <2>1, TypeOfIs
  <2>3. frame.size >= 34 BY <1>3, WellFormedSize
  <2>4. /\ type = "TCP" => (TooShort <=> ~(frame.size >= tcpAt + 20))
        /\ type = "UDP" => (TooShort <=> ~(frame.size >= tcpAt + 8))
        /\ type = "IP" => ~TooShort
    BY <1>3, <2>1, <2>3 DEF TooShort, WellFormed
  <2>5. /\ live'.type = "TCP" <=> frame.ip14.proto = 6 /\ frame.size >= tcpAt + 20
        /\ live'.type = "UDP" <=> frame.ip14.proto = 17 /\ frame.size >= tcpAt + 8
        /\ live'.type = "IP" <=> frame.ip14.proto \notin {6, 17}
    <3>1. TooShort => live'.type = "none" BY <1>7 DEF Nothing
    <3>2. ~TooShort => live'.type = type BY <1>7
    <3> QED BY <2>2, <2>4, <3>1, <3>2
  <2>6. live'.type = "TCP" =>
          live'.payload = IF frame.size > start14 THEN frame.size - start14 ELSE 0
    <3> SUFFICES ASSUME live'.type = "TCP"
                 PROVE  live'.payload = IF frame.size > start14 THEN frame.size - start14 ELSE 0
      OBVIOUS
    <3>1. ~TooShort BY <1>7 DEF Nothing
    <3>2. type = "TCP" /\ live'.payload = rest BY <1>7, <3>1
    <3>3. start = start14 BY <2>1, <3>2 DEF start14
    <3> QED BY <3>2, <3>3 DEF rest
  <2> QED BY <1>1, <2>5, <2>6, SameFrame DEF DecodedInv
<1>12. PayloadInv' BY <1>1, <1>2 DEF PayloadInv
<1> QED BY <1>8, <1>9, <1>10, <1>11, <1>12 DEF FrameInv

\* What a look for an IP header changes.
LEMMA TryKeepsTypes ==
  ASSUME FrameInv, NEW off \in {0, 4, 14}, NEW h \in Header, NEW here, NEW next,
         Try(off, h, here, next),
         here \in {"ethernet", "raw", "loopback"},
         next \in {"raw", "loopback", "extract"}
  PROVE  TypeOK' /\ ReadsInFrame' /\ FactoryInv' /\ PayloadInv'
<1>1. /\ pc = here /\ pc' \in {"raw", "loopback", "extract"}
      /\ UNCHANGED <<frame, type, from, live, payload>>
  BY DEF Try
<1>2. TypeOK /\ payload = 0 BY <1>1 DEF FrameInv, PayloadInv
<1>3. frame \in Frames /\ frame.size \in Nat BY <1>2, FieldTypes DEF TypeOK
<1>4. CASE ParseAt(off, h)
  <2>1. row' = RowAt(off, h) /\ read' = RowReads(off, h) BY <1>4 DEF Try
  <2>2. row' \in [proto : {"NON_IPV4", "TCP", "UDP", "ICMP", "IP"}, at : {0, 4, 14},
                  ports : BOOLEAN, payload : 0..frame.size]
    BY <1>3, <2>1, RowIs
  <2>3. read' \in Nat /\ read' <= frame.size BY <1>3, <1>4, <2>1, RowReadsInFrame
  <2>4. TypeOK' BY <1>1, <1>2, <2>2, <2>3 DEF TypeOK
  <2> QED BY <1>1, <1>2, <2>3, <2>4 DEF ReadsInFrame, FactoryInv, PayloadInv
<1>5. CASE ~ParseAt(off, h)
  <2>1. /\ row' = row
        /\ read' = IF frame.size >= off + 20 THEN off + 1 ELSE 0
    BY <1>5 DEF Try
  <2>2. read' \in Nat /\ read' <= frame.size BY <1>3, <2>1
  <2>3. TypeOK' BY <1>1, <1>2, <2>1, <2>2 DEF TypeOK
  <2> QED BY <1>1, <1>2, <2>2, <2>3 DEF ReadsInFrame, FactoryInv, PayloadInv
<1> QED BY <1>4, <1>5

\* The parser looks behind an Ethernet header.
LEMMA TryEthernetKeeps == FrameInv /\ TryEthernet => FrameInv'
<1> SUFFICES ASSUME FrameInv, TryEthernet PROVE FrameInv' OBVIOUS
<1>1. Try(14, frame.ip14, "ethernet", "raw") BY DEF TryEthernet
<1>2. frame \in Frames /\ frame.ip14 \in Header BY FieldTypes DEF FrameInv, TypeOK
<1>3. TypeOK' /\ ReadsInFrame' /\ FactoryInv' /\ PayloadInv' BY <1>1, <1>2, TryKeepsTypes
<1>4. DecodedInv'
  <2>1. pc = "ethernet" /\ UNCHANGED <<frame, live>> BY <1>1 DEF Try
  <2>2. WellFormed => pc' = "extract" /\ row' = RowAt(14, frame.ip14)
    BY <1>1, <1>2, WellFormedSize DEF Try
  <2> QED BY <2>1, <2>2, SameFrame DEF FrameInv, DecodedInv
<1> QED BY <1>3, <1>4 DEF FrameInv

\* The parser finds no Ethernet header; a well formed frame has one.
LEMMA SkipEthernetKeeps == FrameInv /\ SkipEthernet => FrameInv'
<1> SUFFICES ASSUME FrameInv, SkipEthernet PROVE FrameInv' OBVIOUS
<1>1. /\ pc = "ethernet" /\ pc' = "raw"
      /\ read' = IF frame.size >= 14 THEN 14 ELSE 0
      /\ UNCHANGED <<frame, type, from, live, row, payload>>
  BY DEF SkipEthernet
<1>2. TypeOK /\ payload = 0 BY <1>1 DEF FrameInv, PayloadInv
<1>3. frame \in Frames /\ frame.size \in Nat BY <1>2, FieldTypes DEF TypeOK
<1>4. read' \in Nat /\ read' <= frame.size BY <1>1, <1>3
<1>5. ~WellFormed BY <1>3, WellFormedSize DEF SkipEthernet, WellFormed
<1>6. DecodedInv' BY <1>1, <1>5, SameFrame DEF DecodedInv
<1>7. TypeOK' BY <1>1, <1>2, <1>4 DEF TypeOK
<1> QED BY <1>1, <1>2, <1>4, <1>6, <1>7 DEF FrameInv, ReadsInFrame, FactoryInv, PayloadInv

\* The parser looks at the offsets of frames without an Ethernet header.
LEMMA TryOthersKeep == FrameInv /\ (TryRaw \/ TryLoopback) => FrameInv'
<1> SUFFICES ASSUME FrameInv, TryRaw \/ TryLoopback PROVE FrameInv' OBVIOUS
<1>1. frame \in Frames /\ frame.ip0 \in Header /\ frame.ip4 \in Header
  BY FieldTypes DEF FrameInv, TypeOK
<1>2. TypeOK' /\ ReadsInFrame' /\ FactoryInv' /\ PayloadInv'
  BY <1>1, TryKeepsTypes DEF TryRaw, TryLoopback
<1>3. pc \in {"raw", "loopback"} /\ UNCHANGED frame BY DEF TryRaw, TryLoopback, Try
<1>4. ~WellFormed BY <1>3 DEF FrameInv, DecodedInv
<1>5. DecodedInv' BY <1>3, <1>4, SameFrame DEF DecodedInv
<1> QED BY <1>2, <1>5 DEF FrameInv

\* The page finds a payload or none.
LEMMA ExtractKeeps == FrameInv /\ ExtractTcpPayload => FrameInv'
<1> SUFFICES ASSUME FrameInv, ExtractTcpPayload PROVE FrameInv' OBVIOUS
<1> DEFINE complete == frame.size >= tcpAt + 20
           valid == frame.ip14.doff >= 5 /\ start14 <= frame.size
<1>1. /\ pc = "extract" /\ pc' = "done"
      /\ UNCHANGED <<frame, type, from, live, row>>
  BY DEF ExtractTcpPayload, ExtractIf
<1>2. TypeOK /\ payload = 0 BY <1>1 DEF FrameInv, PayloadInv
<1>3. /\ frame \in Frames /\ frame.size \in Nat /\ tcpAt \in Nat /\ start14 \in Nat
      /\ frame.ether \in BOOLEAN
  BY <1>2, Offsets, FieldTypes DEF TypeOK
<1>4. \/ /\ ~(IsTcp /\ complete) /\ payload' = payload
         /\ read' = IF frame.size < 14 THEN 0
                    ELSE IF frame.size < 34 \/ ~frame.ether THEN 14 ELSE 24
      \/ IsTcp /\ complete /\ valid /\ payload' = start14 /\ read' = frame.size
      \/ IsTcp /\ complete /\ ~valid /\ payload' = payload /\ read' = tcpAt + 13
  BY DEF ExtractTcpPayload, ExtractIf, start14
<1>5. read' \in Nat /\ read' <= frame.size /\ payload' \in 0..frame.size
  <2>1. CASE /\ payload' = payload
             /\ read' = IF frame.size < 14 THEN 0
                        ELSE IF frame.size < 34 \/ ~frame.ether THEN 14 ELSE 24
    <3>1. CASE frame.size < 14
      <4>1. read' = 0 BY <2>1, <3>1
      <4> QED BY <1>2, <1>3, <2>1, <4>1
    <3>2. CASE ~(frame.size < 14) /\ (frame.size < 34 \/ ~frame.ether)
      <4>1. read' = 14 BY <2>1, <3>2
      <4> QED BY <1>2, <1>3, <2>1, <3>2, <4>1
    <3>3. CASE ~(frame.size < 14) /\ ~(frame.size < 34 \/ ~frame.ether)
      <4>1. read' = 24 BY <2>1, <3>3
      <4>2. ~(frame.size < 34) BY <3>3
      <4> QED BY <1>2, <1>3, <2>1, <4>1, <4>2
    <3> QED BY <3>1, <3>2, <3>3
  <2>2. CASE valid /\ payload' = start14 /\ read' = frame.size BY <1>3, <2>2
  <2>3. CASE complete /\ payload' = payload /\ read' = tcpAt + 13
    <3>1. read' \in Nat /\ read' <= frame.size BY <1>3, <2>3
    <3>2. payload' \in 0..frame.size BY <1>2, <1>3, <2>3
    <3> QED BY <3>1, <3>2
  <2> QED BY <1>4, <2>1, <2>2, <2>3
<1>6. payload' # 0 => IsTcp /\ complete /\ valid /\ payload' = start14
  BY <1>2, <1>4
<1>7. TypeOK' BY <1>1, <1>2, <1>5 DEF TypeOK
<1>8. PayloadInv' BY <1>1, <1>6, SameFrame DEF PayloadInv
<1>9. DecodedInv' BY <1>1, SameFrame DEF FrameInv, DecodedInv
<1> QED BY <1>1, <1>5, <1>7, <1>8, <1>9 DEF FrameInv, ReadsInFrame, FactoryInv

\* The invariant is inductive.
LEMMA FrameInvariant == Spec => []FrameInv
<1>1. FrameInv /\ [Next]_vars => FrameInv'
  <2> SUFFICES ASSUME FrameInv, [Next]_vars PROVE FrameInv' OBVIOUS
  <2>1. CASE UNCHANGED vars
    <3>1. UNCHANGED <<pc, frame, type, from, live, row, payload, read>> BY <2>1 DEF vars
    <3>2. DecodedInv' BY <3>1, SameFrame DEF FrameInv, DecodedInv
    <3>3. PayloadInv' BY <3>1, SameFrame DEF FrameInv, PayloadInv
    <3>4. TypeOK' BY <3>1 DEF FrameInv, TypeOK
    <3> QED BY <3>1, <3>2, <3>3, <3>4 DEF FrameInv, ReadsInFrame, FactoryInv
  <2> QED BY <2>1, IdentifyKeeps, CreateKeeps, ParseKeeps, TryEthernetKeeps,
             SkipEthernetKeeps, TryOthersKeep, ExtractKeeps DEF Next
<1> QED BY <1>1, FrameInvInit, PTL DEF Spec

-----------------------------------------------------------------------------
(* The decoders' variables have their types; no payload is longer than the  *)
(* frame.                                                                   *)
THEOREM FrameTypeCorrect == Spec => []TypeOK
<1>1. FrameInv => TypeOK BY DEF FrameInv
<1> QED BY <1>1, FrameInvariant, PTL

(* No decoder reads past the end of a frame.                                *)
THEOREM FrameReadsInBounds == Spec => []ReadsInFrame
<1>1. FrameInv => ReadsInFrame BY DEF FrameInv
<1> QED BY <1>1, FrameInvariant, PTL

\* A frame whose IP header the page accepts is well formed.
LEMMA TcpIsWellFormed == frame \in Frames /\ IsTcp => WellFormed /\ frame.ip14.proto = 6
BY Offsets DEF IsTcp, WellFormed, Bytes, tcpAt, L4

\* A payload the HTTP page gets was listed and written as TCP, and all three
\* decoders agree on its length.
LEMMA FoundIsWritten ==
  ASSUME FrameInv, payload # 0
  PROVE  /\ live = [type |-> "TCP", payload |-> frame.size - payload]
         /\ row = [proto |-> "TCP", at |-> 14, ports |-> TRUE, payload |-> frame.size - payload]
<1>1. /\ pc = "done" /\ payload = start14
      /\ IsTcp /\ frame.size >= tcpAt + 20
      /\ frame.ip14.doff >= 5 /\ start14 <= frame.size
  BY DEF FrameInv, PayloadInv
<1>2. frame \in Frames BY DEF FrameInv, TypeOK
<1>3. WellFormed /\ frame.ip14.proto = 6 BY <1>1, <1>2, TcpIsWellFormed
<1>4. /\ live.type = "TCP"
      /\ live.payload = IF frame.size > start14 THEN frame.size - start14 ELSE 0
      /\ row = RowAt(14, frame.ip14)
  BY <1>1, <1>3 DEF FrameInv, DecodedInv
<1>5. live.payload = frame.size - start14 BY <1>1, <1>2, <1>4, Offsets
<1>6. live \in [type : {"none", "ETHERNET", "IP", "TCP", "UDP"}, payload : 0..frame.size]
  BY DEF FrameInv, TypeOK
<1>7. /\ row.proto = "TCP" /\ row.at = 14 /\ row.ports = TRUE
      /\ row.payload = frame.size - start14
  <2>1. frame.ip14 \in Header BY <1>2, FieldTypes
  <2>2. tcpAt = 14 + 4 * frame.ip14.ihl /\ start14 = tcpAt + 4 * frame.ip14.doff
    BY <1>2, Offsets
  <2> QED BY <1>1, <1>2, <1>3, <1>4, <2>1, <2>2, RowIs DEF ProtoName
<1>8. row \in [proto : {"NON_IPV4", "TCP", "UDP", "ICMP", "IP"}, at : {0, 4, 14},
               ports : BOOLEAN, payload : 0..frame.size]
  BY DEF FrameInv, TypeOK
<1> QED BY <1>1, <1>4, <1>5, <1>6, <1>7, <1>8

(* For a frame with a whole IPv4 header behind an Ethernet header, list and *)
(* row agree on what it is and how long its TCP payload is.                 *)
THEOREM RowsAgree == Spec => []RowAgrees
<1>1. FrameInv => RowAgrees
  <2> SUFFICES ASSUME FrameInv, pc = "done", WellFormed
               PROVE  /\ row.at = 14
                      /\ \A t \in {"TCP", "UDP"} :
                           (live.type = t <=> row.proto = t /\ row.ports)
                      /\ (live.type = "IP" <=> row.proto \in {"ICMP", "IP"})
                      /\ (live.type = "TCP" /\ frame.ip14.doff >= 5 =>
                            row.payload = live.payload)
    BY DEF RowAgrees
  <2>1. frame \in Frames /\ frame.ip14 \in Header /\ frame.ip14.proto \in Nat
    BY FieldTypes DEF FrameInv, TypeOK, Header
  <2>2. /\ live.type = "TCP" <=> frame.ip14.proto = 6 /\ frame.size >= tcpAt + 20
        /\ live.type = "UDP" <=> frame.ip14.proto = 17 /\ frame.size >= tcpAt + 8
        /\ live.type = "IP" <=> frame.ip14.proto \notin {6, 17}
        /\ live.type = "TCP" =>
             live.payload = IF frame.size > start14 THEN frame.size - start14 ELSE 0
        /\ row = RowAt(14, frame.ip14)
    BY DEF FrameInv, DecodedInv
  <2>3. tcpAt = 14 + 4 * frame.ip14.ihl /\ start14 = tcpAt + 4 * frame.ip14.doff
    BY <2>1, Offsets
  <2>4. /\ row.proto = ProtoName(frame.ip14.proto) /\ row.at = 14
        /\ row.ports = (\/ frame.ip14.proto = 6 /\ frame.size >= tcpAt + 20
                        \/ frame.ip14.proto = 17 /\ frame.size >= tcpAt + 8)
        /\ frame.ip14.proto = 6 /\ frame.size >= tcpAt + 20 =>
             IF frame.ip14.doff >= 5 /\ start14 <= frame.size
             THEN row.payload = frame.size - start14 ELSE row.payload = 0
    BY <2>1, <2>2, <2>3, RowIs
  <2>5. /\ row.proto = "TCP" <=> frame.ip14.proto = 6
        /\ row.proto = "UDP" <=> frame.ip14.proto = 17
        /\ row.proto \in {"ICMP", "IP"} <=> frame.ip14.proto \notin {6, 17}
    BY <2>1, <2>4, ProtoNameIs
  <2>6. live.type = "TCP" <=> row.proto = "TCP" /\ row.ports BY <2>2, <2>4, <2>5
  <2>7. live.type = "UDP" <=> row.proto = "UDP" /\ row.ports BY <2>2, <2>4, <2>5
  <2>8. live.type = "TCP" /\ frame.ip14.doff >= 5 => row.payload = live.payload
    BY <2>1, <2>2, <2>4, Offsets
  <2> QED BY <2>2, <2>4, <2>5, <2>6, <2>7, <2>8
<1> QED BY <1>1, FrameInvariant, PTL

-----------------------------------------------------------------------------
\* The other way round: a row of a frame behind an Ethernet header is that of a
\* well formed frame, and the page leaves no valid payload out.
FoundInv ==
  /\ row.at = 14 => WellFormed
  /\ pc = "done" /\ IsTcp /\ frame.size >= tcpAt + 20
       /\ frame.ip14.doff >= 5 /\ start14 <= frame.size => payload = start14

\* A frame whose IP header the parser takes is well formed.
LEMMA TakenIsWellFormed ==
  ASSUME frame \in Frames, frame.ether, ParseAt(14, frame.ip14)
  PROVE  WellFormed
<1>1. /\ frame.size \in Nat /\ frame.ip14.ihl \in Nat
      /\ tcpAt = 14 + 4 * frame.ip14.ihl
  BY Offsets
<1>2. /\ frame.ip14.version = 4 /\ 4 * frame.ip14.ihl >= 20
      /\ 4 * frame.ip14.ihl <= frame.size - 14
  BY DEF ParseAt, Bytes
<1> QED BY <1>1, <1>2 DEF WellFormed

LEMMA FoundStep ==
  ASSUME FrameInv, FoundInv, [Next]_vars
  PROVE  FoundInv'
<1>0. TypeOK /\ frame \in Frames BY DEF FrameInv, TypeOK
<1>1. CASE IdentifyPacketType \/ CreatePacket \/ Parse \/ SkipEthernet
  <2>1. UNCHANGED <<frame, row>> /\ pc' # "done"
    BY <1>1 DEF IdentifyPacketType, CreatePacket, CreateWith, Parse, SkipEthernet
  <2> QED BY <2>1, SameFrame DEF FoundInv
<1>2. CASE TryEthernet
  <2>1. /\ UNCHANGED frame /\ pc' # "done" /\ frame.ether
        /\ UNCHANGED row \/ ParseAt(14, frame.ip14)
    BY <1>2 DEF TryEthernet, Try
  <2>2. row'.at = 14 => WellFormed BY <1>0, <2>1, TakenIsWellFormed DEF FoundInv
  <2> QED BY <2>1, <2>2, SameFrame DEF FoundInv
<1>3. ASSUME NEW off \in {0, 4}, NEW h \in Header, NEW here, NEW next,
             Try(off, h, here, next), next # "done"
      PROVE  FoundInv'
  <2>1. /\ UNCHANGED frame /\ pc' # "done"
        /\ UNCHANGED row \/ row' = RowAt(off, h)
    BY <1>3 DEF Try
  <2>2. RowAt(off, h).at = off BY <1>0, <1>3, RowIs
  <2>3. row'.at = 14 => WellFormed BY <2>1, <2>2 DEF FoundInv
  <2> QED BY <2>1, <2>3, SameFrame DEF FoundInv
<1>4. CASE TryRaw \/ TryLoopback
  <2>1. frame.ip0 \in Header /\ frame.ip4 \in Header BY <1>0, FieldTypes
  <2> QED BY <1>3, <1>4, <2>1 DEF TryRaw, TryLoopback
<1>5. CASE ExtractTcpPayload
  <2>1. UNCHANGED <<frame, row>> BY <1>5 DEF ExtractTcpPayload, ExtractIf
  <2>2. IsTcp /\ frame.size >= tcpAt + 20 /\ frame.ip14.doff >= 5 /\ start14 <= frame.size
          => payload' = start14
    BY <1>5 DEF ExtractTcpPayload, ExtractIf, start14
  <2> QED BY <2>1, <2>2, SameFrame DEF FoundInv
<1>6. CASE UNCHANGED vars BY <1>6, SameFrame DEF vars, FoundInv
<1> QED BY <1>1, <1>2, <1>4, <1>5, <1>6 DEF Next

LEMMA FoundInvariant == Spec => []FoundInv
<1>1. Init => FoundInv BY DEF Init, NoRow, FoundInv
<1>2. FrameInv /\ FoundInv /\ [Next]_vars => FoundInv' BY FoundStep
<1> QED BY <1>1, <1>2, FrameInvariant, PTL DEF Spec

\* The payload in a row of output.txt is found by the HTTP page as well: its own
\* rules leave out no TCP packet behind an Ethernet header.
LEMMA WrittenIsFound ==
  ASSUME FrameInv, FoundInv, pc = "done", row.proto = "TCP", row.at = 14, row.payload # 0
  PROVE  payload = frame.size - row.payload
<1>1. WellFormed /\ row = RowAt(14, frame.ip14) BY DEF FoundInv, FrameInv, DecodedInv
<1>2. frame \in Frames /\ frame.ip14 \in Header /\ frame.ip14.proto \in Nat
  BY FieldTypes DEF FrameInv, TypeOK, Header
<1>3. /\ frame.size \in Nat /\ tcpAt \in Nat /\ start14 \in Nat
      /\ tcpAt = 14 + 4 * frame.ip14.ihl /\ start14 = tcpAt + 4 * frame.ip14.doff
  BY <1>2, Offsets
<1>4. frame.ip14.proto = 6 BY <1>1, <1>2, RowIs, ProtoNameIs
<1>5. /\ frame.size >= tcpAt + 20 /\ frame.ip14.doff >= 5 /\ start14 <= frame.size
      /\ row.payload = frame.size - start14
  <2>1. CASE ~(frame.size >= tcpAt + 20)
    <3>1. row.payload = 0
      BY <1>1, <1>2, <1>3, <1>4, <2>1 DEF RowAt, RowIf, L4, Bytes
    <3> QED BY <3>1
  <2>2. CASE frame.size >= tcpAt + 20
    BY <1>1, <1>2, <1>3, <1>4, <2>2, RowIs
  <2> QED BY <2>1, <2>2
<1>6. IsTcp
  <2>1. frame.size >= 34 /\ ParseAt(14, frame.ip14) BY <1>1, <1>2, WellFormedSize
  <2> QED BY <1>1, <1>4, <2>1 DEF IsTcp, WellFormed, ParseAt
<1>7. payload = start14 BY <1>5, <1>6 DEF FoundInv
<1> QED BY <1>3, <1>5, <1>7

(* What the HTTP page analyses behind an Ethernet header are exactly the    *)
(* payloads that were written, and all three decoders agree on their        *)
(* length.                                                                  *)
THEOREM PayloadsAgree == Spec => []PayloadAgrees
<1>1. FrameInv /\ FoundInv => PayloadAgrees
  BY FoundIsWritten, WrittenIsFound DEF PayloadAgrees
<1> QED BY <1>1, FrameInvariant, FoundInvariant, PTL
=============================================================================
