---------------------------- MODULE TlsClientHello ----------------------------
(***************************************************************************)
(* HttpPage::parseTLSClientHello: the walk of one position over a payload. *)
(* The bytes are not fixed in advance: a byte is read at most once, so its *)
(* value is chosen when it is read.                                        *)
(***************************************************************************)
EXTENDS Naturals

CONSTANTS
  MaxLen,  \* bound: length of a payload
  Len8,    \* values of the one-byte length fields, out of 0..255
  Len16    \* values of the two-byte length fields, out of 0..65535

ASSUME TlsAssumption ==
  /\ MaxLen \in Nat
  /\ Len8 \subseteq Nat
  /\ Len16 \subseteq Nat

VARIABLES
  pc,             \* the field that comes next, or how the parser returned
  len,            \* payload.size()
  pos,
  extensionsEnd,
  read,           \* one past the highest index of data[] read so far
  extEnd,         \* history: where the extension looked at last ends
  aligned,        \* history: that extension began where the one before ended
  hostnameLen

vars == <<pc, len, pos, extensionsEnd, read, extEnd, aligned, hostnameLen>>

Returned == {"nothing", "name"}

Init ==
  /\ pc = "record"
  /\ len \in 0..MaxLen
  /\ pos = 0
  /\ extensionsEnd = 0
  /\ read = 0
  /\ extEnd = 0
  /\ aligned = TRUE
  /\ hostnameLen = 0

-----------------------------------------------------------------------------
\* return "" unless `need' bytes are left
Continue(field, p, need, limit) ==
  /\ pos' = p
  /\ pc' = IF p + need > limit THEN "nothing" ELSE field

\* Record and handshake headers, version and random: 43 bytes, of which two
\* are looked at.
Headers ==
  /\ pc = "record"
  /\ \/ /\ len < 43
        /\ pc' = "nothing"
        /\ UNCHANGED <<pos, read>>
     \/ /\ len >= 43
        /\ pc' = "nothing"
        /\ \/ pos' = 0 /\ read' = 1
           \/ pos' = 5 /\ read' = 6
     \/ /\ len >= 43
        /\ read' = 6
        /\ Continue("sessionId", 43, 1, len)
  /\ UNCHANGED <<len, extensionsEnd, extEnd, aligned, hostnameLen>>

\* Seeded defect: one byte of the next length field is enough to go on.
SessionIdNeedsOne ==
  /\ pc = "sessionId"
  /\ read' = pos + 1
  /\ \E n \in Len8 : Continue("cipherSuites", pos + 1 + n, 1, len)
  /\ UNCHANGED <<len, extensionsEnd, extEnd, aligned, hostnameLen>>

SessionId ==
  /\ pc = "sessionId"
  /\ read' = pos + 1
  /\ \E n \in Len8 : Continue("cipherSuites", pos + 1 + n, 2, len)
  /\ UNCHANGED <<len, extensionsEnd, extEnd, aligned, hostnameLen>>

CipherSuites ==
  /\ pc = "cipherSuites"
  /\ read' = pos + 2
  /\ \E n \in Len16 : Continue("compression", pos + 2 + n, 1, len)
  /\ UNCHANGED <<len, extensionsEnd, extEnd, aligned, hostnameLen>>

Compression ==
  /\ pc = "compression"
  /\ read' = pos + 1
  /\ \E n \in Len8 : Continue("extensions", pos + 1 + n, 2, len)
  /\ UNCHANGED <<len, extensionsEnd, extEnd, aligned, hostnameLen>>

Extensions ==
  /\ pc = "extensions"
  /\ read' = pos + 2
  /\ pos' = pos + 2
  /\ extEnd' = pos + 2
  /\ \E n \in Len16 :
       /\ extensionsEnd' = pos + 2 + n
       /\ pc' = IF extensionsEnd' > len THEN "nothing" ELSE "extension"
  /\ UNCHANGED <<len, aligned, hostnameLen>>

-----------------------------------------------------------------------------
(* while (pos + 4 <= extensionsEnd) *)

LeaveLoop ==
  /\ pc = "extension"
  /\ pos + 4 > extensionsEnd
  /\ pc' = "nothing"
  /\ UNCHANGED <<len, pos, extensionsEnd, read, extEnd, aligned, hostnameLen>>

\* The header of an extension that is n bytes long.
ReadHeader(n) ==
  /\ pc = "extension"
  /\ pos + 4 <= extensionsEnd
  /\ read' = pos + 4
  /\ extEnd' = pos + 4 + n
  /\ aligned' = (aligned /\ pos = extEnd)
  /\ UNCHANGED <<len, extensionsEnd, hostnameLen>>

OtherExtension(n) == ReadHeader(n) /\ pos' = pos + 4 + n /\ UNCHANGED pc

\* Length of the list, and one byte for the type and two for a name to come.
ServerName(n) ==
  /\ ReadHeader(n)
  /\ \/ pos' = pos + 4 /\ pos' + 2 > extensionsEnd /\ pc' = "nothing"
     \/ pos' = pos + 6 /\ pos' + 3 > extensionsEnd /\ pc' = "nothing"
     \/ pos' = pos + 6 /\ pos' + 3 <= extensionsEnd /\ pc' = "entry"

\* Seeded defect: an entry of another type goes back to its extension.
OtherNameTypeRewinds ==
  /\ pc = "entry"
  /\ read' = pos + 1
  /\ pos' = pos - 6
  /\ pc' = "extension"
  /\ UNCHANGED <<len, extensionsEnd, extEnd, aligned, hostnameLen>>

OtherNameType ==
  /\ pc = "entry"
  /\ read' = pos + 1
  /\ pos' = pos + 1
  /\ pc' = "extension"
  /\ UNCHANGED <<len, extensionsEnd, extEnd, aligned, hostnameLen>>

\* Seeded defect: the bytes of the length are put together wrongly.
HostNameShifted(n) ==
  /\ pc = "entry"
  /\ read' = pos + 3
  /\ pos' = pos + 3
  /\ hostnameLen' = n * 65536
  /\ pc' = IF pos' + n <= extensionsEnd THEN "name" ELSE "extension"
  /\ UNCHANGED <<len, extensionsEnd, extEnd, aligned>>

\* Seeded defect: the length of the name is believed.
HostNameUnchecked(n) ==
  /\ pc = "entry"
  /\ read' = pos + 3
  /\ pos' = pos + 3
  /\ hostnameLen' = n
  /\ pc' = "name"
  /\ UNCHANGED <<len, extensionsEnd, extEnd, aligned>>

\* A name that does not fit is passed over, from where it would have begun.
HostName(n) ==
  /\ pc = "entry"
  /\ read' = pos + 3
  /\ pos' = pos + 3
  /\ hostnameLen' = n
  /\ pc' = IF pos' + n <= extensionsEnd THEN "name" ELSE "extension"
  /\ UNCHANGED <<len, extensionsEnd, extEnd, aligned>>

Next ==
  \/ Headers \/ SessionId \/ CipherSuites \/ Compression \/ Extensions
  \/ LeaveLoop
  \/ \E n \in Len16 : OtherExtension(n) \/ ServerName(n) \/ HostName(n)
  \/ OtherNameType

Spec == Init /\ [][Next]_vars

\* A function that is called runs until it returns.
FairSpec == Spec /\ WF_vars(Next)

-----------------------------------------------------------------------------
(* Every variable has its type; positions stay near the payload.            *)
TypeOK ==
  /\ pc \in {"record", "sessionId", "cipherSuites", "compression",
             "extensions", "extension", "entry"} \cup Returned
  /\ len \in 0..MaxLen
  /\ pos \in Nat
  /\ extensionsEnd \in Nat
  /\ read \in Nat
  /\ extEnd \in Nat
  /\ aligned \in BOOLEAN
  /\ hostnameLen \in {0} \cup Len16

(* No byte outside the payload is read, whatever the length fields claim:   *)
(* every data[pos] is behind a test that covers it, with those of earlier   *)
(* fields still in force (HttpPage.cpp:324-411).                            *)
ReadsInBounds == read <= len

(* The name handed out lies inside the extensions, and they inside the      *)
(* payload, so the string is made of captured bytes only.                   *)
NameInExtensions ==
  pc = "name" => pos + hostnameLen <= extensionsEnd /\ extensionsEnd <= len

(* The parser returns for every payload: lengths of zero do not hold it up. *)
Returns == <>(pc \in Returned)

\* Bytes of the payload the walk has not passed, and the return.
StepsLeft ==
  IF pc \in Returned THEN 0 ELSE 1 + (IF pos > len THEN 0 ELSE len - pos)

(* Every field moves the walk on, whatever length it claims and wherever    *)
(* the walk goes wrong: it returns after at most one step for each byte of  *)
(* the payload and one more.                                                *)
WalkShrinks == [][StepsLeft' < StepsLeft]_vars

(* README.md:99 and HttpPage.cpp:388: the extensions are walked through one *)
(* by one, and the name is that of the server_name extension.  A name is    *)
(* taken only from an extension that starts where the one before it ends.   *)
NameIsServerName == pc = "name" /\ hostnameLen > 0 => aligned
=============================================================================
