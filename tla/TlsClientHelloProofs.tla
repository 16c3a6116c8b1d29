------------------------ MODULE TlsClientHelloProofs ------------------------
(***************************************************************************)
(* parseTLSClientHello stays inside the payload, for every length of the   *)
(* payload and every value of the length fields.                           *)
(***************************************************************************)
EXTENDS TlsClientHello, TLAPS

\* What the test in front of each field has established when it is read.
Tested ==
  /\ pc = "record" => pos = 0
  /\ pc = "sessionId" => pos + 1 <= len
  /\ pc = "cipherSuites" => pos + 2 <= len
  /\ pc = "compression" => pos + 1 <= len
  /\ pc = "extensions" => pos + 2 <= len
  /\ pc \in {"extension", "entry", "name"} => extensionsEnd <= len
  /\ pc = "entry" => pos + 3 <= extensionsEnd

TlsInv == TypeOK /\ ReadsInBounds /\ NameInExtensions /\ Tested

\* The invariant holds when the parser is called.
LEMMA TlsInvInit == Init => TlsInv
BY TlsAssumption DEF Init, TlsInv, TypeOK, ReadsInBounds, NameInExtensions,
   Tested, Returned

\* The invariant is inductive.
LEMMA TlsInvStep == TlsInv /\ [Next]_vars => TlsInv'
<1> SUFFICES ASSUME TlsInv, [Next]_vars PROVE TlsInv'
  OBVIOUS
<1> USE TlsAssumption
    DEF TlsInv, TypeOK, ReadsInBounds, NameInExtensions, Tested, Returned
<1>1. CASE Headers
  <2>1. CASE len < 43
    BY <1>1, <2>1 DEF Headers
  <2>2. CASE len >= 43 /\ pc' = "nothing" /\ pos' \in {0, 5} /\ read' \in {1, 6}
    BY <1>1, <2>2 DEF Headers
  <2>3. CASE len >= 43 /\ read' = 6 /\ Continue("sessionId", 43, 1, len)
    BY <1>1, <2>3 DEF Headers, Continue
  <2> QED BY <1>1, <2>1, <2>2, <2>3 DEF Headers
<1>2. CASE SessionId
  <2>1. PICK n \in Len8 : Continue("cipherSuites", pos + 1 + n, 2, len)
    BY <1>2 DEF SessionId
  <2> QED BY <1>2, <2>1 DEF SessionId, Continue
<1>3. CASE CipherSuites
  <2>1. PICK n \in Len16 : Continue("compression", pos + 2 + n, 1, len)
    BY <1>3 DEF CipherSuites
  <2> QED BY <1>3, <2>1 DEF CipherSuites, Continue
<1>4. CASE Compression
  <2>1. PICK n \in Len8 : Continue("extensions", pos + 1 + n, 2, len)
    BY <1>4 DEF Compression
  <2> QED BY <1>4, <2>1 DEF Compression, Continue
<1>5. CASE Extensions
  <2>1. PICK n \in Len16 :
          /\ extensionsEnd' = pos + 2 + n
          /\ pc' = IF extensionsEnd' > len THEN "nothing" ELSE "extension"
    BY <1>5 DEF Extensions
  <2> QED BY <1>5, <2>1 DEF Extensions
<1>6. CASE LeaveLoop
  BY <1>6 DEF LeaveLoop
<1>7. ASSUME NEW n \in Len16, OtherExtension(n) PROVE TlsInv'
  BY <1>7 DEF OtherExtension, ReadHeader
<1>8. ASSUME NEW n \in Len16, ServerName(n) PROVE TlsInv'
  <2>1. /\ pos' \in Nat /\ extEnd' \in Nat /\ aligned' \in BOOLEAN
        /\ read' = pos + 4 /\ pos + 4 <= extensionsEnd /\ extensionsEnd <= len
        /\ UNCHANGED <<len, extensionsEnd, hostnameLen>>
    BY <1>8 DEF ServerName, ReadHeader
  <2>2. \/ pc' = "nothing"
        \/ pc' = "entry" /\ pos' + 3 <= extensionsEnd
    BY <1>8 DEF ServerName
  <2>3. read' <= len' /\ len' \in 0..MaxLen BY <2>1
  <2>4. TypeOK'
    <3>1. pc' \in {"record", "sessionId", "cipherSuites", "compression",
                   "extensions", "extension", "entry"} \cup Returned
      BY <2>2
    <3>2. extensionsEnd' \in Nat /\ read' \in Nat /\ hostnameLen' \in {0} \cup Len16
      BY <2>1
    <3> QED BY <2>1, <2>3, <3>1, <3>2, Zenon
  <2> QED BY <2>1, <2>2, <2>3, <2>4
<1>9. ASSUME NEW n \in Len16, HostName(n) PROVE TlsInv'
  BY <1>9 DEF HostName
<1>10. CASE OtherNameType
  BY <1>10 DEF OtherNameType
<1>11. CASE UNCHANGED vars
  BY <1>11 DEF vars
<1> QED BY <1>1, <1>2, <1>3, <1>4, <1>5, <1>6, <1>7, <1>8, <1>9, <1>10, <1>11
        DEF Next

\* Every reachable state satisfies the invariant.
LEMMA TlsInvariant == Spec => []TlsInv
BY TlsInvInit, TlsInvStep, PTL DEF Spec

-----------------------------------------------------------------------------
(* The walk's positions are what they should be, from the first field on.   *)
THEOREM TlsTypeCorrect == Spec => []TypeOK
<1>1. TlsInv => TypeOK BY DEF TlsInv
<1> QED BY <1>1, TlsInvariant, PTL

(* No byte outside the payload is read.                                     *)
THEOREM TlsReadsInBounds == Spec => []ReadsInBounds
<1>1. TlsInv => ReadsInBounds BY DEF TlsInv
<1> QED BY <1>1, TlsInvariant, PTL

(* The name returned is a part of the extensions, they of the payload.      *)
THEOREM TlsNameInExtensions == Spec => []NameInExtensions
<1>1. TlsInv => NameInExtensions BY DEF TlsInv
<1> QED BY <1>1, TlsInvariant, PTL

-----------------------------------------------------------------------------
\* A step of the walk returns, or takes it from inside the payload further on.
LEMMA WalkStep ==
  ASSUME TlsInv, Next
  PROVE  /\ pc \notin Returned
         /\ len' = len /\ pos' \in Nat
         /\ pc' \in Returned \/ (pos < len /\ pos < pos')
<1> USE TlsAssumption DEF TlsInv, TypeOK, Tested, Returned
<1>1. CASE Headers BY <1>1 DEF Headers, Continue
<1>2. CASE SessionId
  <2>1. PICK n \in Len8 : Continue("cipherSuites", pos + 1 + n, 2, len)
    BY <1>2 DEF SessionId
  <2> QED BY <1>2, <2>1 DEF SessionId, Continue
<1>3. CASE CipherSuites
  <2>1. PICK n \in Len16 : Continue("compression", pos + 2 + n, 1, len)
    BY <1>3 DEF CipherSuites
  <2> QED BY <1>3, <2>1 DEF CipherSuites, Continue
<1>4. CASE Compression
  <2>1. PICK n \in Len8 : Continue("extensions", pos + 1 + n, 2, len)
    BY <1>4 DEF Compression
  <2> QED BY <1>4, <2>1 DEF Compression, Continue
<1>5. CASE Extensions BY <1>5 DEF Extensions
<1>6. CASE LeaveLoop BY <1>6 DEF LeaveLoop
<1>7. ASSUME NEW n \in Len16, ReadHeader(n)
      PROVE  pos + 4 <= len /\ len' = len /\ n \in Nat /\ pc = "extension"
  BY <1>7 DEF ReadHeader
<1>8. ASSUME NEW n \in Len16, OtherExtension(n) \/ ServerName(n)
      PROVE  /\ pc \notin Returned /\ len' = len /\ pos' \in Nat
             /\ pos < len /\ pos < pos'
  <2>1. ReadHeader(n) BY <1>8 DEF OtherExtension, ServerName
  <2>2. pos' \in {pos + 4, pos + 6, pos + 4 + n} BY <1>8 DEF OtherExtension, ServerName
  <2> QED BY <1>7, <2>1, <2>2
<1>9. ASSUME NEW n \in Len16, HostName(n)
      PROVE  /\ pc \notin Returned /\ len' = len /\ pos' \in Nat
             /\ pos < len /\ pos < pos'
  BY <1>9 DEF HostName
<1>10. CASE OtherNameType BY <1>10 DEF OtherNameType
<1> QED BY <1>1, <1>2, <1>3, <1>4, <1>5, <1>6, <1>8, <1>9, <1>10 DEF Next

\* Further on there is less left.
LEMMA LessLeft ==
  ASSUME NEW l \in Nat, NEW p \in Nat, NEW q \in Nat, p < q
  PROVE  1 + (l - q) < 1 + (l - p)
OBVIOUS

(* The walk is over after at most one step for each byte of the payload and *)
(* one more, for every payload and every value of the length fields.        *)
THEOREM TlsWalkShrinks == Spec => WalkShrinks
<1>1. TlsInv /\ [Next]_vars => [StepsLeft' < StepsLeft]_vars
  <2> SUFFICES ASSUME TlsInv, Next PROVE StepsLeft' < StepsLeft OBVIOUS
  <2>1. len \in Nat /\ pos \in Nat BY TlsAssumption DEF TlsInv, TypeOK
  <2>2. /\ pc \notin Returned /\ len' = len /\ pos' \in Nat
        /\ pc' \in Returned \/ (pos < len /\ pos < pos')
    BY WalkStep
  <2>3. CASE pc' \in Returned BY <2>1, <2>2, <2>3 DEF StepsLeft
  <2>4. CASE pc' \notin Returned /\ pos < len /\ pos < pos'
    <3>1. StepsLeft = 1 + (len - pos) BY <2>1, <2>2, <2>4 DEF StepsLeft
    <3>2. StepsLeft' = 1 + (IF pos' > len THEN 0 ELSE len - pos')
      BY <2>2, <2>4 DEF StepsLeft
    <3>3. CASE pos' > len
      <4>1. StepsLeft' = 1 BY <3>2, <3>3
      <4>2. StepsLeft > 1 BY <2>1, <2>4, <3>1
      <4> QED BY <4>1, <4>2
    <3>4. CASE ~(pos' > len)
      <4>1. StepsLeft' = 1 + (len - pos') BY <3>2, <3>4
      <4>2. 1 + (len - pos') < 1 + (len - pos) BY <2>1, <2>2, <2>4, LessLeft
      <4> QED BY <3>1, <4>1, <4>2
    <3> QED BY <3>3, <3>4
  <2> QED BY <2>2, <2>3, <2>4
<1> QED BY <1>1, TlsInvariant, PTL DEF Spec, WalkShrinks
=============================================================================
