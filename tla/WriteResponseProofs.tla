------------------------- MODULE WriteResponseProofs -------------------------
(***************************************************************************)
(* What CHttp::Write sends, for headers and files of any length and any    *)
(* sequence of partial writes.                                             *)
(***************************************************************************)
EXTENDS WriteResponse, SequenceTheorems, TLAPS

Ints == -IntMax - 1 .. IntMax

LEMMA WrapType == ASSUME NEW x \in Int PROVE Wrap(x) \in Ints
<1>. DEFINE n == 2 * IntMax + 2
            y == x + IntMax + 1
<1>1. n \in Nat \ {0} /\ y \in Int
  BY WriteAssumption
<1>2. y % n \in 0 .. n - 1
  <2>. HIDE DEF n, y
  <2>. QED
    BY <1>1
<1>. QED
  BY <1>2, WriteAssumption DEF Wrap, Ints

LEMMA WrapSmall == ASSUME NEW x \in Ints PROVE Wrap(x) = x
BY DEF Wrap, Ints

\* Nothing is left over from one response to the next.
Fresh == wpc = "idle" => m_iWriteIdx = 0 /\ m_iDataLen = 0 /\ m_iDataSendLen = 0

InFlight == wpc \in {"waiting", "writing"} /\ Fits /\ m_iDataLen # 0

\* Both counts are right while the response fits into an int.
Counted ==
  InFlight => /\ m_iDataLen > 0
              /\ m_iDataSendLen = Len(sent)
              /\ m_iDataLen + m_iDataSendLen = m_iWriteIdx + st_size

\* What m_sIv holds, when at most one write has ended inside the header: the rest
\* of the header with the file, or the rest of the file.
HeaderLeft ==
  /\ Len(sent) < m_iWriteIdx
  /\ base0 = Len(sent) /\ len0 = m_iWriteIdx - Len(sent)
  /\ base1 = 0 /\ len1 = st_size
  /\ sent = <<>> \/ short = 1

FileLeft ==
  /\ Len(sent) >= m_iWriteIdx
  /\ len0 = 0 /\ 0 <= base0 /\ base0 <= m_iWriteIdx
  /\ base1 = Len(sent) - m_iWriteIdx
  /\ len1 = m_iWriteIdx + st_size - Len(sent)

Prefix == \A i \in DOMAIN sent : sent[i] = Due(i - 1)

RestIsRight == InFlight /\ short <= 1 => (HeaderLeft \/ FileLeft) /\ Prefix

EndIsRight ==
  wpc = "over" /\ Fits /\ short <= 1 =>
    Len(sent) = m_iWriteIdx + st_size /\ m_iDataLen = 0 /\ Prefix

NothingSent == wpc = "waiting" /\ m_iDataLen = 0 => sent = <<>>

WritingSome == wpc = "writing" => m_iDataLen # 0

SendInv ==
  TypeOK /\ Fresh /\ Counted /\ RestIsRight /\ EndIsRight /\ NothingSent /\ WritingSome

-----------------------------------------------------------------------------
LEMMA SendInit == Init => SendInv
<1>. SUFFICES ASSUME Init PROVE SendInv
  OBVIOUS
<1>. USE DEF Init
<1>1. sent \in Seq({"header", "file"} \X Int) /\ Len(sent) = 0
  BY EmptySeq
<1>2. TypeOK
  BY <1>1, WriteAssumption DEF TypeOK
<1>. QED
  BY <1>2 DEF SendInv, Fresh, Counted, InFlight, RestIsRight, EndIsRight, NothingSent, WritingSome

LEMMA ParseFileKeeps == SendInv /\ ParseFile => SendInv'
<1>. SUFFICES ASSUME SendInv, ParseFile PROVE SendInv'
  OBVIOUS
<1>1. PICK h \in 1 .. MaxHeader, f \in 0 .. MaxFile :
        /\ m_iWriteIdx' = h /\ st_size' = f
        /\ m_iDataLen' = Wrap(h + f)
        /\ base0' = 0 /\ len0' = h /\ base1' = 0 /\ len1' = f
  <2>1. m_iWriteIdx = 0
    BY DEF SendInv, Fresh, ParseFile
  <2>. QED
    BY <2>1 DEF ParseFile
<1>2. /\ wpc' = "waiting" /\ sent' = <<>> /\ short' = 0
      /\ m_iDataSendLen = 0 /\ m_iDataSendLen' = 0
  BY DEF ParseFile, SendInv, Fresh
<1>3. h \in Nat /\ h > 0 /\ f \in Nat /\ m_iDataLen' \in Ints
  BY <1>1, WrapType, WriteAssumption
<1>4. Len(sent') = 0 /\ sent' \in Seq({"header", "file"} \X Int) /\ DOMAIN sent' = {}
  BY <1>2, EmptySeq
<1>5. TypeOK'
  BY <1>1, <1>2, <1>3, <1>4, WriteAssumption DEF TypeOK, Ints
<1>6. Fits' => m_iDataLen' = h + f
  BY <1>1, <1>3, WrapSmall, WriteAssumption DEF Fits, Ints
<1>7. Counted'
  BY <1>1, <1>2, <1>3, <1>4, <1>6 DEF Counted, InFlight
<1>8. RestIsRight'
  BY <1>1, <1>2, <1>3, <1>4 DEF RestIsRight, HeaderLeft, Prefix
<1>. QED
  BY <1>2, <1>5, <1>7, <1>8 DEF SendInv, Fresh, EndIsRight, NothingSent, WritingSome

LEMMA ParseTextKeeps == SendInv /\ ParseText => SendInv'
<1>. SUFFICES ASSUME SendInv, ParseText PROVE SendInv'
  OBVIOUS
<1>1. PICK h \in 1 .. MaxHeader : m_iWriteIdx' = h
  BY DEF ParseText, SendInv, Fresh
<1>2. /\ wpc' = "waiting" /\ sent' = <<>> /\ short' = 0
      /\ m_iDataLen' = 0 /\ m_iDataSendLen' = 0
      /\ UNCHANGED <<st_size, iov>>
  BY DEF ParseText, SendInv, Fresh
<1>3. sent' \in Seq({"header", "file"} \X Int)
  BY <1>2, EmptySeq
<1>4. TypeOK'
  BY <1>1, <1>2, <1>3, WriteAssumption DEF SendInv, TypeOK, iov
<1>. QED
  BY <1>2, <1>4 DEF SendInv, Fresh, Counted, InFlight, RestIsRight, EndIsRight, NothingSent,
                    WritingSome

\* Write has begun, waits or has failed, or the connection is given up.
LEMMA ControlKeeps ==
  SendInv /\ (WriteNothing \/ WriteStarts \/ WriteBlocked \/ WriteFails \/ NewConnection
              \/ UNCHANGED vars) => SendInv'
<1>. SUFFICES ASSUME SendInv,
                     WriteNothing \/ WriteStarts \/ WriteBlocked \/ WriteFails
                       \/ NewConnection \/ UNCHANGED vars
              PROVE  SendInv'
  OBVIOUS
<1>1. CASE WriteNothing \/ NewConnection
  <2>1. /\ wpc' = "idle" /\ UNCHANGED <<st_size, iov, sent, short>>
        /\ m_iWriteIdx' = 0 /\ m_iDataLen' = 0 /\ m_iDataSendLen' = 0
    BY <1>1 DEF WriteNothing, NewConnection, Reset
  <2>2. TypeOK'
    BY <2>1, WriteAssumption DEF SendInv, TypeOK, iov
  <2>. QED
    BY <2>1, <2>2 DEF SendInv, Fresh, Counted, InFlight, RestIsRight, EndIsRight, NothingSent,
                      WritingSome
<1>2. CASE WriteStarts \/ WriteBlocked \/ WriteFails \/ UNCHANGED vars
  <2>1. UNCHANGED <<m_iWriteIdx, st_size, m_iDataLen, m_iDataSendLen, iov, sent, short>>
    BY <1>2 DEF WriteStarts, WriteBlocked, WriteFails, vars
  <2>2. /\ wpc' \in {"idle", "waiting", "writing", "over", "failed"}
        /\ \/ wpc' = wpc \/ wpc' = "failed"
           \/ wpc = "waiting" /\ wpc' = "writing" /\ m_iDataLen # 0
           \/ wpc = "writing" /\ wpc' = "waiting"
    BY <1>2 DEF WriteStarts, WriteBlocked, WriteFails, vars, SendInv, TypeOK
  <2>3. TypeOK'
    BY <2>1, <2>2 DEF SendInv, TypeOK, iov
  <2>4. InFlight' => InFlight
    BY <2>1, <2>2 DEF InFlight, Fits
  <2>5. Counted'
    BY <2>1, <2>4 DEF SendInv, Counted
  <2>6. RestIsRight'
    BY <2>1, <2>4 DEF SendInv, RestIsRight, HeaderLeft, FileLeft, Prefix, Due, iov
  <2>7. EndIsRight'
    BY <2>1, <2>2 DEF SendInv, EndIsRight, Fits, Prefix, Due
  <2>8. Fresh' /\ WritingSome' /\ NothingSent'
    BY <2>1, <2>2 DEF SendInv, Fresh, WritingSome, NothingSent
  <2>. QED
    BY <2>3, <2>5, <2>6, <2>7, <2>8 DEF SendInv
<1>. QED
  BY <1>1, <1>2

LEMMA TakenIs ==
  ASSUME NEW k \in Nat, base0 \in Int, base1 \in Int, len0 \in Nat,
         sent \in Seq({"header", "file"} \X Int), sent' = sent \o Taken(k)
  PROVE  /\ sent' \in Seq({"header", "file"} \X Int)
         /\ Len(sent') = Len(sent) + k
         /\ \A i \in 1 .. Len(sent) : sent'[i] = sent[i]
         /\ \A i \in Len(sent) + 1 .. Len(sent) + k : sent'[i] = Taken(k)[i - Len(sent)]
<1>1. Taken(k) \in Seq({"header", "file"} \X Int) /\ Len(Taken(k)) = k
  BY IsASeq, LenProperties DEF Taken
<1>. QED
  BY <1>1, ConcatProperties

LEMMA WriteSomeKeeps == SendInv /\ WriteSome => SendInv'
<1>. SUFFICES ASSUME SendInv, WriteSome PROVE SendInv'
  OBVIOUS
<1>. DEFINE n == Len(sent)
            H == m_iWriteIdx
            F == st_size
<1>1. PICK k \in 1 .. IntMax :
        /\ k <= len0 + len1
        /\ m_iDataSendLen' = Wrap(m_iDataSendLen + k)
        /\ m_iDataLen' = Wrap(m_iDataLen - k)
        /\ sent' = sent \o Taken(k)
  BY DEF WriteSome
<1>2. /\ wpc = "writing" /\ m_iDataLen # 0
      /\ short' = IF Len(sent') < H THEN short + 1 ELSE short
      /\ UNCHANGED <<m_iWriteIdx, st_size>>
  BY DEF WriteSome, SendInv, WritingSome
<1>3. /\ H \in Nat /\ F \in Nat /\ n \in Nat /\ k \in Nat /\ k > 0 /\ IntMax \in Nat /\ k <= IntMax
      /\ m_iDataLen \in Int /\ m_iDataSendLen \in Int
      /\ m_iDataLen \in Ints /\ m_iDataSendLen \in Ints
      /\ base0 \in Int /\ base1 \in Int /\ len0 \in Nat /\ len1 \in Nat /\ short \in Nat
      /\ sent \in Seq({"header", "file"} \X Int)
  BY <1>1, WriteAssumption, LenProperties DEF SendInv, TypeOK, Ints
<1>4. /\ sent' \in Seq({"header", "file"} \X Int)
      /\ Len(sent') = n + k
      /\ \A i \in 1 .. n : sent'[i] = sent[i]
      /\ \A i \in n + 1 .. n + k : sent'[i] = Taken(k)[i - n]
  BY <1>1, <1>3, TakenIs
<1>5. DOMAIN sent = 1 .. n /\ DOMAIN sent' = 1 .. n + k
  BY <1>3, <1>4, LenProperties
<1>6. /\ m_iDataLen' \in Ints /\ m_iDataSendLen' \in Ints
      /\ m_iDataLen' \in Int /\ m_iDataSendLen' \in Int
  <2>1. m_iDataSendLen + k \in Int /\ m_iDataLen - k \in Int
    BY <1>3 DEF Ints
  <2>2. m_iDataLen' \in Ints /\ m_iDataSendLen' \in Ints
    BY <1>1, <2>1, WrapType
  <2>. QED
    BY <2>2, WriteAssumption DEF Ints
<1>. HIDE DEF n, H, F
<1>7. \/ m_iDataLen' <= 0 /\ wpc' = "over" /\ UNCHANGED iov
      \/ /\ m_iDataLen' > 0 /\ wpc' = "writing"
         /\ Advance(m_iDataSendLen', m_iDataLen')
  BY <1>2, <1>6 DEF WriteSome, Ints
<1>8. /\ base0' \in Int /\ base1' \in Int /\ len0' \in Nat /\ len1' \in Nat
  <2>1. CASE UNCHANGED iov
    BY <2>1, <1>3 DEF iov
  <2>2. CASE m_iDataLen' > 0 /\ Advance(m_iDataSendLen', m_iDataLen')
    BY <2>2, <1>3, <1>6 DEF Advance, HeaderSent, Ints, H
  <2>. QED
    BY <2>1, <2>2, <1>7
<1>9. TypeOK'
  <2>1. short' \in Nat /\ wpc' \in {"idle", "waiting", "writing", "over", "failed"}
    BY <1>2, <1>3, <1>7
  <2>. QED
    BY <1>2, <1>4, <1>6, <1>8, <2>1 DEF TypeOK, SendInv, Ints
<1>10. ASSUME Fits
       PROVE  /\ m_iDataLen > 0 /\ m_iDataSendLen = n /\ m_iDataLen + n = H + F
              /\ H + F <= IntMax
              /\ m_iDataLen' = m_iDataLen - k
  <2>1. m_iDataLen > 0 /\ m_iDataSendLen = n /\ m_iDataLen + n = H + F /\ H + F <= IntMax
    BY <1>2, <1>3, <1>10 DEF SendInv, Counted, InFlight, n, H, F, Fits
  <2>2. m_iDataLen - k \in Ints
    BY <2>1, <1>3 DEF Ints
  <2>. QED
    BY <2>1, <2>2, <1>1, WrapSmall
<1>11. ASSUME Fits, m_iDataLen' > 0 PROVE m_iDataSendLen' = n + k
  <2>1. n + k \in Ints
    BY <1>3, <1>10, <1>11 DEF Ints
  <2>. QED
    BY <2>1, <1>1, <1>10, <1>11, WrapSmall
<1>12. Counted'
  <2>. SUFFICES ASSUME Fits, m_iDataLen' > 0
                PROVE  m_iDataSendLen' = n + k /\ m_iDataLen' + (n + k) = H + F
    BY <1>2, <1>4, <1>7 DEF Counted, InFlight, Fits, H, F
  <2>. QED
    BY <1>3, <1>10, <1>11
<1>13. ASSUME Fits, short' <= 1 PROVE (HeaderLeft \/ FileLeft) /\ Prefix
  BY <1>2, <1>3, <1>10, <1>13 DEF SendInv, RestIsRight, InFlight
<1>14. ASSUME Fits, short' <= 1 PROVE k <= m_iDataLen
  BY <1>1, <1>3, <1>10, <1>13, <1>14 DEF HeaderLeft, FileLeft, n, H, F
<1>15. ASSUME Fits, short' <= 1 PROVE Prefix'
  <2>. SUFFICES ASSUME NEW i \in 1 .. n + k PROVE sent'[i] = Due(i - 1)
    BY <1>2, <1>5 DEF Prefix, Due
  <2>1. CASE i \in 1 .. n
    BY <2>1, <1>4, <1>5, <1>13, <1>15 DEF Prefix
  <2>2. CASE i \in n + 1 .. n + k
    <3>. DEFINE j == i - n
    <3>0. j \in 1 .. k /\ sent'[i] = Taken(k)[j]
      BY <2>2, <1>3, <1>4
    <3>. HIDE DEF j
    <3>1. sent'[i] = IF j <= len0 THEN <<"header", base0 + j - 1>>
                                  ELSE <<"file", base1 + (j - len0) - 1>>
      BY <3>0 DEF Taken
    <3>2. CASE HeaderLeft
      BY <3>1, <3>2, <2>2, <1>3 DEF HeaderLeft, Due, n, H, j
    <3>3. CASE FileLeft
      <4>1. len0 = 0 /\ n >= H /\ base1 = n - H /\ j > len0 /\ j \in Nat
        BY <3>0, <3>3, <1>3 DEF FileLeft, n, H
      <4>2. sent'[i] = <<"file", n - H + j - 1>>
        BY <3>1, <4>1, <1>3
      <4>3. i - 1 >= H /\ n - H + j - 1 = (i - 1) - H
        BY <2>2, <4>1, <1>3 DEF j
      <4>. QED
        BY <4>2, <4>3, <1>3 DEF Due, H
    <3>. QED
      BY <3>2, <3>3, <1>13, <1>15
  <2>. QED
    BY <2>1, <2>2, <1>3
<1>16. EndIsRight'
  <2>. SUFFICES ASSUME wpc' = "over", Fits, short' <= 1
                PROVE  Len(sent') = H + F /\ m_iDataLen' = 0
    BY <1>2, <1>15 DEF EndIsRight, Fits, H, F
  <2>. QED
    BY <1>3, <1>4, <1>6, <1>7, <1>10, <1>14
<1>17. RestIsRight'
  <2>. SUFFICES ASSUME Fits, short' <= 1, m_iDataLen' > 0,
                       Advance(n + k, m_iDataLen')
                PROVE  HeaderLeft' \/ FileLeft'
    BY <1>2, <1>7, <1>11, <1>15 DEF RestIsRight, InFlight, Fits
  <2>1. CASE HeaderLeft /\ n + k < H
    <3>1. short = 0 /\ short' = 1 /\ n = 0 /\ len0 = H /\ base1 = 0 /\ len1 = F
      <4>1. short' = short + 1
        BY <2>1, <1>2, <1>4 DEF H
      <4>2. short = 0 /\ short' = 1
        BY <4>1, <1>3
      <4>3. sent = <<>>
        BY <2>1, <4>2 DEF HeaderLeft
      <4>4. n = 0
        BY <4>3, EmptySeq DEF n
      <4>. QED
        BY <2>1, <4>2, <4>4, <1>3 DEF HeaderLeft, n, H, F
    <3>2. base0' = n + k /\ len0' = H - (n + k) /\ base1' = 0 /\ len1' = F
      BY <2>1, <3>1, <1>3 DEF Advance, HeaderSent
    <3>. QED
      BY <2>1, <3>1, <3>2, <1>2, <1>4 DEF HeaderLeft, H, F
  <2>2. CASE HeaderLeft /\ n + k >= H
    <3>1. n + k >= len0 /\ base0 = n /\ n < H
      BY <2>2, <1>3 DEF HeaderLeft, n, H
    <3>2. len0' = 0 /\ base1' = n + k - H /\ len1' = m_iDataLen' /\ base0' = n
      BY <3>1, <1>3 DEF Advance, HeaderSent, H
    <3>. QED
      BY <2>2, <3>1, <3>2, <1>2, <1>3, <1>4, <1>10 DEF FileLeft, H, F
  <2>3. CASE FileLeft
    <3>1. len0 = 0 /\ n >= H /\ 0 <= base0 /\ base0 <= H
      BY <2>3 DEF FileLeft, n, H
    <3>2. len0' = 0 /\ base1' = n + k - H /\ len1' = m_iDataLen' /\ base0' = base0
      BY <3>1, <1>3 DEF Advance, HeaderSent, H
    <3>. QED
      BY <3>1, <3>2, <1>2, <1>3, <1>4, <1>10 DEF FileLeft, H, F
  <2>. QED
    BY <2>1, <2>2, <2>3, <1>3, <1>13
<1>18. Fresh' /\ NothingSent' /\ WritingSome'
  BY <1>7 DEF Fresh, NothingSent, WritingSome
<1>. QED
  BY <1>9, <1>12, <1>16, <1>17, <1>18 DEF SendInv

LEMMA SendInvariant == Spec => []SendInv
<1>1. SendInv /\ [Next]_vars => SendInv'
  BY ParseFileKeeps, ParseTextKeeps, ControlKeeps, WriteSomeKeeps DEF Next
<1>. QED
  BY <1>1, SendInit, PTL DEF Spec

-----------------------------------------------------------------------------
\* The same of one state: when Write is done (http.cpp:543), under both conditions.
LEMMA WholeFollows == SendInv => WholeResponse
  BY DEF SendInv, EndIsRight, WholeResponse

\* A response whose length fits an int (http.cpp:685) is taken for sent only when
\* all of it is, as long as at most one writev of it ended inside the header
\* (http.cpp:543, 562).
THEOREM WholeCorrect == Spec => []WholeResponse
  BY WholeFollows, SendInvariant, PTL

\* The bytes written are the beginning of the response, whatever writev takes, as
\* long as no two writes end inside the header (http.cpp:562); when Write is done,
\* they are all of it.
THEOREM StreamCorrect == Spec => []StreamIsResponse
<1>1. SendInv => StreamIsResponse
  <2>. SUFFICES ASSUME SendInv, UnderWay, Fits, short <= 1 PROVE Prefix
    BY WholeFollows DEF StreamIsResponse, Prefix
  <2>1. CASE wpc = "over"
    BY <2>1 DEF SendInv, EndIsRight
  <2>2. CASE InFlight
    BY <2>2 DEF SendInv, RestIsRight
  <2>3. CASE wpc \in {"waiting", "writing"} /\ m_iDataLen = 0
    <3>1. sent = <<>>
      BY <2>3 DEF SendInv, WritingSome, NothingSent
    <3>. QED
      BY <3>1 DEF Prefix
  <2>. QED
    BY <2>1, <2>2, <2>3 DEF UnderWay, InFlight
<1>. QED
  BY <1>1, SendInvariant, PTL

\* writev is given no byte outside of the header and the mapping (http.cpp:564, 568)
\* as long as the response's length fits an int and at most one writev of it ended
\* inside the header; a second one moves the second buffer's base in front of the
\* mapping (http.cpp:569, then 564).
THEOREM BoundsCorrect == Spec => []IovInBounds
<1>1. SendInv => IovInBounds
  <2>. SUFFICES ASSUME SendInv, UnderWay, m_iDataLen > 0, Fits, short <= 1
                PROVE  /\ 0 <= base0 /\ base0 + len0 <= m_iWriteIdx
                       /\ 0 <= base1 /\ base1 + len1 <= st_size
    BY DEF IovInBounds
  <2>1. wpc # "over"
    BY DEF SendInv, EndIsRight
  <2>2. HeaderLeft \/ FileLeft
    BY <2>1 DEF SendInv, RestIsRight, InFlight, UnderWay
  <2>3. /\ sent \in Seq({"header", "file"} \X Int) /\ Len(sent) \in Nat
        /\ m_iWriteIdx \in Nat /\ st_size \in Nat /\ base0 \in Int
    BY LenProperties DEF SendInv, TypeOK
  <2>. QED
    BY <2>2, <2>3 DEF HeaderLeft, FileLeft
<1>. QED
  BY <1>1, SendInvariant, PTL

\* Every variable keeps its type.
THEOREM WriteTypeCorrect == Spec => []TypeOK
<1>1. SendInv => TypeOK
  BY DEF SendInv
<1>. QED
  BY <1>1, SendInvariant, PTL
=============================================================================
