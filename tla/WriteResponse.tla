---------------------------- MODULE WriteResponse ----------------------------
(***************************************************************************)
(* CHttp::Write (http/http.cpp): sending a response, the header from       *)
(* m_aWriteData and the file from its mapping, with writev on a socket     *)
(* that takes any number of bytes or none.  EventLoop only knows that the  *)
(* bytes are written some day; here they are counted.                      *)
(***************************************************************************)
EXTENDS Integers, Sequences

CONSTANTS
  MaxHeader,  \* bound of the model: the longest header or text
  MaxFile,    \* bound of the model: the longest file
  IntMax      \* INT_MAX, the largest value of m_iDataLen and of writev's result

ASSUME WriteAssumption ==
  MaxHeader \in Nat \ {0} /\ MaxFile \in Nat /\ IntMax \in Nat /\ MaxHeader <= IntMax

VARIABLES
  m_iWriteIdx,     \* bytes in m_aWriteData
  st_size,         \* m_sFileStat.st_size, bytes in the mapping
  m_iDataLen, m_iDataSendLen, \* bytes to send, and sent; both of type int
  base0, len0,     \* m_sIv[0]: an offset in m_aWriteData, and a length
  base1, len1,     \* m_sIv[1]: an offset in the mapping, and a length
  wpc,             \* "idle": no response; "waiting": for EPOLLOUT; "writing": in
                   \* the loop of Write; "over", "failed": how Write ended
  sent,            \* history: the bytes the client gets
  short            \* history: how many calls of writev ended inside the header

iov == <<base0, len0, base1, len1>>
vars == <<m_iWriteIdx, st_size, m_iDataLen, m_iDataSendLen, iov, wpc, sent, short>>

\* Conversion to int
Wrap(x) ==
  IF x \in -IntMax - 1 .. IntMax THEN x
  ELSE ((x + IntMax + 1) % (2 * IntMax + 2)) - (IntMax + 1)

\* Byte i of the response, from 0
Due(i) ==
  IF i < m_iWriteIdx THEN <<"header", i>> ELSE <<"file", i - m_iWriteIdx>>

\* The k bytes writev takes from m_sIv
Taken(k) ==
  [i \in 1 .. k |-> IF i <= len0 THEN <<"header", base0 + i - 1>>
                                 ELSE <<"file", base1 + (i - len0) - 1>>]

Init ==
  /\ m_iWriteIdx = 0 /\ st_size = 0
  /\ m_iDataLen = 0 /\ m_iDataSendLen = 0
  /\ base0 = 0 /\ len0 = 0 /\ base1 = 0 /\ len1 = 0
  /\ wpc = "idle"
  /\ sent = <<>>
  /\ short = 0

\* ParseWrite, when a file is answered
ParseFile ==
  /\ wpc = "idle"
  /\ \E h \in 1 .. MaxHeader, f \in 0 .. MaxFile :
       /\ m_iWriteIdx' = m_iWriteIdx + h
       /\ st_size' = f
       /\ m_iDataLen' = Wrap(m_iWriteIdx' + f)
       /\ base0' = 0 /\ len0' = m_iWriteIdx'
       /\ base1' = 0 /\ len1' = f
  /\ wpc' = "waiting"
  /\ sent' = <<>> /\ short' = 0
  /\ UNCHANGED m_iDataSendLen

\* ParseWrite, when an error is answered: the text alone
ParseText ==
  /\ wpc = "idle"
  /\ \E h \in 1 .. MaxHeader : m_iWriteIdx' = m_iWriteIdx + h
  /\ wpc' = "waiting"
  /\ sent' = <<>> /\ short' = 0
  /\ UNCHANGED <<st_size, m_iDataLen, m_iDataSendLen, iov>>

\* Mutant of Reset: the header of the last response stays.
ResetKeeps == UNCHANGED m_iWriteIdx /\ m_iDataLen' = 0 /\ m_iDataSendLen' = 0

Reset == m_iWriteIdx' = 0 /\ m_iDataLen' = 0 /\ m_iDataSendLen' = 0

\* EPOLLOUT, and nothing to write
WriteNothing ==
  /\ wpc = "waiting"
  /\ m_iDataLen = 0
  /\ Reset
  /\ wpc' = "idle"
  /\ UNCHANGED <<st_size, iov, sent, short>>

\* EPOLLOUT, and something to write
WriteStarts ==
  /\ wpc = "waiting"
  /\ m_iDataLen # 0
  /\ wpc' = "writing"
  /\ UNCHANGED <<m_iWriteIdx, st_size, m_iDataLen, m_iDataSendLen, iov, sent, short>>

\* m_iDataSendLen is compared as an unsigned number with iov_len.
HeaderSent(n) == n < 0 \/ n >= len0

\* Mutant of Advance: the offset in the mapping is not moved.
AdvanceStays(n, rest) ==
  IF HeaderSent(n)
    THEN len0' = 0 /\ base1' = 0 /\ len1' = rest /\ UNCHANGED base0
    ELSE base0' = n /\ len0' = len0 - n /\ UNCHANGED <<base1, len1>>

\* n bytes have been sent so far and rest bytes are left.
Advance(n, rest) ==
  IF HeaderSent(n)
    THEN len0' = 0 /\ base1' = n - m_iWriteIdx /\ len1' = rest /\ UNCHANGED base0
    ELSE base0' = n /\ len0' = len0 - n /\ UNCHANGED <<base1, len1>>

\* writev takes k bytes.
WriteSome ==
  /\ wpc = "writing"
  /\ \E k \in 1 .. IntMax :
       /\ k <= len0 + len1
       /\ m_iDataSendLen' = Wrap(m_iDataSendLen + k)
       /\ m_iDataLen' = Wrap(m_iDataLen - k)
       /\ sent' = sent \o Taken(k)
  /\ short' = IF Len(sent') < m_iWriteIdx THEN short + 1 ELSE short
  /\ IF m_iDataLen' <= 0
       THEN wpc' = "over" /\ UNCHANGED iov
       ELSE UNCHANGED wpc /\ Advance(m_iDataSendLen', m_iDataLen')
  /\ UNCHANGED <<m_iWriteIdx, st_size>>

\* EAGAIN: Write returns and EPOLLOUT is awaited.
WriteBlocked ==
  /\ wpc = "writing"
  /\ wpc' = "waiting"
  /\ UNCHANGED <<m_iWriteIdx, st_size, m_iDataLen, m_iDataSendLen, iov, sent, short>>

WriteFails ==
  /\ wpc = "writing"
  /\ wpc' = "failed"
  /\ UNCHANGED <<m_iWriteIdx, st_size, m_iDataLen, m_iDataSendLen, iov, sent, short>>

\* The connection was closed; CHttp::Init for the next one
NewConnection ==
  /\ wpc \in {"over", "failed"}
  /\ Reset
  /\ wpc' = "idle"
  /\ UNCHANGED <<st_size, iov, sent, short>>

Next ==
  \/ ParseFile \/ ParseText
  \/ WriteNothing \/ WriteStarts \/ WriteSome \/ WriteBlocked \/ WriteFails
  \/ NewConnection

Spec == Init /\ [][Next]_vars

-----------------------------------------------------------------------------
(* Properties *)

TypeOK ==
  /\ m_iWriteIdx \in 0 .. MaxHeader
  /\ st_size \in 0 .. MaxFile
  /\ m_iDataLen \in -IntMax - 1 .. IntMax
  /\ m_iDataSendLen \in -IntMax - 1 .. IntMax
  /\ base0 \in Int /\ base1 \in Int
  /\ len0 \in Nat /\ len1 \in Nat
  /\ wpc \in {"idle", "waiting", "writing", "over", "failed"}
  /\ sent \in Seq({"header", "file"} \X Int)
  /\ short \in Nat

\* The response is not too long for m_iDataLen.
Fits == m_iWriteIdx + st_size <= IntMax

UnderWay == wpc \in {"waiting", "writing", "over"} /\ m_iWriteIdx > 0

\* When Write takes the response for sent (http.cpp:543), the client has all of it.
WholeResponse ==
  wpc = "over" /\ Fits /\ short <= 1 => Len(sent) = m_iWriteIdx + st_size

\* What the client has got is the beginning of the response, without a byte lost,
\* repeated or from elsewhere, and in the end the whole of it, for any sequence of
\* partial writes of which no two end inside the header (http.cpp:562).
StreamIsResponse ==
  /\ UnderWay /\ Fits /\ short <= 1 => \A i \in DOMAIN sent : sent[i] = Due(i - 1)
  /\ WholeResponse

\* writev is only given bytes of the header and of the mapping (http.cpp:564).
IovInBounds ==
  UnderWay /\ m_iDataLen > 0 /\ Fits /\ short <= 1 =>
    /\ 0 <= base0 /\ base0 + len0 <= m_iWriteIdx
    /\ 0 <= base1 /\ base1 + len1 <= st_size
=============================================================================
