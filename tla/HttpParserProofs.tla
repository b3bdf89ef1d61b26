-------------------------- MODULE HttpParserProofs --------------------------
(***************************************************************************)
(* Theorems about HttpParser, for any set of well-formed requests, any     *)
(* malformed texts and any division into parts.                            *)
(***************************************************************************)
EXTENDS HttpParser, SequenceTheorems, WellFoundedInduction, TLAPS

-----------------------------------------------------------------------------
(* Numbers *)

LEMMA LeastOf ==
  ASSUME NEW T \in SUBSET Nat, T # {}
  PROVE  \E x \in T : \A y \in T : x <= y
<1>1. \A x, y \in Nat : y < x => <<y, x>> \in OpToRel(<, Nat)
  BY DEF OpToRel
<1>2. PICK x \in T : \A y \in T : ~(<<y, x>> \in OpToRel(<, Nat))
  BY NatLessThanWellFounded, WFMin
<1>3. \A y \in T : ~(y < x)
  BY <1>1, <1>2
<1>. QED
  BY <1>3

\* What holds of 0, and of i + 1 if of i, holds up to n.
LEMMA Count ==
  ASSUME NEW n \in Nat, NEW S, 0 \in S, \A i \in 0 .. n - 1 : i \in S => i + 1 \in S
  PROVE  0 .. n \subseteq S
<1>. SUFFICES ASSUME (0 .. n) \ S # {} PROVE FALSE
  OBVIOUS
<1>1. (0 .. n) \ S \in SUBSET Nat
  OBVIOUS
<1>2. PICK x \in (0 .. n) \ S : \A y \in (0 .. n) \ S : x <= y
  BY <1>1, LeastOf
<1>3. x # 0
  BY <1>2
<1>4. x - 1 \in 0 .. n - 1 /\ x = (x - 1) + 1 /\ x - 1 \in 0 .. n
  BY <1>3
<1>5. x - 1 \in S
  BY <1>2, <1>4
<1>. QED
  BY <1>2, <1>4, <1>5
-----------------------------------------------------------------------------
(* The state machine *)

LEMMA CharFacts ==
  /\ CR \in Chars /\ LF \in Chars /\ CR # LF
  /\ {" ", "/", "?", "=", "&", ":", ".", "a", "H", "1"} \subseteq Chars
  /\ Uppers \subseteq Names /\ Names \subseteq Chars /\ Blank = {" "}
  /\ LF \notin Names /\ CR \notin Names /\ " " \notin Names
  /\ LF \notin {" ", "/", "?", "=", "&", ":", ".", "a", "H", "1"}
BY DEF Chars, CR, LF, Blank, Digits, Uppers, Names

LEMMA JoinedAt ==
  ASSUME NEW f, NEW g
  PROVE  /\ DOMAIN Joined(f, g) = DOMAIN f \cup DOMAIN g
         /\ \A s \in DOMAIN f : Joined(f, g)[s] = f[s]
         /\ \A s \in DOMAIN g : s \notin DOMAIN f => Joined(f, g)[s] = g[s]
BY DEF Joined

LEMMA TableOf ==
  /\ \A s \in DOMAIN UriEdges : Edges[s] = UriEdges[s]
  /\ \A s \in DOMAIN VersionEdges : Edges[s] = VersionEdges[s]
  /\ \A s \in DOMAIN HeaderEdges : Edges[s] = HeaderEdges[s]
  /\ DOMAIN Edges = (DOMAIN UriEdges) \cup (DOMAIN VersionEdges) \cup (DOMAIN HeaderEdges)
<1>. DEFINE rest == Joined(VersionEdges, HeaderEdges)
<1>1. /\ (DOMAIN UriEdges) \cap (DOMAIN VersionEdges) = {}
      /\ (DOMAIN UriEdges) \cap (DOMAIN HeaderEdges) = {}
      /\ (DOMAIN VersionEdges) \cap (DOMAIN HeaderEdges) = {}
  BY DEF UriEdges, VersionEdges, HeaderEdges
<1>2. /\ DOMAIN rest = (DOMAIN VersionEdges) \cup (DOMAIN HeaderEdges)
      /\ \A s \in DOMAIN VersionEdges : rest[s] = VersionEdges[s]
      /\ \A s \in DOMAIN HeaderEdges : s \notin DOMAIN VersionEdges => rest[s] = HeaderEdges[s]
  BY JoinedAt
<1>. HIDE DEF rest
<1>3. /\ DOMAIN Joined(UriEdges, rest) = (DOMAIN UriEdges) \cup (DOMAIN rest)
      /\ \A s \in DOMAIN UriEdges : Joined(UriEdges, rest)[s] = UriEdges[s]
      /\ \A s \in DOMAIN rest : s \notin DOMAIN UriEdges => Joined(UriEdges, rest)[s] = rest[s]
  BY JoinedAt
<1>4. Edges = Joined(UriEdges, rest)
  BY DEF Edges, rest
<1>. QED
  BY <1>1, <1>2, <1>3, <1>4

\* Edges[s] has n edges, the last one for any character.
Table(s, n) ==
  /\ DOMAIN Edges[s] = 1 .. n /\ Edges[s][n][1] = Chars
  /\ \A i \in 1 .. n : Edges[s][i][2] \in States

LEMMA TableType ==
  ASSUME NEW s \in DOMAIN Edges
  PROVE  \E n \in 1 .. 4 : Table(s, n)
<1>. USE DEF Table, States, Invalid
<1>1. CASE s \in DOMAIN UriEdges
  BY <1>1, TableOf DEF UriEdges, VersionEdges, HeaderEdges
<1>2. CASE s \in DOMAIN VersionEdges
  BY <1>2, TableOf, SMTT(30) DEF UriEdges, VersionEdges, HeaderEdges
<1>3. CASE s \in DOMAIN HeaderEdges
  BY <1>3, TableOf DEF UriEdges, VersionEdges, HeaderEdges
<1>. QED
  BY <1>1, <1>2, <1>3, TableOf

\* Of the edges of s the i-th is the first that holds ch; it leads to t.
Edge(s, i, t, ch) ==
  /\ i \in DOMAIN Edges[s] /\ Edges[s][i][2] = t
  /\ ch \in Edges[s][i][1] /\ \A j \in 1 .. i - 1 : ch \notin Edges[s][j][1]

LEMMA GotoIs ==
  ASSUME NEW s \in DOMAIN Edges, NEW i, NEW t, NEW ch, Edge(s, i, t, ch)
  PROVE  Goto(s, ch) = t
<1>. DEFINE P(e) == ch \in Edges[s][e][1] /\ \A j \in 1 .. e - 1 : ch \notin Edges[s][j][1]
            k == CHOOSE e \in DOMAIN Edges[s] : P(e)
<1>1. i \in DOMAIN Edges[s] /\ P(i) /\ Edges[s][i][2] = t
  BY DEF Edge
<1>2. k \in DOMAIN Edges[s] /\ P(k)
  <2>. HIDE DEF P
  <2>. QED
    BY <1>1, Zenon
<1>3. Goto(s, ch) = Edges[s][k][2]
  BY DEF Goto
<1>. HIDE DEF k
<1>4. k = i
  BY <1>1, <1>2, TableType DEF Table
<1>. QED
  BY <1>1, <1>3, <1>4

LEMMA GotoType ==
  ASSUME NEW s \in DOMAIN Edges, NEW ch \in Chars
  PROVE  Goto(s, ch) \in States
<1>1. PICK n \in 1 .. 4 : Table(s, n)
  BY TableType
<1>. DEFINE T == {i \in 1 .. n : ch \in Edges[s][i][1]}
<1>2. n \in T /\ T \in SUBSET Nat
  BY <1>1 DEF Table
<1>3. PICK i \in T : \A j \in T : i <= j
  BY <1>2, LeastOf
<1>4. Edge(s, i, Edges[s][i][2], ch)
  BY <1>1, <1>3 DEF Edge, Table
<1>. QED
  BY <1>1, <1>4, GotoIs DEF Table

\* The first edge that holds the character
LEMMA FirstEdge ==
  ASSUME NEW s \in DOMAIN Edges, NEW ch, 1 \in DOMAIN Edges[s], ch \in Edges[s][1][1]
  PROVE  Goto(s, ch) = Edges[s][1][2]
<1>1. Edge(s, 1, Edges[s][1][2], ch)
  BY DEF Edge
<1>. QED
  BY <1>1, GotoIs

LEMMA SecondEdge ==
  ASSUME NEW s \in DOMAIN Edges, NEW ch, 2 \in DOMAIN Edges[s], ch \in Edges[s][2][1],
         ch \notin Edges[s][1][1]
  PROVE  Goto(s, ch) = Edges[s][2][2]
<1>1. Edge(s, 2, Edges[s][2][2], ch)
  BY DEF Edge
<1>. QED
  BY <1>1, GotoIs

LEMMA ThirdEdge ==
  ASSUME NEW s \in DOMAIN Edges, NEW ch, 3 \in DOMAIN Edges[s], ch \in Edges[s][3][1],
         ch \notin Edges[s][1][1], ch \notin Edges[s][2][1]
  PROVE  Goto(s, ch) = Edges[s][3][2]
<1>1. Edge(s, 3, Edges[s][3][2], ch)
  BY DEF Edge
<1>. QED
  BY <1>1, GotoIs

\* What a request takes of the state machine
LEMMA UriMoves ==
  ASSUME NEW ch \in Chars
  PROVE  /\ ch \in Uppers => Goto("START", ch) = "METHOD"
         /\ ch \in Blank => Goto("METHOD", ch) = "BEFORE_URI"
         /\ ch = "/" => Goto("BEFORE_URI", ch) = "IN_URI"
         /\ ch = "?" => Goto("IN_URI", ch) = "BEFORE_URI_PARAM_KEY"
         /\ ch \in Blank => Goto("IN_URI", ch) = "BEFORE_PROTOCOL"
         /\ ch = "a" => Goto("BEFORE_URI_PARAM_KEY", ch) = "URI_PARAM_KEY"
         /\ ch = "=" => Goto("URI_PARAM_KEY", ch) = "BEFORE_URI_PARAM_VALUE"
         /\ ch \in Names => Goto("BEFORE_URI_PARAM_VALUE", ch) = "URI_PARAM_VALUE"
         /\ ch = "&" => Goto("URI_PARAM_VALUE", ch) = "BEFORE_URI_PARAM_KEY"
         /\ ch \in Blank => Goto("URI_PARAM_VALUE", ch) = "BEFORE_PROTOCOL"
<1>0. {"START", "METHOD", "BEFORE_URI", "IN_URI", "BEFORE_URI_PARAM_KEY", "URI_PARAM_KEY",
        "BEFORE_URI_PARAM_VALUE", "URI_PARAM_VALUE"} \subseteq DOMAIN Edges
  BY TableOf DEF UriEdges
<1>1. Edges["START"] =
        << <<Blank \cup {CR, LF}, "START">>, <<Uppers, "METHOD">>, <<Chars, "INVALID">> >>
  BY TableOf DEF UriEdges
<1>2. /\ Edges["START"][1][1] = Blank \cup {CR, LF} /\ Edges["START"][1][2] = "START"
       /\ Edges["START"][2][1] = Uppers /\ Edges["START"][2][2] = "METHOD"
       /\ Edges["START"][3][1] = Chars /\ Edges["START"][3][2] = "INVALID"
       /\ DOMAIN Edges["START"] = 1 .. 3
  BY <1>1
<1>3. ch \in Uppers => Goto("START", ch) = "METHOD"
  <2>. HAVE ch \in Uppers
  <2>1. ch \in Uppers /\ ch \notin Blank \cup {CR, LF}
    BY DEF Chars, Names, Uppers, Digits, Blank, CR, LF
  <2>. QED
    BY <2>1, <1>0, <1>2, SecondEdge
<1>4. Edges["METHOD"] =
        << <<Uppers, "METHOD">>, <<Blank, "BEFORE_URI">>, <<Chars, "INVALID_METHOD">> >>
  BY TableOf DEF UriEdges
<1>5. /\ Edges["METHOD"][1][1] = Uppers /\ Edges["METHOD"][1][2] = "METHOD"
       /\ Edges["METHOD"][2][1] = Blank /\ Edges["METHOD"][2][2] = "BEFORE_URI"
       /\ Edges["METHOD"][3][1] = Chars /\ Edges["METHOD"][3][2] = "INVALID_METHOD"
       /\ DOMAIN Edges["METHOD"] = 1 .. 3
  BY <1>4
<1>6. ch \in Blank => Goto("METHOD", ch) = "BEFORE_URI"
  <2>. HAVE ch \in Blank
  <2>1. ch \in Blank /\ ch \notin Uppers
    BY DEF Chars, Names, Uppers, Digits, Blank, CR, LF
  <2>. QED
    BY <2>1, <1>0, <1>5, SecondEdge
<1>7. Edges["BEFORE_URI"] = << <<{"/"}, "IN_URI">>, <<Blank, "BEFORE_URI">>, <<Chars, "INVALID">> >>
  BY TableOf DEF UriEdges
<1>8. /\ Edges["BEFORE_URI"][1][1] = {"/"} /\ Edges["BEFORE_URI"][1][2] = "IN_URI"
       /\ Edges["BEFORE_URI"][2][1] = Blank /\ Edges["BEFORE_URI"][2][2] = "BEFORE_URI"
       /\ Edges["BEFORE_URI"][3][1] = Chars /\ Edges["BEFORE_URI"][3][2] = "INVALID"
       /\ DOMAIN Edges["BEFORE_URI"] = 1 .. 3
  BY <1>7
<1>9. ch = "/" => Goto("BEFORE_URI", ch) = "IN_URI"
  <2>. HAVE ch = "/"
  <2>1. ch \in {"/"}
    BY DEF Chars, Names, Uppers, Digits, Blank, CR, LF
  <2>. QED
    BY <2>1, <1>0, <1>8, FirstEdge
<1>10. Edges["IN_URI"] =
         << <<{"?"}, "BEFORE_URI_PARAM_KEY">>, <<Blank, "BEFORE_PROTOCOL">>, <<Chars, "IN_URI">> >>
  BY TableOf DEF UriEdges
<1>11. /\ Edges["IN_URI"][1][1] = {"?"} /\ Edges["IN_URI"][1][2] = "BEFORE_URI_PARAM_KEY"
       /\ Edges["IN_URI"][2][1] = Blank /\ Edges["IN_URI"][2][2] = "BEFORE_PROTOCOL"
       /\ Edges["IN_URI"][3][1] = Chars /\ Edges["IN_URI"][3][2] = "IN_URI"
       /\ DOMAIN Edges["IN_URI"] = 1 .. 3
  BY <1>10
<1>12. ch = "?" => Goto("IN_URI", ch) = "BEFORE_URI_PARAM_KEY"
  <2>. HAVE ch = "?"
  <2>1. ch \in {"?"}
    BY DEF Chars, Names, Uppers, Digits, Blank, CR, LF
  <2>. QED
    BY <2>1, <1>0, <1>11, FirstEdge
<1>13. ch \in Blank => Goto("IN_URI", ch) = "BEFORE_PROTOCOL"
  <2>. HAVE ch \in Blank
  <2>1. ch \in Blank /\ ch \notin {"?"}
    BY DEF Chars, Names, Uppers, Digits, Blank, CR, LF
  <2>. QED
    BY <2>1, <1>0, <1>11, SecondEdge
<1>14. Edges["BEFORE_URI_PARAM_KEY"] =
         << <<Blank \cup {CR, LF}, "INVALID_URI">>, <<Chars, "URI_PARAM_KEY">> >>
  BY TableOf DEF UriEdges
<1>15. /\ Edges["BEFORE_URI_PARAM_KEY"][1][1] = Blank \cup {CR, LF}
       /\ Edges["BEFORE_URI_PARAM_KEY"][1][2] = "INVALID_URI"
       /\ Edges["BEFORE_URI_PARAM_KEY"][2][1] = Chars
       /\ Edges["BEFORE_URI_PARAM_KEY"][2][2] = "URI_PARAM_KEY"
       /\ DOMAIN Edges["BEFORE_URI_PARAM_KEY"] = 1 .. 2
  BY <1>14
<1>16. ch = "a" => Goto("BEFORE_URI_PARAM_KEY", ch) = "URI_PARAM_KEY"
  <2>. HAVE ch = "a"
  <2>1. ch \notin Blank \cup {CR, LF}
    BY DEF Chars, Names, Uppers, Digits, Blank, CR, LF
  <2>. QED
    BY <2>1, <1>0, <1>15, SecondEdge
<1>17. Edges["URI_PARAM_KEY"] =
         << <<{"="}, "BEFORE_URI_PARAM_VALUE">>, <<Blank, "INVALID_URI">>,
            <<Chars, "URI_PARAM_KEY">> >>
  BY TableOf DEF UriEdges
<1>18. /\ Edges["URI_PARAM_KEY"][1][1] = {"="}
       /\ Edges["URI_PARAM_KEY"][1][2] = "BEFORE_URI_PARAM_VALUE"
       /\ Edges["URI_PARAM_KEY"][2][1] = Blank /\ Edges["URI_PARAM_KEY"][2][2] = "INVALID_URI"
       /\ Edges["URI_PARAM_KEY"][3][1] = Chars /\ Edges["URI_PARAM_KEY"][3][2] = "URI_PARAM_KEY"
       /\ DOMAIN Edges["URI_PARAM_KEY"] = 1 .. 3
  BY <1>17
<1>19. ch = "=" => Goto("URI_PARAM_KEY", ch) = "BEFORE_URI_PARAM_VALUE"
  <2>. HAVE ch = "="
  <2>1. ch \in {"="}
    BY DEF Chars, Names, Uppers, Digits, Blank, CR, LF
  <2>. QED
    BY <2>1, <1>0, <1>18, FirstEdge
<1>20. Edges["BEFORE_URI_PARAM_VALUE"] =
         << <<Blank \cup {CR, LF}, "INVALID_URI">>, <<Chars, "URI_PARAM_VALUE">> >>
  BY TableOf DEF UriEdges
<1>21. /\ Edges["BEFORE_URI_PARAM_VALUE"][1][1] = Blank \cup {CR, LF}
       /\ Edges["BEFORE_URI_PARAM_VALUE"][1][2] = "INVALID_URI"
       /\ Edges["BEFORE_URI_PARAM_VALUE"][2][1] = Chars
       /\ Edges["BEFORE_URI_PARAM_VALUE"][2][2] = "URI_PARAM_VALUE"
       /\ DOMAIN Edges["BEFORE_URI_PARAM_VALUE"] = 1 .. 2
  BY <1>20
<1>22. ch \in Names => Goto("BEFORE_URI_PARAM_VALUE", ch) = "URI_PARAM_VALUE"
  <2>. HAVE ch \in Names
  <2>1. ch \notin Blank \cup {CR, LF}
    BY DEF Chars, Names, Uppers, Digits, Blank, CR, LF
  <2>. QED
    BY <2>1, <1>0, <1>21, SecondEdge
<1>23. Edges["URI_PARAM_VALUE"] =
         << <<{"&"}, "BEFORE_URI_PARAM_KEY">>, <<Blank, "BEFORE_PROTOCOL">>,
            <<Chars, "URI_PARAM_VALUE">> >>
  BY TableOf DEF UriEdges
<1>24. /\ Edges["URI_PARAM_VALUE"][1][1] = {"&"}
       /\ Edges["URI_PARAM_VALUE"][1][2] = "BEFORE_URI_PARAM_KEY"
       /\ Edges["URI_PARAM_VALUE"][2][1] = Blank
       /\ Edges["URI_PARAM_VALUE"][2][2] = "BEFORE_PROTOCOL"
       /\ Edges["URI_PARAM_VALUE"][3][1] = Chars
       /\ Edges["URI_PARAM_VALUE"][3][2] = "URI_PARAM_VALUE"
       /\ DOMAIN Edges["URI_PARAM_VALUE"] = 1 .. 3
  BY <1>23
<1>25. ch = "&" => Goto("URI_PARAM_VALUE", ch) = "BEFORE_URI_PARAM_KEY"
  <2>. HAVE ch = "&"
  <2>1. ch \in {"&"}
    BY DEF Chars, Names, Uppers, Digits, Blank, CR, LF
  <2>. QED
    BY <2>1, <1>0, <1>24, FirstEdge
<1>26. ch \in Blank => Goto("URI_PARAM_VALUE", ch) = "BEFORE_PROTOCOL"
  <2>. HAVE ch \in Blank
  <2>1. ch \in Blank /\ ch \notin {"&"}
    BY DEF Chars, Names, Uppers, Digits, Blank, CR, LF
  <2>. QED
    BY <2>1, <1>0, <1>24, SecondEdge
<1>. QED
  BY <1>3, <1>6, <1>9, <1>12, <1>13, <1>16, <1>19, <1>22, <1>25, <1>26

LEMMA VersionMoves ==
  ASSUME NEW ch \in Chars
  PROVE  /\ ch = "H" => Goto("BEFORE_PROTOCOL", ch) = "PROTOCOL"
         /\ ch = "/" => Goto("PROTOCOL", ch) = "BEFORE_VERSION"
         /\ ch = "1" => Goto("BEFORE_VERSION", ch) = "VERSION"
         /\ ch = "." => Goto("VERSION", ch) = "VERSION_SPLIT"
         /\ ch = CR => Goto("VERSION", ch) = "WHEN_CR"
         /\ ch = "1" => Goto("VERSION_SPLIT", ch) = "VERSION"
<1>0. {"BEFORE_PROTOCOL", "PROTOCOL", "BEFORE_VERSION", "VERSION", "VERSION_SPLIT"}
        \subseteq DOMAIN Edges
  BY TableOf DEF VersionEdges
<1>1. Edges["BEFORE_PROTOCOL"] = << <<Blank, "BEFORE_PROTOCOL">>, <<Chars, "PROTOCOL">> >>
  BY TableOf DEF VersionEdges
<1>2. /\ Edges["BEFORE_PROTOCOL"][1][1] = Blank
      /\ Edges["BEFORE_PROTOCOL"][1][2] = "BEFORE_PROTOCOL"
       /\ Edges["BEFORE_PROTOCOL"][2][1] = Chars /\ Edges["BEFORE_PROTOCOL"][2][2] = "PROTOCOL"
       /\ DOMAIN Edges["BEFORE_PROTOCOL"] = 1 .. 2
  BY <1>1
<1>3. ch = "H" => Goto("BEFORE_PROTOCOL", ch) = "PROTOCOL"
  <2>. HAVE ch = "H"
  <2>1. ch \notin Blank
    BY DEF Chars, Names, Uppers, Digits, Blank, CR, LF
  <2>. QED
    BY <2>1, <1>0, <1>2, SecondEdge
<1>4. Edges["PROTOCOL"] = << <<{"/"}, "BEFORE_VERSION">>, <<Chars, "PROTOCOL">> >>
  BY TableOf DEF VersionEdges
<1>5. /\ Edges["PROTOCOL"][1][1] = {"/"} /\ Edges["PROTOCOL"][1][2] = "BEFORE_VERSION"
       /\ Edges["PROTOCOL"][2][1] = Chars /\ Edges["PROTOCOL"][2][2] = "PROTOCOL"
       /\ DOMAIN Edges["PROTOCOL"] = 1 .. 2
  BY <1>4
<1>6. ch = "/" => Goto("PROTOCOL", ch) = "BEFORE_VERSION"
  <2>. HAVE ch = "/"
  <2>1. ch \in {"/"}
    BY DEF Chars, Names, Uppers, Digits, Blank, CR, LF
  <2>. QED
    BY <2>1, <1>0, <1>5, FirstEdge
<1>7. Edges["BEFORE_VERSION"] = << <<Digits, "VERSION">>, <<Chars, "INVALID_VERSION">> >>
  BY TableOf DEF VersionEdges
<1>8. /\ Edges["BEFORE_VERSION"][1][1] = Digits /\ Edges["BEFORE_VERSION"][1][2] = "VERSION"
       /\ Edges["BEFORE_VERSION"][2][1] = Chars /\ Edges["BEFORE_VERSION"][2][2] = "INVALID_VERSION"
       /\ DOMAIN Edges["BEFORE_VERSION"] = 1 .. 2
  BY <1>7
<1>9. ch = "1" => Goto("BEFORE_VERSION", ch) = "VERSION"
  <2>. HAVE ch = "1"
  <2>1. ch \in Digits
    BY DEF Chars, Names, Uppers, Digits, Blank, CR, LF
  <2>. QED
    BY <2>1, <1>0, <1>8, FirstEdge
<1>10. Edges["VERSION"] =
         << <<{CR}, "WHEN_CR">>, <<{"."}, "VERSION_SPLIT">>, <<Digits, "VERSION">>,
            <<Chars, "INVALID_VERSION">> >>
  BY TableOf DEF VersionEdges
<1>11. /\ Edges["VERSION"][1][1] = {CR} /\ Edges["VERSION"][1][2] = "WHEN_CR"
       /\ Edges["VERSION"][2][1] = {"."} /\ Edges["VERSION"][2][2] = "VERSION_SPLIT"
       /\ Edges["VERSION"][3][1] = Digits /\ Edges["VERSION"][3][2] = "VERSION"
       /\ Edges["VERSION"][4][1] = Chars /\ Edges["VERSION"][4][2] = "INVALID_VERSION"
       /\ DOMAIN Edges["VERSION"] = 1 .. 4
  BY <1>10
<1>12. ch = "." => Goto("VERSION", ch) = "VERSION_SPLIT"
  <2>. HAVE ch = "."
  <2>1. ch \in {"."} /\ ch \notin {CR}
    BY DEF Chars, Names, Uppers, Digits, Blank, CR, LF
  <2>. QED
    BY <2>1, <1>0, <1>11, SecondEdge
<1>13. ch = CR => Goto("VERSION", ch) = "WHEN_CR"
  <2>. HAVE ch = CR
  <2>1. ch \in {CR}
    BY DEF Chars, Names, Uppers, Digits, Blank, CR, LF
  <2>. QED
    BY <2>1, <1>0, <1>11, FirstEdge
<1>14. Edges["VERSION_SPLIT"] = << <<Digits, "VERSION">>, <<Chars, "INVALID_VERSION">> >>
  BY TableOf DEF VersionEdges
<1>15. /\ Edges["VERSION_SPLIT"][1][1] = Digits /\ Edges["VERSION_SPLIT"][1][2] = "VERSION"
       /\ Edges["VERSION_SPLIT"][2][1] = Chars /\ Edges["VERSION_SPLIT"][2][2] = "INVALID_VERSION"
       /\ DOMAIN Edges["VERSION_SPLIT"] = 1 .. 2
  BY <1>14
<1>16. ch = "1" => Goto("VERSION_SPLIT", ch) = "VERSION"
  <2>. HAVE ch = "1"
  <2>1. ch \in Digits
    BY DEF Chars, Names, Uppers, Digits, Blank, CR, LF
  <2>. QED
    BY <2>1, <1>0, <1>15, FirstEdge
<1>. QED
  BY <1>3, <1>6, <1>9, <1>12, <1>13, <1>16

LEMMA HeaderMoves ==
  ASSUME NEW ch \in Chars
  PROVE  /\ ch = LF => Goto("WHEN_CR", ch) = "CR_LF"
         /\ ch \in Names => Goto("CR_LF", ch) = "HEADER_KEY"
         /\ ch = CR => Goto("CR_LF", ch) = "CR_LF_CR"
         /\ ch \in Blank => Goto("HEADER_KEY", ch) = "HEADER_BEFORE_COLON"
         /\ ch = ":" => Goto("HEADER_KEY", ch) = "HEADER_AFTER_COLON"
         /\ ch \in Blank => Goto("HEADER_BEFORE_COLON", ch) = "HEADER_BEFORE_COLON"
         /\ ch = ":" => Goto("HEADER_BEFORE_COLON", ch) = "HEADER_AFTER_COLON"
         /\ ch \in Blank => Goto("HEADER_AFTER_COLON", ch) = "HEADER_AFTER_COLON"
         /\ ch \in Names => Goto("HEADER_AFTER_COLON", ch) = "HEADER_VALUE"
         /\ ch = CR => Goto("HEADER_VALUE", ch) = "WHEN_CR"
         /\ ch = LF => Goto("CR_LF_CR", ch) = "BODY"
         /\ Goto("BODY", ch) = "COMPLETE"
<1>0. {"WHEN_CR", "CR_LF", "HEADER_KEY", "HEADER_BEFORE_COLON", "HEADER_AFTER_COLON",
        "HEADER_VALUE", "CR_LF_CR", "BODY"} \subseteq DOMAIN Edges
  BY TableOf DEF HeaderEdges
<1>1. Edges["WHEN_CR"] = << <<{LF}, "CR_LF">>, <<Chars, "INVALID">> >>
  BY TableOf DEF HeaderEdges
<1>2. /\ Edges["WHEN_CR"][1][1] = {LF} /\ Edges["WHEN_CR"][1][2] = "CR_LF"
       /\ Edges["WHEN_CR"][2][1] = Chars /\ Edges["WHEN_CR"][2][2] = "INVALID"
       /\ DOMAIN Edges["WHEN_CR"] = 1 .. 2
  BY <1>1
<1>3. ch = LF => Goto("WHEN_CR", ch) = "CR_LF"
  <2>. HAVE ch = LF
  <2>1. ch \in {LF}
    BY DEF Chars, Names, Uppers, Digits, Blank, CR, LF
  <2>. QED
    BY <2>1, <1>0, <1>2, FirstEdge
<1>4. Edges["CR_LF"] = << <<{CR}, "CR_LF_CR">>, <<Blank, "INVALID">>, <<Chars, "HEADER_KEY">> >>
  BY TableOf DEF HeaderEdges
<1>5. /\ Edges["CR_LF"][1][1] = {CR} /\ Edges["CR_LF"][1][2] = "CR_LF_CR"
       /\ Edges["CR_LF"][2][1] = Blank /\ Edges["CR_LF"][2][2] = "INVALID"
       /\ Edges["CR_LF"][3][1] = Chars /\ Edges["CR_LF"][3][2] = "HEADER_KEY"
       /\ DOMAIN Edges["CR_LF"] = 1 .. 3
  BY <1>4
<1>6. ch \in Names => Goto("CR_LF", ch) = "HEADER_KEY"
  <2>. HAVE ch \in Names
  <2>1. ch \notin {CR} /\ ch \notin Blank
    BY DEF Chars, Names, Uppers, Digits, Blank, CR, LF
  <2>. QED
    BY <2>1, <1>0, <1>5, ThirdEdge
<1>7. ch = CR => Goto("CR_LF", ch) = "CR_LF_CR"
  <2>. HAVE ch = CR
  <2>1. ch \in {CR}
    BY DEF Chars, Names, Uppers, Digits, Blank, CR, LF
  <2>. QED
    BY <2>1, <1>0, <1>5, FirstEdge
<1>8. Edges["HEADER_KEY"] =
        << <<Blank, "HEADER_BEFORE_COLON">>, <<{":"}, "HEADER_AFTER_COLON">>,
           <<Chars, "HEADER_KEY">> >>
  BY TableOf DEF HeaderEdges
<1>9. /\ Edges["HEADER_KEY"][1][1] = Blank /\ Edges["HEADER_KEY"][1][2] = "HEADER_BEFORE_COLON"
       /\ Edges["HEADER_KEY"][2][1] = {":"} /\ Edges["HEADER_KEY"][2][2] = "HEADER_AFTER_COLON"
       /\ Edges["HEADER_KEY"][3][1] = Chars /\ Edges["HEADER_KEY"][3][2] = "HEADER_KEY"
       /\ DOMAIN Edges["HEADER_KEY"] = 1 .. 3
  BY <1>8
<1>10. ch \in Blank => Goto("HEADER_KEY", ch) = "HEADER_BEFORE_COLON"
  <2>. HAVE ch \in Blank
  <2>1. ch \in Blank
    BY DEF Chars, Names, Uppers, Digits, Blank, CR, LF
  <2>. QED
    BY <2>1, <1>0, <1>9, FirstEdge
<1>11. ch = ":" => Goto("HEADER_KEY", ch) = "HEADER_AFTER_COLON"
  <2>. HAVE ch = ":"
  <2>1. ch \in {":"} /\ ch \notin Blank
    BY DEF Chars, Names, Uppers, Digits, Blank, CR, LF
  <2>. QED
    BY <2>1, <1>0, <1>9, SecondEdge
<1>12. Edges["HEADER_BEFORE_COLON"] =
         << <<Blank, "HEADER_BEFORE_COLON">>, <<{":"}, "HEADER_AFTER_COLON">>,
            <<Chars, "INVALID_HEADER">> >>
  BY TableOf DEF HeaderEdges
<1>13. /\ Edges["HEADER_BEFORE_COLON"][1][1] = Blank
       /\ Edges["HEADER_BEFORE_COLON"][1][2] = "HEADER_BEFORE_COLON"
       /\ Edges["HEADER_BEFORE_COLON"][2][1] = {":"}
       /\ Edges["HEADER_BEFORE_COLON"][2][2] = "HEADER_AFTER_COLON"
       /\ Edges["HEADER_BEFORE_COLON"][3][1] = Chars
       /\ Edges["HEADER_BEFORE_COLON"][3][2] = "INVALID_HEADER"
       /\ DOMAIN Edges["HEADER_BEFORE_COLON"] = 1 .. 3
  BY <1>12
<1>14. ch \in Blank => Goto("HEADER_BEFORE_COLON", ch) = "HEADER_BEFORE_COLON"
  <2>. HAVE ch \in Blank
  <2>1. ch \in Blank
    BY DEF Chars, Names, Uppers, Digits, Blank, CR, LF
  <2>. QED
    BY <2>1, <1>0, <1>13, FirstEdge
<1>15. ch = ":" => Goto("HEADER_BEFORE_COLON", ch) = "HEADER_AFTER_COLON"
  <2>. HAVE ch = ":"
  <2>1. ch \in {":"} /\ ch \notin Blank
    BY DEF Chars, Names, Uppers, Digits, Blank, CR, LF
  <2>. QED
    BY <2>1, <1>0, <1>13, SecondEdge
<1>16. Edges["HEADER_AFTER_COLON"] =
         << <<Blank, "HEADER_AFTER_COLON">>, <<Chars, "HEADER_VALUE">> >>
  BY TableOf DEF HeaderEdges
<1>17. /\ Edges["HEADER_AFTER_COLON"][1][1] = Blank
       /\ Edges["HEADER_AFTER_COLON"][1][2] = "HEADER_AFTER_COLON"
       /\ Edges["HEADER_AFTER_COLON"][2][1] = Chars
       /\ Edges["HEADER_AFTER_COLON"][2][2] = "HEADER_VALUE"
       /\ DOMAIN Edges["HEADER_AFTER_COLON"] = 1 .. 2
  BY <1>16
<1>18. ch \in Blank => Goto("HEADER_AFTER_COLON", ch) = "HEADER_AFTER_COLON"
  <2>. HAVE ch \in Blank
  <2>1. ch \in Blank
    BY DEF Chars, Names, Uppers, Digits, Blank, CR, LF
  <2>. QED
    BY <2>1, <1>0, <1>17, FirstEdge
<1>19. ch \in Names => Goto("HEADER_AFTER_COLON", ch) = "HEADER_VALUE"
  <2>. HAVE ch \in Names
  <2>1. ch \notin Blank
    BY DEF Chars, Names, Uppers, Digits, Blank, CR, LF
  <2>. QED
    BY <2>1, <1>0, <1>17, SecondEdge
<1>20. Edges["HEADER_VALUE"] = << <<{CR}, "WHEN_CR">>, <<Chars, "HEADER_VALUE">> >>
  BY TableOf DEF HeaderEdges
<1>21. /\ Edges["HEADER_VALUE"][1][1] = {CR} /\ Edges["HEADER_VALUE"][1][2] = "WHEN_CR"
       /\ Edges["HEADER_VALUE"][2][1] = Chars /\ Edges["HEADER_VALUE"][2][2] = "HEADER_VALUE"
       /\ DOMAIN Edges["HEADER_VALUE"] = 1 .. 2
  BY <1>20
<1>22. ch = CR => Goto("HEADER_VALUE", ch) = "WHEN_CR"
  <2>. HAVE ch = CR
  <2>1. ch \in {CR}
    BY DEF Chars, Names, Uppers, Digits, Blank, CR, LF
  <2>. QED
    BY <2>1, <1>0, <1>21, FirstEdge
<1>23. Edges["CR_LF_CR"] = << <<{LF}, "BODY">>, <<Chars, "INVALID_HEADER">> >>
  BY TableOf DEF HeaderEdges
<1>24. /\ Edges["CR_LF_CR"][1][1] = {LF} /\ Edges["CR_LF_CR"][1][2] = "BODY"
       /\ Edges["CR_LF_CR"][2][1] = Chars /\ Edges["CR_LF_CR"][2][2] = "INVALID_HEADER"
       /\ DOMAIN Edges["CR_LF_CR"] = 1 .. 2
  BY <1>23
<1>25. ch = LF => Goto("CR_LF_CR", ch) = "BODY"
  <2>. HAVE ch = LF
  <2>1. ch \in {LF}
    BY DEF Chars, Names, Uppers, Digits, Blank, CR, LF
  <2>. QED
    BY <2>1, <1>0, <1>24, FirstEdge
<1>26. Edges["BODY"] = << <<Chars, "COMPLETE">> >>
  BY TableOf DEF HeaderEdges
<1>27. /\ Edges["BODY"][1][1] = Chars /\ Edges["BODY"][1][2] = "COMPLETE"
       /\ DOMAIN Edges["BODY"] = 1 .. 1
  BY <1>26
<1>28. Goto("BODY", ch) = "COMPLETE"
  <2>. QED
    BY <1>0, <1>27, FirstEdge
<1>. QED
  BY <1>3, <1>6, <1>7, <1>10, <1>11, <1>14, <1>15, <1>18, <1>19, <1>22, <1>25, <1>28

-----------------------------------------------------------------------------
(* The text of a request *)

\* Joint is what its definition says.
LEMMA JointIs ==
  ASSUME NEW n \in Nat, NEW pieces, Len(pieces) = n
  PROVE  \A i \in 0 .. n :
           Joint(pieces)[i] = IF i = 0 THEN <<>> ELSE Joint(pieces)[i - 1] \o pieces[i]
<1>. DEFINE Is(f, k) == f = [i \in 0 .. k |-> IF i = 0 THEN <<>> ELSE f[i - 1] \o pieces[i]]
            S == {k \in Nat : \E f : Is(f, k)}
<1>1. 0 \in S
  <2>. DEFINE f == [i \in 0 .. 0 |-> <<>>]
  <2>1. Is(f, 0)
    OBVIOUS
  <2>. QED
    BY <2>1
<1>2. ASSUME NEW k \in 0 .. n - 1, k \in S
      PROVE  k + 1 \in S
  <2>1. PICK f : Is(f, k)
    BY <1>2
  <2>. DEFINE g == [i \in 0 .. k + 1 |-> IF i \in 0 .. k THEN f[i] ELSE f[k] \o pieces[i]]
              e == [i \in 0 .. k + 1 |-> IF i = 0 THEN <<>> ELSE g[i - 1] \o pieces[i]]
  <2>2. DOMAIN f = 0 .. k /\ \A i \in 0 .. k : f[i] = IF i = 0 THEN <<>> ELSE f[i - 1] \o pieces[i]
    BY <2>1, Zenon
  <2>3. ASSUME NEW i \in 0 .. k + 1
        PROVE  g[i] = e[i]
    <3>1. CASE i = 0
      BY <3>1, <2>2
    <3>2. CASE i # 0 /\ i \in 0 .. k
      <4>1. i - 1 \in 0 .. k /\ g[i - 1] = f[i - 1]
        BY <3>2
      <4>. QED
        BY <3>2, <2>2, <4>1
    <3>3. CASE i = k + 1
      <4>1. k \in 0 .. k + 1 /\ g[k] = f[k] /\ i - 1 = k
        BY <3>3
      <4>. QED
        BY <3>3, <4>1
    <3>. QED
      BY <3>1, <3>2, <3>3
  <2>4. Is(g, k + 1)
    <3>1. g = [i \in 0 .. k + 1 |-> g[i]] /\ e = [i \in 0 .. k + 1 |-> e[i]]
      OBVIOUS
    <3>2. g = e
      <4>. HIDE DEF g, e
      <4>. QED
        BY <2>3, <3>1
    <3>. QED
      BY <3>2
  <2>. QED
    <3>. HIDE DEF g
    <3>. QED
      BY <2>4
<1>3. n \in S
  <2>. HIDE DEF S
  <2>1. \A k \in 0 .. n - 1 : k \in S => k + 1 \in S
    BY <1>2
  <2>2. 0 .. n \subseteq S
    BY <1>1, <2>1, Count
  <2>. QED
    BY <2>2
<1>4. PICK h : Is(h, n)
  BY <1>3
<1>5. Joint(pieces) = CHOOSE f : Is(f, n)
  BY DEF Joint
<1>6. Is(Joint(pieces), n)
  <2>. HIDE DEF Is
  <2>. QED
    BY <1>4, <1>5, Zenon
<1>. QED
  BY <1>6, Zenon

\* What Joint puts together is found in it again, at the place where it was put.
Pieces(pieces, n) ==
  n \in Nat /\ Len(pieces) = n /\ \A i \in 1 .. n : pieces[i] \in Seq(Chars)

FoundAgain(pieces, n) ==
  /\ \A i \in 0 .. n : Joint(pieces)[i] \in Seq(Chars)
  /\ Joint(pieces)[0] = <<>>
  /\ \A i \in 1 .. n : Len(Joint(pieces)[i]) = Len(Joint(pieces)[i - 1]) + Len(pieces[i])
  /\ \A i \in 0 .. n : Len(Joint(pieces)[i]) <= Len(Joint(pieces)[n])
  /\ \A i \in 1 .. n : \A c \in 1 .. Len(pieces[i]) :
       Joint(pieces)[n][Len(Joint(pieces)[i - 1]) + c] = pieces[i][c]

LEMMA JointChars ==
  ASSUME NEW n, NEW pieces, Pieces(pieces, n)
  PROVE  FoundAgain(pieces, n)
<1>0. n \in Nat /\ Len(pieces) = n /\ \A i \in 1 .. n : pieces[i] \in Seq(Chars)
  BY DEF Pieces
<1>. USE <1>0
<1>. DEFINE J(i) == Joint(pieces)[i]
            T == {k \in 0 .. n : J(k) \in Seq(Chars)}
            Found(k, i, c) == /\ Len(J(i - 1)) + c \in 1 .. Len(J(k))
                              /\ J(k)[Len(J(i - 1)) + c] = pieces[i][c]
            S == {k \in 0 .. n : \A i \in 1 .. k : \A c \in 1 .. Len(pieces[i]) : Found(k, i, c)}
<1>1. J(0) = <<>> /\ \A i \in 0 .. n - 1 : J(i + 1) = J(i) \o pieces[i + 1]
  <2>1. J(0) = <<>>
    BY <1>0, JointIs
  <2>2. ASSUME NEW i \in 0 .. n - 1 PROVE J(i + 1) = J(i) \o pieces[i + 1]
    <3>1. i + 1 \in 0 .. n /\ i + 1 # 0 /\ (i + 1) - 1 = i
      BY <1>0
    <3>. QED
      BY <1>0, <3>1, JointIs
  <2>. QED
    BY <2>1, <2>2
<1>. HIDE DEF J
<1>2. 0 .. n \subseteq T
  <2>1. 0 \in T
    <3>0. <<>> \in Seq(Chars)
      BY EmptySeq
    <3>2. J(0) = <<>>
      BY <1>1
    <3>1. J(0) \in Seq(Chars)
      BY <3>0, <3>2, Zenon
    <3>. QED
      BY <3>1
  <2>2. ASSUME NEW i \in 0 .. n - 1, i \in T
        PROVE  i + 1 \in T
    <3>1. pieces[i + 1] \in Seq(Chars) /\ J(i) \in Seq(Chars) /\ i + 1 \in 0 .. n
      BY <2>2
    <3>2. J(i) \o pieces[i + 1] \in Seq(Chars)
      BY <3>1, ConcatProperties
    <3>. QED
      BY <1>1, <3>1, <3>2
  <2>. HIDE DEF T
  <2>. QED
    BY <2>1, <2>2, Count
<1>3. ASSUME NEW i \in 0 .. n - 1
      PROVE  /\ J(i) \in Seq(Chars) /\ J(i + 1) \in Seq(Chars) /\ pieces[i + 1] \in Seq(Chars)
             /\ Len(J(i + 1)) = Len(J(i)) + Len(pieces[i + 1])
             /\ \A c \in 1 .. Len(J(i)) : J(i + 1)[c] = J(i)[c]
             /\ \A c \in 1 .. Len(pieces[i + 1]) : J(i + 1)[Len(J(i)) + c] = pieces[i + 1][c]
  <2>1. J(i) \in Seq(Chars) /\ J(i + 1) \in Seq(Chars) /\ pieces[i + 1] \in Seq(Chars)
    BY <1>2
  <2>2. J(i + 1) = J(i) \o pieces[i + 1]
    BY <1>1
  <2>. QED
    BY <2>1, <2>2, ConcatProperties
<1>4. 0 .. n \subseteq S
  <2>1. 0 \in S
    OBVIOUS
  <2>2. ASSUME NEW k \in 0 .. n - 1, k \in S
        PROVE  k + 1 \in S
    <3>. HIDE DEF Found
    <3>. SUFFICES ASSUME NEW i \in 1 .. k + 1, NEW c \in 1 .. Len(pieces[i])
                  PROVE  Found(k + 1, i, c)
      OBVIOUS
    <3>. USE DEF Found
    <3>1. Len(J(k)) \in Nat /\ Len(pieces[k + 1]) \in Nat /\ Len(pieces[i]) \in Nat
      BY <1>3
    <3>2. CASE i = k + 1
      <4>1. i - 1 = k /\ c \in 1 .. Len(pieces[k + 1])
        BY <3>2
      <4>2. /\ Len(J(k)) + c \in 1 .. Len(J(k + 1))
            /\ J(k + 1)[Len(J(k)) + c] = pieces[k + 1][c]
        <5>1. /\ Len(J(k + 1)) = Len(J(k)) + Len(pieces[k + 1])
              /\ J(k + 1)[Len(J(k)) + c] = pieces[k + 1][c]
          BY <4>1, <1>3
        <5>. QED
          BY <3>1, <4>1, <5>1
      <4>. QED
        BY <3>2, <4>1, <4>2
    <3>3. CASE i \in 1 .. k
      <4>1. /\ Len(J(i - 1)) + c \in 1 .. Len(J(k))
            /\ J(k)[Len(J(i - 1)) + c] = pieces[i][c]
        BY <2>2, <3>3
      <4>. QED
        BY <3>1, <4>1, <1>3
    <3>. QED
      BY <3>2, <3>3
  <2>. HIDE DEF S
  <2>. QED
    BY <2>1, <2>2, Count
<1>6. \A i \in 0 .. n : Len(J(i)) <= Len(J(n))
  <2>. DEFINE U == {k \in 0 .. n : \A i \in 0 .. k : Len(J(i)) <= Len(J(k))}
  <2>1. 0 \in U
    <3>1. Len(J(0)) = 0
      BY <1>1, EmptySeq
    <3>. QED
      BY <3>1
  <2>2. ASSUME NEW k \in 0 .. n - 1, k \in U
        PROVE  k + 1 \in U
    <3>. SUFFICES ASSUME NEW i \in 0 .. k + 1 PROVE Len(J(i)) <= Len(J(k + 1))
      OBVIOUS
    <3>1. Len(J(k)) \in Nat /\ Len(J(k + 1)) \in Nat /\ Len(J(k)) <= Len(J(k + 1))
      BY <1>3, LenProperties
    <3>2. CASE i = k + 1
      BY <3>1, <3>2
    <3>3. CASE i \in 0 .. k
      <4>1. J(i) \in Seq(Chars) /\ Len(J(i)) <= Len(J(k))
        BY <2>2, <3>3, <1>2
      <4>2. Len(J(i)) \in Nat
        BY <4>1, LenProperties
      <4>. QED
        BY <3>1, <4>1, <4>2
    <3>. QED
      BY <3>2, <3>3
  <2>3. 0 .. n \subseteq U
    <3>. HIDE DEF U
    <3>. QED
      BY <2>1, <2>2, Count
  <2>. QED
    BY <2>3
<1>5. /\ \A i \in 0 .. n : J(i) \in Seq(Chars)
      /\ J(0) = <<>>
      /\ \A i \in 1 .. n : Len(J(i)) = Len(J(i - 1)) + Len(pieces[i])
      /\ \A i \in 1 .. n : \A c \in 1 .. Len(pieces[i]) :
              J(n)[Len(J(i - 1)) + c] = pieces[i][c]
  <2>1. \A i \in 0 .. n : J(i) \in Seq(Chars)
    BY <1>2
  <2>2. ASSUME NEW i \in 1 .. n PROVE Len(J(i)) = Len(J(i - 1)) + Len(pieces[i])
    <3>1. i - 1 \in 0 .. n - 1 /\ (i - 1) + 1 = i
      OBVIOUS
    <3>. QED
      BY <3>1, <1>3
  <2>3. n \in S
    BY <1>4
  <2>. QED
    BY <1>1, <2>1, <2>2, <2>3
<1>. QED
  BY <1>5, <1>6 DEF J, FoundAgain

LEMMA Behind ==
  ASSUME NEW s \in Seq(Chars), NEW t \in Seq(Chars)
  PROVE  /\ s \o t \in Seq(Chars) /\ Len(s \o t) = Len(s) + Len(t)
         /\ Len(s) \in Nat /\ Len(t) \in Nat
         /\ \A i \in 1 .. Len(s) : (s \o t)[i] = s[i]
         /\ \A i \in Len(s) + 1 .. Len(s) + Len(t) : (s \o t)[i] = t[i - Len(s)]
BY ConcatProperties, LenProperties

\* Where the i-th parameter begins, or what is behind the last one; and the j-th header
ParamAt(r, i) == 3 + Len(Params(r)[i - 1])
LineAt(r, j) == ParamAt(r, Len(r.params) + 1) + 8 + Len(Headers(r)[j - 1])

LEMMA RequestType ==
  ASSUME NEW r \in Requests
  PROVE  /\ r.method \in Uppers /\ r.body \in Seq(Chars) /\ r.pad \in Seq(Blank)
         /\ Len(r.params) \in Nat /\ Len(r.headers) \in Nat /\ Len(r.pad) \in Nat
         /\ DOMAIN r.params = 1 .. Len(r.params) /\ DOMAIN r.headers = 1 .. Len(r.headers)
         /\ \A i \in 1 .. Len(r.params) : r.params[i] \in Names
         /\ \A j \in 1 .. Len(r.headers) :
              r.headers[j].key \in Names /\ r.headers[j].value \in Names
         /\ \A k \in 1 .. Len(r.pad) : r.pad[k] \in Blank
         /\ r.pad \in Seq(Chars)
<1>1. /\ r.method \in Uppers /\ r.body \in Seq(Chars) /\ r.pad \in Seq(Blank)
      /\ r.params \in Seq(Names) /\ r.headers \in Seq([key : Names, value : Names])
  BY ParserAssumption
<1>2. Blank \subseteq Chars
  BY DEF Chars
<1>3. r.pad \in Seq(Chars)
  BY <1>1, <1>2
<1>4. /\ Len(r.params) \in Nat /\ Len(r.headers) \in Nat /\ Len(r.pad) \in Nat
      /\ DOMAIN r.params = 1 .. Len(r.params) /\ DOMAIN r.headers = 1 .. Len(r.headers)
  BY <1>1, LenProperties
<1>5. \A i \in 1 .. Len(r.params) : r.params[i] \in Names
  BY <1>1, ElementOfSeq
<1>6. \A j \in 1 .. Len(r.headers) : r.headers[j] \in [key : Names, value : Names]
  BY <1>1, ElementOfSeq
<1>7. \A k \in 1 .. Len(r.pad) : r.pad[k] \in Blank
  BY <1>1, ElementOfSeq
<1>. QED
  BY <1>1, <1>3, <1>4, <1>5, <1>6, <1>7

\* The characters of a header line
LEMMA HeaderChars ==
  ASSUME NEW r \in Requests, NEW j \in 1 .. Len(r.headers)
  PROVE  /\ Header(r, j) \in Seq(Chars) /\ Len(Header(r, j)) = 2 * Len(r.pad) + 5
         /\ Header(r, j)[1] = r.headers[j].key
         /\ \A k \in 1 .. Len(r.pad) : Header(r, j)[k + 1] \in Blank
         /\ Header(r, j)[Len(r.pad) + 2] = ":"
         /\ \A k \in 1 .. Len(r.pad) : Header(r, j)[Len(r.pad) + 2 + k] \in Blank
         /\ Header(r, j)[2 * Len(r.pad) + 3] = r.headers[j].value
         /\ Header(r, j)[2 * Len(r.pad) + 4] = CR
         /\ Header(r, j)[2 * Len(r.pad) + 5] = LF
<1>. DEFINE q == Len(r.pad)
            key == r.headers[j].key
            value == r.headers[j].value
            a == <<key>>
            b == a \o r.pad
            c == b \o <<":">>
            d == c \o r.pad
            e == <<value, CR, LF>>
            f == d \o e
<1>1. /\ key \in Chars /\ value \in Chars /\ CR \in Chars /\ LF \in Chars /\ ":" \in Chars
      /\ r.pad \in Seq(Chars) /\ q \in Nat /\ \A k \in 1 .. q : r.pad[k] \in Blank
  BY RequestType, CharFacts
<1>2. /\ a \in Seq(Chars) /\ Len(a) = 1 /\ a[1] = key
      /\ <<":">> \in Seq(Chars) /\ Len(<<":">>) = 1 /\ <<":">>[1] = ":"
      /\ e \in Seq(Chars) /\ Len(e) = 3 /\ e[1] = value /\ e[2] = CR /\ e[3] = LF
  BY <1>1
<1>0. Len(r.pad) = q
  OBVIOUS
<1>. HIDE DEF a, e, q, key, value
<1>3. /\ b \in Seq(Chars) /\ Len(b) = q + 1 /\ b[1] = key
      /\ \A k \in 1 .. q : b[k + 1] \in Blank
  <2>1. /\ b \in Seq(Chars) /\ Len(b) = Len(a) + Len(r.pad)
        /\ \A i \in 1 .. Len(a) : b[i] = a[i]
        /\ \A i \in Len(a) + 1 .. Len(a) + Len(r.pad) : b[i] = r.pad[i - Len(a)]
    BY <1>1, <1>2, Behind
  <2>. HIDE DEF b
  <2>2. Len(b) = q + 1 /\ b[1] = key
    BY <1>0, <1>1, <1>2, <2>1
  <2>3. ASSUME NEW k \in 1 .. q PROVE b[k + 1] \in Blank
    <3>1. b[k + 1] = r.pad[k + 1 - Len(a)] /\ k + 1 - Len(a) = k
      BY <1>0, <1>1, <1>2, <2>1
    <3>. QED
      BY <1>1, <3>1
  <2>. QED
    BY <2>1, <2>2, <2>3
<1>. HIDE DEF b
<1>4. /\ c \in Seq(Chars) /\ Len(c) = q + 2 /\ c[1] = key
      /\ \A k \in 1 .. q : c[k + 1] \in Blank
      /\ c[q + 2] = ":"
  <2>1. /\ c \in Seq(Chars) /\ Len(c) = Len(b) + Len(<<":">>)
        /\ \A i \in 1 .. Len(b) : c[i] = b[i]
        /\ \A i \in Len(b) + 1 .. Len(b) + Len(<<":">>) : c[i] = <<":">>[i - Len(b)]
    BY <1>1, <1>2, <1>3, Behind
  <2>. HIDE DEF c
  <2>. QED
    BY <1>0, <1>1, <1>2, <1>3, <2>1
<1>. HIDE DEF c
<1>5. /\ d \in Seq(Chars) /\ Len(d) = 2 * q + 2 /\ d[1] = key
      /\ \A k \in 1 .. q : d[k + 1] \in Blank
      /\ d[q + 2] = ":"
      /\ \A k \in 1 .. q : d[q + 2 + k] \in Blank
  <2>1. /\ d \in Seq(Chars) /\ Len(d) = Len(c) + Len(r.pad)
        /\ \A i \in 1 .. Len(c) : d[i] = c[i]
        /\ \A i \in Len(c) + 1 .. Len(c) + Len(r.pad) : d[i] = r.pad[i - Len(c)]
    BY <1>1, <1>2, <1>4, Behind
  <2>. HIDE DEF d
  <2>2. Len(d) = 2 * q + 2 /\ d[1] = key /\ d[q + 2] = ":"
    BY <1>0, <1>1, <1>4, <2>1
  <2>3. ASSUME NEW k \in 1 .. q PROVE d[k + 1] \in Blank
    BY <1>0, <1>1, <1>4, <2>1
  <2>4. ASSUME NEW k \in 1 .. q PROVE d[q + 2 + k] \in Blank
    <3>1. d[q + 2 + k] = r.pad[q + 2 + k - Len(c)] /\ q + 2 + k - Len(c) = k
      BY <1>0, <1>1, <1>4, <2>1
    <3>. QED
      BY <1>1, <3>1
  <2>. QED
    BY <2>1, <2>2, <2>3, <2>4
<1>. HIDE DEF d
<1>6. /\ f \in Seq(Chars) /\ Len(f) = 2 * q + 5 /\ f[1] = key
      /\ \A k \in 1 .. q : f[k + 1] \in Blank
      /\ f[q + 2] = ":"
      /\ \A k \in 1 .. q : f[q + 2 + k] \in Blank
      /\ f[2 * q + 3] = value /\ f[2 * q + 4] = CR /\ f[2 * q + 5] = LF
  <2>1. /\ f \in Seq(Chars) /\ Len(f) = Len(d) + Len(e)
        /\ \A i \in 1 .. Len(d) : f[i] = d[i]
        /\ \A i \in Len(d) + 1 .. Len(d) + Len(e) : f[i] = e[i - Len(d)]
    BY <1>2, <1>5, Behind
  <2>. HIDE DEF f
  <2>2. Len(f) = 2 * q + 5 /\ f[1] = key /\ f[q + 2] = ":"
    BY <1>1, <1>2, <1>5, <2>1
  <2>3. ASSUME NEW k \in 1 .. q PROVE f[k + 1] \in Blank
    <3>1. f[k + 1] = d[k + 1]
      BY <1>1, <1>2, <1>5, <2>1
    <3>. QED
      BY <1>5, <3>1
  <2>4. ASSUME NEW k \in 1 .. q PROVE f[q + 2 + k] \in Blank
    <3>1. f[q + 2 + k] = d[q + 2 + k]
      BY <1>1, <1>2, <1>5, <2>1
    <3>. QED
      BY <1>5, <3>1
  <2>5. /\ f[2 * q + 3] = e[1] /\ f[2 * q + 4] = e[2] /\ f[2 * q + 5] = e[3]
    BY <1>1, <1>2, <1>5, <2>1
  <2>. QED
    BY <1>2, <2>1, <2>2, <2>3, <2>4, <2>5
<1>. HIDE DEF f
<1>7. Header(r, j) = f
  BY DEF Header, a, b, c, d, e, f, key, value
<1>. QED
  BY <1>0, <1>6, <1>7 DEF key, value, q

LEMMA ParamChars ==
  ASSUME NEW r \in Requests
  PROVE  /\ Params(r)[Len(r.params)] \in Seq(Chars) /\ ParamAt(r, 1) = 3
         /\ \A i \in 0 .. Len(r.params) : Len(Params(r)[i]) \in Nat
         /\ \A i \in 1 .. Len(r.params) + 1 :
              ParamAt(r, i) \in Nat /\ 3 <= ParamAt(r, i) /\ ParamAt(r, i) <= ParamAt(r,
                Len(r.params) + 1)
         /\ \A i \in 1 .. Len(r.params) :
              /\ ParamAt(r, i + 1) = ParamAt(r, i) + 4
              /\ \A c \in 1 .. 4 :
                   Params(r)[Len(r.params)][Len(Params(r)[i - 1]) + c] = Param(r, i)[c]
<1>. DEFINE n == Len(r.params)
            pieces == [i \in DOMAIN r.params |-> Param(r, i)]
<1>1. /\ n \in Nat /\ DOMAIN r.params = 1 .. n /\ \A i \in 1 .. n : r.params[i] \in Chars
  BY RequestType, CharFacts
<1>2. \A i \in 1 .. n : pieces[i] = Param(r, i)
  BY <1>1
<1>3. \A i \in 1 .. n : pieces[i] \in Seq(Chars) /\ Len(pieces[i]) = 4
  <2>. SUFFICES ASSUME NEW i \in 1 .. n PROVE pieces[i] \in Seq(Chars) /\ Len(pieces[i]) = 4
    OBVIOUS
  <2>. DEFINE x == IF i = 1 THEN "?" ELSE "&"
  <2>1. x \in Chars /\ "a" \in Chars /\ "=" \in Chars /\ r.params[i] \in Chars
    BY <1>1, CharFacts
  <2>2. pieces[i] = <<x, "a", "=", r.params[i]>>
    BY <1>2 DEF Param
  <2>. HIDE DEF x, pieces
  <2>. QED
    BY <2>1, <2>2
<1>4. Len(pieces) = n
  BY <1>1
<1>5. Params(r) = Joint(pieces)
  BY DEF Params
<1>. HIDE DEF n, pieces
<1>. DEFINE J(i) == Joint(pieces)[i]
<1>6. /\ \A i \in 0 .. n : J(i) \in Seq(Chars)
      /\ J(0) = <<>>
      /\ \A i \in 1 .. n : Len(J(i)) = Len(J(i - 1)) + Len(pieces[i])
      /\ \A i \in 0 .. n : Len(J(i)) <= Len(J(n))
      /\ \A i \in 1 .. n : \A c \in 1 .. Len(pieces[i]) :
           J(n)[Len(J(i - 1)) + c] = pieces[i][c]
  <2>. HIDE DEF J
  <2>1. Pieces(pieces, n)
    BY <1>1, <1>3, <1>4 DEF Pieces
  <2>2. FoundAgain(pieces, n)
    BY <2>1, JointChars
  <2>. QED
    BY <2>2 DEF J, FoundAgain
<1>7. \A i \in 0 .. n : Len(J(i)) \in Nat
  BY <1>6, LenProperties
<1>8. Len(J(0)) = 0
  BY <1>6, EmptySeq
<1>. HIDE DEF J
<1>9. \A i \in 1 .. n + 1 : ParamAt(r, i) = 3 + Len(J(i - 1))
  BY <1>5 DEF ParamAt, J
<1>10. Params(r)[n] = J(n) /\ \A i \in 0 .. n : Params(r)[i] = J(i)
  BY <1>5 DEF J
<1>11. /\ J(n) \in Seq(Chars) /\ ParamAt(r, 1) = 3
       /\ \A i \in 1 .. n + 1 :
              ParamAt(r, i) \in Nat /\ 3 <= ParamAt(r, i) /\ ParamAt(r, i) <= ParamAt(r, n + 1)
  BY <1>1, <1>6, <1>7, <1>8, <1>9
<1>12. ASSUME NEW i \in 1 .. n
       PROVE  /\ ParamAt(r, i + 1) = ParamAt(r, i) + 4
              /\ \A c \in 1 .. 4 : Params(r)[n][Len(Params(r)[i - 1]) + c] = Param(r, i)[c]
  <2>1. /\ i + 1 \in 1 .. n + 1 /\ i \in 1 .. n + 1
        /\ (i + 1) - 1 = i /\ i - 1 \in 0 .. n /\ n \in 0 .. n
    <3>1. n \in Nat
      BY <1>1
    <3>. QED
      BY <3>1
  <2>2. Len(J(i)) = Len(J(i - 1)) + 4
    BY <1>3, <1>6
  <2>3. ParamAt(r, i + 1) = 3 + Len(J(i)) /\ ParamAt(r, i) = 3 + Len(J(i - 1))
    BY <1>9, <2>1
  <2>4. \A c \in 1 .. 4 : J(n)[Len(J(i - 1)) + c] = Param(r, i)[c]
    <3>1. \A k \in 1 .. n : \A c \in 1 .. Len(pieces[k]) :
            J(n)[Len(J(k - 1)) + c] = pieces[k][c]
      BY <1>6
    <3>2. Len(pieces[i]) = 4 /\ pieces[i] = Param(r, i)
      BY <1>2, <1>3
    <3>3. \A c \in 1 .. Len(pieces[i]) : J(n)[Len(J(i - 1)) + c] = pieces[i][c]
      BY <3>1, Zenon
    <3>. QED
      BY <3>2, <3>3, Zenon
  <2>5. Len(J(i - 1)) \in Nat
    BY <2>1, <1>7
  <2>6. ParamAt(r, i + 1) = ParamAt(r, i) + 4
    BY <2>2, <2>3, <2>5
  <2>7. Params(r)[n] = J(n) /\ Params(r)[i - 1] = J(i - 1)
    BY <2>1, <1>10
  <2>. QED
    BY <2>4, <2>6, <2>7
<1>. QED
  BY <1>7, <1>10, <1>11, <1>12 DEF n

LEMMA LineChars ==
  ASSUME NEW r \in Requests
  PROVE  /\ Headers(r)[Len(r.headers)] \in Seq(Chars) /\ Len(Headers(r)[0]) = 0
         /\ \A j \in 0 .. Len(r.headers) :
              /\ Len(Headers(r)[j]) \in Nat
              /\ Len(Headers(r)[j]) <= Len(Headers(r)[Len(r.headers)])
         /\ \A j \in 1 .. Len(r.headers) :
              /\ Len(Headers(r)[j]) = Len(Headers(r)[j - 1]) + 2 * Len(r.pad) + 5
              /\ \A c \in 1 .. 2 * Len(r.pad) + 5 :
                   Headers(r)[Len(r.headers)][Len(Headers(r)[j - 1]) + c] = Header(r, j)[c]
<1>. DEFINE n == Len(r.headers)
            pieces == [j \in DOMAIN r.headers |-> Header(r, j)]
            w == 2 * Len(r.pad) + 5
<1>1. /\ n \in Nat /\ DOMAIN r.headers = 1 .. n /\ w \in Nat
  BY RequestType
<1>2. \A j \in 1 .. n : pieces[j] = Header(r, j)
  BY <1>1
<1>3. \A j \in 1 .. n : pieces[j] \in Seq(Chars) /\ Len(pieces[j]) = w
  <2>. HIDE DEF pieces
  <2>. QED
    BY <1>2, HeaderChars
<1>4. Len(pieces) = n
  BY <1>1
<1>5. Headers(r) = Joint(pieces)
  BY DEF Headers
<1>. HIDE DEF n, pieces, w
<1>6. FoundAgain(pieces, n)
  <2>1. Pieces(pieces, n)
    BY <1>1, <1>3, <1>4 DEF Pieces
  <2>. QED
    BY <2>1, JointChars
<1>. DEFINE J == Joint(pieces)
<1>7. /\ \A i \in 0 .. n : J[i] \in Seq(Chars)
      /\ J[0] = <<>>
      /\ \A i \in 1 .. n : Len(J[i]) = Len(J[i - 1]) + Len(pieces[i])
      /\ \A i \in 0 .. n : Len(J[i]) <= Len(J[n])
      /\ \A i \in 1 .. n : \A c \in 1 .. Len(pieces[i]) :
           J[n][Len(J[i - 1]) + c] = pieces[i][c]
  BY <1>6 DEF FoundAgain
<1>. HIDE DEF J
<1>8. \A i \in 0 .. n : Len(J[i]) \in Nat
  BY <1>7, LenProperties
<1>9. Len(J[0]) = 0
  BY <1>7, EmptySeq
<1>10. Headers(r) = J
  BY <1>5 DEF J
<1>11. ASSUME NEW j \in 1 .. n
       PROVE  /\ Len(J[j]) = Len(J[j - 1]) + w
              /\ \A c \in 1 .. w : J[n][Len(J[j - 1]) + c] = Header(r, j)[c]
  BY <1>2, <1>3, <1>7
<1>12. \A j \in 1 .. n : Len(J[j - 1]) + w = Len(J[j - 1]) + 2 * Len(r.pad) + 5
  <2>1. ASSUME NEW j \in 1 .. n PROVE Len(J[j - 1]) \in Nat
    <3>1. j - 1 \in 0 .. n
      BY <1>1
    <3>. QED
      BY <3>1, <1>8
  <2>. DEFINE q == Len(r.pad)
  <2>2. q \in Nat
    BY RequestType
  <2>3. w = 2 * q + 5
    BY DEF w
  <2>. HIDE DEF q
  <2>4. ASSUME NEW j \in 1 .. n PROVE Len(J[j - 1]) + w = Len(J[j - 1]) + 2 * q + 5
    <3>1. \A l \in Nat : l + w = l + 2 * q + 5
      BY <2>2, <2>3
    <3>. QED
      BY <2>1, <3>1
  <2>. QED
    BY <2>4 DEF q
<1>13. /\ J[n] \in Seq(Chars) /\ Len(J[0]) = 0
       /\ \A j \in 0 .. n : Len(J[j]) \in Nat /\ Len(J[j]) <= Len(J[n])
       /\ \A j \in 1 .. n :
            /\ Len(J[j]) = Len(J[j - 1]) + 2 * Len(r.pad) + 5
            /\ \A c \in 1 .. w : J[n][Len(J[j - 1]) + c] = Header(r, j)[c]
  <2>1. J[n] \in Seq(Chars)
    BY <1>1, <1>7
  <2>2. \A j \in 0 .. n : Len(J[j]) \in Nat /\ Len(J[j]) <= Len(J[n])
    BY <1>7, <1>8
  <2>3. \A j \in 1 .. n : Len(J[j]) = Len(J[j - 1]) + 2 * Len(r.pad) + 5
    BY <1>11, <1>12
  <2>. QED
    BY <1>9, <1>11, <2>1, <2>2, <2>3
<1>. QED
  BY <1>10, <1>13 DEF n, w

Appended(u, s, t) ==
  /\ u \in Seq(Chars) /\ Len(u) = Len(s) + Len(t) /\ Len(s) \in Nat /\ Len(t) \in Nat
  /\ \A i \in 1 .. Len(s) : u[i] = s[i]
  /\ \A i \in Len(s) + 1 .. Len(s) + Len(t) : u[i] = t[i - Len(s)]

LEMMA AppendedIs ==
  ASSUME NEW s \in Seq(Chars), NEW t \in Seq(Chars)
  PROVE  Appended(s \o t, s, t)
<1>. DEFINE u == s \o t
<1>1. /\ u \in Seq(Chars) /\ Len(u) = Len(s) + Len(t) /\ Len(s) \in Nat /\ Len(t) \in Nat
      /\ \A i \in 1 .. Len(s) : u[i] = s[i]
      /\ \A i \in Len(s) + 1 .. Len(s) + Len(t) : u[i] = t[i - Len(s)]
  BY Behind
<1>. HIDE DEF u
<1>2. Appended(u, s, t)
  BY <1>1 DEF Appended
<1>. QED
  BY <1>2 DEF u

LEMMA TupleOf ==
  /\ \A S : \A x1, x2 \in S : <<x1, x2>> \in Seq(S)
  /\ \A S : \A x1, x2, x3 \in S : <<x1, x2, x3>> \in Seq(S)
  /\ \A S : \A x1, x2, x3, x4, x5, x6, x7, x8 \in S :
       <<x1, x2, x3, x4, x5, x6, x7, x8>> \in Seq(S)
OBVIOUS

\* The text of a request, part by part
Assembled(m, P, L, body) ==
  <<m, " ", "/">> \o P \o <<" ", "H", "/", "1", ".", "1", CR, LF>> \o L \o <<CR, LF>> \o body

Line1Chars(T, m, u) ==
  /\ T[1] = m /\ T[2] = " " /\ T[3] = "/"
  /\ T[u + 1] = " " /\ T[u + 2] = "H" /\ T[u + 3] = "/" /\ T[u + 4] = "1"
  /\ T[u + 5] = "." /\ T[u + 6] = "1" /\ T[u + 7] = CR /\ T[u + 8] = LF

PartsOf(T, P, L, body, u, e) ==
  /\ T \in Seq(Chars) /\ u \in Nat /\ e \in Nat /\ 3 <= u /\ u + 8 <= e
  /\ Len(body) \in Nat /\ Len(T) = e + 2 + Len(body)
  /\ \A i \in 4 .. u : T[i] = P[i - 3]
  /\ \A i \in u + 9 .. e : T[i] = L[i - (u + 8)]
  /\ T[e + 1] = CR /\ T[e + 2] = LF
  /\ \A i \in e + 3 .. Len(T) : T[i] = body[i - (e + 2)]

LEMMA TextParts ==
  ASSUME NEW m \in Chars, NEW P \in Seq(Chars), NEW L \in Seq(Chars), NEW body \in Seq(Chars)
  PROVE  LET u == 3 + Len(P)
             e == 3 + Len(P) + 8 + Len(L)
         IN  /\ Line1Chars(Assembled(m, P, L, body), m, u)
             /\ PartsOf(Assembled(m, P, L, body), P, L, body, u, e)
<1>. DEFINE a == <<m, " ", "/">>
            b == <<" ", "H", "/", "1", ".", "1", CR, LF>>
            c == <<CR, LF>>
            s == a \o P
            t == s \o b
            v == t \o L
            w == v \o c
            T == w \o body
            u == 3 + Len(P)
            e == 3 + Len(P) + 8 + Len(L)
<1>2. /\ CR \in Chars /\ LF \in Chars
      /\ " " \in Chars /\ "/" \in Chars /\ "H" \in Chars /\ "1" \in Chars /\ "." \in Chars
  BY CharFacts
<1>3. a \in Seq(Chars) /\ b \in Seq(Chars) /\ c \in Seq(Chars)
  <2>1. a \in Seq(Chars)
    BY <1>2, TupleOf
  <2>2. b \in Seq(Chars)
    BY <1>2, TupleOf
  <2>3. c \in Seq(Chars)
    BY <1>2, TupleOf
  <2>. QED
    BY <2>1, <2>2, <2>3
<1>4. Len(a) = 3 /\ Len(b) = 8 /\ Len(c) = 2
  OBVIOUS
<1>41. /\ a[1] = m /\ a[2] = " " /\ a[3] = "/"
       /\ b[1] = " " /\ b[2] = "H" /\ b[3] = "/" /\ b[4] = "1"
       /\ b[5] = "." /\ b[6] = "1" /\ b[7] = CR /\ b[8] = LF
       /\ c[1] = CR /\ c[2] = LF
  OBVIOUS
<1>5. Assembled(m, P, L, body) = T
  BY DEF Assembled
<1>. HIDE DEF a, b, c
<1>6. Appended(s, a, P) /\ s \in Seq(Chars)
  <2>1. Appended(s, a, P)
    BY <1>3, AppendedIs
  <2>. HIDE DEF s
  <2>. QED
    BY <2>1 DEF Appended
<1>. HIDE DEF s
<1>7. Appended(t, s, b) /\ t \in Seq(Chars)
  <2>1. Appended(t, s, b)
    BY <1>3, <1>6, AppendedIs
  <2>. HIDE DEF t
  <2>. QED
    BY <2>1 DEF Appended
<1>. HIDE DEF t
<1>8. Appended(v, t, L) /\ v \in Seq(Chars)
  <2>1. Appended(v, t, L)
    BY <1>7, AppendedIs
  <2>. HIDE DEF v
  <2>. QED
    BY <2>1 DEF Appended
<1>. HIDE DEF v
<1>9. Appended(w, v, c) /\ w \in Seq(Chars)
  <2>1. Appended(w, v, c)
    BY <1>3, <1>8, AppendedIs
  <2>. HIDE DEF w
  <2>. QED
    BY <2>1 DEF Appended
<1>. HIDE DEF w
<1>10. Appended(T, w, body) /\ T \in Seq(Chars)
  <2>1. Appended(T, w, body)
    BY <1>9, AppendedIs
  <2>. HIDE DEF T
  <2>. QED
    BY <2>1 DEF Appended
<1>. HIDE DEF T
<1>11. /\ u = 3 + Len(P) /\ e = u + 8 + Len(L) /\ Len(P) \in Nat /\ Len(L) \in Nat
       /\ Len(s) = u /\ u \in Nat /\ 3 <= u
       /\ Len(t) = u + 8
       /\ Len(v) = e /\ e \in Nat /\ u + 8 <= e
       /\ Len(w) = e + 2 /\ Len(T) = e + 2 + Len(body) /\ Len(body) \in Nat
  <2>1. /\ Len(s) = Len(a) + Len(P) /\ Len(P) \in Nat
        /\ Len(t) = Len(s) + Len(b)
        /\ Len(v) = Len(t) + Len(L) /\ Len(L) \in Nat
        /\ Len(w) = Len(v) + Len(c)
        /\ Len(T) = Len(w) + Len(body) /\ Len(body) \in Nat
    BY <1>6, <1>7, <1>8, <1>9, <1>10 DEF Appended
  <2>. QED
    BY <1>4, <2>1
<1>. HIDE DEF u, e
<1>12. /\ \A i \in 1 .. e + 2 : T[i] = w[i]
       /\ \A i \in e + 3 .. Len(T) : T[i] = body[i - (e + 2)]
  <2>1. /\ \A i \in 1 .. Len(w) : T[i] = w[i]
        /\ \A i \in Len(w) + 1 .. Len(w) + Len(body) : T[i] = body[i - Len(w)]
    BY <1>10 DEF Appended
  <2>. QED
    BY <1>11, <2>1
<1>13. \A i \in 1 .. e : T[i] = v[i]
  <2>1. \A i \in 1 .. e : w[i] = v[i]
    BY <1>9, <1>11 DEF Appended
  <2>. QED
    BY <1>11, <1>12, <2>1
<1>14. T[e + 1] = c[1] /\ T[e + 2] = c[2]
  <2>0. \A i \in e + 1 .. e + 2 : w[i] = c[i - e]
    BY <1>4, <1>9, <1>11 DEF Appended
  <2>2. \A k \in 1 .. 2 : e + k \in e + 1 .. e + 2 /\ (e + k) - e = k
    BY <1>11
  <2>3. \A k \in 1 .. 2 : w[e + k] = c[k]
    BY <2>0, <2>2
  <2>1. w[e + 1] = c[1] /\ w[e + 2] = c[2]
    BY <2>3
  <2>. QED
    BY <1>11, <1>12, <2>1
<1>15. \A i \in u + 9 .. e : T[i] = L[i - (u + 8)]
  <2>1. \A i \in u + 9 .. e : v[i] = L[i - (u + 8)]
    BY <1>8, <1>11 DEF Appended
  <2>. QED
    BY <1>11, <1>13, <2>1
<1>16. \A i \in 1 .. u + 8 : T[i] = t[i]
  <2>1. \A i \in 1 .. u + 8 : v[i] = t[i]
    BY <1>8, <1>11 DEF Appended
  <2>. QED
    BY <1>11, <1>13, <2>1
<1>17. /\ T[u + 1] = b[1] /\ T[u + 2] = b[2] /\ T[u + 3] = b[3] /\ T[u + 4] = b[4]
       /\ T[u + 5] = b[5] /\ T[u + 6] = b[6] /\ T[u + 7] = b[7] /\ T[u + 8] = b[8]
  <2>1. \A i \in u + 1 .. u + 8 : t[i] = b[i - u]
    BY <1>4, <1>7, <1>11 DEF Appended
  <2>2. \A i \in u + 1 .. u + 8 : T[i] = b[i - u]
    BY <1>11, <1>16, <2>1
  <2>3. \A k \in 1 .. 8 : u + k \in u + 1 .. u + 8 /\ (u + k) - u = k
    BY <1>11
  <2>4. \A k \in 1 .. 8 : T[u + k] = b[k]
    BY <2>2, <2>3
  <2>. QED
    BY <2>4
<1>18. \A i \in 1 .. u : T[i] = s[i]
  <2>1. \A i \in 1 .. u : t[i] = s[i]
    BY <1>7, <1>11 DEF Appended
  <2>. QED
    BY <1>11, <1>16, <2>1
<1>19. \A i \in 4 .. u : T[i] = P[i - 3]
  <2>1. \A i \in 4 .. u : s[i] = P[i - 3]
    BY <1>4, <1>6, <1>11 DEF Appended
  <2>. QED
    BY <1>11, <1>18, <2>1
<1>20. T[1] = a[1] /\ T[2] = a[2] /\ T[3] = a[3]
  <2>1. s[1] = a[1] /\ s[2] = a[2] /\ s[3] = a[3]
    BY <1>4, <1>6 DEF Appended
  <2>. QED
    BY <1>4, <1>11, <1>18, <2>1
<1>21. Line1Chars(T, m, u) /\ T[e + 1] = CR /\ T[e + 2] = LF
  BY <1>41, <1>14, <1>17, <1>20, Zenon DEF Line1Chars
<1>22. PartsOf(T, P, L, body, u, e)
  BY <1>10, <1>11, <1>12, <1>15, <1>19, <1>21 DEF PartsOf
<1>. QED
  BY <1>5, <1>21, <1>22, Zenon DEF u, e

Last(r) == Len(r.params) + 1
End(r) == LineAt(r, Len(r.headers) + 1)

LEMMA TextIs ==
  ASSUME NEW r \in Requests
  PROVE  /\ Line1Chars(Text(r), r.method, ParamAt(r, Last(r)))
         /\ PartsOf(Text(r), Params(r)[Len(r.params)], Headers(r)[Len(r.headers)], r.body,
                    ParamAt(r, Last(r)), End(r))
<1>. DEFINE P == Params(r)[Len(r.params)]
            L == Headers(r)[Len(r.headers)]
            u == 3 + Len(P)
            e == 3 + Len(P) + 8 + Len(L)
            m == r.method
            body == r.body
<1>1. m \in Chars /\ body \in Seq(Chars) /\ P \in Seq(Chars) /\ L \in Seq(Chars)
  BY RequestType, ParamChars, LineChars, CharFacts
<1>2. Text(r) = Assembled(m, P, L, body)
  BY DEF Text, Assembled
<1>3. ParamAt(r, Last(r)) = u
  <2>1. (Len(r.params) + 1) - 1 = Len(r.params)
    BY RequestType
  <2>. QED
    BY <2>1 DEF ParamAt, Last
<1>4. End(r) = e
  <2>1. (Len(r.headers) + 1) - 1 = Len(r.headers) /\ (Len(r.params) + 1) - 1 = Len(r.params)
    BY RequestType
  <2>. QED
    BY <2>1 DEF ParamAt, LineAt, End
<1>5. Line1Chars(Assembled(m, P, L, body), m, u) /\ PartsOf(Assembled(m, P, L, body), P, L, body,
        u, e)
  <2>. HIDE DEF m, P, L, body
  <2>. QED
    BY <1>1, TextParts
<1>. QED
  BY <1>2, <1>3, <1>4, <1>5

\* Where the parameters are
LEMMA ParamText ==
  ASSUME NEW r \in Requests, NEW i \in 1 .. Len(r.params)
  PROVE  LET a == ParamAt(r, i)
         IN  /\ Text(r)[a + 1] = IF i = 1 THEN "?" ELSE "&"
             /\ Text(r)[a + 2] = "a" /\ Text(r)[a + 3] = "=" /\ Text(r)[a + 4] = r.params[i]
<1>. DEFINE a == ParamAt(r, i)
            P == Params(r)[Len(r.params)]
            n == Len(r.params)
            T == Text(r)
            k == Len(Params(r)[i - 1])
            x == Param(r, i)
            u == ParamAt(r, Last(r))
<1>1. /\ n \in Nat /\ i \in 1 .. n /\ Last(r) = n + 1
  BY RequestType DEF Last
<1>2. a = 3 + k
  BY DEF ParamAt
<1>3. a \in Nat /\ 3 <= a /\ ParamAt(r, i + 1) = a + 4 /\ u \in Nat
  BY <1>1, ParamChars DEF Last
<1>4. ParamAt(r, i + 1) <= u
  BY <1>1, ParamChars DEF Last
<1>5. \A c \in 1 .. 4 : P[k + c] = x[c]
  BY ParamChars
<1>6. \A c \in 4 .. u : T[c] = P[c - 3]
  BY TextIs DEF PartsOf
<1>7. k \in Int
  <2>1. i - 1 \in 0 .. Len(r.params)
    BY <1>1
  <2>. QED
    BY <2>1, ParamChars
<1>8. /\ x[1] = IF i = 1 THEN "?" ELSE "&"
      /\ x[2] = "a" /\ x[3] = "=" /\ x[4] = r.params[i]
  BY DEF Param
<1>. HIDE DEF a, P, n, T, k, x, u
<1>9. \A c \in 1 .. 4 : T[a + c] = x[c]
  <2>1. ASSUME NEW c \in 1 .. 4 PROVE a + c \in 4 .. u /\ (a + c) - 3 = k + c
    BY <1>2, <1>3, <1>4, <1>7
  <2>. QED
    BY <2>1, <1>5, <1>6
<1>10. T[a + 1] = x[1] /\ T[a + 2] = x[2] /\ T[a + 3] = x[3] /\ T[a + 4] = x[4]
  BY <1>9
<1>. QED
  BY <1>8, <1>10, Zenon DEF T, a

\* Where the headers are, and where they and the text end
LEMMA LineAtIs ==
  ASSUME NEW r \in Requests
  PROVE  /\ LineAt(r, 1) = ParamAt(r, Last(r)) + 8
         /\ \A j \in 1 .. Len(r.headers) + 1 : LineAt(r, j) \in Nat /\ LineAt(r, j) <= End(r)
         /\ \A j \in 1 .. Len(r.headers) :
              LineAt(r, j + 1) = LineAt(r, j) + 2 * Len(r.pad) + 5
         /\ \A j \in 1 .. Len(r.headers) + 1 :
              LineAt(r, j) = ParamAt(r, Last(r)) + 8 + Len(Headers(r)[j - 1])
         /\ ParamAt(r, Last(r)) + 8 <= End(r)
<1>. DEFINE n == Len(r.headers)
            u == ParamAt(r, Last(r))
            l(j) == Len(Headers(r)[j])
            q == Len(r.pad)
<1>1. /\ n \in Nat /\ q \in Nat
  BY RequestType
<1>2. u \in Nat
  BY TextIs DEF PartsOf
<1>3. \A j \in 1 .. n + 1 : LineAt(r, j) = u + 8 + l(j - 1)
  BY DEF LineAt, Last
<1>4. l(0) = 0 /\ \A j \in 0 .. n : l(j) \in Nat /\ l(j) <= l(n)
  BY LineChars
<1>5. \A j \in 1 .. n : l(j) = l(j - 1) + 2 * q + 5
  BY LineChars
<1>6. End(r) = LineAt(r, n + 1)
  BY DEF End
<1>. HIDE DEF n, u, l, q
<1>7. LineAt(r, 1) = u + 8 /\ End(r) = u + 8 + l(n) /\ u + 8 <= End(r)
  BY <1>1, <1>2, <1>3, <1>4, <1>6
<1>8. ASSUME NEW j \in 1 .. n + 1
      PROVE  LineAt(r, j) \in Nat /\ LineAt(r, j) <= End(r)
  <2>1. j - 1 \in 0 .. n
    BY <1>1
  <2>. QED
    BY <1>1, <1>2, <1>3, <1>4, <1>7, <2>1
<1>9. ASSUME NEW j \in 1 .. n
      PROVE  LineAt(r, j + 1) = LineAt(r, j) + 2 * q + 5
  <2>1. /\ j - 1 \in 0 .. n /\ j \in 0 .. n /\ (j + 1) - 1 = j
        /\ j \in 1 .. n + 1 /\ j + 1 \in 1 .. n + 1
    BY <1>1
  <2>2. LineAt(r, j + 1) = u + 8 + l(j) /\ LineAt(r, j) = u + 8 + l(j - 1)
    BY <1>3, <2>1
  <2>. QED
    BY <1>1, <1>2, <1>4, <1>5, <2>1, <2>2
<1>. QED
  BY <1>3, <1>7, <1>8, <1>9 DEF n, u, l, q

LEMMA LineText ==
  ASSUME NEW r \in Requests, NEW j \in 1 .. Len(r.headers)
  PROVE  \A c \in 1 .. 2 * Len(r.pad) + 5 : Text(r)[LineAt(r, j) + c] = Header(r, j)[c]
<1>. DEFINE n == Len(r.headers)
            u == ParamAt(r, Last(r))
            k == Len(Headers(r)[j - 1])
            L == Headers(r)[n]
            q == Len(r.pad)
            w == 2 * q + 5
            T == Text(r)
            x == Header(r, j)
            a == LineAt(r, j)
            e == End(r)
<1>1. /\ n \in Nat /\ q \in Nat /\ j \in 1 .. n /\ u \in Nat /\ w \in Nat
  <2>1. u \in Nat
    BY TextIs DEF PartsOf
  <2>. QED
    BY <2>1, RequestType
<1>2. a = u + 8 + k
  BY <1>1, LineAtIs
<1>3. k \in Nat
  <2>1. j - 1 \in 0 .. n
    BY <1>1
  <2>. QED
    BY <2>1, LineChars
<1>4. a + w <= e /\ e \in Nat
  <2>1. LineAt(r, j + 1) = a + 2 * Len(r.pad) + 5
    BY LineAtIs
  <2>2. LineAt(r, j + 1) <= e
    BY <1>1, LineAtIs
  <2>3. e \in Nat
    BY TextIs DEF PartsOf
  <2>. HIDE DEF a, e
  <2>. QED
    BY <1>1, <1>2, <1>3, <2>1, <2>2, <2>3
<1>5. \A c \in 1 .. w : L[k + c] = x[c]
  BY LineChars
<1>6. \A c \in u + 9 .. e : T[c] = L[c - (u + 8)]
  BY TextIs DEF PartsOf
<1>. HIDE DEF n, u, k, L, q, w, T, x, a, e
<1>7. ASSUME NEW c \in 1 .. w PROVE T[a + c] = x[c]
  <2>1. a + c \in u + 9 .. e /\ (a + c) - (u + 8) = k + c
    BY <1>1, <1>2, <1>3, <1>4
  <2>. QED
    BY <2>1, <1>5, <1>6
<1>. QED
  BY <1>7 DEF w, q, T, a, x

LEMMA EndText ==
  ASSUME NEW r \in Requests
  PROVE  /\ Text(r) \in Seq(Chars) /\ End(r) \in Nat /\ Len(r.body) \in Nat
         /\ Text(r)[End(r) + 1] = CR /\ Text(r)[End(r) + 2] = LF
         /\ Len(Text(r)) = End(r) + 2 + Len(r.body)
         /\ \A k \in 1 .. Len(r.body) : Text(r)[End(r) + 2 + k] = r.body[k]
<1>. DEFINE e == End(r)
            T == Text(r)
            body == r.body
<1>1. /\ T \in Seq(Chars) /\ e \in Nat /\ Len(body) \in Nat /\ Len(T) = e + 2 + Len(body)
      /\ T[e + 1] = CR /\ T[e + 2] = LF
      /\ \A i \in e + 3 .. Len(T) : T[i] = body[i - (e + 2)]
  BY TextIs DEF PartsOf
<1>. HIDE DEF e, T, body
<1>2. ASSUME NEW k \in 1 .. Len(body) PROVE T[e + 2 + k] = body[k]
  <2>1. e + 2 + k \in e + 3 .. Len(T) /\ (e + 2 + k) - (e + 2) = k
    BY <1>1
  <2>. QED
    BY <1>1, <2>1
<1>. QED
  BY <1>1, <1>2 DEF e, T, body

-----------------------------------------------------------------------------
(* Where the state machine is in a request: s is its state when it has read p *)
(* characters.                                                              *)

InStart(s, p) ==
  \/ s = "START" /\ p = 0
  \/ s = "METHOD" /\ p = 1
  \/ s = "BEFORE_URI" /\ p = 2
  \/ s = "IN_URI" /\ p = 3

InParam(s, p, a) ==
  \/ s = "BEFORE_URI_PARAM_KEY" /\ p = a + 1
  \/ s = "URI_PARAM_KEY" /\ p = a + 2
  \/ s = "BEFORE_URI_PARAM_VALUE" /\ p = a + 3
  \/ s = "URI_PARAM_VALUE" /\ p = a + 4

InProtocol(s, p, u) ==
  \/ s = "BEFORE_PROTOCOL" /\ p = u + 1
  \/ s = "PROTOCOL" /\ p = u + 2
  \/ s = "BEFORE_VERSION" /\ p = u + 3
  \/ s = "VERSION" /\ p = u + 4
  \/ s = "VERSION_SPLIT" /\ p = u + 5
  \/ s = "VERSION" /\ p = u + 6
  \/ s = "WHEN_CR" /\ p = u + 7
  \/ s = "CR_LF" /\ p = u + 8

InHeader(s, p, a, q) ==
  \/ s = "HEADER_KEY" /\ p = a + 1
  \/ s = "HEADER_BEFORE_COLON" /\ p \in a + 2 .. a + q + 1
  \/ s = "HEADER_AFTER_COLON" /\ p \in a + q + 2 .. a + 2 * q + 2
  \/ s = "HEADER_VALUE" /\ p = a + 2 * q + 3
  \/ s = "WHEN_CR" /\ p = a + 2 * q + 4
  \/ s = "CR_LF" /\ p = a + 2 * q + 5

InEnd(s, p, e) ==
  \/ s = "CR_LF_CR" /\ p = e + 1
  \/ s = "BODY" /\ p = e + 2
  \/ s = "COMPLETE" /\ p \in {e + 2, e + 3}

Place(r, s, p) ==
  \/ InStart(s, p)
  \/ \E i \in 1 .. Len(r.params) : InParam(s, p, ParamAt(r, i))
  \/ InProtocol(s, p, ParamAt(r, Last(r)))
  \/ \E j \in 1 .. Len(r.headers) : InHeader(s, p, LineAt(r, j), Len(r.pad))
  \/ InEnd(s, p, End(r))

\* The moves a request makes the state machine do
Move(s, t) ==
  \/ s = "START" /\ t = "METHOD"
  \/ s = "METHOD" /\ t = "BEFORE_URI"
  \/ s = "BEFORE_URI" /\ t = "IN_URI"
  \/ s = "IN_URI" /\ t \in {"BEFORE_URI_PARAM_KEY", "BEFORE_PROTOCOL"}
  \/ s = "BEFORE_URI_PARAM_KEY" /\ t = "URI_PARAM_KEY"
  \/ s = "URI_PARAM_KEY" /\ t = "BEFORE_URI_PARAM_VALUE"
  \/ s = "BEFORE_URI_PARAM_VALUE" /\ t = "URI_PARAM_VALUE"
  \/ s = "URI_PARAM_VALUE" /\ t \in {"BEFORE_URI_PARAM_KEY", "BEFORE_PROTOCOL"}
  \/ s = "BEFORE_PROTOCOL" /\ t = "PROTOCOL"
  \/ s = "PROTOCOL" /\ t = "BEFORE_VERSION"
  \/ s = "BEFORE_VERSION" /\ t = "VERSION"
  \/ s = "VERSION" /\ t \in {"VERSION_SPLIT", "WHEN_CR"}
  \/ s = "VERSION_SPLIT" /\ t = "VERSION"
  \/ s = "WHEN_CR" /\ t = "CR_LF"
  \/ s = "CR_LF" /\ t \in {"HEADER_KEY", "CR_LF_CR"}
  \/ s = "HEADER_KEY" /\ t \in {"HEADER_BEFORE_COLON", "HEADER_AFTER_COLON"}
  \/ s = "HEADER_BEFORE_COLON" /\ t \in {"HEADER_BEFORE_COLON", "HEADER_AFTER_COLON"}
  \/ s = "HEADER_AFTER_COLON" /\ t \in {"HEADER_AFTER_COLON", "HEADER_VALUE"}
  \/ s = "HEADER_VALUE" /\ t = "WHEN_CR"
  \/ s = "CR_LF_CR" /\ t \in {"BODY", "COMPLETE"}
  \/ s = "BODY" /\ t = "COMPLETE"

Turn(r, s, p) ==
  LET t == Goto(s, Text(r)[p + 1]) IN Move(s, t) /\ Place(r, t, p + 1)

LEMMA TurnIs ==
  ASSUME NEW r, NEW s, NEW p, NEW t, Goto(s, Text(r)[p + 1]) = t, Move(s, t), Place(r, t, p + 1)
  PROVE  Turn(r, s, p)
BY DEF Turn

LEMMA TurnInStart ==
  ASSUME NEW r \in Requests, NEW s, NEW p, InStart(s, p)
  PROVE  Turn(r, s, p)
<1>. DEFINE T == Text(r)
            u == ParamAt(r, Last(r))
<1>1. Line1Chars(T, r.method, u) /\ r.method \in Uppers /\ r.method \in Chars
  BY TextIs, RequestType, CharFacts
<1>2. T[1] = r.method /\ T[2] = " " /\ T[3] = "/" /\ T[u + 1] = " "
  BY <1>1 DEF Line1Chars
<1>3. " " \in Chars /\ " " \in Blank /\ "/" \in Chars /\ "?" \in Chars
  BY CharFacts
<1>. HIDE DEF T
<1>4. CASE s = "START" /\ p = 0
  <2>1. p + 1 = 1
    BY <1>4
  <2>2. Goto("START", T[1]) = "METHOD"
    BY <1>1, <1>2, UriMoves
  <2>3. Move("START", "METHOD") /\ Place(r, "METHOD", 1)
    BY DEF Move, Place, InStart
  <2>. QED
    BY <1>4, <2>1, <2>2, <2>3, TurnIs DEF T
<1>5. CASE s = "METHOD" /\ p = 1
  <2>1. p + 1 = 2
    BY <1>5
  <2>2. Goto("METHOD", T[2]) = "BEFORE_URI"
    BY <1>2, <1>3, UriMoves
  <2>3. Move("METHOD", "BEFORE_URI") /\ Place(r, "BEFORE_URI", 2)
    BY DEF Move, Place, InStart
  <2>. QED
    BY <1>5, <2>1, <2>2, <2>3, TurnIs DEF T
<1>6. CASE s = "BEFORE_URI" /\ p = 2
  <2>1. p + 1 = 3
    BY <1>6
  <2>2. Goto("BEFORE_URI", T[3]) = "IN_URI"
    BY <1>2, <1>3, UriMoves
  <2>3. Move("BEFORE_URI", "IN_URI") /\ Place(r, "IN_URI", 3)
    BY DEF Move, Place, InStart
  <2>. QED
    BY <1>6, <2>1, <2>2, <2>3, TurnIs DEF T
<1>7. CASE s = "IN_URI" /\ p = 3
  <2>0. p + 1 = 4 /\ ParamAt(r, 1) = 3 /\ Len(r.params) \in Nat
    BY <1>7, ParamChars, RequestType
  <2>1. CASE Len(r.params) = 0
    <3>1. u = 3
      BY <2>0, <2>1 DEF Last
    <3>2. Goto("IN_URI", T[4]) = "BEFORE_PROTOCOL"
      <4>0. u + 1 = 4
        BY <3>1
      <4>1. T[4] = " "
        BY <1>2, <4>0
      <4>. QED
        BY <4>1, <1>3, UriMoves
    <3>3. Move("IN_URI", "BEFORE_PROTOCOL") /\ InProtocol("BEFORE_PROTOCOL", 4, u)
      BY <3>1 DEF Move, InProtocol
    <3>4. Place(r, "BEFORE_PROTOCOL", 4)
      BY <3>3 DEF Place
    <3>. QED
      BY <1>7, <2>0, <3>2, <3>3, <3>4, TurnIs DEF T
  <2>2. CASE Len(r.params) # 0
    <3>1. 1 \in 1 .. Len(r.params)
      BY <2>0, <2>2
    <3>2. Goto("IN_URI", T[4]) = "BEFORE_URI_PARAM_KEY"
      <4>1. T[ParamAt(r, 1) + 1] = "?"
        BY <3>1, ParamText DEF T
      <4>2. T[4] = "?"
        BY <2>0, <4>1
      <4>. QED
        BY <4>2, <1>3, UriMoves
    <3>3. Move("IN_URI", "BEFORE_URI_PARAM_KEY") /\ InParam("BEFORE_URI_PARAM_KEY", 4, ParamAt(r,
            1))
      BY <2>0 DEF Move, InParam
    <3>4. Place(r, "BEFORE_URI_PARAM_KEY", 4)
      BY <3>1, <3>3 DEF Place
    <3>. QED
      BY <1>7, <2>0, <3>2, <3>3, <3>4, TurnIs DEF T
  <2>. QED
    BY <2>1, <2>2
<1>. QED
  BY <1>4, <1>5, <1>6, <1>7 DEF InStart

LEMMA TurnInParam ==
  ASSUME NEW r \in Requests, NEW s, NEW p, NEW i \in 1 .. Len(r.params),
         InParam(s, p, ParamAt(r, i))
  PROVE  Turn(r, s, p)
<1>. DEFINE T == Text(r)
            u == ParamAt(r, Last(r))
            a == ParamAt(r, i)
            n == Len(r.params)
<1>1. /\ T[a + 1] = IF i = 1 THEN "?" ELSE "&"
      /\ T[a + 2] = "a" /\ T[a + 3] = "=" /\ T[a + 4] = r.params[i]
  BY ParamText
<1>2. /\ " " \in Chars /\ " " \in Blank /\ "a" \in Chars /\ "=" \in Chars /\ "&" \in Chars
      /\ r.params[i] \in Names /\ r.params[i] \in Chars
  BY CharFacts, RequestType
<1>3. /\ n \in Nat /\ a \in Nat /\ ParamAt(r, i + 1) = a + 4 /\ u = ParamAt(r, n + 1)
  BY RequestType, ParamChars DEF Last
<1>4. T[u + 1] = " "
  BY TextIs DEF Line1Chars
<1>5. /\ InParam("URI_PARAM_KEY", a + 2, a) /\ InParam("BEFORE_URI_PARAM_VALUE", a + 3, a)
      /\ InParam("URI_PARAM_VALUE", a + 4, a)
  BY DEF InParam
<1>6. /\ Place(r, "URI_PARAM_KEY", a + 2) /\ Place(r, "BEFORE_URI_PARAM_VALUE", a + 3)
      /\ Place(r, "URI_PARAM_VALUE", a + 4)
  BY <1>5 DEF Place
<1>. HIDE DEF T, u, a, n
<1>7. CASE s = "BEFORE_URI_PARAM_KEY" /\ p = a + 1
  <2>1. p + 1 = a + 2
    BY <1>3, <1>7
  <2>2. Goto("BEFORE_URI_PARAM_KEY", T[a + 2]) = "URI_PARAM_KEY"
    BY <1>1, <1>2, UriMoves
  <2>3. Move("BEFORE_URI_PARAM_KEY", "URI_PARAM_KEY")
    BY DEF Move
  <2>. QED
    BY <1>6, <1>7, <2>1, <2>2, <2>3, TurnIs DEF T
<1>8. CASE s = "URI_PARAM_KEY" /\ p = a + 2
  <2>1. p + 1 = a + 3
    BY <1>3, <1>8
  <2>2. Goto("URI_PARAM_KEY", T[a + 3]) = "BEFORE_URI_PARAM_VALUE"
    BY <1>1, <1>2, UriMoves
  <2>3. Move("URI_PARAM_KEY", "BEFORE_URI_PARAM_VALUE")
    BY DEF Move
  <2>. QED
    BY <1>6, <1>8, <2>1, <2>2, <2>3, TurnIs DEF T
<1>9. CASE s = "BEFORE_URI_PARAM_VALUE" /\ p = a + 3
  <2>1. p + 1 = a + 4
    BY <1>3, <1>9
  <2>2. Goto("BEFORE_URI_PARAM_VALUE", T[a + 4]) = "URI_PARAM_VALUE"
    BY <1>1, <1>2, UriMoves
  <2>3. Move("BEFORE_URI_PARAM_VALUE", "URI_PARAM_VALUE")
    BY DEF Move
  <2>. QED
    BY <1>6, <1>9, <2>1, <2>2, <2>3, TurnIs DEF T
<1>10. CASE s = "URI_PARAM_VALUE" /\ p = a + 4
  <2>1. CASE i = n
    <3>1. p = u /\ T[p + 1] = " "
      BY <1>3, <1>4, <1>10, <2>1
    <3>2. Goto("URI_PARAM_VALUE", T[p + 1]) = "BEFORE_PROTOCOL"
      BY <3>1, <1>2, UriMoves
    <3>3. Move("URI_PARAM_VALUE", "BEFORE_PROTOCOL") /\ InProtocol("BEFORE_PROTOCOL", p + 1, u)
      BY <3>1 DEF Move, InProtocol
    <3>4. Place(r, "BEFORE_PROTOCOL", p + 1)
      BY <3>3 DEF Place, u
    <3>. QED
      BY <1>10, <3>2, <3>3, <3>4, TurnIs DEF T
  <2>2. CASE i # n
    <3>1. i + 1 \in 1 .. n /\ i + 1 # 1 /\ p = ParamAt(r, i + 1)
      BY <1>3, <1>10, <2>2 DEF n
    <3>2. T[p + 1] = "&"
      BY <3>1, ParamText DEF T, n
    <3>3. Goto("URI_PARAM_VALUE", T[p + 1]) = "BEFORE_URI_PARAM_KEY"
      BY <3>2, <1>2, UriMoves
    <3>4. /\ Move("URI_PARAM_VALUE", "BEFORE_URI_PARAM_KEY")
          /\ InParam("BEFORE_URI_PARAM_KEY", p + 1, ParamAt(r, i + 1))
      BY <3>1 DEF Move, InParam
    <3>5. Place(r, "BEFORE_URI_PARAM_KEY", p + 1)
      BY <3>1, <3>4 DEF Place, n
    <3>. QED
      BY <1>10, <3>3, <3>4, <3>5, TurnIs DEF T
  <2>. QED
    BY <2>1, <2>2
<1>. QED
  BY <1>7, <1>8, <1>9, <1>10 DEF InParam, a

\* At the beginning of a line: a header's, or the empty one
LEMMA TurnAtLine ==
  ASSUME NEW r \in Requests, NEW j \in 1 .. Len(r.headers) + 1
  PROVE  Turn(r, "CR_LF", LineAt(r, j))
<1>. DEFINE T == Text(r)
            p == LineAt(r, j)
            n == Len(r.headers)
<1>1. n \in Nat /\ Len(r.pad) \in Nat /\ p \in Nat
  BY RequestType, LineAtIs
<1>. HIDE DEF T, p, n
<1>2. CASE j \in 1 .. n
  <2>1. T[p + 1] = r.headers[j].key
    <3>1. 1 \in 1 .. 2 * Len(r.pad) + 5
      BY <1>1
    <3>2. T[p + 1] = Header(r, j)[1]
      BY <1>2, <3>1, LineText DEF T, p, n
    <3>. QED
      BY <1>2, <3>2, HeaderChars DEF n
  <2>2. T[p + 1] \in Names /\ T[p + 1] \in Chars
    BY <1>2, <2>1, RequestType, CharFacts DEF n
  <2>3. Goto("CR_LF", T[p + 1]) = "HEADER_KEY"
    BY <2>2, HeaderMoves
  <2>4. Move("CR_LF", "HEADER_KEY") /\ InHeader("HEADER_KEY", p + 1, LineAt(r, j), Len(r.pad))
    BY DEF Move, InHeader, p
  <2>5. Place(r, "HEADER_KEY", p + 1)
    BY <1>2, <2>4 DEF Place, n
  <2>. QED
    BY <2>3, <2>4, <2>5, TurnIs DEF T, p
<1>3. CASE j = n + 1
  <2>1. p = End(r)
    BY <1>3 DEF End, p, n
  <2>2. T[p + 1] = CR
    BY <2>1, EndText DEF T
  <2>3. Goto("CR_LF", T[p + 1]) = "CR_LF_CR"
    BY <2>2, CharFacts, HeaderMoves
  <2>4. Move("CR_LF", "CR_LF_CR") /\ InEnd("CR_LF_CR", p + 1, End(r))
    BY <2>1 DEF Move, InEnd
  <2>5. Place(r, "CR_LF_CR", p + 1)
    BY <2>4 DEF Place
  <2>. QED
    BY <2>3, <2>4, <2>5, TurnIs DEF T, p
<1>. QED
  BY <1>1, <1>2, <1>3 DEF n

LEMMA TurnInProtocol ==
  ASSUME NEW r \in Requests, NEW s, NEW p, InProtocol(s, p, ParamAt(r, Last(r)))
  PROVE  Turn(r, s, p)
<1>. DEFINE T == Text(r)
            u == ParamAt(r, Last(r))
<1>1. /\ T[u + 2] = "H" /\ T[u + 3] = "/" /\ T[u + 4] = "1"
      /\ T[u + 5] = "." /\ T[u + 6] = "1" /\ T[u + 7] = CR /\ T[u + 8] = LF
  BY TextIs DEF Line1Chars
<1>2. /\ "H" \in Chars /\ "/" \in Chars /\ "1" \in Chars /\ "." \in Chars
      /\ CR \in Chars /\ LF \in Chars
  BY CharFacts
<1>3. u \in Nat
  BY TextIs DEF PartsOf
<1>. HIDE DEF T
<1>4. ASSUME NEW x, NEW k, InProtocol(x, u + k, u)
      PROVE  Place(r, x, u + k)
  BY <1>4 DEF Place
<1>. HIDE DEF u
<1>5. CASE s = "BEFORE_PROTOCOL" /\ p = u + 1
  <2>1. p + 1 = u + 2
    BY <1>3, <1>5
  <2>2. Goto("BEFORE_PROTOCOL", T[u + 2]) = "PROTOCOL"
    BY <1>1, <1>2, VersionMoves
  <2>3. Move("BEFORE_PROTOCOL", "PROTOCOL") /\ InProtocol("PROTOCOL", u + 2, u)
    BY DEF Move, InProtocol
  <2>4. Place(r, "PROTOCOL", u + 2)
    BY <1>4, <2>3
  <2>. QED
    BY <1>5, <2>1, <2>2, <2>3, <2>4, TurnIs DEF T
<1>6. CASE s = "PROTOCOL" /\ p = u + 2
  <2>1. p + 1 = u + 3
    BY <1>3, <1>6
  <2>2. Goto("PROTOCOL", T[u + 3]) = "BEFORE_VERSION"
    BY <1>1, <1>2, VersionMoves
  <2>3. Move("PROTOCOL", "BEFORE_VERSION") /\ InProtocol("BEFORE_VERSION", u + 3, u)
    BY DEF Move, InProtocol
  <2>4. Place(r, "BEFORE_VERSION", u + 3)
    BY <1>4, <2>3
  <2>. QED
    BY <1>6, <2>1, <2>2, <2>3, <2>4, TurnIs DEF T
<1>7. CASE s = "BEFORE_VERSION" /\ p = u + 3
  <2>1. p + 1 = u + 4
    BY <1>3, <1>7
  <2>2. Goto("BEFORE_VERSION", T[u + 4]) = "VERSION"
    BY <1>1, <1>2, VersionMoves
  <2>3. Move("BEFORE_VERSION", "VERSION") /\ InProtocol("VERSION", u + 4, u)
    BY DEF Move, InProtocol
  <2>4. Place(r, "VERSION", u + 4)
    BY <1>4, <2>3
  <2>. QED
    BY <1>7, <2>1, <2>2, <2>3, <2>4, TurnIs DEF T
<1>8. CASE s = "VERSION" /\ p = u + 4
  <2>1. p + 1 = u + 5
    BY <1>3, <1>8
  <2>2. Goto("VERSION", T[u + 5]) = "VERSION_SPLIT"
    BY <1>1, <1>2, VersionMoves
  <2>3. Move("VERSION", "VERSION_SPLIT") /\ InProtocol("VERSION_SPLIT", u + 5, u)
    BY DEF Move, InProtocol
  <2>4. Place(r, "VERSION_SPLIT", u + 5)
    BY <1>4, <2>3
  <2>. QED
    BY <1>8, <2>1, <2>2, <2>3, <2>4, TurnIs DEF T
<1>9. CASE s = "VERSION_SPLIT" /\ p = u + 5
  <2>1. p + 1 = u + 6
    BY <1>3, <1>9
  <2>2. Goto("VERSION_SPLIT", T[u + 6]) = "VERSION"
    BY <1>1, <1>2, VersionMoves
  <2>3. Move("VERSION_SPLIT", "VERSION") /\ InProtocol("VERSION", u + 6, u)
    BY DEF Move, InProtocol
  <2>4. Place(r, "VERSION", u + 6)
    BY <1>4, <2>3
  <2>. QED
    BY <1>9, <2>1, <2>2, <2>3, <2>4, TurnIs DEF T
<1>10. CASE s = "VERSION" /\ p = u + 6
  <2>1. p + 1 = u + 7
    BY <1>3, <1>10
  <2>2. Goto("VERSION", T[u + 7]) = "WHEN_CR"
    BY <1>1, <1>2, VersionMoves
  <2>3. Move("VERSION", "WHEN_CR") /\ InProtocol("WHEN_CR", u + 7, u)
    BY DEF Move, InProtocol
  <2>4. Place(r, "WHEN_CR", u + 7)
    BY <1>4, <2>3
  <2>. QED
    BY <1>10, <2>1, <2>2, <2>3, <2>4, TurnIs DEF T
<1>11. CASE s = "WHEN_CR" /\ p = u + 7
  <2>1. p + 1 = u + 8
    BY <1>3, <1>11
  <2>2. Goto("WHEN_CR", T[u + 8]) = "CR_LF"
    BY <1>1, <1>2, HeaderMoves
  <2>3. Move("WHEN_CR", "CR_LF") /\ InProtocol("CR_LF", u + 8, u)
    BY DEF Move, InProtocol
  <2>4. Place(r, "CR_LF", u + 8)
    BY <1>4, <2>3
  <2>. QED
    BY <1>11, <2>1, <2>2, <2>3, <2>4, TurnIs DEF T
<1>12. CASE s = "CR_LF" /\ p = u + 8
  <2>1. 1 \in 1 .. Len(r.headers) + 1 /\ LineAt(r, 1) = p
    BY <1>12, RequestType, LineAtIs DEF u
  <2>. QED
    BY <1>12, <2>1, TurnAtLine
<1>. QED
  BY <1>5, <1>6, <1>7, <1>8, <1>9, <1>10, <1>11, <1>12 DEF InProtocol, u

LEMMA TurnInHeader ==
  ASSUME NEW r \in Requests, NEW s, NEW p, NEW j \in 1 .. Len(r.headers),
         InHeader(s, p, LineAt(r, j), Len(r.pad))
  PROVE  Turn(r, s, p)
<1>. DEFINE T == Text(r)
            a == LineAt(r, j)
            q == Len(r.pad)
            h == Header(r, j)
<1>1. /\ \A k \in 1 .. q : h[k + 1] \in Blank
      /\ h[q + 2] = ":"
      /\ \A k \in 1 .. q : h[q + 2 + k] \in Blank
      /\ h[2 * q + 3] \in Names /\ h[2 * q + 4] = CR /\ h[2 * q + 5] = LF
  BY HeaderChars, RequestType
<1>2. /\ ":" \in Chars
      /\ CR \in Chars /\ LF \in Chars /\ Names \subseteq Chars /\ Blank \subseteq Chars
  BY CharFacts DEF Chars
<1>3. a \in Nat /\ q \in Nat /\ LineAt(r, j + 1) = a + 2 * q + 5
  <2>1. Len(r.headers) \in Nat /\ Len(r.pad) \in Nat
    BY RequestType
  <2>. QED
    BY <2>1, LineAtIs
<1>4. \A c \in 1 .. 2 * q + 5 : T[a + c] = h[c]
  BY LineText
<1>5. ASSUME NEW x, NEW k, InHeader(x, k, a, q)
      PROVE  Place(r, x, k)
  BY <1>5 DEF Place
<1>. HIDE DEF T, a, q, h
<1>6. CASE s = "HEADER_KEY" /\ p = a + 1
  <2>1. p + 1 = a + 2 /\ 2 \in 1 .. 2 * q + 5
    BY <1>3, <1>6
  <2>2. T[p + 1] = h[2]
    BY <1>4, <2>1
  <2>3. CASE q = 0
    <3>1. h[2] = ":"
      <4>1. q + 2 = 2
        BY <2>3
      <4>. QED
        BY <1>1, <4>1
    <3>2. Goto("HEADER_KEY", T[p + 1]) = "HEADER_AFTER_COLON"
      BY <1>2, <2>2, <3>1, HeaderMoves
    <3>3. Move("HEADER_KEY", "HEADER_AFTER_COLON") /\ InHeader("HEADER_AFTER_COLON", p + 1, a, q)
      BY <1>3, <2>1, <2>3 DEF Move, InHeader
    <3>. QED
      BY <1>5, <1>6, <3>2, <3>3, TurnIs DEF T
  <2>4. CASE q # 0
    <3>1. h[2] \in Blank
      <4>1. 1 \in 1 .. q /\ 1 + 1 = 2
        BY <1>3, <2>4
      <4>. QED
        BY <1>1, <4>1
    <3>2. Goto("HEADER_KEY", T[p + 1]) = "HEADER_BEFORE_COLON"
      BY <1>2, <2>2, <3>1, HeaderMoves
    <3>3. Move("HEADER_KEY", "HEADER_BEFORE_COLON") /\ InHeader("HEADER_BEFORE_COLON", p + 1, a, q)
      BY <1>3, <2>1, <2>4 DEF Move, InHeader
    <3>. QED
      BY <1>5, <1>6, <3>2, <3>3, TurnIs DEF T
  <2>. QED
    BY <2>3, <2>4
<1>7. CASE s = "HEADER_BEFORE_COLON" /\ p \in a + 2 .. a + q + 1
  <2>. DEFINE k == p - a - 1
  <2>1. k \in 1 .. q /\ p \in Nat /\ p + 1 = a + (k + 2) /\ k + 2 \in 1 .. 2 * q + 5
    BY <1>3, <1>7
  <2>2. T[p + 1] = h[k + 2]
    <3>. HIDE DEF k
    <3>. QED
      BY <1>4, <2>1
  <2>3. CASE k = q
    <3>1. h[k + 2] = ":"
      BY <1>1, <2>3
    <3>2. Goto("HEADER_BEFORE_COLON", T[p + 1]) = "HEADER_AFTER_COLON"
      BY <1>2, <2>2, <3>1, HeaderMoves
    <3>3. /\ Move("HEADER_BEFORE_COLON", "HEADER_AFTER_COLON")
          /\ InHeader("HEADER_AFTER_COLON", p + 1, a, q)
      BY <1>3, <2>1, <2>3 DEF Move, InHeader
    <3>. QED
      BY <1>5, <1>7, <3>2, <3>3, TurnIs DEF T
  <2>4. CASE k # q
    <3>1. h[k + 2] \in Blank
      <4>1. k + 1 \in 1 .. q /\ (k + 1) + 1 = k + 2
        BY <1>3, <2>1, <2>4
      <4>. QED
        BY <1>1, <4>1
    <3>2. Goto("HEADER_BEFORE_COLON", T[p + 1]) = "HEADER_BEFORE_COLON"
      BY <1>2, <2>2, <3>1, HeaderMoves
    <3>3. /\ Move("HEADER_BEFORE_COLON", "HEADER_BEFORE_COLON")
          /\ InHeader("HEADER_BEFORE_COLON", p + 1, a, q)
      BY <1>3, <2>1, <2>4 DEF Move, InHeader
    <3>. QED
      BY <1>5, <1>7, <3>2, <3>3, TurnIs DEF T
  <2>. QED
    BY <2>3, <2>4
<1>8. CASE s = "HEADER_AFTER_COLON" /\ p \in a + q + 2 .. a + 2 * q + 2
  <2>. DEFINE k == p - a - q - 2
  <2>1. k \in 0 .. q /\ p \in Nat /\ p + 1 = a + (q + 3 + k) /\ q + 3 + k \in 1 .. 2 * q + 5
    BY <1>3, <1>8
  <2>2. T[p + 1] = h[q + 3 + k]
    <3>. HIDE DEF k
    <3>. QED
      BY <1>4, <2>1
  <2>3. CASE k = q
    <3>1. h[q + 3 + k] \in Names
      <4>1. q + 3 + k = 2 * q + 3
        BY <1>3, <2>3
      <4>. QED
        BY <1>1, <4>1
    <3>2. Goto("HEADER_AFTER_COLON", T[p + 1]) = "HEADER_VALUE"
      BY <1>2, <2>2, <3>1, HeaderMoves
    <3>3. /\ Move("HEADER_AFTER_COLON", "HEADER_VALUE")
          /\ InHeader("HEADER_VALUE", p + 1, a, q)
      BY <1>3, <2>1, <2>3 DEF Move, InHeader
    <3>. QED
      BY <1>5, <1>8, <3>2, <3>3, TurnIs DEF T
  <2>4. CASE k # q
    <3>1. h[q + 3 + k] \in Blank
      <4>1. k + 1 \in 1 .. q /\ q + 2 + (k + 1) = q + 3 + k
        BY <1>3, <2>1, <2>4
      <4>. QED
        BY <1>1, <4>1
    <3>2. Goto("HEADER_AFTER_COLON", T[p + 1]) = "HEADER_AFTER_COLON"
      BY <1>2, <2>2, <3>1, HeaderMoves
    <3>3. /\ Move("HEADER_AFTER_COLON", "HEADER_AFTER_COLON")
          /\ InHeader("HEADER_AFTER_COLON", p + 1, a, q)
      BY <1>3, <2>1, <2>4 DEF Move, InHeader
    <3>. QED
      BY <1>5, <1>8, <3>2, <3>3, TurnIs DEF T
  <2>. QED
    BY <2>3, <2>4
<1>9. CASE s = "HEADER_VALUE" /\ p = a + 2 * q + 3
  <2>1. p + 1 = a + (2 * q + 4) /\ 2 * q + 4 \in 1 .. 2 * q + 5
    BY <1>3, <1>9
  <2>2. T[p + 1] = CR
    BY <1>1, <1>4, <2>1
  <2>3. Goto("HEADER_VALUE", T[p + 1]) = "WHEN_CR"
    BY <1>2, <2>2, HeaderMoves
  <2>4. Move("HEADER_VALUE", "WHEN_CR") /\ InHeader("WHEN_CR", p + 1, a, q)
    BY <1>3, <1>9 DEF Move, InHeader
  <2>. QED
    BY <1>5, <1>9, <2>3, <2>4, TurnIs DEF T
<1>10. CASE s = "WHEN_CR" /\ p = a + 2 * q + 4
  <2>1. p + 1 = a + (2 * q + 5) /\ 2 * q + 5 \in 1 .. 2 * q + 5
    BY <1>3, <1>10
  <2>2. T[p + 1] = LF
    BY <1>1, <1>4, <2>1
  <2>3. Goto("WHEN_CR", T[p + 1]) = "CR_LF"
    BY <1>2, <2>2, HeaderMoves
  <2>4. Move("WHEN_CR", "CR_LF") /\ InHeader("CR_LF", p + 1, a, q)
    BY <1>3, <1>10 DEF Move, InHeader
  <2>. QED
    BY <1>5, <1>10, <2>3, <2>4, TurnIs DEF T
<1>11. CASE s = "CR_LF" /\ p = a + 2 * q + 5
  <2>1. j + 1 \in 1 .. Len(r.headers) + 1
    BY RequestType
  <2>. QED
    BY <1>3, <1>11, <2>1, TurnAtLine
<1>. QED
  BY <1>6, <1>7, <1>8, <1>9, <1>10, <1>11 DEF InHeader, a, q

LEMMA TurnInEnd ==
  ASSUME NEW r \in Requests, NEW s, NEW p, InEnd(s, p, End(r)), p < Len(Text(r)), s # "COMPLETE"
  PROVE  Turn(r, s, p)
<1>. DEFINE T == Text(r)
            e == End(r)
<1>1. T \in Seq(Chars) /\ e \in Nat /\ T[e + 2] = LF /\ LF \in Chars
  BY EndText, CharFacts
<1>2. CASE s = "CR_LF_CR" /\ p = e + 1
  <2>1. p + 1 = e + 2
    BY <1>1, <1>2
  <2>2. Goto("CR_LF_CR", T[e + 2]) = "BODY"
    BY <1>1, HeaderMoves
  <2>3. Move("CR_LF_CR", "BODY") /\ InEnd("BODY", e + 2, e)
    BY DEF Move, InEnd
  <2>4. Place(r, "BODY", e + 2)
    BY <2>3 DEF Place
  <2>. QED
    BY <1>2, <2>1, <2>2, <2>3, <2>4, TurnIs
<1>3. CASE s = "BODY" /\ p = e + 2
  <2>1. p + 1 = e + 3 /\ p + 1 \in 1 .. Len(T)
    BY <1>1, <1>3, LenProperties
  <2>2. T[p + 1] \in Chars
    BY <1>1, <2>1, ElementOfSeq
  <2>3. Goto("BODY", T[p + 1]) = "COMPLETE"
    BY <2>2, HeaderMoves
  <2>4. Move("BODY", "COMPLETE") /\ InEnd("COMPLETE", p + 1, e)
    BY <2>1 DEF Move, InEnd
  <2>5. Place(r, "COMPLETE", p + 1)
    BY <2>4 DEF Place
  <2>. QED
    BY <1>3, <2>3, <2>4, <2>5, TurnIs
<1>. QED
  BY <1>2, <1>3 DEF InEnd

\* In a request every step leads to the next place.
LEMMA PlaceTurns ==
  ASSUME NEW r \in Requests, NEW s, NEW p, Place(r, s, p), p < Len(Text(r)), s # "COMPLETE"
  PROVE  Turn(r, s, p)
<1>1. CASE InStart(s, p)
  BY <1>1, TurnInStart
<1>2. CASE \E i \in 1 .. Len(r.params) : InParam(s, p, ParamAt(r, i))
  BY <1>2, TurnInParam
<1>3. CASE InProtocol(s, p, ParamAt(r, Last(r)))
  BY <1>3, TurnInProtocol
<1>4. CASE \E j \in 1 .. Len(r.headers) : InHeader(s, p, LineAt(r, j), Len(r.pad))
  BY <1>4, TurnInHeader
<1>5. CASE InEnd(s, p, End(r))
  BY <1>5, TurnInEnd
<1>. QED
  BY <1>1, <1>2, <1>3, <1>4, <1>5 DEF Place

-----------------------------------------------------------------------------
(* Types *)

\* Between two parses, and when one ended, no token is marked.
Unmarked == pc \in {"read", "answer"} => \A b \in Tokens : m_pBegin[b] = NULL /\ m_pEnd[b] = NULL

TypeInv ==
  /\ TypeOK
  /\ text \in Seq(Chars)
  /\ request # NULL => text = Text(request)
  /\ Unmarked

LEMMA TextType ==
  ASSUME NEW r \in Requests
  PROVE  Text(r) \in Seq(Chars) /\ r # NULL
BY EndText, ParserAssumption

LEMMA ClientType ==
  ASSUME NEW r, NEW t, (r \in Requests /\ t = Text(r)) \/ (r = NULL /\ t \in Slips)
  PROVE  /\ r \in Requests \cup {NULL} /\ t \in Seq(Chars)
         /\ (r # NULL => t = Text(r)) /\ Len(t) \in Nat
<1>1. CASE r \in Requests /\ t = Text(r)
  BY <1>1, TextType, LenProperties
<1>2. CASE r = NULL /\ t \in Slips
  BY <1>2, ParserAssumption, LenProperties
<1>. QED
  BY <1>1, <1>2

LEMMA TypeInit ==
  ASSUME Init
  PROVE  TypeInv
<1>1. /\ request \in Requests \cup {NULL}
      /\ text \in Seq(Chars) /\ (request # NULL => text = Text(request))
      /\ Len(text) \in Nat
  BY ClientType DEF Init
<1>2. "START" \in States
  BY UriMoves, TableOf DEF States, UriEdges
<1>3. Unmarked
  BY DEF Init, Unmarked, NoToken
<1>4. TypeOK
  BY <1>1, <1>2, ParserAssumption DEF Init, TypeOK, NoToken
<1>. QED
  BY <1>1, <1>3, <1>4 DEF TypeInv

LEMMA TypeRead ==
  ASSUME TypeInv, Read
  PROVE  TypeInv'
<1>. USE DEF Read, input, fields, locals
<1>1. text \in Seq(Chars) /\ Len(text) \in Nat
  BY LenProperties DEF TypeInv
<1>2. TypeOK'
  BY <1>1, ParserAssumption DEF TypeInv, TypeOK, Whole
<1>. QED
  BY <1>2 DEF TypeInv, Unmarked

LEMMA AfterHeadersType ==
  ASSUME TypeOK
  PROVE  AfterHeaders \in Nat
<1>1. \A v : atoi(v) \in Nat
  BY ParserAssumption DEF atoi
<1>2. m_iReadIdx - m_iNextPos \in Nat
  BY DEF TypeOK
<1>. QED
  BY <1>1, <1>2 DEF AfterHeaders

\* The character that is read next
LEMMA NextChar ==
  ASSUME TypeInv, More
  PROVE  /\ CharAt(m_iNextPos) = text[m_iNextPos + 1] /\ CharAt(m_iNextPos) \in Chars
         /\ m_eDecodeState \in DOMAIN Edges /\ m_iNextPos \in Nat /\ m_iNextPos < Len(text)
         /\ Len(text) \in Nat /\ m_iReadIdx \in Nat
<1>1. text \in Seq(Chars) /\ Len(text) \in Nat
  BY LenProperties DEF TypeInv
<1>2. /\ m_iNextPos \in Nat
      /\ m_iNextPos < m_iReadIdx /\ m_iReadIdx \in Nat /\ m_iReadIdx <= Len(text)
      /\ m_iNextPos < Len(text) /\ m_iNextPos + 1 \in 1 .. Len(text)
  BY <1>1 DEF TypeInv, TypeOK, More
<1>3. CharAt(m_iNextPos) = text[m_iNextPos + 1]
  BY <1>2 DEF CharAt
<1>4. text[m_iNextPos + 1] \in Chars
  BY <1>1, <1>2, ElementOfSeq
<1>5. m_eDecodeState \in DOMAIN Edges
  BY DEF TypeInv, TypeOK, More, States
<1>. QED
  BY <1>1, <1>2, <1>3, <1>4, <1>5

LEMMA TypeScan ==
  ASSUME TypeInv, Scan
  PROVE  TypeInv'
<1>. DEFINE next == Goto(m_eDecodeState, CharAt(m_iNextPos))
            ends == m_eDecodeState = "CR_LF_CR" /\ next = "BODY"
            s == IF ends /\ AfterHeaders = 0 THEN "COMPLETE" ELSE next
            p == m_iNextPos
<1>1. /\ pc = "parse" /\ More /\ m_iNextPos' = p + 1 /\ m_eDecodeState' = s
      /\ m_pBegin' = [b \in Tokens |-> IF Begins(b, s) THEN p ELSE m_pBegin[b]]
      /\ m_pEnd' = [b \in Tokens |-> IF Ends(b, s) THEN p ELSE m_pEnd[b]]
      /\ bodyLength' = IF ends THEN AfterHeaders ELSE bodyLength
      /\ \/ /\ (\E b \in Converted(s) : Throws(b)) \/ Faults
            /\ pc' = "crash" /\ UNCHANGED fields
         \/ (\A b \in Converted(s) : ~Throws(b)) /\ Store(s) /\ UNCHANGED pc
      /\ UNCHANGED <<input, m_iReadIdx, status, cut>>
  BY DEF Scan
<1>2. s \in States
  <2>1. next \in States
    BY <1>1, NextChar, GotoType
  <2>. QED
    BY <2>1 DEF States
<1>. HIDE DEF s
<1>3. pc' \in {"parse", "crash"} /\ DOMAIN m_str' = Strings
  <2>1. CASE pc' = "crash" /\ UNCHANGED fields
    BY <2>1 DEF fields, TypeInv, TypeOK
  <2>2. CASE Store(s) /\ UNCHANGED pc
    BY <1>1, <2>2 DEF Store
  <2>. QED
    BY <1>1, <2>1, <2>2
<1>4. bodyLength' \in Nat
  BY <1>1, AfterHeadersType DEF TypeInv, TypeOK
<1>5. p \in Nat /\ p < m_iReadIdx /\ m_iReadIdx \in Nat
  BY <1>1, NextChar DEF More
<1>6. ASSUME NEW b \in Tokens
      PROVE  /\ m_pBegin'[b] = NULL \/ m_pBegin'[b] \in 0 .. m_iNextPos'
             /\ m_pEnd'[b] = NULL \/ m_pEnd'[b] \in 0 .. m_iNextPos'
  <2>1. /\ m_pBegin[b] = NULL \/ m_pBegin[b] \in 0 .. p
        /\ m_pEnd[b] = NULL \/ m_pEnd[b] \in 0 .. p
    BY DEF TypeInv, TypeOK
  <2>2. m_pBegin'[b] \in {p, m_pBegin[b]} /\ m_pEnd'[b] \in {p, m_pEnd[b]}
    BY <1>1
  <2>. QED
    BY <1>1, <1>5, <2>1, <2>2
<1>7. /\ request' \in Requests \cup {NULL} /\ m_iReadIdx' \in 0 .. Len(text')
      /\ m_iReadIdx' <= MAX_READ_DATA_BUFF_SIZE
      /\ status' \in {"OPEN", "COMPLETE"} \cup Invalid /\ cut' \in {"nowhere", "lines", "inside"}
  BY <1>1 DEF TypeInv, TypeOK, input
<1>8. m_iNextPos' \in 0 .. m_iReadIdx'
  BY <1>1, <1>5
<1>9. TypeOK'
  BY <1>1, <1>2, <1>3, <1>4, <1>6, <1>7, <1>8 DEF TypeOK
<1>. QED
  BY <1>1, <1>3, <1>9 DEF TypeInv, Unmarked, input

LEMMA TypeParsed ==
  ASSUME TypeInv, Parsed
  PROVE  TypeInv'
<1>. USE DEF Parsed, input, fields
<1>1. Status \in {"OPEN", "COMPLETE"} \cup Invalid
  BY DEF Status, More, TypeInv, TypeOK
<1>2. pc' \in {"read", "answer"}
  OBVIOUS
<1>3. \A b \in Tokens : m_pBegin'[b] = NULL /\ m_pEnd'[b] = NULL
  BY DEF NoToken
<1>4. TypeOK'
  BY <1>1, <1>2, <1>3 DEF TypeInv, TypeOK
<1>. QED
  BY <1>3, <1>4 DEF TypeInv, Unmarked

LEMMA TypeNextRequest ==
  ASSUME TypeInv, NextRequest
  PROVE  TypeInv'
<1>. USE DEF NextRequest, Reset
<1>1. /\ request' \in Requests \cup {NULL}
      /\ text' \in Seq(Chars) /\ (request' # NULL => text' = Text(request'))
      /\ Len(text') \in Nat
  BY ClientType DEF Client
<1>2. "START" \in States
  BY TableOf DEF States, UriEdges
<1>3. \A b \in Tokens : m_pBegin'[b] = NULL /\ m_pEnd'[b] = NULL
  BY DEF TypeInv, Unmarked, locals
<1>4. TypeOK'
  BY <1>1, <1>2, <1>3, ParserAssumption DEF TypeInv, TypeOK, locals
<1>. QED
  BY <1>1, <1>3, <1>4 DEF TypeInv, Unmarked

LEMMA TypeStep ==
  ASSUME TypeInv, [Next]_vars
  PROVE  TypeInv'
<1>1. CASE UNCHANGED vars
  BY <1>1 DEF TypeInv, TypeOK, Unmarked, vars, input, fields, locals
<1>. QED
  BY <1>1, TypeRead, TypeScan, TypeParsed, TypeNextRequest DEF Next

\* Every index stays within what has been received, whatever was sent: the parser
\* reads no character behind m_iReadIdx and marks none behind m_iNextPos.
THEOREM ParserTypeCorrect == Spec => []TypeOK
<1>1. Init => TypeInv
  BY TypeInit
<1>2. TypeInv /\ [Next]_vars => TypeInv'
  BY TypeStep
<1>3. TypeInv => TypeOK
  BY DEF TypeInv
<1>. QED
  BY <1>1, <1>2, <1>3, PTL DEF Spec

-----------------------------------------------------------------------------
(* No crash, unless a part ends inside a line *)

LEMMA TokenFacts ==
  /\ \A s : Token(s) \in Tokens \cup {"none"}
  /\ Token("START") = "none" /\ "none" \notin Tokens
BY TableOf DEF Token, TokenOf, Tokens, UriEdges, VersionEdges, HeaderEdges

LEMMA TokenIs ==
  /\ Token("METHOD") = "method" /\ Token("IN_URI") = "url"
  /\ Token("URI_PARAM_KEY") = "requestParamKey" /\ Token("URI_PARAM_VALUE") = "requestParamValue"
  /\ Token("PROTOCOL") = "protocol" /\ Token("VERSION") = "version"
  /\ Token("VERSION_SPLIT") = "version"
  /\ Token("HEADER_KEY") = "headerKey" /\ Token("HEADER_VALUE") = "headerValue"
  /\ \A s \in {"START", "BEFORE_URI", "BEFORE_URI_PARAM_KEY", "BEFORE_URI_PARAM_VALUE",
               "BEFORE_PROTOCOL", "BEFORE_VERSION", "WHEN_CR", "CR_LF", "HEADER_BEFORE_COLON",
               "HEADER_AFTER_COLON", "CR_LF_CR", "BODY", "COMPLETE"} : Token(s) = "none"
BY DEF Token, TokenOf

\* The states at the ends of a request's lines
LineStarts == {"START", "CR_LF", "BODY", "COMPLETE"}

LEMMA LineStates ==
  ASSUME NEW r \in Requests, NEW s, NEW p, Place(r, s, p), Text(r)[p] = LF
  PROVE  s \in LineStarts
<1>. DEFINE T == Text(r)
            u == ParamAt(r, Last(r))
            e == End(r)
<1>. SUFFICES ASSUME s \notin LineStarts PROVE T[p] # LF
  OBVIOUS
<1>1. /\ T[1] = r.method /\ T[2] = " " /\ T[3] = "/" /\ T[u + 1] = " " /\ T[u + 2] = "H"
      /\ T[u + 3] = "/" /\ T[u + 4] = "1" /\ T[u + 5] = "." /\ T[u + 6] = "1" /\ T[u + 7] = CR
  BY TextIs DEF Line1Chars
<1>2. /\ T[1] # LF /\ T[2] # LF /\ T[3] # LF /\ T[u + 1] # LF /\ T[u + 2] # LF /\ T[u + 3] # LF
      /\ T[u + 4] # LF /\ T[u + 5] # LF /\ T[u + 6] # LF /\ T[u + 7] # LF
  <2>1. T[1] # LF
    BY <1>1, RequestType, CharFacts
  <2>. QED
    BY <1>1, <2>1, CharFacts
<1>3. CASE InStart(s, p)
  BY <1>2, <1>3 DEF InStart, LineStarts
<1>4. ASSUME NEW i \in 1 .. Len(r.params), InParam(s, p, ParamAt(r, i))
      PROVE  T[p] # LF
  <2>. DEFINE a == ParamAt(r, i)
  <2>1. /\ T[a + 1] \in {"?", "&"} /\ T[a + 2] = "a" /\ T[a + 3] = "=" /\ T[a + 4] \in Names
    BY ParamText, RequestType
  <2>2. T[a + 1] # LF /\ T[a + 2] # LF /\ T[a + 3] # LF /\ T[a + 4] # LF
    BY <2>1, CharFacts
  <2>. QED
    BY <1>4, <2>2 DEF InParam
<1>5. CASE InProtocol(s, p, u)
  <2>. HIDE DEF u, T
  <2>. QED
    BY <1>2, <1>5 DEF InProtocol, LineStarts
<1>6. ASSUME NEW j \in 1 .. Len(r.headers), InHeader(s, p, LineAt(r, j), Len(r.pad))
      PROVE  T[p] # LF
  <2>. DEFINE a == LineAt(r, j)
              q == Len(r.pad)
              h == Header(r, j)
              c == p - a
  <2>1. q \in Nat /\ a \in Nat
    BY RequestType, LineAtIs
  <2>2. /\ h[1] \in Names /\ \A k \in 1 .. q : h[k + 1] \in Blank
        /\ h[q + 2] = ":" /\ \A k \in 1 .. q : h[q + 2 + k] \in Blank
        /\ h[2 * q + 3] \in Names /\ h[2 * q + 4] = CR
    BY HeaderChars, RequestType
  <2>3. \A d \in 1 .. 2 * q + 5 : T[a + d] = h[d]
    BY LineText
  <2>4. /\ LF \notin Names /\ LF \notin Blank /\ ":" # LF /\ CR # LF
    BY CharFacts
  <2>5. p \in a + 1 .. a + 2 * q + 4
    <3>1. InHeader(s, p, a, q)
      BY <1>6
    <3>. HIDE DEF a, q
    <3>2. \/ p = a + 1 \/ p \in a + 2 .. a + q + 1 \/ p \in a + q + 2 .. a + 2 * q + 2
          \/ p = a + 2 * q + 3 \/ p = a + 2 * q + 4
      BY <3>1 DEF InHeader, LineStarts
    <3>. QED
      BY <2>1, <3>2
  <2>. HIDE DEF a, q, h, T
  <2>6. c \in 1 .. 2 * q + 4 /\ a + c = p /\ c \in 1 .. 2 * q + 5
    BY <2>1, <2>5
  <2>7. T[p] = h[c]
    <3>. HIDE DEF c
    <3>. QED
      BY <2>3, <2>6
  <2>. HIDE DEF c
  <2>8. h[c] # LF
    <3>1. CASE c \in 2 .. q + 1
      <4>1. c - 1 \in 1 .. q /\ (c - 1) + 1 = c
        BY <2>1, <3>1
      <4>. QED
        BY <2>2, <2>4, <4>1
    <3>2. CASE c \in q + 3 .. 2 * q + 2
      <4>1. c - q - 2 \in 1 .. q /\ q + 2 + (c - q - 2) = c
        BY <2>1, <3>2
      <4>. QED
        BY <2>2, <2>4, <4>1
    <3>3. CASE c = 1 \/ c = q + 2 \/ c = 2 * q + 3 \/ c = 2 * q + 4
      BY <2>2, <2>4, <3>3
    <3>4. \/ c \in 2 .. q + 1 \/ c \in q + 3 .. 2 * q + 2
          \/ c = 1 \/ c = q + 2 \/ c = 2 * q + 3 \/ c = 2 * q + 4
      BY <2>1, <2>6
    <3>. QED
      BY <3>1, <3>2, <3>3, <3>4
  <2>. QED
    BY <2>7, <2>8
<1>7. CASE InEnd(s, p, e)
  <2>1. T[e + 1] # LF
    BY EndText, CharFacts
  <2>. QED
    BY <1>7, <2>1 DEF InEnd, LineStarts
<1>. QED
  BY <1>3, <1>4, <1>5, <1>6, <1>7 DEF Place

\* What a step of Scan does to the marks
ScanMarks ==
  /\ \A b \in Tokens :
       /\ m_pBegin'[b] = IF Begins(b, m_eDecodeState') THEN m_iNextPos ELSE m_pBegin[b]
       /\ m_pEnd'[b] = IF Ends(b, m_eDecodeState') THEN m_iNextPos ELSE m_pEnd[b]
  /\ \/ /\ pc' = "crash" /\ UNCHANGED fields
        /\ (\E b \in Converted(m_eDecodeState') : Throws(b)) \/ Faults
     \/ pc' = "parse" /\ Store(m_eDecodeState') /\ \A b \in Converted(m_eDecodeState') : ~Throws(b)

LEMMA ScanIs ==
  ASSUME TypeInv, Scan
  PROVE  /\ pc = "parse" /\ More /\ m_iNextPos' = m_iNextPos + 1 /\ ScanMarks
         /\ UNCHANGED <<input, m_iReadIdx, status, cut>>
         /\ LET next == Goto(m_eDecodeState, text[m_iNextPos + 1])
                ends == m_eDecodeState = "CR_LF_CR" /\ next = "BODY"
            IN  /\ bodyLength' = IF ends THEN AfterHeaders ELSE bodyLength
                /\ m_eDecodeState' = IF ends /\ AfterHeaders = 0 THEN "COMPLETE" ELSE next
<1>. DEFINE next == Goto(m_eDecodeState, CharAt(m_iNextPos))
            ends == m_eDecodeState = "CR_LF_CR" /\ next = "BODY"
            s == IF ends /\ AfterHeaders = 0 THEN "COMPLETE" ELSE next
            p == m_iNextPos
<1>1. /\ pc = "parse" /\ More /\ m_iNextPos' = p + 1 /\ m_eDecodeState' = s
      /\ m_pBegin' = [b \in Tokens |-> IF Begins(b, s) THEN p ELSE m_pBegin[b]]
      /\ m_pEnd' = [b \in Tokens |-> IF Ends(b, s) THEN p ELSE m_pEnd[b]]
      /\ bodyLength' = IF ends THEN AfterHeaders ELSE bodyLength
      /\ \/ /\ (\E b \in Converted(s) : Throws(b)) \/ Faults
            /\ pc' = "crash" /\ UNCHANGED fields
         \/ (\A b \in Converted(s) : ~Throws(b)) /\ Store(s) /\ UNCHANGED pc
      /\ UNCHANGED <<input, m_iReadIdx, status, cut>>
  BY DEF Scan
<1>2. CharAt(m_iNextPos) = text[m_iNextPos + 1]
  BY <1>1, NextChar
<1>3. ScanMarks
  <2>. HIDE DEF s
  <2>. QED
    BY <1>1 DEF ScanMarks
<1>. QED
  BY <1>1, <1>2, <1>3

\* A request's marks in the middle of a parse; where it may go on
MarkInv ==
  /\ request # NULL => Place(request, m_eDecodeState, m_iNextPos)
  /\ cut # "inside" =>
       /\ pc = "parse" => \A b \in Tokens :
            /\ Token(m_eDecodeState) = b => m_pBegin[b] # NULL
            /\ m_pEnd[b] # NULL => m_pBegin[b] # NULL
       /\ pc = "parse" /\ ~Whole => request # NULL /\ text[m_iReadIdx] = LF
       /\ pc = "read" /\ ~Whole => m_eDecodeState \in LineStarts

LEMMA MarkInit ==
  ASSUME Init
  PROVE  MarkInv
BY TokenFacts DEF Init, MarkInv, Place, InStart, LineStarts

LEMMA MarkRead ==
  ASSUME TypeInv, MarkInv, Read
  PROVE  MarkInv'
<1>. USE DEF Read, input, fields, locals
<1>1. m_iReadIdx < Len(text) /\ Len(text) \in Nat /\ m_iReadIdx \in Nat
  BY LenProperties DEF TypeInv, TypeOK
<1>2. ~Whole
  BY <1>1 DEF Whole
<1>3. request # NULL => Place(request, m_eDecodeState, m_iNextPos)'
  BY DEF MarkInv
<1>4. ASSUME cut' # "inside"
      PROVE  /\ cut # "inside"
             /\ ~Whole' => request # NULL /\ text[m_iReadIdx'] = LF
  BY <1>4 DEF Whole
<1>5. ASSUME cut' # "inside", NEW b \in Tokens
      PROVE  /\ Token(m_eDecodeState)' # b
             /\ m_pEnd'[b] = NULL
  BY <1>2, <1>4, <1>5, TokenFacts, TokenIs DEF MarkInv, TypeInv, Unmarked, LineStarts
<1>. QED
  BY <1>3, <1>4, <1>5 DEF MarkInv, Whole

\* A step of Scan leads a request from place to place.
LEMMA ScanMoves ==
  ASSUME TypeInv, MarkInv, Scan, request # NULL
  PROVE  /\ Place(request, m_eDecodeState', m_iNextPos + 1)
         /\ Move(m_eDecodeState, m_eDecodeState')
<1>. DEFINE r == request
            s == m_eDecodeState
            p == m_iNextPos
            next == Goto(s, text[p + 1])
<1>1. /\ r \in Requests /\ text = Text(r) /\ Place(r, s, p) /\ p < Len(text) /\ s # "COMPLETE"
      /\ p \in Nat
  BY ScanIs, NextChar DEF TypeInv, TypeOK, MarkInv, More
<1>2. Turn(r, s, p)
  BY <1>1, PlaceTurns
<1>3. Move(s, next) /\ Place(r, next, p + 1)
  BY <1>1, <1>2 DEF Turn
<1>4. CASE m_eDecodeState' = next
  BY <1>3, <1>4
<1>5. CASE m_eDecodeState' = "COMPLETE" /\ s = "CR_LF_CR"
  <2>1. p = End(r) + 1
    BY <1>1, <1>5 DEF Place, InStart, InParam, InProtocol, InHeader, InEnd
  <2>2. p + 1 = End(r) + 2
    BY <2>1, <1>1, EndText
  <2>3. InEnd("COMPLETE", p + 1, End(r))
    BY <2>2 DEF InEnd
  <2>. QED
    BY <1>5, <2>3 DEF Place, Move
<1>. QED
  BY <1>4, <1>5, ScanIs

LEMMA MarkScan ==
  ASSUME TypeInv, MarkInv, Scan
  PROVE  /\ MarkInv'
         /\ cut # "inside" => \A b \in Converted(m_eDecodeState') : ~Throws(b)
<1>. DEFINE s == m_eDecodeState
            t == m_eDecodeState'
<1>1. /\ pc = "parse" /\ More /\ m_iNextPos' = m_iNextPos + 1 /\ ScanMarks
      /\ UNCHANGED <<input, m_iReadIdx, status, cut>>
  BY ScanIs
<1>2. request' # NULL => Place(request, m_eDecodeState, m_iNextPos)'
  BY <1>1, ScanMoves DEF input
<1>3. m_iNextPos # NULL
  BY ParserAssumption DEF TypeInv, TypeOK
<1>4. ASSUME cut # "inside", NEW b \in Tokens
      PROVE  /\ Token(t) = b => m_pBegin'[b] # NULL
             /\ m_pEnd'[b] # NULL => m_pBegin'[b] # NULL
             /\ b \in Converted(t) => ~Throws(b)
  <2>1. /\ Token(s) = b => m_pBegin[b] # NULL
        /\ m_pEnd[b] # NULL => m_pBegin[b] # NULL
    BY <1>1, <1>4 DEF MarkInv
  <2>2. /\ m_pBegin'[b] = IF Begins(b, t) THEN m_iNextPos ELSE m_pBegin[b]
        /\ m_pEnd'[b] = IF Ends(b, t) THEN m_iNextPos ELSE m_pEnd[b]
    BY <1>1 DEF ScanMarks
  <2>3. m_pEnd'[b] # NULL => m_pBegin[b] # NULL
    BY <2>1, <2>2 DEF Ends
  <2>4. m_pBegin[b] # NULL => m_pBegin'[b] # NULL
    BY <1>3, <2>2
  <2>5. Token(t) = b => m_pBegin'[b] # NULL
    BY <1>3, <2>1, <2>2 DEF Begins
  <2>. QED
    BY <2>3, <2>4, <2>5 DEF Throws
<1>5. Converted(t) \subseteq Tokens
  BY DEF Converted, Strings, Tokens
<1>6. cut # "inside" => \A b \in Converted(t) : ~Throws(b)
  BY <1>4, <1>5
<1>7. pc' \in {"parse", "crash"}
  BY <1>1 DEF ScanMarks
<1>8. cut # "inside" /\ ~Whole => request # NULL /\ text[m_iReadIdx] = LF
  BY <1>1 DEF MarkInv
<1>. QED
  BY <1>1, <1>2, <1>4, <1>6, <1>7, <1>8 DEF MarkInv, Whole, input

LEMMA MarkParsed ==
  ASSUME TypeInv, MarkInv, Parsed
  PROVE  MarkInv'
<1>. USE DEF Parsed, input, fields
<1>1. request # NULL => Place(request, m_eDecodeState, m_iNextPos)'
  BY DEF MarkInv
<1>2. ASSUME cut # "inside", pc' = "read", ~Whole
      PROVE  m_eDecodeState \in LineStarts
  <2>1. m_iNextPos = m_iReadIdx
    <3>1. Status = "OPEN"
      BY <1>2
    <3>2. m_eDecodeState \in States /\ "OPEN" \notin States
      BY TableOf DEF TypeInv, TypeOK, States, Invalid, UriEdges, VersionEdges, HeaderEdges
    <3>. QED
      BY <3>1, <3>2 DEF Status
  <2>2. request \in Requests /\ Text(request)[m_iNextPos] = LF /\ Place(request, m_eDecodeState,
          m_iNextPos)
    BY <1>2, <2>1 DEF MarkInv, TypeInv, TypeOK
  <2>. QED
    BY <2>2, LineStates
<1>3. pc' \in {"read", "answer"}
  OBVIOUS
<1>. QED
  BY <1>1, <1>2, <1>3 DEF MarkInv, Whole

LEMMA MarkNextRequest ==
  ASSUME NextRequest
  PROVE  MarkInv'
<1>. USE DEF NextRequest, Reset
<1>1. Place(request', "START", 0)
  BY DEF Place, InStart
<1>. QED
  BY <1>1 DEF MarkInv, LineStarts

LEMMA MarkStep ==
  ASSUME TypeInv, MarkInv, [Next]_vars
  PROVE  MarkInv'
<1>1. CASE UNCHANGED vars
  BY <1>1 DEF MarkInv, Whole, vars, input, fields, locals
<1>. QED
  BY <1>1, MarkRead, MarkScan, MarkParsed, MarkNextRequest DEF Next

\* How much of the memory behind it the body will be taken from: what a
\* Content-Length declares, or what has been received.
LengthInv ==
  /\ pc \in {"read", "answer"} => bodyLength = 0
  /\ pc = "parse" =>
       \/ bodyLength = 0
       \/ m_eDecodeState = "COMPLETE"
       \/ /\ m_eDecodeState = "BODY"
          /\ \/ bodyLength = DeclaredLength
             \/ m_iNextPos + bodyLength <= m_iReadIdx + 1
  /\ NoCrash

LEMMA LengthInit ==
  ASSUME Init
  PROVE  LengthInv
BY DEF Init, LengthInv, NoCrash

\* Within the buffers no read faults.
LEMMA BodyIsNear ==
  ASSUME TypeInv, LengthInv, Scan, DeclaredLength <= MAX_WRITE_DATA_BUFF_SIZE
  PROVE  ~Faults
<1>1. /\ pc = "parse" /\ m_iNextPos \in Nat /\ m_iReadIdx \in Nat /\ m_iNextPos < m_iReadIdx
      /\ m_iReadIdx <= MAX_READ_DATA_BUFF_SIZE /\ MAX_READ_DATA_BUFF_SIZE \in Nat
      /\ MAX_WRITE_DATA_BUFF_SIZE \in Nat /\ 1 <= MAX_WRITE_DATA_BUFF_SIZE
      /\ bodyLength \in Nat
  BY ScanIs, ParserAssumption DEF TypeInv, TypeOK, More
<1>. SUFFICES ASSUME m_eDecodeState = "BODY"
              PROVE  m_iNextPos + bodyLength
                       <= MAX_READ_DATA_BUFF_SIZE + MAX_WRITE_DATA_BUFF_SIZE
  BY <1>1 DEF Faults
<1>2. \/ bodyLength = 0 \/ bodyLength <= MAX_WRITE_DATA_BUFF_SIZE
      \/ m_iNextPos + bodyLength <= m_iReadIdx + 1
  BY <1>1 DEF LengthInv
<1>. QED
  BY <1>1, <1>2

LEMMA LengthScan ==
  ASSUME TypeInv, MarkInv, LengthInv, Scan
  PROVE  LengthInv'
<1>. DEFINE s == m_eDecodeState
            t == m_eDecodeState'
            p == m_iNextPos
            next == Goto(s, text[p + 1])
            ends == s = "CR_LF_CR" /\ next = "BODY"
<1>1. /\ pc = "parse" /\ m_iNextPos' = p + 1 /\ ScanMarks /\ More
      /\ UNCHANGED <<m_iReadIdx, cut>>
      /\ bodyLength' = IF ends THEN AfterHeaders ELSE bodyLength
      /\ t = IF ends /\ AfterHeaders = 0 THEN "COMPLETE" ELSE next
  BY ScanIs
<1>2. p \in Nat /\ m_iReadIdx \in Nat /\ p < m_iReadIdx
  BY <1>1 DEF TypeInv, TypeOK, More
<1>3. ASSUME pc' = "crash" PROVE NoCrash'
  <2>1. DeclaredLength' = DeclaredLength
    BY <1>1, <1>3 DEF ScanMarks, fields, DeclaredLength
  <2>2. ASSUME cut # "inside" PROVE Faults
    BY <1>1, <1>3, <2>2, MarkScan DEF ScanMarks
  <2>. QED
    BY <1>1, <2>1, <2>2, BodyIsNear DEF NoCrash
<1>4. ASSUME pc' = "parse", ends
      PROVE  \/ bodyLength' = DeclaredLength'
             \/ m_iNextPos' + bodyLength' <= m_iReadIdx' + 1
  <2>1. ~Ends("headerValue", t)
    BY <1>4, TokenIs DEF Ends
  <2>2. DeclaredLength' = DeclaredLength
    BY <1>1, <1>4, <2>1 DEF ScanMarks, Store, DeclaredLength
  <2>3. bodyLength' = AfterHeaders
    BY <1>1, <1>4
  <2>4. CASE <<"L">> \in DOMAIN m_mHeaders
    BY <2>2, <2>3, <2>4 DEF AfterHeaders, DeclaredLength
  <2>5. CASE <<"L">> \notin DOMAIN m_mHeaders
    <3>1. bodyLength' = m_iReadIdx - p
      BY <2>3, <2>5 DEF AfterHeaders
    <3>2. m_iNextPos' = p + 1 /\ m_iReadIdx' = m_iReadIdx
      BY <1>1
    <3>3. m_iNextPos' + bodyLength' <= m_iReadIdx' + 1
      <4>. HIDE DEF ends, p
      <4>. QED
        BY <1>2, <3>1, <3>2
    <3>. QED
      BY <3>3
  <2>. QED
    BY <2>4, <2>5
<1>5. ASSUME ~ends, bodyLength # 0 PROVE t = "COMPLETE"
  <2>1. s = "BODY"
    BY <1>1, <1>5 DEF LengthInv, More
  <2>2. text[p + 1] \in Chars
    BY <1>1, NextChar
  <2>3. next = "COMPLETE"
    BY <2>1, <2>2, HeaderMoves
  <2>. QED
    BY <1>1, <1>5, <2>3
<1>6. pc' \in {"parse", "crash"}
  BY <1>1 DEF ScanMarks
<1>7. \/ bodyLength' = 0 \/ t = "COMPLETE"
      \/ ends /\ t = "BODY"
  BY <1>1, <1>5
<1>8. pc' = "parse" => NoCrash'
  BY DEF NoCrash
<1>. QED
  BY <1>3, <1>4, <1>6, <1>7, <1>8 DEF LengthInv

LEMMA LengthStep ==
  ASSUME TypeInv, MarkInv, LengthInv, [Next]_vars
  PROVE  LengthInv'
<1>1. CASE UNCHANGED vars
  BY <1>1 DEF LengthInv, NoCrash, DeclaredLength, vars, input, fields, locals
<1>2. CASE Read
  BY <1>2 DEF Read, LengthInv, NoCrash, locals
<1>3. CASE Parsed
  BY <1>3 DEF Parsed, LengthInv, NoCrash
<1>4. CASE NextRequest
  BY <1>4 DEF NextRequest, LengthInv, NoCrash, locals
<1>. QED
  BY <1>1, <1>2, <1>3, <1>4, LengthScan DEF Next

\* HttpParse survives every text that arrives in one part, and every request whose
\* parts are whole lines, unless it declares a body that reaches behind the buffers:
\* at the end of a line no token has begun whose beginning the next call of
\* ParseInternal would have forgotten, and the body that is taken is at most as long
\* as its Content-Length or as what was received.
THEOREM SurvivesWholeLines == Spec => []NoCrash
<1>1. Init => TypeInv /\ MarkInv /\ LengthInv
  BY TypeInit, MarkInit, LengthInit
<1>2. TypeInv /\ MarkInv /\ LengthInv /\ [Next]_vars => (TypeInv /\ MarkInv /\ LengthInv)'
  BY TypeStep, MarkStep, LengthStep
<1>3. LengthInv => NoCrash
  BY DEF LengthInv
<1>. QED
  BY <1>1, <1>2, <1>3, PTL DEF Spec

-----------------------------------------------------------------------------
(* Which place a position is *)

\* Pieces of the same length do not overlap.
LEMMA Apart ==
  ASSUME NEW m \in Nat, NEW w \in Nat, NEW f,
         \A i \in 1 .. m : f[i] \in Nat /\ f[i + 1] = f[i] + w
  PROVE  \A i, j \in 1 .. m + 1 : i < j => f[i] + w <= f[j]
<1>. SUFFICES ASSUME NEW i \in 1 .. m + 1, NEW j \in 1 .. m + 1, i < j
              PROVE  f[i] + w <= f[j]
  OBVIOUS
<1>. DEFINE n == m - i
            S == {d \in 0 .. n : i + d + 1 \in 2 .. m + 1 /\ f[i] + w <= f[i + d + 1]}
<1>1. i \in 1 .. m /\ m \in Int /\ n \in Nat /\ i \in Int /\ j \in Int
  OBVIOUS
<1>2. f[i] \in Nat /\ f[i + 1] = f[i] + w
  BY <1>1
<1>3. 0 \in S
  BY <1>1, <1>2
<1>4. ASSUME NEW d \in 0 .. n - 1, d \in S PROVE d + 1 \in S
  <2>1. i + d + 1 \in 1 .. m /\ (i + d + 1) + 1 = i + (d + 1) + 1 /\ d + 1 \in 0 .. n
    BY <1>1
  <2>2. f[i + d + 1] \in Nat /\ f[(i + d + 1) + 1] = f[i + d + 1] + w
    BY <2>1
  <2>3. f[i] + w <= f[i + d + 1]
    BY <1>4
  <2>4. f[i] + w <= f[i + (d + 1) + 1]
    BY <1>2, <2>1, <2>2, <2>3
  <2>. QED
    BY <1>1, <2>1, <2>4
<1>5. 0 .. n \subseteq S
  <2>. HIDE DEF S
  <2>. QED
    BY <1>1, <1>3, <1>4, Count
<1>6. j - i - 1 \in 0 .. n /\ i + (j - i - 1) + 1 = j
  BY <1>1
<1>7. j - i - 1 \in S
  BY <1>5, <1>6
<1>. QED
  BY <1>6, <1>7

LEMMA ParamsApart ==
  ASSUME NEW r \in Requests
  PROVE  \A i, j \in 1 .. Last(r) : i < j => ParamAt(r, i) + 4 <= ParamAt(r, j)
<1>. DEFINE f == [i \in 1 .. Last(r) |-> ParamAt(r, i)]
            m == Len(r.params)
<1>1. m \in Nat /\ Last(r) = m + 1
  BY RequestType DEF Last
<1>2. \A i \in 1 .. m : ParamAt(r, i) \in Nat /\ ParamAt(r, i + 1) = ParamAt(r, i) + 4
  <2>. SUFFICES ASSUME NEW i \in 1 .. m
                PROVE  ParamAt(r, i) \in Nat /\ ParamAt(r, i + 1) = ParamAt(r, i) + 4
    OBVIOUS
  <2>1. i \in 1 .. m + 1
    BY <1>1
  <2>. QED
    BY <2>1, ParamChars
<1>. HIDE DEF m
<1>3. \A i \in 1 .. m : f[i] \in Nat /\ f[i + 1] = f[i] + 4
  <2>. SUFFICES ASSUME NEW i \in 1 .. m PROVE f[i] \in Nat /\ f[i + 1] = f[i] + 4
    OBVIOUS
  <2>1. i \in 1 .. Last(r) /\ i + 1 \in 1 .. Last(r)
    BY <1>1
  <2>. QED
    BY <1>2, <2>1
<1>4. \A i, j \in 1 .. m + 1 : i < j => f[i] + 4 <= f[j]
  <2>. HIDE DEF f
  <2>. QED
    BY <1>1, <1>3, Apart
<1>. QED
  BY <1>1, <1>4

LEMMA LinesApart ==
  ASSUME NEW r \in Requests
  PROVE  \A i, j \in 1 .. Len(r.headers) + 1 :
           i < j => LineAt(r, i) + (2 * Len(r.pad) + 5) <= LineAt(r, j)
<1>. DEFINE m == Len(r.headers)
            f == [j \in 1 .. m + 1 |-> LineAt(r, j)]
            w == 2 * Len(r.pad) + 5
<1>1. m \in Nat /\ Len(r.pad) \in Nat /\ w \in Nat
  BY RequestType
<1>2. \A j \in 1 .. m : LineAt(r, j) \in Nat /\ LineAt(r, j + 1) = LineAt(r, j) + w
  <2>. SUFFICES ASSUME NEW j \in 1 .. m
                PROVE  LineAt(r, j) \in Nat /\ LineAt(r, j + 1) = LineAt(r, j) + w
    OBVIOUS
  <2>1. j \in 1 .. m + 1
    BY <1>1
  <2>2. LineAt(r, j) \in Nat /\ LineAt(r, j + 1) = LineAt(r, j) + 2 * Len(r.pad) + 5
    BY <2>1, LineAtIs
  <2>. QED
    BY <1>1, <2>2
<1>. HIDE DEF m, w
<1>3. \A j \in 1 .. m : f[j] \in Nat /\ f[j + 1] = f[j] + w
  <2>. SUFFICES ASSUME NEW j \in 1 .. m PROVE f[j] \in Nat /\ f[j + 1] = f[j] + w
    OBVIOUS
  <2>1. j \in 1 .. m + 1 /\ j + 1 \in 1 .. m + 1
    BY <1>1
  <2>. QED
    BY <1>2, <2>1
<1>4. \A i, j \in 1 .. m + 1 : i < j => f[i] + w <= f[j]
  <2>. HIDE DEF f
  <2>. QED
    BY <1>1, <1>3, Apart
<1>. QED
  BY <1>1, <1>4 DEF m, w

\* The positions of the places
LEMMA PlaceRange ==
  ASSUME NEW s, NEW p
  PROVE  /\ InStart(s, p) => p \in 0 .. 3
         /\ \A a \in Nat : InParam(s, p, a) => p \in a + 1 .. a + 4
         /\ \A u \in Nat : InProtocol(s, p, u) => p \in u + 1 .. u + 8
         /\ \A a, q \in Nat : InHeader(s, p, a, q) => p \in a + 1 .. a + (2 * q + 5)
         /\ \A e \in Nat : InEnd(s, p, e) => p \in e + 1 .. e + 3
<1>1. InStart(s, p) => p \in 0 .. 3
  BY DEF InStart
<1>2. ASSUME NEW a \in Nat, InParam(s, p, a) PROVE p \in a + 1 .. a + 4
  BY <1>2 DEF InParam
<1>3. ASSUME NEW u \in Nat, InProtocol(s, p, u) PROVE p \in u + 1 .. u + 8
  BY <1>3 DEF InProtocol
<1>4. ASSUME NEW a \in Nat, NEW q \in Nat, InHeader(s, p, a, q) PROVE p \in a + 1 .. a + (2 * q + 5)
  BY <1>4 DEF InHeader
<1>5. ASSUME NEW e \in Nat, InEnd(s, p, e) PROVE p \in e + 1 .. e + 3
  BY <1>5 DEF InEnd
<1>. QED
  BY <1>1, <1>2, <1>3, <1>4, <1>5

\* A position tells where in the request it is.
LEMMA PlaceBy ==
  ASSUME NEW r \in Requests, NEW s, NEW p, Place(r, s, p)
  PROVE  /\ p \in Nat
         /\ p <= 3 => InStart(s, p)
         /\ \A i \in 1 .. Len(r.params) :
              p \in ParamAt(r, i) + 1 .. ParamAt(r, i) + 4 => InParam(s, p, ParamAt(r, i))
         /\ p \in ParamAt(r, Last(r)) + 1 .. ParamAt(r, Last(r)) + 8 =>
              InProtocol(s, p, ParamAt(r, Last(r)))
         /\ \A j \in 1 .. Len(r.headers) :
              p \in LineAt(r, j) + 1 .. LineAt(r, j) + (2 * Len(r.pad) + 5) =>
                InHeader(s, p, LineAt(r, j), Len(r.pad))
         /\ p > End(r) => InEnd(s, p, End(r))
<1>. DEFINE n == Len(r.params)
            m == Len(r.headers)
            q == Len(r.pad)
            u == ParamAt(r, Last(r))
            e == End(r)
            P(i) == ParamAt(r, i)
            L(j) == LineAt(r, j)
<1>1. n \in Nat /\ m \in Nat /\ q \in Nat /\ e \in Nat /\ u \in Nat /\ u + 8 <= e
  BY RequestType, TextIs, LineAtIs DEF PartsOf
<1>2. \A i \in 1 .. n : P(i) \in Nat /\ 3 <= P(i) /\ P(i) + 4 <= u
  <2>. SUFFICES ASSUME NEW i \in 1 .. n PROVE P(i) \in Nat /\ 3 <= P(i) /\ P(i) + 4 <= u
    OBVIOUS
  <2>1. i \in 1 .. n + 1 /\ i < n + 1 /\ n + 1 \in 1 .. n + 1 /\ Last(r) = n + 1
    BY <1>1 DEF Last
  <2>. QED
    BY <2>1, ParamChars, ParamsApart
<1>3. \A j \in 1 .. m : L(j) \in Nat /\ u + 8 <= L(j) /\ L(j) + (2 * q + 5) <= e
  <2>. SUFFICES ASSUME NEW j \in 1 .. m
                PROVE  L(j) \in Nat /\ u + 8 <= L(j) /\ L(j) + (2 * q + 5) <= e
    OBVIOUS
  <2>1. j \in 1 .. m + 1 /\ j < m + 1 /\ m + 1 \in 1 .. m + 1 /\ 1 \in 1 .. m + 1
    BY <1>1
  <2>2. L(j) \in Nat /\ L(j) + (2 * q + 5) <= e /\ L(1) = u + 8
    BY <2>1, LineAtIs, LinesApart DEF End
  <2>3. CASE j = 1
    BY <1>1, <2>2, <2>3
  <2>4. CASE j # 1
    <3>1. 1 < j
      BY <2>1, <2>4
    <3>2. L(1) + (2 * q + 5) <= L(j)
      BY <2>1, <3>1, LinesApart
    <3>. QED
      BY <1>1, <2>2, <3>2
  <2>. QED
    BY <2>3, <2>4
<1>4. \A i, j \in 1 .. n : i < j => P(i) + 4 <= P(j)
  <2>1. 1 .. n \subseteq 1 .. Last(r)
    BY <1>1 DEF Last
  <2>. QED
    BY <2>1, ParamsApart
<1>5. \A i, j \in 1 .. m : i < j => L(i) + (2 * q + 5) <= L(j)
  <2>1. 1 .. m \subseteq 1 .. m + 1
    BY <1>1
  <2>. QED
    BY <2>1, LinesApart
<1>. DEFINE start == InStart(s, p)
            param(i) == InParam(s, p, P(i))
            protocol == InProtocol(s, p, u)
            header(j) == InHeader(s, p, L(j), q)
            end == InEnd(s, p, e)
<1>6. /\ start \/ (\E i \in 1 .. n : param(i)) \/ protocol \/ (\E j \in 1 .. m : header(j)) \/ end
  BY DEF Place
<1>7. /\ start => p \in 0 .. 3
      /\ \A i \in 1 .. n : param(i) => p \in P(i) + 1 .. P(i) + 4
      /\ protocol => p \in u + 1 .. u + 8
      /\ \A j \in 1 .. m : header(j) => p \in L(j) + 1 .. L(j) + (2 * q + 5)
      /\ end => p \in e + 1 .. e + 3
  BY <1>1, <1>2, <1>3, PlaceRange
<1>. HIDE DEF n, m, q, u, e, P, L, start, param, protocol, header, end
<1>8. ASSUME NEW i \in 1 .. n, NEW j \in 1 .. n, p \in P(i) + 1 .. P(i) + 4,
               p \in P(j) + 1 .. P(j) + 4
      PROVE  i = j
  <2>1. ~(P(i) + 4 <= P(j)) /\ ~(P(j) + 4 <= P(i))
    BY <1>2, <1>8
  <2>2. i \in Int /\ j \in Int
    OBVIOUS
  <2>. QED
    BY <1>4, <2>1, <2>2
<1>9. ASSUME NEW i \in 1 .. m, NEW j \in 1 .. m,
             p \in L(i) + 1 .. L(i) + (2 * q + 5), p \in L(j) + 1 .. L(j) + (2 * q + 5)
      PROVE  i = j
  <2>1. ~(L(i) + (2 * q + 5) <= L(j)) /\ ~(L(j) + (2 * q + 5) <= L(i))
    BY <1>1, <1>3, <1>9
  <2>2. i \in Int /\ j \in Int
    OBVIOUS
  <2>. QED
    BY <1>5, <2>1, <2>2
<1>10. ASSUME NEW i \in 1 .. n, param(i)
       PROVE  /\ p \in Nat /\ ~(p <= 3) /\ p <= u
              /\ \A j \in 1 .. n : p \in P(j) + 1 .. P(j) + 4 => param(j)
  <2>1. p \in P(i) + 1 .. P(i) + 4
    BY <1>7, <1>10
  <2>. QED
    BY <1>1, <1>2, <1>8, <1>10, <2>1
<1>11. ASSUME NEW i \in 1 .. m, header(i)
       PROVE  /\ p \in Nat /\ p > u + 8 /\ p <= e
              /\ \A j \in 1 .. m : p \in L(j) + 1 .. L(j) + (2 * q + 5) => header(j)
  <2>1. p \in L(i) + 1 .. L(i) + (2 * q + 5)
    BY <1>7, <1>11
  <2>. QED
    BY <1>1, <1>3, <1>9, <1>11, <2>1
<1>12. /\ p \in Nat
       /\ p <= 3 => start
       /\ \A i \in 1 .. n : p \in P(i) + 1 .. P(i) + 4 => param(i)
       /\ p \in u + 1 .. u + 8 => protocol
       /\ \A j \in 1 .. m : p \in L(j) + 1 .. L(j) + (2 * q + 5) => header(j)
       /\ p > e => end
  <2>0. 3 <= u
    BY TextIs DEF PartsOf, u
  <2>1. CASE start
    BY <1>1, <1>2, <1>3, <1>7, <2>0, <2>1
  <2>2. CASE \E i \in 1 .. n : param(i)
    BY <1>1, <1>2, <1>3, <1>10, <2>0, <2>2
  <2>3. CASE protocol
    BY <1>1, <1>2, <1>3, <1>7, <2>0, <2>3
  <2>4. CASE \E j \in 1 .. m : header(j)
    BY <1>1, <1>2, <1>3, <1>11, <2>0, <2>4
  <2>5. CASE end
    BY <1>1, <1>2, <1>3, <1>7, <2>0, <2>5
  <2>. QED
    BY <1>6, <2>1, <2>2, <2>3, <2>4, <2>5
<1>. QED
  BY <1>12 DEF start, param, protocol, header, end, n, m, q, u, e, P, L

\* Where the tokens end
TokenAt(r, b, p) ==
  \/ b = "method" /\ p = 1
  \/ b = "url" /\ p = 3
  \/ b = "requestParamKey" /\ \E i \in 1 .. Len(r.params) : p = ParamAt(r, i) + 2
  \/ b = "requestParamValue" /\ \E i \in 1 .. Len(r.params) : p = ParamAt(r, i) + 4
  \/ b = "protocol" /\ p = ParamAt(r, Last(r)) + 2
  \/ b = "version" /\ p \in ParamAt(r, Last(r)) + 4 .. ParamAt(r, Last(r)) + 6
  \/ b = "headerKey" /\ \E j \in 1 .. Len(r.headers) : p = LineAt(r, j) + 1
  \/ b = "headerValue" /\ \E j \in 1 .. Len(r.headers) : p = LineAt(r, j) + (2 * Len(r.pad) + 3)

\* Where a header's two tokens end in its line
LEMMA LineOffsets ==
  ASSUME NEW a \in Nat, NEW q \in Nat, NEW p \in Nat
  PROVE  /\ p = a + 1 => p \in a + 1 .. a + (2 * q + 5)
         /\ p = a + (2 * q + 3) =>
              /\ p \in a + 1 .. a + (2 * q + 5) /\ p # a + 1
              /\ p \in a + 2 .. a + (2 * q + 3) /\ a + 1 <= p
         /\ p + 1 \in a + 2 .. a + (2 * q + 3) =>
              /\ p \in a + 1 .. a + (2 * q + 5) /\ p + 1 \in a + 1 .. a + (2 * q + 5)
              /\ p + 1 # a + 1
              /\ p = a + 1 \/ p \in a + 2 .. a + (2 * q + 3)
OBVIOUS

\* The token of a place of each kind
LEMMA PlaceToken ==
  ASSUME NEW s, NEW p
  PROVE  /\ InStart(s, p) =>
              /\ p = 1 => Token(s) = "method"
              /\ p = 3 => Token(s) = "url"
              /\ p \notin {1, 3} => Token(s) = "none"
         /\ \A a \in Nat : InParam(s, p, a) =>
              /\ p = a + 2 => Token(s) = "requestParamKey"
              /\ p = a + 4 => Token(s) = "requestParamValue"
              /\ p \notin {a + 2, a + 4} => Token(s) = "none"
         /\ \A u \in Nat : InProtocol(s, p, u) =>
              /\ p = u + 2 => Token(s) = "protocol"
              /\ p \in u + 4 .. u + 6 => Token(s) = "version"
              /\ p \notin {u + 2} \cup u + 4 .. u + 6 => Token(s) = "none"
         /\ \A a, q \in Nat : InHeader(s, p, a, q) =>
              /\ p = a + 1 => Token(s) = "headerKey"
              /\ p = a + (2 * q + 3) => Token(s) = "headerValue"
              /\ p \notin {a + 1, a + (2 * q + 3)} => Token(s) = "none"
         /\ \A e \in Nat : InEnd(s, p, e) => Token(s) = "none"
<1>1. ASSUME InStart(s, p)
      PROVE  /\ p = 1 => Token(s) = "method"
             /\ p = 3 => Token(s) = "url"
             /\ p \notin {1, 3} => Token(s) = "none"
  BY <1>1, TokenIs DEF InStart
<1>2. ASSUME NEW a \in Nat, InParam(s, p, a)
      PROVE  /\ p = a + 2 => Token(s) = "requestParamKey"
             /\ p = a + 4 => Token(s) = "requestParamValue"
             /\ p \notin {a + 2, a + 4} => Token(s) = "none"
  BY <1>2, TokenIs DEF InParam
<1>3. ASSUME NEW u \in Nat, InProtocol(s, p, u)
      PROVE  /\ p = u + 2 => Token(s) = "protocol"
             /\ p \in u + 4 .. u + 6 => Token(s) = "version"
             /\ p \notin {u + 2} \cup u + 4 .. u + 6 => Token(s) = "none"
  BY <1>3, TokenIs DEF InProtocol
<1>4. ASSUME NEW a \in Nat, NEW q \in Nat, InHeader(s, p, a, q)
      PROVE  /\ p = a + 1 => Token(s) = "headerKey"
             /\ p = a + (2 * q + 3) => Token(s) = "headerValue"
             /\ p \notin {a + 1, a + (2 * q + 3)} => Token(s) = "none"
  BY <1>4, TokenIs DEF InHeader
<1>5. ASSUME NEW e \in Nat, InEnd(s, p, e) PROVE Token(s) = "none"
  BY <1>5, TokenIs DEF InEnd
<1>. QED
  BY <1>1, <1>2, <1>3, <1>4, <1>5

LEMMA TokenPlaces ==
  ASSUME NEW r \in Requests, NEW s, NEW p, Place(r, s, p), NEW b \in Tokens
  PROVE  Token(s) = b <=> TokenAt(r, b, p)
<1>. DEFINE n == Len(r.params)
            m == Len(r.headers)
            q == Len(r.pad)
            u == ParamAt(r, Last(r))
            e == End(r)
            P(i) == ParamAt(r, i)
            L(j) == LineAt(r, j)
<1>1. n \in Nat /\ m \in Nat /\ q \in Nat /\ e \in Nat /\ u \in Nat /\ p \in Nat
  BY RequestType, TextIs, PlaceBy DEF PartsOf
<1>2. /\ \A i \in 1 .. n : P(i) \in Nat
      /\ \A j \in 1 .. m : L(j) \in Nat
  <2>1. 1 .. n \subseteq 1 .. n + 1 /\ 1 .. m \subseteq 1 .. m + 1
    BY <1>1
  <2>. QED
    BY <2>1, ParamChars, LineAtIs
<1>3. ASSUME Token(s) = b PROVE TokenAt(r, b, p)
  <2>0. Token(s) # "none"
    BY <1>3, TokenFacts
  <2>1. CASE InStart(s, p)
    BY <1>3, <2>0, <2>1, PlaceToken DEF TokenAt
  <2>2. ASSUME NEW i \in 1 .. n, InParam(s, p, P(i)) PROVE TokenAt(r, b, p)
    <3>1. P(i) \in Nat
      BY <1>2
    <3>2. \/ p = P(i) + 2 /\ Token(s) = "requestParamKey"
          \/ p = P(i) + 4 /\ Token(s) = "requestParamValue"
      BY <2>0, <2>2, <3>1, PlaceToken
    <3>. QED
      BY <1>3, <3>2 DEF TokenAt
  <2>3. CASE InProtocol(s, p, u)
    <3>1. \/ p = u + 2 /\ Token(s) = "protocol"
          \/ p \in u + 4 .. u + 6 /\ Token(s) = "version"
      <4>. HIDE DEF u
      <4>. QED
        BY <1>1, <2>0, <2>3, PlaceToken
    <3>. QED
      BY <1>3, <3>1 DEF TokenAt
  <2>4. ASSUME NEW j \in 1 .. m, InHeader(s, p, L(j), q) PROVE TokenAt(r, b, p)
    <3>1. L(j) \in Nat
      BY <1>2
    <3>2. \/ p = L(j) + 1 /\ Token(s) = "headerKey"
          \/ p = L(j) + (2 * q + 3) /\ Token(s) = "headerValue"
      BY <1>1, <2>0, <2>4, <3>1, PlaceToken
    <3>. QED
      BY <1>3, <3>2 DEF TokenAt
  <2>5. CASE InEnd(s, p, e)
    BY <1>1, <2>0, <2>5, PlaceToken
  <2>. QED
    BY <2>1, <2>2, <2>3, <2>4, <2>5 DEF Place
<1>4. ASSUME TokenAt(r, b, p) PROVE Token(s) = b
  <2>1. CASE b = "method" /\ p = 1
    BY <2>1, PlaceBy, PlaceToken
  <2>2. CASE b = "url" /\ p = 3
    BY <2>2, PlaceBy, PlaceToken
  <2>3. ASSUME NEW i \in 1 .. n, \/ b = "requestParamKey" /\ p = P(i) + 2
                                 \/ b = "requestParamValue" /\ p = P(i) + 4
        PROVE  Token(s) = b
    <3>1. P(i) \in Nat /\ p \in P(i) + 1 .. P(i) + 4
      BY <1>2, <2>3
    <3>2. InParam(s, p, P(i))
      BY <3>1, PlaceBy
    <3>. QED
      BY <2>3, <3>1, <3>2, PlaceToken
  <2>4. CASE \/ b = "protocol" /\ p = u + 2
             \/ b = "version" /\ p \in u + 4 .. u + 6
    <3>1. p \in u + 1 .. u + 8
      <4>. HIDE DEF u
      <4>. QED
        BY <1>1, <2>4
    <3>2. InProtocol(s, p, u)
      BY <3>1, PlaceBy
    <3>. HIDE DEF u
    <3>. QED
      BY <1>1, <2>4, <3>2, PlaceToken
  <2>5. ASSUME NEW j \in 1 .. m, \/ b = "headerKey" /\ p = L(j) + 1
                                 \/ b = "headerValue" /\ p = L(j) + (2 * q + 3)
        PROVE  Token(s) = b
    <3>1. L(j) \in Nat /\ p \in L(j) + 1 .. L(j) + (2 * q + 5)
      <4>1. L(j) \in Nat
        BY <1>2
      <4>. DEFINE a == L(j)
      <4>2. a \in Nat /\ (p = a + 1 \/ p = a + (2 * q + 3))
        BY <2>5, <4>1
      <4>3. p \in a + 1 .. a + (2 * q + 5)
        <5>. HIDE DEF a, q
        <5>. QED
          BY <1>1, <4>2, LineOffsets
      <4>. QED
        BY <4>1, <4>3
    <3>2. InHeader(s, p, L(j), q)
      BY <3>1, PlaceBy
    <3>. QED
      BY <1>1, <2>5, <3>1, <3>2, PlaceToken
  <2>. QED
    BY <1>4, <2>1, <2>2, <2>3, <2>4, <2>5 DEF TokenAt
<1>. QED
  BY <1>3, <1>4

LEMMA EndPlaces ==
  ASSUME NEW r \in Requests, NEW s, NEW p, Place(r, s, p)
  PROVE  /\ s \in {"BODY", "COMPLETE"} <=> p > End(r) + 1
         /\ s = "BODY" => p = End(r) + 2
         /\ s = "COMPLETE" => p \in {End(r) + 2, End(r) + 3}
         /\ s = "CR_LF_CR" <=> p = End(r) + 1
         /\ s \notin Invalid
<1>. DEFINE e == End(r)
<1>1. e \in Nat /\ p \in Nat
  BY EndText, PlaceBy
<1>2. CASE InEnd(s, p, e)
  <2>. HIDE DEF e
  <2>. QED
    BY <1>1, <1>2 DEF InEnd, Invalid, e
<1>3. CASE ~InEnd(s, p, e)
  <2>1. s \notin {"BODY", "COMPLETE", "CR_LF_CR"} /\ s \notin Invalid
    BY <1>3 DEF Place, InStart, InParam, InProtocol, InHeader, Invalid
  <2>2. ~(p > e)
    BY <1>3, PlaceBy
  <2>. HIDE DEF e
  <2>3. ~(p > e + 1) /\ p # e + 1 /\ p # e + 2
    BY <1>1, <2>2
  <2>. QED
    BY <2>1, <2>3 DEF e
<1>. QED
  BY <1>2, <1>3

-----------------------------------------------------------------------------
(* A step of Scan within a request *)

GoodScan == TypeInv /\ MarkInv /\ Scan /\ request # NULL /\ pc' # "crash"

LEMMA GoodScanIs ==
  ASSUME GoodScan
  PROVE  /\ request \in Requests /\ text = Text(request) /\ text \in Seq(Chars)
         /\ Place(request, m_eDecodeState, m_iNextPos)
         /\ Place(request, m_eDecodeState', m_iNextPos + 1)
         /\ Move(m_eDecodeState, m_eDecodeState')
         /\ m_iNextPos \in Nat /\ m_iNextPos < Len(text) /\ Len(text) \in Nat
         /\ m_iNextPos' = m_iNextPos + 1 /\ m_iNextPos # NULL
         /\ pc = "parse" /\ pc' = "parse" /\ More
         /\ UNCHANGED <<input, m_iReadIdx, status, cut>>
<1>1. TypeInv /\ MarkInv /\ Scan /\ request # NULL
  BY DEF GoodScan
<1>2. /\ request \in Requests /\ text = Text(request) /\ text \in Seq(Chars)
      /\ Place(request, m_eDecodeState, m_iNextPos)
  BY <1>1 DEF TypeInv, TypeOK, MarkInv
<1>3. pc' = "parse"
  BY <1>1, ScanIs DEF GoodScan, ScanMarks
<1>4. m_iNextPos # NULL
  BY <1>1, ParserAssumption DEF TypeInv, TypeOK
<1>. QED
  BY <1>1, <1>2, <1>3, <1>4, ScanIs, ScanMoves, NextChar

\* The token of a request's places changes with every step, but for the version's.
LEMMA MoveTokens ==
  ASSUME NEW s, NEW t, Move(s, t)
  PROVE  /\ Token(s) \in Tokens \ {"version"} => Token(t) # Token(s)
         /\ Token(t) = "headerKey" => Token(s) = "none"
BY TokenIs, TokenFacts DEF Move

\* Where a token begins and ends
LEMMA EndsAt ==
  ASSUME GoodScan
  PROVE  /\ \A b \in Tokens \ {"version"} :
              /\ Ends(b, m_eDecodeState') <=> TokenAt(request, b, m_iNextPos)
              /\ Begins(b, m_eDecodeState') <=> TokenAt(request, b, m_iNextPos + 1)
         /\ Ends("version", m_eDecodeState') <=> m_iNextPos = ParamAt(request, Last(request)) + 6
         /\ Begins("version", m_eDecodeState') <=> m_iNextPos = ParamAt(request, Last(request)) + 3
<1>. DEFINE s == m_eDecodeState
            t == m_eDecodeState'
            p == m_iNextPos
            u == ParamAt(request, Last(request))
<1>1. /\ \A b \in Tokens : Token(s) = b <=> TokenAt(request, b, p)
      /\ \A b \in Tokens : Token(t) = b <=> TokenAt(request, b, p + 1)
  BY GoodScanIs, TokenPlaces
<1>2. t \notin Invalid
  BY GoodScanIs, EndPlaces
<1>3. Move(s, t) /\ p \in Nat
  BY GoodScanIs
<1>4. ASSUME NEW b \in Tokens \ {"version"}
      PROVE  /\ Ends(b, t) <=> TokenAt(request, b, p)
             /\ Begins(b, t) <=> TokenAt(request, b, p + 1)
  BY <1>1, <1>2, <1>3, MoveTokens DEF Ends, Begins
<1>5. "version" \in Tokens
  BY DEF Tokens
<1>6. u \in Nat
  BY GoodScanIs, TextIs DEF PartsOf
<1>7. \A k : TokenAt(request, "version", k) <=> k \in u + 4 .. u + 6
  BY DEF TokenAt
<1>8. /\ Ends("version", t) <=> p \in u + 4 .. u + 6 /\ ~(p + 1 \in u + 4 .. u + 6)
      /\ Begins("version", t) <=> p + 1 \in u + 4 .. u + 6 /\ ~(p \in u + 4 .. u + 6)
  BY <1>1, <1>2, <1>5, <1>7 DEF Ends, Begins
<1>. HIDE DEF u, p
<1>9. /\ (p \in u + 4 .. u + 6 /\ ~(p + 1 \in u + 4 .. u + 6)) <=> p = u + 6
      /\ (p + 1 \in u + 4 .. u + 6 /\ ~(p \in u + 4 .. u + 6)) <=> p = u + 3
  BY <1>3, <1>6 DEF p
<1>. QED
  BY <1>4, <1>8, <1>9 DEF u, p

-----------------------------------------------------------------------------
(* Where the marks are: never anywhere else, but possibly forgotten *)

\* While the token is read, its beginning
TokenMarks ==
  \A b \in Tokens : Token(m_eDecodeState) = b =>
    m_pBegin[b] \in {NULL, IF b = "version" THEN ParamAt(request, Last(request)) + 3
                           ELSE m_iNextPos - 1}

\* While the value is read, the key in front of it
ParamKeyMarks ==
  \A i \in 1 .. Len(request.params) :
    m_iNextPos \in ParamAt(request, i) + 3 .. ParamAt(request, i) + 4 =>
      /\ m_pBegin["requestParamKey"] \in {NULL, ParamAt(request, i) + 1}
      /\ m_pEnd["requestParamKey"] \in {NULL, ParamAt(request, i) + 2}

HeaderKeyMarks ==
  \A j \in 1 .. Len(request.headers) :
    m_iNextPos \in LineAt(request, j) + 2 .. LineAt(request, j) + (2 * Len(request.pad) + 3) =>
      /\ m_pBegin["headerKey"] \in {NULL, LineAt(request, j)}
      /\ m_pEnd["headerKey"] \in {NULL, LineAt(request, j) + 1}

\* Unless a part ended inside a line, the key is not forgotten.
KeyEnds ==
  /\ \A i \in 1 .. Len(request.params) :
       m_iNextPos \in ParamAt(request, i) + 3 .. ParamAt(request, i) + 4 =>
         m_pEnd["requestParamKey"] # NULL
  /\ \A j \in 1 .. Len(request.headers) :
       m_iNextPos \in LineAt(request, j) + 2 .. LineAt(request, j) + (2 * Len(request.pad) + 3) =>
         m_pEnd["headerKey"] # NULL

Marks == TokenMarks /\ ParamKeyMarks /\ HeaderKeyMarks /\ (cut # "inside" => KeyEnds)

LEMMA ScanTokenMarks ==
  ASSUME GoodScan, TokenMarks
  PROVE  TokenMarks'
<1>. DEFINE s == m_eDecodeState
            t == m_eDecodeState'
            p == m_iNextPos
            u == ParamAt(request, Last(request))
<1>1. request' = request /\ p' = p + 1 /\ p \in Nat /\ (p + 1) - 1 = p
  BY GoodScanIs DEF input
<1>2. \A b \in Tokens : m_pBegin'[b] = IF Begins(b, t) THEN p ELSE m_pBegin[b]
  BY ScanIs DEF ScanMarks, GoodScan
<1>3. ASSUME NEW b \in Tokens \ {"version"}, Token(t) = b
      PROVE  m_pBegin'[b] \in {NULL, p}
  <2>1. Begins(b, t)
    BY <1>3, GoodScanIs, MoveTokens DEF Begins
  <2>. QED
    BY <1>2, <2>1
<1>4. ASSUME Token(t) = "version"
      PROVE  m_pBegin'["version"] \in {NULL, u + 3}
  <2>0. "version" \in Tokens
    BY DEF Tokens
  <2>1. CASE Begins("version", t)
    BY <1>2, <2>0, <2>1, EndsAt
  <2>2. CASE ~Begins("version", t)
    <3>1. Token(s) = "version"
      BY <1>4, <2>2 DEF Begins
    <3>. QED
      BY <1>2, <2>0, <2>2, <3>1 DEF TokenMarks
  <2>. QED
    BY <2>1, <2>2
<1>5. u' = u
  BY <1>1
<1>. HIDE DEF u
<1>6. ASSUME NEW b \in Tokens, Token(t) = b
      PROVE  m_pBegin'[b] \in {NULL, IF b = "version" THEN u + 3 ELSE p' - 1}
  BY <1>1, <1>3, <1>4, <1>6
<1>. QED
  BY <1>1, <1>5, <1>6 DEF TokenMarks, u

\* Within a parameter, or a header, only its own tokens end.
LEMMA ParamTokens ==
  ASSUME NEW r \in Requests, NEW i \in 1 .. Len(r.params),
         NEW k \in ParamAt(r, i) + 1 .. ParamAt(r, i) + 4
  PROVE  /\ TokenAt(r, "requestParamKey", k) <=> k = ParamAt(r, i) + 2
         /\ TokenAt(r, "requestParamValue", k) <=> k = ParamAt(r, i) + 4
<1>. DEFINE n == Len(r.params)
            P(x) == ParamAt(r, x)
<1>1. n \in Nat /\ 1 .. n \subseteq 1 .. n + 1 /\ Last(r) = n + 1
  BY RequestType DEF Last
<1>2. /\ \A x \in 1 .. n : P(x) \in Nat
      /\ \A x, y \in 1 .. n : x < y => P(x) + 4 <= P(y)
  BY <1>1, ParamChars, ParamsApart
<1>. HIDE DEF n, P
<1>3. ASSUME NEW x \in 1 .. n, NEW c \in {2, 4}, k = P(x) + c, i \in 1 .. n,
             k \in P(i) + 1 .. P(i) + 4
      PROVE  x = i
  <2>1. ~(P(i) + 4 <= P(x)) /\ ~(P(x) + 4 <= P(i))
    BY <1>2, <1>3
  <2>2. i \in Int /\ x \in Int
    BY <1>1, <1>3
  <2>. QED
    BY <1>2, <1>3, <2>1, <2>2
<1>4. /\ \A x \in 1 .. n : k = P(x) + 2 => x = i
      /\ \A x \in 1 .. n : k = P(x) + 4 => x = i
  BY <1>3 DEF n, P
<1>. QED
  BY <1>4 DEF TokenAt, n, P

LEMMA HeaderTokens ==
  ASSUME NEW r \in Requests, NEW j \in 1 .. Len(r.headers),
         NEW k \in LineAt(r, j) + 1 .. LineAt(r, j) + (2 * Len(r.pad) + 5)
  PROVE  /\ TokenAt(r, "headerKey", k) <=> k = LineAt(r, j) + 1
         /\ TokenAt(r, "headerValue", k) <=> k = LineAt(r, j) + (2 * Len(r.pad) + 3)
<1>. DEFINE n == Len(r.headers)
            q == Len(r.pad)
            L(x) == LineAt(r, x)
<1>1. n \in Nat /\ q \in Nat /\ 1 .. n \subseteq 1 .. n + 1
  BY RequestType
<1>2. /\ \A x \in 1 .. n : L(x) \in Nat
      /\ \A x, y \in 1 .. n : x < y => L(x) + (2 * q + 5) <= L(y)
  BY <1>1, LineAtIs, LinesApart
<1>. HIDE DEF n, q, L
<1>3. ASSUME NEW x \in 1 .. n, NEW c \in {1, 2 * q + 3}, k = L(x) + c, j \in 1 .. n,
             k \in L(j) + 1 .. L(j) + (2 * q + 5)
      PROVE  x = j
  <2>1. ~(L(j) + (2 * q + 5) <= L(x)) /\ ~(L(x) + (2 * q + 5) <= L(j))
    BY <1>1, <1>2, <1>3
  <2>2. j \in Int /\ x \in Int
    BY <1>1, <1>3
  <2>. QED
    BY <1>2, <1>3, <2>1, <2>2
<1>4. /\ \A x \in 1 .. n : k = L(x) + 1 => x = j
      /\ \A x \in 1 .. n : k = L(x) + (2 * q + 3) => x = j
  BY <1>3 DEF n, q, L
<1>. QED
  BY <1>4 DEF TokenAt, n, q, L

LEMMA ScanParamKey ==
  ASSUME GoodScan, TokenMarks, ParamKeyMarks, NEW i \in 1 .. Len(request.params),
         m_iNextPos + 1 \in ParamAt(request, i) + 3 .. ParamAt(request, i) + 4
  PROVE  /\ m_pBegin'["requestParamKey"] \in {NULL, ParamAt(request, i) + 1}
         /\ m_pEnd'["requestParamKey"] \in {NULL, ParamAt(request, i) + 2}
         /\ cut # "inside" /\ KeyEnds => m_pEnd'["requestParamKey"] # NULL
<1>. DEFINE b == "requestParamKey"
            t == m_eDecodeState'
            p == m_iNextPos
            a == ParamAt(request, i)
<1>1. request \in Requests /\ p \in Nat /\ a \in Nat /\ p # NULL /\ b \in Tokens \ {"version"}
  <2>1. i \in 1 .. Len(request.params) + 1
    BY GoodScanIs, RequestType
  <2>. QED
    BY <2>1, GoodScanIs, ParamChars DEF Tokens
<1>2. /\ m_pBegin'[b] = IF Begins(b, t) THEN p ELSE m_pBegin[b]
      /\ m_pEnd'[b] = IF Ends(b, t) THEN p ELSE m_pEnd[b]
  BY <1>1, ScanIs DEF ScanMarks, GoodScan
<1>3. /\ p \in a + 1 .. a + 4 /\ p + 1 \in a + 1 .. a + 4 /\ p + 1 # a + 2
      /\ p = a + 2 \/ p \in a + 3 .. a + 4
  BY <1>1
<1>4. /\ Ends(b, t) <=> p = a + 2
      /\ ~Begins(b, t)
  BY <1>1, <1>3, EndsAt, ParamTokens
<1>5. CASE p = a + 2
  <2>1. Token(m_eDecodeState) = b
    BY <1>4, <1>5 DEF Ends
  <2>2. m_pBegin[b] \in {NULL, p - 1}
    BY <1>1, <2>1 DEF TokenMarks
  <2>. QED
    BY <1>1, <1>2, <1>4, <1>5, <2>2
<1>6. CASE p \in a + 3 .. a + 4
  <2>1. p # a + 2
    BY <1>1, <1>6
  <2>. QED
    BY <1>2, <1>4, <1>6, <2>1 DEF ParamKeyMarks, KeyEnds
<1>. QED
  BY <1>3, <1>5, <1>6

LEMMA ScanHeaderKey ==
  ASSUME GoodScan, TokenMarks, HeaderKeyMarks, NEW j \in 1 .. Len(request.headers),
         m_iNextPos + 1 \in LineAt(request, j) + 2 ..
                              LineAt(request, j) + (2 * Len(request.pad) + 3)
  PROVE  /\ m_pBegin'["headerKey"] \in {NULL, LineAt(request, j)}
         /\ m_pEnd'["headerKey"] \in {NULL, LineAt(request, j) + 1}
         /\ cut # "inside" /\ KeyEnds => m_pEnd'["headerKey"] # NULL
<1>. DEFINE b == "headerKey"
            t == m_eDecodeState'
            p == m_iNextPos
            a == LineAt(request, j)
            q == Len(request.pad)
<1>1. /\ request \in Requests /\ p \in Nat /\ a \in Nat /\ q \in Nat /\ p # NULL
      /\ b \in Tokens \ {"version"}
  <2>1. j \in 1 .. Len(request.headers) + 1
    BY GoodScanIs, RequestType
  <2>. QED
    BY <2>1, GoodScanIs, RequestType, LineAtIs DEF Tokens
<1>2. /\ m_pBegin'[b] = IF Begins(b, t) THEN p ELSE m_pBegin[b]
      /\ m_pEnd'[b] = IF Ends(b, t) THEN p ELSE m_pEnd[b]
  BY <1>1, ScanIs DEF ScanMarks, GoodScan
<1>3. /\ p \in a + 1 .. a + (2 * q + 5) /\ p + 1 \in a + 1 .. a + (2 * q + 5) /\ p + 1 # a + 1
      /\ p = a + 1 \/ p \in a + 2 .. a + (2 * q + 3)
  BY <1>1, LineOffsets
<1>4. /\ Ends(b, t) <=> p = a + 1
      /\ ~Begins(b, t)
  BY <1>1, <1>3, EndsAt, HeaderTokens
<1>5. CASE p = a + 1
  <2>1. Token(m_eDecodeState) = b
    BY <1>4, <1>5 DEF Ends
  <2>2. m_pBegin[b] \in {NULL, p - 1}
    BY <1>1, <2>1 DEF TokenMarks
  <2>. QED
    BY <1>1, <1>2, <1>4, <1>5, <2>2
<1>6. CASE p \in a + 2 .. a + (2 * q + 3)
  <2>1. p # a + 1
    BY <1>1, <1>6
  <2>. QED
    BY <1>2, <1>4, <1>6, <2>1 DEF HeaderKeyMarks, KeyEnds
<1>. QED
  BY <1>3, <1>5, <1>6

LEMMA ScanKeepsMarks ==
  ASSUME GoodScan, Marks
  PROVE  Marks'
<1>1. request' = request /\ m_iNextPos' = m_iNextPos + 1 /\ cut' = cut
  BY GoodScanIs DEF input
<1>2. TokenMarks'
  BY ScanTokenMarks DEF Marks
<1>3. ParamKeyMarks'
  BY <1>1, ScanParamKey DEF Marks, ParamKeyMarks
<1>4. HeaderKeyMarks'
  BY <1>1, ScanHeaderKey DEF Marks, HeaderKeyMarks
<1>5. ASSUME cut # "inside" PROVE KeyEnds'
  <2>1. KeyEnds
    BY <1>5 DEF Marks
  <2>2. \A i \in 1 .. Len(request.params) :
          m_iNextPos + 1 \in ParamAt(request, i) + 3 .. ParamAt(request, i) + 4 =>
            m_pEnd'["requestParamKey"] # NULL
    BY <1>5, <2>1, ScanParamKey DEF Marks
  <2>3. \A j \in 1 .. Len(request.headers) :
          m_iNextPos + 1 \in LineAt(request, j) + 2 ..
                               LineAt(request, j) + (2 * Len(request.pad) + 3) =>
            m_pEnd'["headerKey"] # NULL
    BY <1>5, <2>1, ScanHeaderKey DEF Marks
  <2>. QED
    BY <1>1, <2>2, <2>3 DEF KeyEnds
<1>. QED
  BY <1>1, <1>2, <1>3, <1>4, <1>5 DEF Marks

\* Read begins a parse with no token marked.
LEMMA ReadMarks ==
  ASSUME TypeInv, MarkInv, Read, request # NULL
  PROVE  Marks'
<1>. DEFINE s == m_eDecodeState
            p == m_iNextPos
<1>1. /\ request' = request /\ p' = p /\ s' = s /\ request \in Requests
      /\ Place(request, s, p) /\ m_pBegin' = m_pBegin /\ m_pEnd' = m_pEnd
  BY DEF Read, input, locals, TypeInv, TypeOK, MarkInv
<1>2. \A b \in Tokens : m_pBegin[b] = NULL /\ m_pEnd[b] = NULL
  BY DEF Read, TypeInv, Unmarked
<1>3. m_pBegin["requestParamKey"] = NULL /\ m_pEnd["requestParamKey"] = NULL
      /\ m_pBegin["headerKey"] = NULL /\ m_pEnd["headerKey"] = NULL
  BY <1>2 DEF Tokens
<1>4. TokenMarks' /\ ParamKeyMarks' /\ HeaderKeyMarks'
  BY <1>1, <1>2, <1>3 DEF TokenMarks, ParamKeyMarks, HeaderKeyMarks
<1>5. ASSUME cut' # "inside" PROVE KeyEnds'
  <2>1. cut # "inside" /\ pc = "read" /\ ~Whole
    <3>1. m_iReadIdx \in Nat /\ Len(text) \in Nat /\ \E i \in m_iReadIdx + 1 .. Len(text) : TRUE
      BY LenProperties DEF Read, TypeInv, TypeOK
    <3>. QED
      BY <1>5, <3>1 DEF Read, Whole
  <2>2. s \in LineStarts
    BY <2>1 DEF MarkInv
  <2>3. ASSUME NEW i \in 1 .. Len(request.params)
        PROVE  ~(p \in ParamAt(request, i) + 3 .. ParamAt(request, i) + 4)
    <3>. DEFINE a == ParamAt(request, i)
    <3>. SUFFICES ASSUME p \in a + 3 .. a + 4 PROVE FALSE
      OBVIOUS
    <3>0. i \in 1 .. Len(request.params) + 1
      BY <1>1, RequestType
    <3>1. a \in Nat /\ p \in a + 1 .. a + 4 /\ p # a + 1 /\ p # a + 2
      BY <1>1, <3>0, ParamChars
    <3>2. InParam(s, p, a)
      BY <1>1, <3>1, PlaceBy
    <3>. QED
      BY <2>2, <3>1, <3>2 DEF InParam, LineStarts
  <2>4. ASSUME NEW j \in 1 .. Len(request.headers)
        PROVE  ~(p \in LineAt(request, j) + 2 .. LineAt(request, j) + (2 * Len(request.pad) + 3))
    <3>. DEFINE a == LineAt(request, j)
                q == Len(request.pad)
    <3>. SUFFICES ASSUME p \in a + 2 .. a + (2 * q + 3) PROVE FALSE
      OBVIOUS
    <3>0. j \in 1 .. Len(request.headers) + 1
      BY <1>1, RequestType
    <3>1. a \in Nat /\ q \in Nat
      BY <1>1, <3>0, LineAtIs, RequestType
    <3>2. p \in a + 1 .. a + (2 * q + 5) => InHeader(s, p, a, q)
      BY <1>1, PlaceBy
    <3>. HIDE DEF a, q
    <3>3. p \in a + 1 .. a + (2 * q + 5) /\ p # a + 1 /\ p # a + 2 * q + 5
      BY <3>1
    <3>. QED
      BY <2>2, <3>2, <3>3 DEF InHeader, LineStarts
  <2>. QED
    BY <1>1, <2>3, <2>4 DEF KeyEnds
<1>. QED
  BY <1>4, <1>5 DEF Marks

-----------------------------------------------------------------------------
(* The strings of the request line *)

LEMMA SubSeqs ==
  ASSUME NEW T \in Seq(Chars), NEW k \in Nat
  PROVE  /\ k + 1 <= Len(T) => SubSeq(T, k + 1, k + 1) = <<T[k + 1]>>
         /\ k + 3 <= Len(T) => SubSeq(T, k + 1, k + 3) = <<T[k + 1], T[k + 2], T[k + 3]>>
<1>1. Len(T) \in Nat
  BY LenProperties
<1>2. ASSUME NEW n \in 1 .. 3, k + n <= Len(T)
      PROVE  /\ SubSeq(T, k + 1, k + n) \in Seq(Chars) /\ Len(SubSeq(T, k + 1, k + n)) = n
             /\ \A i \in 1 .. n : SubSeq(T, k + 1, k + n)[i] = T[k + i] /\ T[k + i] \in Chars
  <2>1. \A i \in k + 1 .. k + n : T[i] \in Chars
    BY <1>1, <1>2, ElementOfSeq
  <2>2. k + 1 \in Int /\ k + n \in Int /\ k + 1 <= k + n /\ (k + n) - (k + 1) + 1 = n
    OBVIOUS
  <2>. DEFINE a == k + 1
              b == k + n
  <2>. HIDE DEF a, b
  <2>3. a \in Int /\ b \in Int /\ \A i \in a .. b : T[i] \in Chars
    BY <2>1, <2>2 DEF a, b
  <2>4. /\ SubSeq(T, a, b) \in Seq(Chars)
        /\ Len(SubSeq(T, a, b)) = IF a <= b THEN b - a + 1 ELSE 0
        /\ \A i \in 1 .. b - a + 1 : SubSeq(T, a, b)[i] = T[a + i - 1]
    BY <2>3, SubSeqProperties
  <2>5. a <= b /\ b - a + 1 = n
    BY <2>2 DEF a, b
  <2>6. /\ SubSeq(T, a, b) \in Seq(Chars) /\ Len(SubSeq(T, a, b)) = n
        /\ \A i \in 1 .. n : SubSeq(T, a, b)[i] = T[a + i - 1]
    BY <2>4, <2>5
  <2>7. \A i \in 1 .. n : a + i - 1 = k + i /\ k + i \in k + 1 .. k + n
    BY DEF a
  <2>. QED
    BY <2>1, <2>6, <2>7 DEF a, b
<1>3. ASSUME k + 1 <= Len(T) PROVE SubSeq(T, k + 1, k + 1) = <<T[k + 1]>>
  <2>. DEFINE z == SubSeq(T, k + 1, k + 1)
  <2>1. z \in Seq(Chars) /\ Len(z) = 1 /\ z[1] = T[k + 1] /\ T[k + 1] \in Chars
    BY <1>2, <1>3
  <2>. HIDE DEF z
  <2>2. <<T[k + 1]>> \in Seq(Chars)
    BY <2>1
  <2>3. z = <<T[k + 1]>>
    BY <2>1, <2>2, SeqEqual
  <2>. QED
    BY <2>3 DEF z
<1>4. ASSUME k + 3 <= Len(T) PROVE SubSeq(T, k + 1, k + 3) = <<T[k + 1], T[k + 2], T[k + 3]>>
  <2>. DEFINE z == SubSeq(T, k + 1, k + 3)
              y == <<T[k + 1], T[k + 2], T[k + 3]>>
  <2>0. 3 \in 1 .. 3
    OBVIOUS
  <2>1. /\ z \in Seq(Chars) /\ Len(z) = 3 /\ \A i \in 1 .. 3 : z[i] = T[k + i] /\ T[k + i] \in Chars
    BY <1>2, <1>4, <2>0, Zenon
  <2>2. y \in Seq(Chars) /\ Len(y) = 3 /\ \A i \in 1 .. 3 : y[i] = T[k + i]
    BY <2>1, TupleOf
  <2>. HIDE DEF z, y
  <2>3. Len(z) = Len(y) /\ \A i \in 1 .. Len(z) : z[i] = y[i]
    BY <2>1, <2>2
  <2>4. z = y
    BY <2>1, <2>2, <2>3, SeqEqual
  <2>. QED
    BY <2>4 DEF z, y
<1>. QED
  BY <1>3, <1>4

\* What the conversion of a token gives whose marks are not forgotten
LEMMA StrIs ==
  ASSUME GoodScan, NEW b \in Tokens, ~Throws(b), NEW x \in Nat, NEW y \in Nat,
         m_pBegin[b] \in {NULL, x}, m_pEnd'[b] \in {NULL, y}
  PROVE  Str(b) = IF m_pEnd'[b] = NULL THEN <<>> ELSE SubSeq(text, x + 1, y)
<1>1. CASE m_pEnd'[b] = NULL
  BY <1>1 DEF Str
<1>2. CASE m_pEnd'[b] # NULL
  <2>1. m_pBegin[b] = x /\ m_pEnd'[b] = y
    BY <1>2 DEF Throws
  <2>. QED
    BY <1>2, <2>1 DEF Str
<1>. QED
  BY <1>1, <1>2

\* A token of one character that ends now
LEMMA TokenRead ==
  ASSUME GoodScan, TokenMarks, NEW b \in Tokens \ {"version"}, Ends(b, m_eDecodeState'), ~Throws(b)
  PROVE  Str(b) = <<text[m_iNextPos]>> /\ m_iNextPos \in Nat \ {0}
<1>. DEFINE p == m_iNextPos
<1>1. /\ request \in Requests /\ p \in Nat /\ p < Len(text) /\ p # NULL /\ text \in Seq(Chars)
      /\ Len(text) \in Nat
  BY GoodScanIs
<1>2. Token(m_eDecodeState) = b
  BY DEF Ends
<1>3. m_pBegin[b] \in {NULL, p - 1}
  BY <1>2 DEF TokenMarks
<1>4. m_pEnd'[b] = p
  BY ScanIs DEF ScanMarks, GoodScan
<1>5. p # 0
  <2>1. TokenAt(request, b, p)
    BY EndsAt
  <2>2. /\ \A i \in 1 .. Len(request.params) : ParamAt(request, i) \in Nat
        /\ \A j \in 1 .. Len(request.headers) : LineAt(request, j) \in Nat
        /\ ParamAt(request, Last(request)) \in Nat /\ Len(request.pad) \in Nat
    <3>1. /\ 1 .. Len(request.params) \subseteq 1 .. Len(request.params) + 1
          /\ 1 .. Len(request.headers) \subseteq 1 .. Len(request.headers) + 1
          /\ Last(request) \in 1 .. Len(request.params) + 1
          /\ Len(request.pad) \in Nat
      BY <1>1, RequestType DEF Last
    <3>. QED
      BY <1>1, <3>1, ParamChars, LineAtIs
  <2>. QED
    BY <2>1, <2>2 DEF TokenAt
<1>6. p - 1 \in Nat /\ (p - 1) + 1 = p
  BY <1>1, <1>5
<1>7. Str(b) = SubSeq(text, (p - 1) + 1, p)
  <2>. HIDE DEF p
  <2>. QED
    BY <1>1, <1>3, <1>4, <1>6, StrIs
<1>8. SubSeq(text, (p - 1) + 1, (p - 1) + 1) = <<text[(p - 1) + 1]>>
  <2>1. (p - 1) + 1 <= Len(text)
    BY <1>1, <1>6
  <2>. QED
    BY <1>1, <1>6, <2>1, SubSeqs
<1>. QED
  BY <1>1, <1>5, <1>6, <1>7, <1>8

\* The strings that have been read
StringsAreSent ==
  /\ m_iNextPos > 1 => m_str["method"] = <<request.method>>
  /\ m_iNextPos > 3 => m_str["url"] = <<"/">>
  /\ m_iNextPos > ParamAt(request, Last(request)) + 2 => m_str["protocol"] = <<"H">>
  /\ m_iNextPos > ParamAt(request, Last(request)) + 6 => m_str["version"] = <<"1", ".", "1">>

LEMMA ScanStrings ==
  ASSUME GoodScan, Marks, StringsAreSent
  PROVE  StringsAreSent'
<1>. DEFINE t == m_eDecodeState'
            p == m_iNextPos
            T == Text(request)
            u == ParamAt(request, Last(request))
<1>1. /\ request' = request /\ m_iNextPos' = p + 1 /\ p \in Nat /\ u \in Nat /\ 3 <= u
      /\ text = T /\ request \in Requests /\ T \in Seq(Chars) /\ p < Len(T) /\ Len(T) \in Nat
  BY GoodScanIs, TextIs DEF input, PartsOf
<1>2. ScanMarks
  BY ScanIs DEF GoodScan
<1>3. \A b \in Strings : m_str'[b] = IF Ends(b, t) THEN Str(b) ELSE m_str[b]
  BY <1>2 DEF GoodScan, ScanMarks, Store
<1>4. \A b \in Strings : Ends(b, t) => ~Throws(b)
  BY <1>2 DEF GoodScan, ScanMarks, Converted
<1>5. /\ Ends("method", t) <=> p = 1
      /\ Ends("url", t) <=> p = 3
      /\ Ends("protocol", t) <=> p = u + 2
      /\ Ends("version", t) <=> p = u + 6
  BY EndsAt DEF Tokens, TokenAt
<1>6. T[1] = request.method /\ T[3] = "/" /\ T[u + 2] = "H"
      /\ T[u + 4] = "1" /\ T[u + 5] = "." /\ T[u + 6] = "1"
  BY <1>1, TextIs DEF Line1Chars
<1>7. TokenMarks
  BY DEF Marks
<1>8. ASSUME NEW b \in Strings \ {"version"}, Ends(b, t)
      PROVE  m_str'[b] = <<T[p]>>
  BY <1>1, <1>3, <1>4, <1>7, <1>8, TokenRead DEF Strings, Tokens
<1>9. p + 1 > 1 => m_str'["method"] = <<request.method>>
  <2>1. CASE p = 1
    BY <1>5, <1>6, <1>8, <2>1 DEF Strings
  <2>2. CASE p # 1
    <3>1. m_str'["method"] = m_str["method"]
      BY <1>3, <1>5, <2>2 DEF Strings
    <3>2. p + 1 > 1 => p > 1
      BY <1>1, <2>2
    <3>. QED
      BY <3>1, <3>2 DEF StringsAreSent
  <2>. QED
    BY <2>1, <2>2
<1>10. p + 1 > 3 => m_str'["url"] = <<"/">>
  <2>1. CASE p = 3
    BY <1>5, <1>6, <1>8, <2>1 DEF Strings
  <2>2. CASE p # 3
    <3>1. m_str'["url"] = m_str["url"]
      BY <1>3, <1>5, <2>2 DEF Strings
    <3>2. p + 1 > 3 => p > 3
      BY <1>1, <2>2
    <3>. QED
      BY <3>1, <3>2 DEF StringsAreSent
  <2>. QED
    BY <2>1, <2>2
<1>11. p + 1 > u + 2 => m_str'["protocol"] = <<"H">>
  <2>1. CASE p = u + 2
    BY <1>5, <1>6, <1>8, <2>1 DEF Strings
  <2>2. CASE p # u + 2
    <3>1. m_str'["protocol"] = m_str["protocol"]
      BY <1>3, <1>5, <2>2 DEF Strings
    <3>2. p + 1 > u + 2 => p > u + 2
      <4>. HIDE DEF u, p
      <4>. QED
        BY <1>1, <2>2
    <3>. QED
      BY <3>1, <3>2 DEF StringsAreSent
  <2>. QED
    BY <2>1, <2>2
<1>12. p + 1 > u + 6 => m_str'["version"] = <<"1", ".", "1">>
  <2>1. CASE p = u + 6
    <3>1. /\ Ends("version", t) /\ "version" \in Tokens /\ "version" \in Strings
      BY <1>5, <2>1 DEF Tokens, Strings
    <3>2. m_pEnd'["version"] = p /\ Token(m_eDecodeState) = "version"
      BY <1>2, <3>1 DEF ScanMarks, Ends
    <3>3. m_pBegin["version"] \in {NULL, u + 3}
      BY <1>7, <3>1, <3>2 DEF TokenMarks
    <3>4. ~Throws("version") /\ m_str'["version"] = Str("version")
      BY <1>3, <1>4, <3>1
    <3>5. p # NULL
      BY GoodScanIs
    <3>6. Str("version") = SubSeq(T, (u + 3) + 1, p)
      <4>1. u + 3 \in Nat
        BY <1>1
      <4>. HIDE DEF u, p, T
      <4>. QED
        BY <1>1, <3>1, <3>2, <3>3, <3>4, <3>5, <4>1, StrIs DEF p
    <3>7. SubSeq(T, (u + 3) + 1, (u + 3) + 3) = <<T[(u + 3) + 1], T[(u + 3) + 2], T[(u + 3) + 3]>>
      <4>1. u + 3 \in Nat /\ (u + 3) + 3 <= Len(T)
        <5>. HIDE DEF u, T
        <5>. QED
          BY <1>1, <2>1
      <4>. HIDE DEF u, T
      <4>. QED
        BY <1>1, <4>1, SubSeqs
    <3>8. p = (u + 3) + 3 /\ (u + 3) + 1 = u + 4 /\ (u + 3) + 2 = u + 5 /\ (u + 3) + 3 = u + 6
      <4>. HIDE DEF u, T
      <4>. QED
        BY <1>1, <2>1
    <3>. HIDE DEF u, T, p
    <3>. QED
      BY <1>6, <3>4, <3>6, <3>7, <3>8
  <2>2. CASE p # u + 6
    <3>1. m_str'["version"] = m_str["version"]
      BY <1>3, <1>5, <2>2 DEF Strings
    <3>2. p + 1 > u + 6 => p > u + 6
      <4>. HIDE DEF u, p
      <4>. QED
        BY <1>1, <2>2
    <3>. QED
      BY <3>1, <3>2 DEF StringsAreSent
  <2>. QED
    BY <2>1, <2>2
<1>. QED
  BY <1>1, <1>9, <1>10, <1>11, <1>12 DEF StringsAreSent

-----------------------------------------------------------------------------
(* The parameters and the headers *)

LEMMA InsertNew ==
  ASSUME NEW k, NEW v
  PROVE  Insert(EmptyMap, k, v) = [x \in {k} |-> v]
BY DEF Insert, Joined, EmptyMap

LEMMA InsertIs ==
  ASSUME NEW k, NEW v, NEW map
  PROVE  /\ DOMAIN Insert(map, k, v) = DOMAIN map \cup {k}
         /\ \A x \in DOMAIN map : Insert(map, k, v)[x] = map[x]
         /\ k \notin DOMAIN map => Insert(map, k, v)[k] = v
BY DEF Insert, Joined

\* The key in front of a value that ends now
LEMMA KeyRead ==
  ASSUME GoodScan, NEW b \in Tokens, ~Throws(b), ~Ends(b, m_eDecodeState'),
         NEW x \in Nat, x + 1 <= m_iNextPos,
         m_pBegin[b] \in {NULL, x}, m_pEnd[b] \in {NULL, x + 1}
  PROVE  Str(b) = IF m_pEnd[b] = NULL THEN <<>> ELSE <<text[x + 1]>>
<1>1. m_pEnd'[b] = m_pEnd[b]
  BY ScanIs DEF ScanMarks, GoodScan
<1>2. /\ text \in Seq(Chars) /\ x + 1 <= Len(text) /\ x + 1 \in Nat
  BY GoodScanIs
<1>3. SubSeq(text, x + 1, x + 1) = <<text[x + 1]>>
  BY <1>2, SubSeqs
<1>4. Str(b) = IF m_pEnd'[b] = NULL THEN <<>> ELSE SubSeq(text, x + 1, x + 1)
  BY <1>1, <1>2, StrIs
<1>. QED
  BY <1>1, <1>3, <1>4

LEMMA ParamRead ==
  ASSUME GoodScan, Marks, cut # "inside", NEW i \in 1 .. Len(request.params),
         m_iNextPos = ParamAt(request, i) + 4
  PROVE  /\ Ends("requestParamValue", m_eDecodeState')
         /\ Str("requestParamKey") = <<"a">> /\ Str("requestParamValue") = <<request.params[i]>>
<1>. DEFINE t == m_eDecodeState'
            p == m_iNextPos
            a == ParamAt(request, i)
            T == Text(request)
<1>1. /\ request \in Requests /\ text = T /\ a \in Nat /\ p \in Nat
      /\ T[a + 2] = "a" /\ T[a + 4] = request.params[i]
  <2>1. i \in 1 .. Len(request.params) + 1
    BY GoodScanIs, RequestType
  <2>2. request \in Requests /\ text = T /\ p \in Nat
    BY GoodScanIs
  <2>3. a \in Nat
    BY <2>1, <2>2, ParamChars
  <2>4. T[a + 2] = "a" /\ T[a + 4] = request.params[i]
    BY <2>2, ParamText
  <2>. QED
    BY <2>2, <2>3, <2>4
<1>2. "requestParamKey" \in Tokens \ {"version"} /\ "requestParamValue" \in Tokens \ {"version"}
  BY DEF Tokens
<1>3. /\ p \in a + 1 .. a + 4 /\ p # a + 2 /\ p = a + 4 /\ p \in a + 3 .. a + 4
      /\ a + 1 \in Nat /\ (a + 1) + 1 <= p /\ (a + 1) + 1 = a + 2
  BY <1>1
<1>4. Ends("requestParamValue", t) /\ ~Ends("requestParamKey", t)
  BY <1>1, <1>2, <1>3, EndsAt, ParamTokens
<1>5. ~Throws("requestParamKey") /\ ~Throws("requestParamValue")
  <2>1. ScanMarks /\ pc' # "crash"
    BY ScanIs DEF GoodScan
  <2>. QED
    BY <1>4, <2>1 DEF ScanMarks, Converted
<1>6. Str("requestParamValue") = <<T[p]>>
  BY <1>1, <1>2, <1>4, <1>5, TokenRead DEF Marks
<1>7. /\ m_pBegin["requestParamKey"] \in {NULL, a + 1}
      /\ m_pEnd["requestParamKey"] \in {NULL, a + 2}
      /\ m_pEnd["requestParamKey"] # NULL
  BY <1>3 DEF Marks, ParamKeyMarks, KeyEnds
<1>8. Str("requestParamKey") = <<text[a + 2]>>
  <2>1. Str("requestParamKey") =
          IF m_pEnd["requestParamKey"] = NULL THEN <<>> ELSE <<text[(a + 1) + 1]>>
    <3>. HIDE DEF a, p
    <3>. QED
      BY <1>2, <1>3, <1>4, <1>5, <1>7, KeyRead DEF p
  <2>. QED
    BY <1>3, <1>7, <2>1
<1>. QED
  <2>. HIDE DEF t, p, a, T
  <2>. QED
    BY <1>1, <1>3, <1>4, <1>6, <1>8 DEF t

ParamsAreSent ==
  m_mRequestParams = IF m_iNextPos > 7 /\ Len(request.params) # 0
                       THEN [k \in {<<"a">>} |-> <<request.params[1]>>]
                       ELSE EmptyMap

LEMMA ScanParams ==
  ASSUME GoodScan, Marks, cut # "inside", ParamsAreSent
  PROVE  ParamsAreSent'
<1>. DEFINE t == m_eDecodeState'
            p == m_iNextPos
            n == Len(request.params)
            full == [k \in {<<"a">>} |-> <<request.params[1]>>]
<1>1. request \in Requests /\ request' = request /\ m_iNextPos' = p + 1 /\ p \in Nat /\ n \in Nat
  BY GoodScanIs, RequestType DEF input
<1>2. m_mRequestParams' = IF Ends("requestParamValue", t)
        THEN Insert(m_mRequestParams, Str("requestParamKey"), Str("requestParamValue"))
        ELSE m_mRequestParams
  BY ScanIs DEF GoodScan, ScanMarks, Store
<1>3. ParamAt(request, 1) = 3
  BY <1>1, ParamChars
<1>4. \A i \in 1 .. n : i # 1 => ParamAt(request, i) \in Nat /\ ParamAt(request, i) + 4 > 7
  <2>. SUFFICES ASSUME NEW i \in 1 .. n, i # 1
                PROVE  ParamAt(request, i) \in Nat /\ ParamAt(request, i) + 4 > 7
    OBVIOUS
  <2>1. 1 \in 1 .. n + 1 /\ i \in 1 .. n + 1 /\ 1 < i /\ Last(request) = n + 1
    BY <1>1 DEF Last
  <2>2. ParamAt(request, i) \in Nat /\ ParamAt(request, 1) + 4 <= ParamAt(request, i)
    BY <1>1, <2>1, ParamChars, ParamsApart
  <2>. QED
    BY <1>3, <2>2
<1>5. Ends("requestParamValue", t) <=> \E i \in 1 .. n : p = ParamAt(request, i) + 4
  BY EndsAt DEF TokenAt, Tokens
<1>6. CASE Ends("requestParamValue", t)
  <2>1. PICK i \in 1 .. n : p = ParamAt(request, i) + 4
    BY <1>5, <1>6
  <2>2. m_mRequestParams' = Insert(m_mRequestParams, <<"a">>, <<request.params[i]>>)
    BY <1>2, <1>6, <2>1, ParamRead
  <2>3. n # 0 /\ p + 1 > 7
    BY <1>1, <1>3, <1>4, <2>1
  <2>4. CASE i = 1
    <3>1. ~(p > 7)
      BY <1>3, <2>1, <2>4
    <3>2. m_mRequestParams = EmptyMap
      BY <3>1 DEF ParamsAreSent
    <3>3. m_mRequestParams' = full
      <4>1. m_mRequestParams' = Insert(EmptyMap, <<"a">>, <<request.params[1]>>)
        BY <2>2, <2>4, <3>2
      <4>. QED
        BY <4>1, InsertNew, ZenonT(30)
    <3>. QED
      BY <1>1, <2>3, <3>3 DEF ParamsAreSent
  <2>5. CASE i # 1
    <3>1. p > 7
      BY <1>4, <2>1, <2>5
    <3>2. m_mRequestParams = full
      BY <2>3, <3>1 DEF ParamsAreSent
    <3>3. m_mRequestParams' = full
      <4>1. m_mRequestParams' = Insert(full, <<"a">>, <<request.params[i]>>)
        BY <2>2, <3>2, Zenon
      <4>2. Insert(full, <<"a">>, <<request.params[i]>>) = full
        BY DEF Insert, Joined
      <4>. QED
        BY <4>1, <4>2, Zenon
    <3>. QED
      BY <1>1, <2>3, <3>3 DEF ParamsAreSent
  <2>. QED
    BY <2>4, <2>5
<1>7. CASE ~Ends("requestParamValue", t)
  <2>1. m_mRequestParams' = m_mRequestParams
    BY <1>2, <1>7
  <2>2. n # 0 => p # 7
    <3>. SUFFICES ASSUME n # 0, p = 7 PROVE FALSE
      OBVIOUS
    <3>1. 1 \in 1 .. n /\ p = ParamAt(request, 1) + 4
      BY <1>1, <1>3
    <3>. QED
      BY <1>5, <1>7, <3>1
  <2>3. (p + 1 > 7 /\ n # 0) <=> (p > 7 /\ n # 0)
    BY <1>1, <2>2
  <2>. QED
    BY <1>1, <2>1, <2>3 DEF ParamsAreSent
<1>. QED
  BY <1>6, <1>7

\* The headers that have been read
StoredHeaders ==
  {j \in 1 .. Len(request.headers) :
     m_iNextPos > LineAt(request, j) + (2 * Len(request.pad) + 3)}

HeadersAreSent ==
  /\ DOMAIN m_mHeaders = {<<request.headers[j].key>> : j \in StoredHeaders}
  /\ \A j \in StoredHeaders :
       (\A l \in 1 .. j - 1 : request.headers[l].key # request.headers[j].key) =>
         m_mHeaders[<<request.headers[j].key>>] = <<request.headers[j].value>>

\* Of a header whose key was forgotten only the value is kept.
KnownKeys ==
  DOMAIN m_mHeaders \subseteq
    {<<>>} \cup {<<request.headers[j].key>> : j \in 1 .. Len(request.headers)}

LEMMA HeaderRead ==
  ASSUME GoodScan, Marks, NEW j \in 1 .. Len(request.headers),
         m_iNextPos = LineAt(request, j) + (2 * Len(request.pad) + 3)
  PROVE  /\ Ends("headerValue", m_eDecodeState')
         /\ Str("headerKey") \in {<<>>, <<request.headers[j].key>>}
         /\ cut # "inside" => Str("headerKey") = <<request.headers[j].key>>
         /\ Str("headerValue") = <<request.headers[j].value>>
<1>. DEFINE t == m_eDecodeState'
            p == m_iNextPos
            a == LineAt(request, j)
            q == Len(request.pad)
            T == Text(request)
            h == Header(request, j)
<1>1. /\ request \in Requests /\ text = T /\ a \in Nat /\ p \in Nat /\ q \in Nat
  <2>1. j \in 1 .. Len(request.headers) + 1
    BY GoodScanIs, RequestType
  <2>. QED
    BY <2>1, GoodScanIs, LineAtIs, RequestType
<1>2. T[a + 1] = request.headers[j].key /\ T[a + (2 * q + 3)] = request.headers[j].value
  <2>1. h[1] = request.headers[j].key /\ h[2 * q + 3] = request.headers[j].value
    BY <1>1, HeaderChars
  <2>2. \A c \in 1 .. 2 * q + 5 : T[a + c] = h[c]
    BY <1>1, LineText
  <2>3. 1 \in 1 .. 2 * q + 5 /\ 2 * q + 3 \in 1 .. 2 * q + 5
    BY <1>1
  <2>. HIDE DEF T, a, q, h
  <2>. QED
    BY <2>1, <2>2, <2>3
<1>3. "headerKey" \in Tokens \ {"version"} /\ "headerValue" \in Tokens \ {"version"}
  BY DEF Tokens
<1>4. /\ p \in a + 1 .. a + (2 * q + 5) /\ p # a + 1 /\ p = a + (2 * q + 3)
      /\ p \in a + 2 .. a + (2 * q + 3) /\ a + 1 <= p
  <2>1. p = a + (2 * q + 3)
    OBVIOUS
  <2>. HIDE DEF p, a, q
  <2>. QED
    BY <1>1, <2>1, LineOffsets
<1>5. Ends("headerValue", t) /\ ~Ends("headerKey", t)
  BY <1>1, <1>3, <1>4, EndsAt, HeaderTokens
<1>6. ~Throws("headerKey") /\ ~Throws("headerValue")
  <2>1. ScanMarks /\ pc' # "crash"
    BY ScanIs DEF GoodScan
  <2>. QED
    BY <1>5, <2>1 DEF ScanMarks, Converted
<1>7. Str("headerValue") = <<T[p]>>
  BY <1>1, <1>3, <1>5, <1>6, TokenRead DEF Marks
<1>8. /\ m_pBegin["headerKey"] \in {NULL, a} /\ m_pEnd["headerKey"] \in {NULL, a + 1}
      /\ cut # "inside" => m_pEnd["headerKey"] # NULL
  BY <1>4 DEF Marks, HeaderKeyMarks, KeyEnds
<1>9. Str("headerKey") = IF m_pEnd["headerKey"] = NULL THEN <<>> ELSE <<T[a + 1]>>
  <2>. HIDE DEF a, p, T
  <2>. QED
    BY <1>1, <1>3, <1>4, <1>5, <1>6, <1>8, KeyRead DEF p
<1>. QED
  BY <1>2, <1>4, <1>5, <1>7, <1>8, <1>9

LEMMA HeaderEnds ==
  ASSUME GoodScan
  PROVE  /\ Ends("headerValue", m_eDecodeState') <=>
              \E j \in 1 .. Len(request.headers) :
                m_iNextPos = LineAt(request, j) + (2 * Len(request.pad) + 3)
         /\ m_mHeaders' = IF Ends("headerValue", m_eDecodeState')
              THEN Insert(m_mHeaders, Str("headerKey"), Str("headerValue"))
              ELSE m_mHeaders
<1>1. m_mHeaders' = IF Ends("headerValue", m_eDecodeState')
        THEN Insert(m_mHeaders, Str("headerKey"), Str("headerValue"))
        ELSE m_mHeaders
  BY ScanIs DEF GoodScan, ScanMarks, Store
<1>. QED
  BY <1>1, EndsAt DEF TokenAt, Tokens

LEMMA ScanKnownKeys ==
  ASSUME GoodScan, Marks, KnownKeys
  PROVE  KnownKeys'
<1>1. request' = request
  BY GoodScanIs DEF input
<1>2. CASE Ends("headerValue", m_eDecodeState')
  <2>1. PICK j \in 1 .. Len(request.headers) :
          m_iNextPos = LineAt(request, j) + (2 * Len(request.pad) + 3)
    BY <1>2, HeaderEnds
  <2>2. Str("headerKey") \in {<<>>, <<request.headers[j].key>>}
    BY <2>1, HeaderRead
  <2>3. m_mHeaders' = Insert(m_mHeaders, Str("headerKey"), Str("headerValue"))
    BY <1>2, HeaderEnds
  <2>4. Str("headerKey") \in
          {<<>>} \cup {<<request.headers[i].key>> : i \in 1 .. Len(request.headers)}
    BY <2>2
  <2>5. DOMAIN m_mHeaders' = DOMAIN m_mHeaders \cup {Str("headerKey")}
    BY <2>3, InsertIs
  <2>. QED
    BY <1>1, <2>4, <2>5 DEF KnownKeys
<1>3. CASE ~Ends("headerValue", m_eDecodeState')
  BY <1>1, <1>3, HeaderEnds DEF KnownKeys
<1>. QED
  BY <1>2, <1>3

LEMMA ScanHeaders ==
  ASSUME GoodScan, Marks, cut # "inside", HeadersAreSent
  PROVE  HeadersAreSent'
<1>. DEFINE t == m_eDecodeState'
            p == m_iNextPos
            m == Len(request.headers)
            w == 2 * Len(request.pad) + 3
            L(j) == LineAt(request, j)
            key(j) == request.headers[j].key
            value(j) == request.headers[j].value
<1>1. /\ request \in Requests /\ request' = request /\ m_iNextPos' = p + 1 /\ p \in Nat
      /\ m \in Nat /\ w \in Nat
  BY GoodScanIs, RequestType DEF input
<1>2. \A j \in 1 .. m : L(j) \in Nat
  <2>1. 1 .. m \subseteq 1 .. m + 1
    BY <1>1
  <2>. QED
    BY <1>1, <2>1, LineAtIs
<1>3. \A i, j \in 1 .. m : i < j => L(i) + w + 2 <= L(j)
  <2>. SUFFICES ASSUME NEW i \in 1 .. m, NEW j \in 1 .. m, i < j PROVE L(i) + w + 2 <= L(j)
    OBVIOUS
  <2>1. i \in 1 .. m + 1 /\ j \in 1 .. m + 1
    BY <1>1
  <2>2. L(i) + (2 * Len(request.pad) + 5) <= L(j)
    BY <1>1, <2>1, LinesApart
  <2>3. Len(request.pad) \in Nat
    BY <1>1, RequestType
  <2>. QED
    BY <1>2, <2>2, <2>3
<1>4. /\ StoredHeaders = {j \in 1 .. m : p > L(j) + w}
      /\ StoredHeaders' = {j \in 1 .. m : p + 1 > L(j) + w}
  BY <1>1 DEF StoredHeaders
<1>5. CASE Ends("headerValue", t)
  <2>1. PICK j \in 1 .. m : p = L(j) + w
    BY <1>5, HeaderEnds
  <2>2. m_mHeaders' = Insert(m_mHeaders, <<key(j)>>, <<value(j)>>)
    BY <1>5, <2>1, HeaderEnds, HeaderRead
  <2>3. StoredHeaders = 1 .. j - 1 /\ StoredHeaders' = 1 .. j
    <3>. HIDE DEF L, w, m, p
    <3>1. ASSUME NEW i \in 1 .. m
          PROVE  /\ p > L(i) + w <=> i < j
                 /\ p + 1 > L(i) + w <=> i <= j
      <4>1. i < j \/ i = j \/ j < i
        BY <1>1
      <4>2. CASE i < j
        BY <1>1, <1>2, <1>3, <2>1, <4>2
      <4>3. CASE i = j
        BY <1>1, <1>2, <2>1, <4>3
      <4>4. CASE j < i
        BY <1>1, <1>2, <1>3, <2>1, <4>4
      <4>. QED
        BY <4>1, <4>2, <4>3, <4>4
    <3>. QED
      BY <1>1, <1>4, <3>1
  <2>4. DOMAIN m_mHeaders' = DOMAIN m_mHeaders \cup {<<key(j)>>}
    BY <2>2, InsertIs
  <2>5. DOMAIN m_mHeaders = {<<key(i)>> : i \in 1 .. j - 1}
    BY <2>3 DEF HeadersAreSent
  <2>6. DOMAIN m_mHeaders' = {<<key(i)>> : i \in 1 .. j}
    <3>1. 1 .. j = (1 .. j - 1) \cup {j}
      BY <1>1
    <3>. QED
      BY <2>4, <2>5, <3>1
  <2>7. ASSUME NEW i \in 1 .. j, \A l \in 1 .. i - 1 : key(l) # key(i)
        PROVE  m_mHeaders'[<<key(i)>>] = <<value(i)>>
    <3>1. CASE i = j
      <4>1. <<key(i)>> \notin DOMAIN m_mHeaders
        BY <2>5, <2>7, <3>1
      <4>2. \A f : <<key(j)>> \notin DOMAIN f =>
                Insert(f, <<key(j)>>, <<value(j)>>)[<<key(j)>>] = <<value(j)>>
        BY InsertIs, Zenon
      <4>. QED
        BY <2>2, <3>1, <4>1, <4>2, Zenon
    <3>2. CASE i # j
      <4>1. i \in 1 .. j - 1
        BY <1>1, <3>2
      <4>2. <<key(i)>> \in DOMAIN m_mHeaders
        BY <2>5, <4>1
      <4>3. m_mHeaders'[<<key(i)>>] = m_mHeaders[<<key(i)>>]
        <5>1. \A x \in DOMAIN m_mHeaders :
                Insert(m_mHeaders, <<key(j)>>, <<value(j)>>)[x] = m_mHeaders[x]
          BY DEF Insert, Joined
        <5>. QED
          BY <2>2, <4>2, <5>1, Zenon
      <4>4. m_mHeaders[<<key(i)>>] = <<value(i)>>
        BY <2>3, <2>7, <4>1 DEF HeadersAreSent
      <4>. QED
        BY <4>3, <4>4
    <3>. QED
      BY <3>1, <3>2
  <2>. QED
    BY <1>1, <2>3, <2>6, <2>7 DEF HeadersAreSent
<1>6. CASE ~Ends("headerValue", t)
  <2>1. \A i \in 1 .. m : p # L(i) + w
    BY <1>6, HeaderEnds
  <2>2. StoredHeaders' = StoredHeaders
    <3>. HIDE DEF L, w, m, p
    <3>1. \A i \in 1 .. m : p > L(i) + w <=> p + 1 > L(i) + w
      BY <1>1, <1>2, <2>1
    <3>. QED
      BY <1>4, <3>1
  <2>3. m_mHeaders' = m_mHeaders
    BY <1>6, HeaderEnds
  <2>. QED
    BY <1>1, <2>2, <2>3 DEF HeadersAreSent
<1>. QED
  BY <1>5, <1>6

-----------------------------------------------------------------------------
(* The end of the headers, and the body *)

LEMMA SentIs ==
  ASSUME NEW r \in Requests, NEW k
  PROVE  /\ \A v \in Sent(r, k) : \E j \in 1 .. Len(r.headers) :
              /\ r.headers[j].key = k /\ r.headers[j].value = v
              /\ \A l \in 1 .. j - 1 : r.headers[l].key # k
         /\ Sent(r, k) = {} => \A j \in 1 .. Len(r.headers) : r.headers[j].key # k
<1>. DEFINE m == Len(r.headers)
            J == {j \in 1 .. m : r.headers[j].key = k}
            F == {j \in 1 .. m : r.headers[j].key = k /\ \A l \in 1 .. j - 1 : r.headers[l].key # k}
<1>1. m \in Nat /\ DOMAIN r.headers = 1 .. m
  BY RequestType
<1>2. Sent(r, k) = {h.value : h \in {r.headers[i] : i \in F}}
  BY <1>1 DEF Sent
<1>3. Sent(r, k) = {r.headers[i].value : i \in F}
  <2>. HIDE DEF F
  <2>. QED
    BY <1>2
<1>4. ASSUME J # {} PROVE F # {}
  <2>1. J \in SUBSET Nat
    BY <1>1
  <2>2. PICK j \in J : \A l \in J : j <= l
    BY <1>4, <2>1, LeastOf
  <2>3. \A l \in 1 .. j - 1 : l \in 1 .. m /\ ~(j <= l)
    BY <1>1, <2>2
  <2>4. j \in F
    BY <2>2, <2>3
  <2>. QED
    BY <2>4
<1>. QED
  BY <1>3, <1>4

\* At the end of the headers all of them have been read.
LEMMA AllStored ==
  ASSUME request \in Requests, m_iNextPos \in Nat, m_iNextPos > End(request)
  PROVE  StoredHeaders = 1 .. Len(request.headers)
<1>. DEFINE m == Len(request.headers)
            q == Len(request.pad)
            e == End(request)
            p == m_iNextPos
<1>1. m \in Nat /\ q \in Nat /\ e \in Nat /\ p \in Nat /\ p > e
  BY RequestType, EndText
<1>2. \A j \in 1 .. m : LineAt(request, j) \in Nat /\ LineAt(request, j) + (2 * q + 5) <= e
  <2>. SUFFICES ASSUME NEW j \in 1 .. m
                PROVE  LineAt(request, j) \in Nat /\ LineAt(request, j) + (2 * q + 5) <= e
    OBVIOUS
  <2>1. j \in 1 .. m + 1 /\ m + 1 \in 1 .. m + 1 /\ j < m + 1
    BY <1>1
  <2>. QED
    BY <2>1, LineAtIs, LinesApart DEF End
<1>. HIDE DEF m, q, e, p
<1>3. \A j \in 1 .. m : p > LineAt(request, j) + (2 * q + 3)
  BY <1>1, <1>2
<1>. QED
  BY <1>3 DEF StoredHeaders, m, q, p

BodyIsSent ==
  /\ m_iNextPos <= End(request) + 2 => m_strBody = <<>>
  /\ cut = "nowhere" /\ Sent(request, "L") # {} =>
       /\ pc = "parse" /\ m_iNextPos = End(request) + 2 => bodyLength = Len(request.body)
       /\ m_eDecodeState = "COMPLETE" /\ m_iNextPos = End(request) + 2 => Len(request.body) = 0
       /\ m_iNextPos > End(request) + 2 => m_strBody = request.body

\* Without a body the headers end the request only if there was a Content-Length.
EndsByLength ==
  m_eDecodeState = "COMPLETE" /\ m_iNextPos = End(request) + 2 => Sent(request, "L") # {}

\* A request that arrives in one part is parsed in one call.
OnePart == cut = "nowhere" /\ ~Whole => m_iReadIdx = 0

\* What ParseInternal does behind the headers
LEMMA HeadersEnd ==
  ASSUME GoodScan, m_iNextPos = End(request) + 1
  PROVE  /\ bodyLength' = AfterHeaders
         /\ m_eDecodeState' = IF AfterHeaders = 0 THEN "COMPLETE" ELSE "BODY"
<1>1. /\ request \in Requests /\ text = Text(request)
      /\ Place(request, m_eDecodeState, m_iNextPos)
  BY GoodScanIs
<1>2. m_eDecodeState = "CR_LF_CR"
  BY <1>1, EndPlaces
<1>3. text[m_iNextPos + 1] = LF
  <2>1. m_iNextPos + 1 = End(request) + 2
    BY <1>1, EndText
  <2>. QED
    BY <1>1, <2>1, EndText
<1>4. Goto("CR_LF_CR", LF) = "BODY"
  BY CharFacts, HeaderMoves
<1>. QED
  BY <1>2, <1>3, <1>4, ScanIs DEF GoodScan

LEMMA ScanEndsByLength ==
  ASSUME GoodScan, KnownKeys
  PROVE  EndsByLength'
<1>. DEFINE p == m_iNextPos
<1>1. request \in Requests /\ request' = request /\ p' = p + 1 /\ p \in Nat /\ More
  BY GoodScanIs DEF input
<1>. SUFFICES ASSUME m_eDecodeState' = "COMPLETE", p + 1 = End(request) + 2, Sent(request, "L") = {}
              PROVE  FALSE
  BY <1>1 DEF EndsByLength
<1>2. p = End(request) + 1
  BY <1>1, EndText
<1>3. AfterHeaders = 0
  BY <1>2, HeadersEnd
<1>4. \A j \in 1 .. Len(request.headers) : request.headers[j].key # "L"
  BY <1>1, SentIs
<1>5. <<"L">> \notin DOMAIN m_mHeaders
  <2>. SUFFICES ASSUME <<"L">> \in DOMAIN m_mHeaders PROVE FALSE
    OBVIOUS
  <2>1. <<"L">> # <<>>
    OBVIOUS
  <2>2. PICK j \in 1 .. Len(request.headers) : <<"L">> = <<request.headers[j].key>>
    BY <2>1 DEF KnownKeys
  <2>. QED
    BY <1>4, <2>2
<1>6. m_iReadIdx - p = 0
  BY <1>3, <1>5 DEF AfterHeaders
<1>7. m_iReadIdx \in Nat /\ p < m_iReadIdx
  BY <1>1 DEF GoodScan, TypeInv, TypeOK, More
<1>. QED
  BY <1>1, <1>6, <1>7

LEMMA ScanBody ==
  ASSUME GoodScan, BodyIsSent, OnePart, cut # "inside" => HeadersAreSent
  PROVE  BodyIsSent'
<1>. DEFINE s == m_eDecodeState
            p == m_iNextPos
            e == End(request)
            body == request.body
<1>1. /\ request \in Requests /\ request' = request /\ p' = p + 1 /\ p \in Nat /\ More
      /\ cut' = cut /\ text = Text(request) /\ Place(request, s, p) /\ pc = "parse"
      /\ p < Len(text)
  BY GoodScanIs DEF input
<1>2. /\ e \in Nat /\ Len(body) \in Nat /\ Len(text) = e + 2 + Len(body) /\ body \in Seq(Chars)
      /\ \A k \in 1 .. Len(body) : text[e + 2 + k] = body[k]
  BY <1>1, EndText, RequestType
<1>3. m_strBody' = IF s = "BODY"
        THEN [i \in 1 .. bodyLength |-> CharAt(p + i - 1)] ELSE m_strBody
  BY ScanIs DEF GoodScan, ScanMarks, Store
<1>4. ASSUME p + 1 <= e + 2 PROVE m_strBody' = <<>>
  <2>1. p # e + 2 /\ p <= e + 2
    BY <1>1, <1>2, <1>4
  <2>2. s # "BODY"
    BY <1>1, <2>1, EndPlaces
  <2>. QED
    BY <1>3, <2>1, <2>2 DEF BodyIsSent
<1>5. ASSUME cut = "nowhere", Sent(request, "L") # {}, p + 1 = e + 2
      PROVE  bodyLength' = Len(body) /\ (m_eDecodeState' = "COMPLETE" => Len(body) = 0)
  <2>1. p = e + 1 /\ p > e
    BY <1>1, <1>2, <1>5
  <2>2. bodyLength' = AfterHeaders /\ (m_eDecodeState' = "COMPLETE" => AfterHeaders = 0)
    BY <2>1, HeadersEnd
  <2>3. PICK v \in Sent(request, "L") : TRUE
    BY <1>5
  <2>4. PICK j \in 1 .. Len(request.headers) :
          /\ request.headers[j].key = "L" /\ request.headers[j].value = v
          /\ \A l \in 1 .. j - 1 : request.headers[l].key # "L"
    BY <1>1, <2>3, SentIs
  <2>5. j \in StoredHeaders
    BY <1>1, <2>1, AllStored
  <2>6. <<"L">> \in DOMAIN m_mHeaders /\ m_mHeaders[<<"L">>] = <<v>>
    BY <1>5, <2>4, <2>5 DEF HeadersAreSent
  <2>7. atoi(<<v>>) = Len(body)
    BY <1>1, <2>3, ParserAssumption
  <2>. QED
    BY <2>2, <2>6, <2>7 DEF AfterHeaders
<1>6. ASSUME cut = "nowhere", Sent(request, "L") # {}, p + 1 > e + 2
      PROVE  m_strBody' = body
  <2>1. p > e + 1
    BY <1>1, <1>2, <1>6
  <2>2. s = "BODY" /\ p = e + 2
    BY <1>1, <2>1, EndPlaces DEF More
  <2>3. bodyLength = Len(body)
    BY <1>1, <1>6, <2>2 DEF BodyIsSent
  <2>4. m_iReadIdx = Len(text) /\ m_iReadIdx \in Nat
    <3>1. m_iReadIdx \in Nat /\ p < m_iReadIdx
      BY <1>1 DEF GoodScan, TypeInv, TypeOK, More
    <3>2. m_iReadIdx # 0
      BY <1>1, <3>1
    <3>. QED
      BY <1>6, <3>1, <3>2 DEF OnePart, Whole
  <2>5. ASSUME NEW i \in 1 .. Len(body) PROVE CharAt(p + i - 1) = body[i]
    <3>1. p + i - 1 < m_iReadIdx /\ (p + i - 1) + 1 = e + 2 + i
      <4>. HIDE DEF e, p, body
      <4>. QED
        BY <1>2, <2>2, <2>4
    <3>2. CharAt(p + i - 1) = text[(p + i - 1) + 1]
      BY <3>1 DEF CharAt
    <3>. QED
      BY <1>2, <3>1, <3>2
  <2>6. m_strBody' = [i \in 1 .. Len(body) |-> CharAt(p + i - 1)]
    BY <1>3, <2>2, <2>3
  <2>7. m_strBody' = [i \in 1 .. Len(body) |-> body[i]]
    BY <2>5, <2>6
  <2>8. body = [i \in 1 .. Len(body) |-> body[i]]
    <3>. HIDE DEF body
    <3>. QED
      BY <1>2
  <2>. QED
    BY <2>7, <2>8, Zenon
<1>. QED
  BY <1>1, <1>4, <1>5, <1>6 DEF BodyIsSent

-----------------------------------------------------------------------------
(* What is known of a request at every point *)

FieldInv ==
  /\ StringsAreSent /\ KnownKeys /\ BodyIsSent /\ EndsByLength /\ OnePart
  /\ cut # "inside" => ParamsAreSent /\ HeadersAreSent

\* How a parse ends
EndInv ==
  /\ pc = "answer" => /\ status = "COMPLETE" /\ m_eDecodeState \in {"BODY", "COMPLETE"}
                      /\ m_eDecodeState = "BODY" => m_iNextPos = m_iReadIdx
  /\ pc = "read" /\ Whole => ~Recognised(request)

RequestInv ==
  request # NULL /\ pc # "crash" => FieldInv /\ EndInv /\ (pc = "parse" => Marks)

\* Before a character of a request is read
Fresh ==
  /\ request \in Requests /\ text = Text(request) /\ m_iNextPos = 0 /\ m_iReadIdx = 0
  /\ m_eDecodeState = "START" /\ m_mRequestParams = EmptyMap /\ m_mHeaders = EmptyMap
  /\ m_strBody = <<>> /\ pc = "read"

LEMMA NothingRead == Fresh => FieldInv /\ EndInv
<1>. SUFFICES ASSUME Fresh PROVE FieldInv /\ EndInv
  OBVIOUS
<1>. USE DEF Fresh
<1>. DEFINE r == request
<1>1. /\ ParamAt(r, Last(r)) \in Nat /\ End(r) \in Nat /\ Len(text) = End(r) + 2 + Len(r.body)
      /\ Len(r.body) \in Nat /\ Len(r.headers) \in Nat /\ Len(r.pad) \in Nat
      /\ \A j \in 1 .. Len(r.headers) : LineAt(r, j) \in Nat
  <2>1. Len(r.headers) \in Nat /\ 1 .. Len(r.headers) \subseteq 1 .. Len(r.headers) + 1
    BY RequestType
  <2>. QED
    BY <2>1, TextIs, EndText, RequestType, LineAtIs DEF PartsOf
<1>2. DOMAIN m_mHeaders = {} /\ StoredHeaders = {}
  BY <1>1 DEF EmptyMap, StoredHeaders
<1>3. StringsAreSent /\ KnownKeys /\ BodyIsSent /\ EndsByLength /\ OnePart
  BY <1>1, <1>2 DEF StringsAreSent, KnownKeys, BodyIsSent, EndsByLength, OnePart
<1>4. ParamsAreSent /\ HeadersAreSent
  BY <1>2 DEF ParamsAreSent, HeadersAreSent
<1>5. ~Whole
  BY <1>1 DEF Whole
<1>. QED
  BY <1>3, <1>4, <1>5 DEF FieldInv, EndInv

LEMMA NothingReadNext == Fresh' => (FieldInv /\ EndInv)'
BY NothingRead, PTL

LEMMA RequestInit ==
  ASSUME Init
  PROVE  RequestInv
BY NothingRead DEF Init, RequestInv, Fresh

LEMMA RequestRead ==
  ASSUME TypeInv, MarkInv, RequestInv, Read
  PROVE  RequestInv'
<1>. SUFFICES ASSUME request # NULL PROVE (FieldInv /\ EndInv /\ Marks)'
  BY DEF RequestInv, Read, input
<1>. USE DEF Read, input, fields, locals
<1>1. FieldInv
  BY DEF RequestInv
<1>2. Marks'
  BY ReadMarks
<1>3. m_iReadIdx < Len(text) /\ Len(text) \in Nat /\ m_iReadIdx \in Nat /\ ~Whole
  BY LenProperties DEF TypeInv, TypeOK, Whole
<1>4. cut' # "inside" => cut # "inside"
  OBVIOUS
<1>5. ASSUME cut' = "nowhere" PROVE cut = "nowhere" /\ Whole' /\ m_iNextPos = 0
  <2>1. cut = "nowhere" /\ Whole'
    BY <1>5 DEF Whole
  <2>2. m_iReadIdx = 0
    BY <1>1, <1>3, <2>1 DEF FieldInv, OnePart
  <2>. QED
    BY <2>1, <2>2 DEF TypeInv, TypeOK
<1>6. request \in Requests /\ End(request) \in Nat
  BY EndText DEF TypeInv, TypeOK
<1>7. /\ StringsAreSent' /\ KnownKeys' /\ EndsByLength' /\ OnePart'
  BY <1>1, <1>5 DEF FieldInv, StringsAreSent, KnownKeys, EndsByLength, OnePart
<1>8. BodyIsSent'
  BY <1>1, <1>5, <1>6 DEF FieldInv, BodyIsSent
<1>9. cut' # "inside" => (ParamsAreSent /\ HeadersAreSent)'
  BY <1>1, <1>4 DEF FieldInv, ParamsAreSent, HeadersAreSent, StoredHeaders
<1>10. EndInv'
  BY DEF EndInv
<1>. QED
  BY <1>2, <1>7, <1>8, <1>9, <1>10 DEF FieldInv

LEMMA RequestScan ==
  ASSUME TypeInv, MarkInv, RequestInv, Scan
  PROVE  RequestInv'
<1>. SUFFICES ASSUME request # NULL, pc' # "crash" PROVE (FieldInv /\ EndInv /\ Marks)'
  BY ScanIs DEF RequestInv, input
<1>1. GoodScan
  BY DEF GoodScan
<1>2. pc = "parse" /\ pc' = "parse" /\ UNCHANGED <<input, m_iReadIdx, status, cut>>
  BY <1>1, GoodScanIs
<1>3. FieldInv /\ Marks
  BY <1>2 DEF RequestInv
<1>4. /\ StringsAreSent' /\ KnownKeys' /\ EndsByLength' /\ Marks'
  BY <1>1, <1>3, ScanStrings, ScanKnownKeys, ScanEndsByLength, ScanKeepsMarks DEF FieldInv
<1>5. BodyIsSent'
  BY <1>1, <1>3, ScanBody DEF FieldInv
<1>6. cut' # "inside" => (ParamsAreSent /\ HeadersAreSent)'
  BY <1>1, <1>2, <1>3, ScanParams, ScanHeaders DEF FieldInv
<1>7. OnePart' /\ EndInv'
  BY <1>2, <1>3 DEF FieldInv, OnePart, EndInv, Whole, input
<1>. QED
  BY <1>4, <1>5, <1>6, <1>7 DEF FieldInv

\* A request is accepted, unless its data seems to be incomplete.
LEMMA ParsedEnds ==
  ASSUME TypeInv, MarkInv, FieldInv, Parsed, request # NULL
  PROVE  EndInv'
<1>. DEFINE r == request
            s == m_eDecodeState
            p == m_iNextPos
            e == End(r)
<1>. USE DEF Parsed, input, fields
<1>1. /\ r \in Requests /\ text = Text(r) /\ Place(r, s, p) /\ p \in Nat /\ m_iReadIdx \in Nat
      /\ p <= m_iReadIdx /\ DOMAIN m_str = Strings
  BY DEF TypeInv, TypeOK, MarkInv
<1>2. /\ s \in {"BODY", "COMPLETE"} <=> p > e + 1
      /\ s = "BODY" => p = e + 2
      /\ s = "COMPLETE" => p \in {e + 2, e + 3}
      /\ s \notin Invalid
  BY <1>1, EndPlaces
<1>3. s = "COMPLETE" \/ p = m_iReadIdx
  BY <1>1, <1>2 DEF More
<1>4. ASSUME Status # "OPEN" PROVE Status = "COMPLETE" /\ s \in {"BODY", "COMPLETE"}
  BY <1>2, <1>3, <1>4 DEF Status
<1>5. ASSUME Status = "OPEN", Whole, Recognised(r) PROVE FALSE
  <2>1. /\ e \in Nat /\ Len(r.body) \in Nat /\ Len(text) = e + 2 + Len(r.body)
    BY <1>1, EndText
  <2>2. p = m_iReadIdx /\ p = e + 2 + Len(r.body)
    <3>1. s # "OPEN"
      BY <1>1, TableOf DEF TypeInv, TypeOK, States, Invalid, UriEdges, VersionEdges, HeaderEdges
    <3>. QED
      BY <1>5, <2>1, <3>1 DEF Status, Whole
  <2>3. s \in {"BODY", "COMPLETE"} /\ p \in {e + 2, e + 3}
    <3>1. p > e + 1
      BY <2>1, <2>2
    <3>. QED
      BY <1>2, <3>1
  <2>4. ~(Len(r.body) >= 2)
    <3>. DEFINE n == Len(r.body)
    <3>1. /\ e \in Nat /\ n \in Nat /\ p = e + 2 + n
      BY <2>1, <2>2
    <3>2. p \in {e + 2, e + 3}
      BY <2>3
    <3>. HIDE DEF e, p, n
    <3>3. ~(n >= 2)
      BY <3>1, <3>2
    <3>. QED
      BY <3>3 DEF n
  <2>5. r.method = "G" /\ r.body = <<>> /\ Sent(r, "L") = {}
    BY <1>5, <2>4 DEF Recognised
  <2>6. p = e + 2
    <3>1. Len(r.body) = 0
      BY <2>5
    <3>. QED
      BY <2>1, <2>2, <3>1
  <2>7. s = "BODY"
    BY <2>3, <2>5, <2>6 DEF FieldInv, EndsByLength
  <2>8. m_str["method"] = <<"G">>
    <3>1. p > 1
      BY <2>1, <2>6
    <3>. QED
      BY <2>5, <3>1 DEF FieldInv, StringsAreSent
  <2>. QED
    BY <1>5, <2>2, <2>7, <2>8 DEF Status
<1>6. s = "BODY" => p = m_iReadIdx
  BY <1>3
<1>. QED
  BY <1>4, <1>5, <1>6 DEF EndInv, Whole

LEMMA RequestParsed ==
  ASSUME TypeInv, MarkInv, RequestInv, Parsed
  PROVE  RequestInv'
<1>. SUFFICES ASSUME request # NULL PROVE (FieldInv /\ EndInv)' /\ pc' # "parse"
  BY DEF RequestInv, Parsed, input
<1>1. FieldInv
  BY DEF RequestInv, Parsed
<1>2. EndInv'
  BY <1>1, ParsedEnds
<1>3. pc' \in {"read", "answer"}
  BY DEF Parsed
<1>4. UNCHANGED <<input, m_iReadIdx, m_iNextPos, m_eDecodeState, fields, cut>>
  BY DEF Parsed
<1>5. StringsAreSent' /\ KnownKeys' /\ EndsByLength' /\ OnePart'
  BY <1>1, <1>4 DEF input, fields, FieldInv, StringsAreSent, KnownKeys, EndsByLength, OnePart, Whole
<1>6. BodyIsSent'
  BY <1>1, <1>3, <1>4 DEF input, fields, FieldInv, BodyIsSent
<1>7. cut' # "inside" => (ParamsAreSent /\ HeadersAreSent)'
  BY <1>1, <1>4 DEF input, fields, FieldInv, ParamsAreSent, HeadersAreSent, StoredHeaders
<1>8. FieldInv'
  BY <1>5, <1>6, <1>7 DEF FieldInv
<1>. QED
  BY <1>2, <1>3, <1>8

LEMMA RequestNextRequest ==
  ASSUME NextRequest
  PROVE  RequestInv'
<1>. SUFFICES ASSUME request' # NULL PROVE (FieldInv /\ EndInv)' /\ pc' # "parse"
  BY DEF RequestInv, NextRequest
<1>1. Fresh'
  BY DEF NextRequest, Reset, Client, Fresh
<1>2. pc' = "read"
  BY DEF NextRequest
<1>. QED
  BY <1>1, <1>2, NothingReadNext

LEMMA RequestStep ==
  ASSUME TypeInv, MarkInv, RequestInv, [Next]_vars
  PROVE  RequestInv'
<1>1. CASE UNCHANGED vars
  BY <1>1 DEF RequestInv, FieldInv, EndInv, StringsAreSent, KnownKeys, BodyIsSent, EndsByLength,
              OnePart, ParamsAreSent, HeadersAreSent, StoredHeaders, Whole, Marks, TokenMarks,
              ParamKeyMarks, HeaderKeyMarks, KeyEnds, vars, input, fields, locals
<1>. QED
  BY <1>1, RequestRead, RequestScan, RequestParsed, RequestNextRequest DEF Next

LEMMA SpecInv == Spec => [](TypeInv /\ MarkInv /\ RequestInv)
<1>1. Init => TypeInv /\ MarkInv /\ RequestInv
  BY TypeInit, MarkInit, RequestInit
<1>2. TypeInv /\ MarkInv /\ RequestInv /\ [Next]_vars => (TypeInv /\ MarkInv /\ RequestInv)'
  BY TypeStep, MarkStep, RequestStep
<1>. QED
  BY <1>1, <1>2, PTL DEF Spec

LEMMA AnswerHasFields ==
  ASSUME TypeInv, MarkInv, RequestInv
  PROVE  FieldsAreSent
<1>. DEFINE r == request
            p == m_iNextPos
            u == ParamAt(r, Last(r))
            e == End(r)
<1>. SUFFICES ASSUME pc = "answer", request # NULL, cut # "inside"
              PROVE  /\ status = "COMPLETE"
                     /\ m_str["method"] = <<r.method>>
                     /\ m_str["url"] = <<"/">>
                     /\ m_str["protocol"] = <<"H">>
                     /\ m_str["version"] = <<"1", ".", "1">>
                     /\ m_mRequestParams = IF r.params = <<>> THEN EmptyMap
                                           ELSE [k \in {<<"a">>} |-> <<r.params[1]>>]
                     /\ DOMAIN m_mHeaders = {<<r.headers[i].key>> : i \in DOMAIN r.headers}
                     /\ \A k \in {"L", "a"} :
                          \A v \in Sent(r, k) : m_mHeaders[<<k>>] = <<v>>
                     /\ cut = "nowhere" /\ Sent(r, "L") # {} => m_strBody = r.body
  BY DEF FieldsAreSent
<1>1. FieldInv /\ EndInv
  BY DEF RequestInv
<1>2. status = "COMPLETE" /\ m_eDecodeState \in {"BODY", "COMPLETE"}
  BY <1>1 DEF EndInv
<1>3. r \in Requests /\ text = Text(r) /\ Place(r, m_eDecodeState, p) /\ p \in Nat
  BY DEF TypeInv, TypeOK, MarkInv
<1>4. /\ u \in Nat /\ e \in Nat /\ 3 <= u /\ u + 8 <= e /\ Len(text) = e + 2 + Len(r.body)
      /\ Len(r.body) \in Nat /\ p > e + 1
  BY <1>2, <1>3, TextIs, EndPlaces DEF PartsOf
<1>5. p > 1 /\ p > 3 /\ p > 7 /\ p > u + 2 /\ p > u + 6 /\ p > e
  <2>. HIDE DEF u, e, p
  <2>. QED
    BY <1>3, <1>4 DEF p
<1>6. /\ m_str["method"] = <<r.method>> /\ m_str["url"] = <<"/">>
      /\ m_str["protocol"] = <<"H">> /\ m_str["version"] = <<"1", ".", "1">>
  BY <1>1, <1>5 DEF FieldInv, StringsAreSent
<1>7. m_mRequestParams = IF r.params = <<>> THEN EmptyMap
                         ELSE [k \in {<<"a">>} |-> <<r.params[1]>>]
  <2>1. r.params \in Seq(Names)
    BY <1>3, ParserAssumption
  <2>2. r.params = <<>> <=> Len(r.params) = 0
    BY <2>1, EmptySeq
  <2>. QED
    BY <1>1, <1>5, <2>2 DEF FieldInv, ParamsAreSent
<1>8. StoredHeaders = 1 .. Len(r.headers) /\ DOMAIN r.headers = 1 .. Len(r.headers)
  BY <1>3, <1>5, AllStored, RequestType
<1>9. DOMAIN m_mHeaders = {<<r.headers[i].key>> : i \in DOMAIN r.headers}
  BY <1>1, <1>8 DEF FieldInv, HeadersAreSent
<1>10. ASSUME NEW k \in {"L", "a"}, NEW v \in Sent(r, k)
       PROVE  m_mHeaders[<<k>>] = <<v>>
  <2>1. PICK j \in 1 .. Len(r.headers) :
          /\ r.headers[j].key = k /\ r.headers[j].value = v
          /\ \A l \in 1 .. j - 1 : r.headers[l].key # k
    BY <1>3, SentIs
  <2>. QED
    BY <1>1, <1>8, <2>1 DEF FieldInv, HeadersAreSent
<1>11. ASSUME cut = "nowhere", Sent(r, "L") # {} PROVE m_strBody = r.body
  <2>1. CASE p > e + 2
    BY <1>1, <1>11, <2>1 DEF FieldInv, BodyIsSent
  <2>2. CASE ~(p > e + 2)
    <3>1. p = e + 2 /\ p <= e + 2
      BY <1>3, <1>4, <2>2
    <3>2. m_strBody = <<>>
      BY <1>1, <3>1 DEF FieldInv, BodyIsSent
    <3>3. Len(r.body) = 0
      <4>1. CASE m_eDecodeState = "COMPLETE"
        BY <1>1, <1>11, <3>1, <4>1 DEF FieldInv, BodyIsSent
      <4>2. CASE m_eDecodeState = "BODY"
        <5>1. p = m_iReadIdx /\ m_iReadIdx # 0
          BY <1>1, <1>5, <4>2 DEF EndInv
        <5>2. m_iReadIdx = Len(text)
          BY <1>1, <1>11, <5>1 DEF FieldInv, OnePart, Whole
        <5>. DEFINE n == Len(r.body)
        <5>3. /\ e \in Nat /\ n \in Nat /\ p = e + 2 /\ p = e + 2 + n
          BY <1>4, <3>1, <5>1, <5>2
        <5>. HIDE DEF e, p, n
        <5>4. n = 0
          BY <5>3
        <5>. QED
          BY <5>4 DEF n
      <4>. QED
        BY <1>2, <4>1, <4>2
    <3>4. r.body = <<>>
      BY <1>3, <3>3, RequestType, EmptySeq
    <3>. QED
      BY <3>2, <3>4
  <2>. QED
    BY <2>1, <2>2
<1>. QED
  BY <1>2, <1>6, <1>7, <1>9, <1>10, <1>11

\* Whole lines give an answer that is COMPLETE, and the strings, parameters and
\* headers ParseInternal left are the ones the client sent, none of them of an
\* earlier request on the CHttp; a Content-Length header brings the body along.
THEOREM AnswersWhatWasSent == Spec => []FieldsAreSent
<1>1. TypeInv /\ MarkInv /\ RequestInv => FieldsAreSent
  BY AnswerHasFields
<1>. QED
  BY <1>1, SpecInv, PTL

\* ParseRead never waits for more of a request that is all there, if it has a body of
\* two characters, or is a GET without: whatever the parts, and although the values
\* of cut tokens are lost.
THEOREM AnswersCompleteRequests == Spec => []CompleteIsAnswered
<1>1. RequestInv => CompleteIsAnswered
  BY DEF RequestInv, EndInv, CompleteIsAnswered
<1>. QED
  BY <1>1, SpecInv, PTL
=============================================================================
