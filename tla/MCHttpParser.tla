---------------------------- MODULE MCHttpParser ----------------------------
(* HttpParser for TLC: GET and POST with up to two parameters and headers, and *)
(* every text that differs from one request in one character.                  *)
EXTENDS HttpParser

H(k, v) == [key |-> k, value |-> v]
R(m, p, h, b, s) == [method |-> m, params |-> p, headers |-> h, body |-> b, pad |-> s]

MCRequests ==
  { R(m, p, <<>>, <<>>, <<>>) : m \in {"G", "P"}, p \in {<<>>, <<"a">>, <<"a", "1">>} }
  \cup
  { R(m, <<>>, x[1], x[2], x[3]) : m \in {"G", "P"},
      x \in { << <<H("a", "a")>>, <<>>, <<" ">> >>,
              << <<H("L", "0")>>, <<>>, <<>> >>,
              << <<H("L", "1")>>, <<"a">>, <<>> >>,
              << <<H("L", "2")>>, <<"a", CR>>, <<" ">> >>,
              << <<H("a", "a"), H("L", "2")>>, <<"a", "a">>, <<>> >>,
              << <<H("L", "2"), H("L", "1")>>, <<"/", "a">>, <<>> >> } }

Base == Text(R("P", <<"a">>, <<H("L", "1")>>, <<"a">>, <<" ">>))
MCSlips == {[Base EXCEPT ![i] = c] :
              i \in DOMAIN Base, c \in {" ", CR, LF, "/", "?", "=", ":", "1", "9", "a"}}
=============================================================================
