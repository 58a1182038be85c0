------------------------------ MODULE MCParser ------------------------------
(***************************************************************************)
(* Parser for TLC: packets of every type, with and without namespace,      *)
(* query, id, text and Buffers, in pairs that may disturb each other.      *)
(***************************************************************************)
EXTENDS Parser

PlainEvent ==
    [type |-> "Event", ns |-> <<>>, query |-> FALSE, needAck |-> FALSE, id |-> 0,
     args |-> TRUE, name |-> "plain", text |-> <<>>, bufs |-> <<>>,
     map |-> FALSE, cast |-> FALSE, good |-> TRUE]

Accents == [PlainEvent EXCEPT !.needAck = TRUE, !.id = 10, !.text = <<"l2", "c", "l4", "c", "c", "c">>]
Binary == [PlainEvent EXCEPT !.ns = <<"/n">>, !.needAck = TRUE, !.id = 2, !.bufs = <<"t", "u">>, !.map = TRUE]
Answer == [PlainEvent EXCEPT !.type = "Ack", !.needAck = TRUE, !.id = 12, !.bufs = <<"t">>]
Shared == [PlainEvent EXCEPT !.bufs = <<"t", "u">>, !.cast = TRUE]
Opening == [PlainEvent EXCEPT !.type = "Connect", !.args = FALSE]
Connect == [PlainEvent EXCEPT !.type = "Connect", !.ns = <<"/n">>, !.query = TRUE]
Disconnect == [PlainEvent EXCEPT !.type = "Disconnect", !.ns = <<"/n">>]
Unknown == [PlainEvent EXCEPT !.ns = <<"/u">>]
Refused == [Connect EXCEPT !.ns = <<"/u">>]
Stray == [Disconnect EXCEPT !.ns = <<"/u">>]
Comma == [PlainEvent EXCEPT !.name = "comma"]
Bracket == [PlainEvent EXCEPT !.name = "bracket"]
Unfit == [PlainEvent EXCEPT !.good = FALSE]

Over(transport, pairs) == {[mode |-> transport, packets |-> s] : s \in pairs}

MCScripts ==
    Over("websocket",
         {<<Opening, Connect>>, <<Stray, Disconnect>>, <<Binary, Accents>>, <<Shared, Answer>>,
          <<Shared, [Answer EXCEPT !.bufs = <<"u">>]>>, <<Unknown, Refused>>,
          <<[Unknown EXCEPT !.bufs = <<"t">>]>>, <<Comma>>, <<Bracket>>, <<Unfit, PlainEvent>>})
    \cup Over("binary", {<<Accents, Answer>>, <<Binary, PlainEvent>>})
    \cup Over("base64", {<<Accents, Binary>>})

\* A Buffer with text and one without.
MCData == [t |-> <<"l3", "c", "c">>, u |-> <<"c", "a">>]
MCKnown == {<<>>, <<"/n">>}
=============================================================================
