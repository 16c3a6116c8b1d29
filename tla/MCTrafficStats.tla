---------------------------- MODULE MCTrafficStats ----------------------------
(* The lines a user types and the packets of two captures, for TLC. *)
EXTENDS TrafficStats

MCLines == {<<"nl">>, <<"0", "nl">>, <<"1", "nl">>, <<"2", "nl">>, <<"x", "nl">>, <<"1", "x", "nl">>}

P(ip4, proto, whole, dst) == [ip4 |-> ip4, proto |-> proto, whole |-> whole, dst |-> dst]

\* Octets at the ends of the classes; protocols with a name, with a number, cut
\* off and none.
MCCaptured ==
  <<<<P(TRUE, 6, TRUE, 191), P(TRUE, 17, FALSE, 224), P(TRUE, 1, FALSE, 127)>>,
    <<P(FALSE, 0, FALSE, 0), P(TRUE, 2, FALSE, 240)>>>>
=============================================================================
