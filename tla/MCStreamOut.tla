----------------------------- MODULE MCStreamOut -----------------------------
(* Small instances of StreamOut for TLC. *)
EXTENDS StreamOut

\* One sentence stored without interval: FIFO and thread are in focus.
EverySample ==
    <<[st |-> "AWS", bStore |-> TRUE, iInterval |-> 0, sSkpathe |-> "aws"]>>

\* Two schemas of one sentence with different intervals, and one of another
\* sentence that is not to be stored.
MixedSchemas ==
    <<[st |-> "AWS", bStore |-> TRUE, iInterval |-> 2, sSkpathe |-> "aws"],
      [st |-> "AWS", bStore |-> TRUE, iInterval |-> 1, sSkpathe |-> "aws"],
      [st |-> "STW", bStore |-> FALSE, iInterval |-> 0, sSkpathe |-> "stw"]>>

OneStamp == {60000}

\* Lapses of 999 ms, of a second and a bit, of exactly two seconds.
SomeStamps == {60000, 60999, 62000}

=============================================================================
