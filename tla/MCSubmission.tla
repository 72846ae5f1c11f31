---------------------------- MODULE MCSubmission ----------------------------
(* Submission for TLC: bodies with one key in two spellings, with a blank  *)
(* key or without a key, with the defaults and with the limits of the      *)
(* numbers.                                                                *)
EXTENDS Submission

CONSTANT k1

Spelt(k, padded) == [text |-> k, padded |-> padded]

Plain(key) == [wellFormed |-> TRUE, key |-> key, timeout |-> 1, retries |-> 1,
               delayed |-> FALSE]

KeyedBodies == {Plain(Spelt(k1, FALSE)),
                [Plain(Spelt(k1, TRUE)) EXCEPT !.delayed = TRUE,
                                               !.timeout = 0, !.retries = 0]}

MCBody == KeyedBodies \cup
  {Plain(NoKey),
   [Plain(NoKey) EXCEPT !.wellFormed = FALSE],
   Plain(Spelt(Blank, TRUE)),
   [Plain(NoKey) EXCEPT !.timeout = -1],
   [Plain(Spelt(k1, FALSE)) EXCEPT !.timeout = MaxInt4 + 1]}

=============================================================================
