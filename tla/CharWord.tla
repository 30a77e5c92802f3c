------------------------------- MODULE CharWord -------------------------------
(***************************************************************************)
(* The marks transactions leave in the shared region are of type char      *)
(* (Segment_str.control, Segment_str.creator), their ids are unsigned      *)
(* longs: a mark is an id cut down to a char.                              *)
(***************************************************************************)
EXTENDS Integers

CONSTANT CharRange   \* how many values a char has (256)

ASSUME CharAssumption == CharRange \in Nat \ {0}

it_is_free == 0

Chars == {c \in -CharRange..CharRange : -CharRange <= 2 * c /\ 2 * c < CharRange}

\* A conversion to char keeps the low bits, as a signed number.  (Mutant: an
\* unsigned one.)
ToCharUnsigned(n) == n % CharRange
ToChar(n) ==
  LET m == n % CharRange IN IF 2 * m >= CharRange THEN m - CharRange ELSE m
=============================================================================
