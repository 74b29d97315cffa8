------------------------------- MODULE Values -------------------------------
(* What the figures modules share: the missing value and integer helpers.  *)
EXTENDS Integers, FiniteSets

CONSTANTS None      \* a blank cell, a blank label, no value

Abs(n) == IF n < 0 THEN -n ELSE n

Sign(n) == IF n > 0 THEN 1 ELSE IF n < 0 THEN -1 ELSE 0

Larger(a, b) == IF a < b THEN b ELSE a
=============================================================================
