--------------------------- MODULE MCSpendBudget ---------------------------
(* Small instances of SpendBudget.                                         *)
EXTENDS SpendBudget

CONSTANTS h1, h2, u1, gpt, custom

\* Two days of one month and the first of the next.
ThreeDays == [d \in 0..2 |-> IF d < 2 THEN 0 ELSE 1]

=============================================================================
