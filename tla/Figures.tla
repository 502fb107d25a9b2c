------------------------------ MODULE Figures ------------------------------
(* Values and arithmetic shared by the scanner's analysis modules.  A value  *)
(* the code leaves None is <<>>; a value v is <<v>>.                         *)
EXTENDS Integers, Sequences

None == <<>>
Known(o) == o # None
Is(o) == o = <<TRUE>>
AtMost(o, x) == IF Known(o) THEN <<o[1] <= x>> ELSE None
AtLeast(o, x) == IF Known(o) THEN <<o[1] >= x>> ELSE None

(* Python's round(n / d): to the nearest integer, ties to the even one.      *)
RoundDiv(n, d) ==
    LET q == n \div d
        r == n % d
    IN  IF 2 * r > d \/ (2 * r = d /\ q % 2 = 1) THEN q + 1 ELSE q

(* round(x, 4) of a ratio, in ten-thousandths; None without a denominator.   *)
Ratio(n, d) == IF d <= 0 THEN None ELSE <<RoundDiv(10000 * n, d)>>

Clamp(x) == IF x \in 0..100 THEN x ELSE IF x < 0 THEN 0 ELSE 100
Points(condition, n) == IF condition THEN n ELSE 0
(* round(value / 100 * maximum) of a value in 0..100; 0 when unknown.        *)
Scaled(o, maximum) == IF Known(o) THEN RoundDiv(Clamp(o[1]) * maximum, 100) ELSE 0
=============================================================================
