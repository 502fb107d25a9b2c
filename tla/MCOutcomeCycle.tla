--------------------------- MODULE MCOutcomeCycle ---------------------------
(***************************************************************************)
(* Small instances of OutcomeCycle: prices 1..3 with the breakout level at *)
(* 2, and three kinds of candle: one that stays below the level, one that  *)
(* breaks out and holds, one that breaks out and closes back below it.     *)
(***************************************************************************)
EXTENDS OutcomeCycle

CandleKinds == {[high |-> 1, low |-> 1, close |-> 1],
                [high |-> 3, low |-> 2, close |-> 2],
                [high |-> 2, low |-> 1, close |-> 1]}
OneCandle   == {[high |-> 2, low |-> 1, close |-> 1]}
TwoCandles  == {[high |-> 1, low |-> 1, close |-> 1],
                [high |-> 3, low |-> 1, close |-> 2]}
=============================================================================
