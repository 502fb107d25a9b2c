--------------------------- MODULE MCScanPipeline ---------------------------
(* ScanPipeline for TLC. *)
EXTENDS ScanPipeline

CONSTANTS
    Newcomer,   \* the one company that is listed within the days of the model
    ListedOn    \* the day it is listed

OneNewcomer == [c \in Company |-> IF c = Newcomer THEN ListedOn ELSE 0]

(* The second day is a Saturday. *)
SecondIsSaturday == Day \ {2}
=============================================================================
