---------------------------- MODULE ScanAnalysis ----------------------------
(* The judgement of a scan, three machines beside each other: the scorer     *)
(* over arbitrary snapshots, the decision engine over a stock's session, and *)
(* the whole service over candles and quotes.  One behaviour runs one of     *)
(* them; the others stand still.                                             *)
EXTENDS ScoreWalk, AlertWalk, ScannerService

VARIABLE part
vars == <<part, scoreVars, alertVars, serviceVars>>

ScoreIdle == snapshot = BareSetup /\ changes = 0
AlertIdle == stock = (CHOOSE d \in Shares : TRUE) /\ moves = 0
ServiceIdle ==
    /\ frame = <<>> /\ benchmark = <<>> /\ quote = None
    /\ closed = 0 /\ due = FALSE /\ report = None

Init ==
    \/ part = "score" /\ ScoreInit /\ AlertIdle /\ ServiceIdle
    \/ part = "alert" /\ AlertInit /\ ScoreIdle /\ ServiceIdle
    \/ part = "service" /\ ServiceInit /\ ScoreIdle /\ AlertIdle
Next ==
    \/ part = "score" /\ ScoreNext /\ UNCHANGED <<part, alertVars, serviceVars>>
    \/ part = "alert" /\ AlertNext /\ UNCHANGED <<part, scoreVars, serviceVars>>
    \/ part = "service" /\ ServiceNext /\ UNCHANGED <<part, scoreVars, alertVars>>
Spec == Init /\ [][Next]_vars

TypeOK == ScoreTypeOK /\ AlertTypeOK /\ ServiceTypeOK
=============================================================================
