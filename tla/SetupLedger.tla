----------------------------- MODULE SetupLedger -----------------------------
(***************************************************************************)
(* What PreBreakoutSetupOutcome promises, in the words of its docstring:   *)
(* an immutable setup observation with nullable, forward-only outcome      *)
(* labels (apps/scanner/models.py).  One entry per (symbol, session); an   *)
(* entry is recorded once, its return horizons become known and never      *)
(* unknown again, and it is closed by the last horizon.  OutcomeCycle is   *)
(* the detailed specification that implements this one.                    *)
(***************************************************************************)
CONSTANTS
    Key,            \* (symbol, evaluation session) pairs
    Observation,    \* what an entry fixes when it is recorded
    Horizon,        \* the return horizons
    LastHorizon,    \* the one of Horizon that closes an entry
    Absent          \* no row for the key

VARIABLE ledger

Entry == [observed : Observation, known : SUBSET Horizon, closed : BOOLEAN]

(* Every key is absent or holds a well-formed entry. *)
LedgerTypeOK == ledger \in [Key -> Entry \cup {Absent}]

LedgerInit == ledger = [k \in Key |-> Absent]

(* One scan records observations for keys that have none. *)
Fresh == [observed : Observation, known : {{}}, closed : {FALSE}]

Record ==
    /\ ledger' \in [Key -> Entry \cup {Absent}]
    /\ \A k \in Key : \/ ledger'[k] = ledger[k]
                      \/ (ledger[k] = Absent /\ ledger'[k] \in Fresh)

(* An open entry learns further horizons and closes with the last one. *)
Label(k) ==
    /\ ledger[k] # Absent
    /\ ~ ledger[k].closed
    /\ \E gained \in SUBSET Horizon :
         ledger' = [ledger EXCEPT ![k] = [observed |-> @.observed,
                                          known    |-> @.known \cup gained,
                                          closed   |-> LastHorizon \in gained]]

LedgerNext == Record \/ \E k \in Key : Label(k)

LedgerSpec == LedgerInit /\ [][LedgerNext]_ledger
=============================================================================
