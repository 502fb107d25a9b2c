----------------------------- MODULE SheetPublish -----------------------------
(***************************************************************************)
(* The commands that publish the cached scan reports to Google Sheets, on  *)
(* one host: live_sync_lock, which is to keep them apart, and the two      *)
(* publishers.  TechnicalScannerPublisher rewrites the Technical tab,      *)
(* header included, in one call and clears what is below; the workbook     *)
(* publisher checks the tab's header first, then writes the Technical and  *)
(* the Swing tab chunk by chunk, each followed by a clear.                 *)
(*                                                                         *)
(* A tab is an array of chunks of rows, each holding the run_id that wrote *)
(* it; a run_id is a fresh uuid, here one that neither a tab nor another   *)
(* publisher holds.  A row of the Technical tab stands for its first 24    *)
(* columns, which both publishers write and clear; the other 27 belong to  *)
(* the workbook publisher alone, which writes them in the same calls.      *)
(*                                                                         *)
(* Definitions whose name ends in Mutant are faulty variants of the one    *)
(* that follows; no specification uses them.                               *)
(***************************************************************************)
EXTENDS Integers, FiniteSets

CONSTANTS
    Technical,      \* publish_technical_scanner, run_technical_scanner_worker
    Workbook,       \* publish_workbook_scanners --write
    MaxChunks,      \* bound: the chunks a report set can fill
    MaxCrashes,     \* bound: publishers that are killed
    Overrun,        \* may a live publisher hold the lock for 1800 seconds?
    RunId,
    Null            \* no file, no run, an empty chunk

Publisher == Technical \cup Workbook
Chunk == 1..MaxChunks

ASSUME PublishAssumption ==
    /\ Technical \cap Workbook = {}
    /\ MaxChunks \in Nat \ {0}
    /\ MaxCrashes \in Nat
    /\ Overrun \in BOOLEAN
    /\ Null \notin RunId
    /\ Null \notin [owner : Publisher, stale : BOOLEAN]

VARIABLES
    lock,       \* technical_scanner_publish.lock: who created it, and whether
                \* that was stale_after_seconds ago; Null when there is none
    pc,         \* where each publisher is
    id,         \* its run_id, Null when it has none
    size,       \* how many chunks its report set fills
    next,       \* the next chunk it writes
    header,     \* row 1 of the Technical tab: whose columns it names
    technical,  \* the Technical tab: [Chunk -> RunId or Null]
    swing,      \* the Swing Prebreakout tab
    takenOver,  \* has a lock file been taken over as stale?
    crashes     \* publishers killed so far

vars == <<lock, pc, id, size, next, header, technical, swing, takenOver, crashes>>
tabs == <<header, technical, swing>>
work == <<id, size, next>>

Empty == [c \in Chunk |-> Null]

(* The chunks 1..n of a run and nothing below them. *)
Whole(r, n) == [c \in Chunk |-> IF c <= n THEN r ELSE Null]

(* The Technical tab starts with the header the workbook contract expects. *)
Init ==
    /\ lock = Null
    /\ pc = [p \in Publisher |-> "idle"]
    /\ id = [p \in Publisher |-> Null]
    /\ size = [p \in Publisher |-> 0]
    /\ next = [p \in Publisher |-> 0]
    /\ header = "workbook"
    /\ technical = Empty
    /\ swing = Empty
    /\ takenOver = FALSE
    /\ crashes = 0

Goto(p, place) == pc' = [pc EXCEPT ![p] = place]

Outside == {"idle", "exists", "unlink", "create"}

Places == Outside \cup {"locked", "write", "clear", "verify", "write_technical",
                        "write_swing", "done", "failed"}

(* In the body of the with statement. *)
Inside(p) == pc[p] \notin Outside

-----------------------------------------------------------------------------
(* live_sync_lock *)

(* The file is stale 1800 seconds after it was created, a time that no      *)
(* publisher takes unless Overrun.                                         *)
LockAges ==
    /\ lock # Null
    /\ Overrun \/ ~ Inside(lock.owner)
    /\ lock' = [lock EXCEPT !.stale = TRUE]
    /\ UNCHANGED <<pc, work, tabs, takenOver, crashes>>

Created(p) == [owner |-> p, stale |-> FALSE]

AcquireMutant(p) ==
    /\ pc[p] = "idle"
    /\ lock' = Created(p)
    /\ Goto(p, "locked")
    /\ UNCHANGED <<work, tabs, takenOver, crashes>>

(* os.open(O_CREAT | O_EXCL) *)
Acquire(p) ==
    /\ pc[p] = "idle"
    /\ \/ lock = Null /\ lock' = Created(p) /\ Goto(p, "locked")
       \/ lock # Null /\ Goto(p, "exists") /\ UNCHANGED lock
    /\ UNCHANGED <<work, tabs, takenOver, crashes>>

CheckStaleMutant(p) ==
    /\ pc[p] = "exists"
    /\ Goto(p, "idle")
    /\ UNCHANGED <<lock, work, tabs, takenOver, crashes>>

(* path.stat(): it raises when the file is gone by now, or is not stale. *)
CheckStale(p) ==
    /\ pc[p] = "exists"
    /\ Goto(p, IF lock # Null /\ lock.stale THEN "unlink" ELSE "idle")
    /\ UNCHANGED <<lock, work, tabs, takenOver, crashes>>

(* path.unlink(missing_ok=True): whichever file is there now. *)
UnlinkStale(p) ==
    /\ pc[p] = "unlink"
    /\ lock' = Null
    /\ takenOver' = TRUE
    /\ Goto(p, "create")
    /\ UNCHANGED <<work, tabs, crashes>>

(* The second os.open(O_EXCL), whose FileExistsError is not caught. *)
AcquireAgain(p) ==
    /\ pc[p] = "create"
    /\ \/ lock = Null /\ lock' = Created(p) /\ Goto(p, "locked")
       \/ lock # Null /\ Goto(p, "idle") /\ UNCHANGED lock
    /\ UNCHANGED <<work, tabs, takenOver, crashes>>

(* The finally clause: the file is unlinked, whoever created it. *)
Release(p) ==
    /\ pc[p] \in {"done", "failed"}
    /\ lock' = Null
    /\ Goto(p, "idle")
    /\ id' = [id EXCEPT ![p] = Null]
    /\ size' = [size EXCEPT ![p] = 0]
    /\ next' = [next EXCEPT ![p] = 0]
    /\ UNCHANGED <<tabs, takenOver, crashes>>

-----------------------------------------------------------------------------
(* Both publishers *)

UsedIds == {technical[c] : c \in Chunk} \cup {swing[c] : c \in Chunk}
              \cup {id[p] : p \in Publisher}

(* The workbook publisher refuses an empty report set, the technical one    *)
(* publishes it.                                                           *)
Sizes(p) == IF p \in Technical THEN 0..MaxChunks ELSE Chunk

(* The cached reports are loaded, overlaid with quotes and projected. *)
BuildReports(p) ==
    /\ pc[p] = "locked"
    /\ RunId \ UsedIds # {}
    /\ id' = [id EXCEPT ![p] = CHOOSE r \in RunId \ UsedIds : TRUE]
    /\ \E n \in Sizes(p) : size' = [size EXCEPT ![p] = n]
    /\ next' = [next EXCEPT ![p] = 1]
    /\ Goto(p, IF p \in Technical THEN "write" ELSE "verify")
    /\ UNCHANGED <<lock, tabs, takenOver, crashes>>

(* An invalid cache, an empty report set, a call that still fails after    *)
(* _retry: what has been written so far stays.                             *)
Fail(p) ==
    /\ Inside(p)
    /\ pc[p] \notin {"done", "failed"}
    /\ Goto(p, "failed")
    /\ UNCHANGED <<lock, work, tabs, takenOver, crashes>>

(* The process is killed: the file stays. *)
Crash(p) ==
    /\ pc[p] # "idle"
    /\ crashes < MaxCrashes
    /\ crashes' = crashes + 1
    /\ Goto(p, "idle")
    /\ id' = [id EXCEPT ![p] = Null]
    /\ size' = [size EXCEPT ![p] = 0]
    /\ next' = [next EXCEPT ![p] = 0]
    /\ UNCHANGED <<lock, tabs, takenOver>>

Put(tab, p) == [tab EXCEPT ![next[p]] = id[p]]

ClearBelowMutant(tab, p) == [c \in 1..size[p] |-> tab[c]]

(* batch_clear of the rows below the last one written. *)
ClearBelow(tab, p) == [c \in Chunk |-> IF c <= size[p] THEN tab[c] ELSE Null]

-----------------------------------------------------------------------------
(* TechnicalScannerPublisher.publish *)

(* One batch_update with the header and every chunk. *)
WriteAll(p) ==
    /\ pc[p] = "write"
    /\ header' = "technical"
    /\ technical' = [c \in Chunk |-> IF c <= size[p] THEN id[p] ELSE technical[c]]
    /\ Goto(p, "clear")
    /\ UNCHANGED <<lock, work, swing, takenOver, crashes>>

ClearRest(p) ==
    /\ pc[p] = "clear"
    /\ technical' = ClearBelow(technical, p)
    /\ Goto(p, "done")
    /\ UNCHANGED <<lock, work, header, swing, takenOver, crashes>>

-----------------------------------------------------------------------------
(* WorkbookScannerPublisher.publish *)

VerifyHeadersMutant(p) ==
    /\ pc[p] = "verify"
    /\ Goto(p, "write_technical")
    /\ UNCHANGED <<lock, work, tabs, takenOver, crashes>>

(* _verify_header of both tabs before either is written. *)
VerifyHeaders(p) ==
    /\ pc[p] = "verify"
    /\ Goto(p, IF header = "workbook" THEN "write_technical" ELSE "failed")
    /\ UNCHANGED <<lock, work, tabs, takenOver, crashes>>

WriteTechnical(p) ==
    /\ pc[p] = "write_technical"
    /\ next[p] <= size[p]
    /\ technical' = Put(technical, p)
    /\ next' = [next EXCEPT ![p] = @ + 1]
    /\ UNCHANGED <<lock, pc, id, size, header, swing, takenOver, crashes>>

ClearTechnicalMutant(p) ==
    /\ pc[p] = "write_technical"
    /\ next[p] > size[p]
    /\ technical' = ClearBelow(technical, p)
    /\ Goto(p, "write_swing")
    /\ UNCHANGED <<lock, work, header, swing, takenOver, crashes>>

ClearTechnical(p) ==
    /\ pc[p] = "write_technical"
    /\ next[p] > size[p]
    /\ technical' = ClearBelow(technical, p)
    /\ next' = [next EXCEPT ![p] = 1]
    /\ Goto(p, "write_swing")
    /\ UNCHANGED <<lock, id, size, header, swing, takenOver, crashes>>

WriteSwing(p) ==
    /\ pc[p] = "write_swing"
    /\ next[p] <= size[p]
    /\ swing' = Put(swing, p)
    /\ next' = [next EXCEPT ![p] = @ + 1]
    /\ UNCHANGED <<lock, pc, id, size, header, technical, takenOver, crashes>>

ClearSwing(p) ==
    /\ pc[p] = "write_swing"
    /\ next[p] > size[p]
    /\ swing' = ClearBelow(swing, p)
    /\ Goto(p, "done")
    /\ UNCHANGED <<lock, work, header, technical, takenOver, crashes>>

-----------------------------------------------------------------------------
Step(p) ==
    \/ Acquire(p) \/ CheckStale(p) \/ UnlinkStale(p) \/ AcquireAgain(p) \/ Release(p)
    \/ BuildReports(p) \/ Fail(p)
    \/ WriteAll(p) \/ ClearRest(p)
    \/ VerifyHeaders(p)
    \/ WriteTechnical(p) \/ ClearTechnical(p) \/ WriteSwing(p) \/ ClearSwing(p)

Next ==
    \/ LockAges
    \/ \E p \in Publisher : Step(p)
    \/ \E p \in Publisher : Crash(p)

Spec == Init /\ [][Next]_vars

(* The commands are run again and again, a running one goes on, and the    *)
(* file grows old.                                                         *)
FairSpec == Spec /\ WF_vars(LockAges) /\ \A p \in Publisher : WF_vars(Step(p))

-----------------------------------------------------------------------------
(***************************************************************************)
(* Properties.                                                             *)
(***************************************************************************)

(* Every variable has its type. *)
TypeOK ==
    /\ lock \in [owner : Publisher, stale : BOOLEAN] \cup {Null}
    /\ pc \in [Publisher -> Places]
    /\ id \in [Publisher -> RunId \cup {Null}]
    /\ size \in [Publisher -> 0..MaxChunks]
    /\ next \in [Publisher -> 0..(MaxChunks + 1)]
    /\ header \in {"technical", "workbook"}
    /\ technical \in [Chunk -> RunId \cup {Null}]
    /\ swing \in [Chunk -> RunId \cup {Null}]
    /\ takenOver \in BOOLEAN
    /\ crashes \in 0..MaxCrashes

(* live_sync_lock admits one publisher at a time. *)
MutualExclusion == \A p, q \in Publisher : Inside(p) /\ Inside(q) => p = q

(* It does so, whoever is killed, until a file is taken over as stale.     *)
ExclusiveUntilTakeover == ~ takenOver => MutualExclusion

(***************************************************************************)
(* A publisher that returns has left the columns it writes with its own    *)
(* rows and no other: nothing of an earlier, longer, failed or killed      *)
(* publication is left below or between them, and nobody wrote in the      *)
(* meantime.                                                               *)
(***************************************************************************)
PublishIsWhole ==
    ~ takenOver =>
        \A p \in Publisher : pc[p] = "done" =>
            /\ technical = Whole(id[p], size[p])
            /\ p \in Workbook => swing = Whole(id[p], size[p])

(***************************************************************************)
(* The header a workbook publisher has verified still stands while it      *)
(* writes its rows under it.                                               *)
(***************************************************************************)
HeaderStands ==
    ~ takenOver =>
        \A p \in Workbook :
            pc[p] \in {"write_technical", "write_swing", "done"} => header = "workbook"

(* The file of a killed publisher does not block the others for ever.      *)
LockRecovers == (lock # Null) ~> (lock = Null \/ \E p \in Publisher : Inside(p))
=============================================================================
