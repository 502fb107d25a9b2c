------------------------- MODULE SheetPublish_proofs -------------------------
(***************************************************************************)
(* Proofs about SheetPublish, for every set of publishers, every number of *)
(* chunks and every number of killed publishers.                           *)
(***************************************************************************)
EXTENDS SheetPublish, TLAPS

(* Until a file is taken over, who is inside created the file that is      *)
(* there, and nobody is about to create another.                           *)
LockInv ==
    ~ takenOver => \A p \in Publisher :
                       /\ Inside(p) => lock # Null /\ lock.owner = p
                       /\ pc[p] # "create"

(* What the tabs hold at each place of a publisher that is alone inside.   *)
Building(p) == size[p] \in 0..MaxChunks /\ next[p] \in 1..(size[p] + 1) /\ id[p] \in RunId

Written(tab, p, n) == \A c \in Chunk : c < n => tab[c] = id[p]

TabInv(p) ==
    /\ pc[p] = "verify" \/ pc[p] = "write" => Building(p) /\ next[p] = 1
    /\ pc[p] = "write_technical" =>
         Building(p) /\ header = "workbook" /\ Written(technical, p, next[p])
    /\ pc[p] = "write_swing" =>
         /\ Building(p)
         /\ header = "workbook"
         /\ technical = Whole(id[p], size[p])
         /\ Written(swing, p, next[p])
    /\ pc[p] = "clear" => Building(p) /\ Written(technical, p, size[p] + 1)
    /\ pc[p] = "done" =>
         /\ technical = Whole(id[p], size[p])
         /\ p \in Workbook => header = "workbook" /\ swing = Whole(id[p], size[p])
    /\ pc[p] \in {"verify", "write_technical", "write_swing"} => p \in Workbook
    /\ pc[p] \in {"write", "clear"} => p \in Technical

TabsInv == ~ takenOver => \A p \in Publisher : TabInv(p)
-----------------------------------------------------------------------------
(* One step of the specification keeps the types. *)
LEMMA TypeStep == TypeOK /\ [Next]_vars => TypeOK'
<1> SUFFICES ASSUME TypeOK, [Next]_vars PROVE TypeOK'
  OBVIOUS
<1> USE PublishAssumption DEF TypeOK, Places, Outside, Inside, Goto, Created, Put, ClearBelow,
                              Publisher, Chunk, work, tabs, UsedIds
<1>1. CASE LockAges
  BY <1>1 DEF LockAges
<1>2. ASSUME NEW p \in Publisher, Acquire(p) PROVE TypeOK'
  <2>1. Created(p) \in [owner : Publisher, stale : BOOLEAN]
    OBVIOUS
  <2>2. lock' \in [owner : Publisher, stale : BOOLEAN] \cup {Null}
    <3> HIDE DEF Created
    <3> QED BY <1>2, <2>1 DEF Acquire
  <2>3. pc' \in [Publisher -> Places]
    BY <1>2 DEF Acquire
  <2>4. QED
    BY <1>2, <2>2, <2>3 DEF Acquire
<1>3. ASSUME NEW p \in Publisher, CheckStale(p) PROVE TypeOK'
  BY <1>3 DEF CheckStale
<1>4. ASSUME NEW p \in Publisher, UnlinkStale(p) PROVE TypeOK'
  BY <1>4 DEF UnlinkStale
<1>5. ASSUME NEW p \in Publisher, AcquireAgain(p) PROVE TypeOK'
  <2>1. Created(p) \in [owner : Publisher, stale : BOOLEAN]
    OBVIOUS
  <2>2. lock' \in [owner : Publisher, stale : BOOLEAN] \cup {Null}
    <3> HIDE DEF Created
    <3> QED BY <1>5, <2>1 DEF AcquireAgain
  <2>3. pc' \in [Publisher -> Places]
    BY <1>5 DEF AcquireAgain
  <2>4. QED
    BY <1>5, <2>2, <2>3 DEF AcquireAgain
<1>6. ASSUME NEW p \in Publisher, Release(p) PROVE TypeOK'
  BY <1>6 DEF Release
<1>7. ASSUME NEW p \in Publisher, BuildReports(p) PROVE TypeOK'
  <2>1. (CHOOSE r \in RunId \ UsedIds : TRUE) \in RunId
    <3> HIDE DEF UsedIds
    <3> QED BY <1>7 DEF BuildReports
  <2> HIDE DEF UsedIds
  <2>2. id' \in [Publisher -> RunId \cup {Null}]
    BY <1>7, <2>1 DEF BuildReports
  <2>3. size' \in [Publisher -> 0..MaxChunks] /\ next' \in [Publisher -> 0..(MaxChunks + 1)]
    BY <1>7 DEF BuildReports, Sizes
  <2>4. QED
    BY <1>7, <2>2, <2>3 DEF BuildReports
<1>8. ASSUME NEW p \in Publisher, Fail(p) PROVE TypeOK'
  BY <1>8 DEF Fail
<1>9. ASSUME NEW p \in Publisher, WriteAll(p) PROVE TypeOK'
  BY <1>9 DEF WriteAll
<1>10. ASSUME NEW p \in Publisher, ClearRest(p) PROVE TypeOK'
  BY <1>10 DEF ClearRest
<1>11. ASSUME NEW p \in Publisher, VerifyHeaders(p) PROVE TypeOK'
  BY <1>11 DEF VerifyHeaders
<1>12. ASSUME NEW p \in Publisher, WriteTechnical(p) PROVE TypeOK'
  <2>1. next[p] \in 0..(MaxChunks + 1) /\ next[p] + 1 \in 0..(MaxChunks + 1)
    BY <1>12 DEF WriteTechnical
  <2>2. next' \in [Publisher -> 0..(MaxChunks + 1)]
    BY <1>12, <2>1 DEF WriteTechnical
  <2>3. technical' \in [Chunk -> RunId \cup {Null}]
    BY <1>12 DEF WriteTechnical
  <2>4. QED
    BY <1>12, <2>2, <2>3 DEF WriteTechnical
<1>13. ASSUME NEW p \in Publisher, ClearTechnical(p) PROVE TypeOK'
  BY <1>13 DEF ClearTechnical
<1>14. ASSUME NEW p \in Publisher, WriteSwing(p) PROVE TypeOK'
  <2>1. next[p] \in 0..(MaxChunks + 1) /\ next[p] + 1 \in 0..(MaxChunks + 1)
    BY <1>14 DEF WriteSwing
  <2>2. next' \in [Publisher -> 0..(MaxChunks + 1)]
    BY <1>14, <2>1 DEF WriteSwing
  <2>3. swing' \in [Chunk -> RunId \cup {Null}]
    BY <1>14 DEF WriteSwing
  <2>4. QED
    BY <1>14, <2>2, <2>3 DEF WriteSwing
<1>15. ASSUME NEW p \in Publisher, ClearSwing(p) PROVE TypeOK'
  BY <1>15 DEF ClearSwing
<1>16. ASSUME NEW p \in Publisher, Crash(p) PROVE TypeOK'
  BY <1>16 DEF Crash
<1>17. CASE UNCHANGED vars
  BY <1>17 DEF vars
<1>18. QED
  BY <1>1, <1>2, <1>3, <1>4, <1>5, <1>6, <1>7, <1>8, <1>9, <1>10,
     <1>11, <1>12, <1>13, <1>14, <1>15, <1>16, <1>17 DEF Next, Step

(* Every variable has its type in every reachable state, for every value of *)
(* the constants: a tab keeps its shape whatever is written and cleared.    *)
THEOREM TypeCorrect == Spec => []TypeOK
<1>1. ASSUME Init PROVE TypeOK
  <2>1. pc \in [Publisher -> Places] /\ id \in [Publisher -> RunId \cup {Null}]
    BY <1>1 DEF Init, Places, Outside
  <2>2. /\ size \in [Publisher -> 0..MaxChunks]
        /\ next \in [Publisher -> 0..(MaxChunks + 1)]
        /\ crashes \in 0..MaxCrashes
    BY <1>1, PublishAssumption DEF Init
  <2>3. technical \in [Chunk -> RunId \cup {Null}] /\ swing \in [Chunk -> RunId \cup {Null}]
    BY <1>1 DEF Init, Empty
  <2>4. QED
    BY <1>1, <2>1, <2>2, <2>3 DEF Init, TypeOK
<1>2. QED
  BY <1>1, TypeStep, PTL DEF Spec

-----------------------------------------------------------------------------
(* One step keeps the file with the publisher inside. *)
LEMMA LockStep == TypeOK /\ LockInv /\ [Next]_vars => LockInv'
<1> SUFFICES ASSUME TypeOK, LockInv, [Next]_vars PROVE LockInv'
  OBVIOUS
<1> USE PublishAssumption DEF TypeOK, LockInv, Outside, Inside, Goto, Created, tabs, work
<1>1. CASE LockAges
  BY <1>1 DEF LockAges
<1>2. ASSUME NEW p \in Publisher, Acquire(p) PROVE LockInv'
  <2>1. Created(p).owner = p /\ Created(p) # Null
    <3>1. Created(p) \in [owner : Publisher, stale : BOOLEAN]
      OBVIOUS
    <3>2. Created(p).owner = p
      OBVIOUS
    <3>3. QED
      BY <3>1, <3>2
  <2>2. CASE lock = Null
    <3> HIDE DEF Created
    <3>1. lock' = Created(p) /\ pc' = [pc EXCEPT ![p] = "locked"] /\ takenOver' = takenOver
      BY <1>2, <2>2 DEF Acquire
    <3>2. QED
      BY <2>1, <2>2, <3>1
  <2>3. CASE lock # Null
    BY <1>2, <2>3 DEF Acquire
  <2>4. QED
    BY <2>2, <2>3
<1>3. ASSUME NEW p \in Publisher, CheckStale(p) PROVE LockInv'
  BY <1>3 DEF CheckStale
<1>4. ASSUME NEW p \in Publisher, UnlinkStale(p) PROVE LockInv'
  BY <1>4 DEF UnlinkStale
<1>5. ASSUME NEW p \in Publisher, AcquireAgain(p) PROVE LockInv'
  BY <1>5 DEF AcquireAgain
<1>6. ASSUME NEW p \in Publisher, Release(p) PROVE LockInv'
  BY <1>6 DEF Release
<1>7. ASSUME NEW p \in Publisher, BuildReports(p) PROVE LockInv'
  BY <1>7 DEF BuildReports
<1>8. ASSUME NEW p \in Publisher, Fail(p) PROVE LockInv'
  BY <1>8 DEF Fail
<1>9. ASSUME NEW p \in Publisher, WriteAll(p) PROVE LockInv'
  BY <1>9 DEF WriteAll
<1>10. ASSUME NEW p \in Publisher, ClearRest(p) PROVE LockInv'
  BY <1>10 DEF ClearRest
<1>11. ASSUME NEW p \in Publisher, VerifyHeaders(p) PROVE LockInv'
  BY <1>11 DEF VerifyHeaders
<1>12. ASSUME NEW p \in Publisher, WriteTechnical(p) PROVE LockInv'
  BY <1>12 DEF WriteTechnical
<1>13. ASSUME NEW p \in Publisher, ClearTechnical(p) PROVE LockInv'
  BY <1>13 DEF ClearTechnical
<1>14. ASSUME NEW p \in Publisher, WriteSwing(p) PROVE LockInv'
  BY <1>14 DEF WriteSwing
<1>15. ASSUME NEW p \in Publisher, ClearSwing(p) PROVE LockInv'
  BY <1>15 DEF ClearSwing
<1>16. ASSUME NEW p \in Publisher, Crash(p) PROVE LockInv'
  BY <1>16 DEF Crash
<1>17. CASE UNCHANGED vars
  BY <1>17 DEF vars
<1>18. QED
  BY <1>1, <1>2, <1>3, <1>4, <1>5, <1>6, <1>7, <1>8, <1>9, <1>10,
     <1>11, <1>12, <1>13, <1>14, <1>15, <1>16, <1>17 DEF Next, Step

LEMMA LockInvariant == Spec => [](TypeOK /\ LockInv)
<1>1. Init => LockInv
  BY DEF Init, LockInv, Inside, Outside
<1>2. QED
  BY <1>1, LockStep, TypeCorrect, PTL DEF Spec

(* live_sync_lock admits one publisher at a time until a lock file is taken *)
(* over as stale, whoever is killed and however many publishers there are.  *)
THEOREM LockExcludes == Spec => []ExclusiveUntilTakeover
<1>1. TypeOK /\ LockInv => ExclusiveUntilTakeover
  BY DEF TypeOK, LockInv, ExclusiveUntilTakeover, MutualExclusion
<1>2. QED
  BY <1>1, LockInvariant, PTL

-----------------------------------------------------------------------------
(* Nothing is said of a publisher that has no rows to write or has failed. *)
LEMMA NothingWritten ==
    ASSUME NEW p \in Publisher, pc[p] \in Outside \cup {"locked", "failed"}
    PROVE  TabInv(p)
BY DEF TabInv, Outside

(* What a publisher has written stands as long as it and the tabs stand still. *)
LEMMA StandsStill ==
    ASSUME NEW p \in Publisher, TabInv(p), UNCHANGED tabs,
           pc'[p] = pc[p], id'[p] = id[p], size'[p] = size[p], next'[p] = next[p]
    PROVE  TabInv(p)'
BY DEF TabInv, Building, Written, tabs, Whole

(* Nobody else is inside. *)
LEMMA Alone ==
    ASSUME TypeOK, LockInv, ~ takenOver, NEW p \in Publisher, Inside(p),
           NEW q \in Publisher, q # p
    PROVE  pc[q] \in Outside
BY DEF TypeOK, LockInv, Inside

LEMMA TabStep == TypeOK /\ LockInv /\ TabsInv /\ [Next]_vars => TabsInv'
<1> SUFFICES ASSUME TypeOK, LockInv, TabsInv, [Next]_vars, ~ takenOver',
                    NEW q \in Publisher
             PROVE  TabInv(q)'
  BY DEF TabsInv
<1> TypeOK'
  BY TypeStep
<1>a. ~ takenOver
  BY DEF TypeOK, Next, Step, vars, LockAges, Acquire, CheckStale, UnlinkStale, AcquireAgain,
         Release, BuildReports, Fail, WriteAll, ClearRest, VerifyHeaders, WriteTechnical,
         ClearTechnical, WriteSwing, ClearSwing, Crash
<1>b. TabInv(q)
  BY <1>a DEF TabsInv
<1>1. CASE LockAges \/ UNCHANGED vars
  BY <1>1, <1>b, StandsStill DEF LockAges, vars, work, tabs
<1>2. ASSUME NEW p \in Publisher,
             \/ Acquire(p) \/ CheckStale(p) \/ UnlinkStale(p) \/ AcquireAgain(p)
             \/ Release(p) \/ Fail(p) \/ Crash(p)
      PROVE  TabInv(q)'
  <2>1. UNCHANGED tabs
    BY <1>2 DEF Acquire, CheckStale, UnlinkStale, AcquireAgain, Release, Fail, Crash, tabs
  <2>2. CASE q # p
    <3>1. /\ pc'[q] = pc[q] /\ id'[q] = id[q]
          /\ size'[q] = size[q] /\ next'[q] = next[q]
      BY <1>2, <2>2 DEF TypeOK, Goto, work, Acquire, CheckStale, UnlinkStale, AcquireAgain,
                        Release, Fail, Crash
    <3>2. QED
      BY <3>1, <2>1, <1>b, StandsStill
  <2>3. CASE q = p
    <3>1. pc'[p] \in Outside \cup {"locked", "failed"}
      BY <1>2 DEF TypeOK, Goto, Outside, Acquire, CheckStale, UnlinkStale, AcquireAgain,
                  Release, Fail, Crash
    <3>2. QED
      BY <3>1, <2>3 DEF TabInv, Outside
  <2>4. QED
    BY <2>2, <2>3
<1>3. ASSUME NEW p \in Publisher,
             \/ BuildReports(p) \/ WriteAll(p) \/ ClearRest(p) \/ VerifyHeaders(p)
             \/ WriteTechnical(p) \/ ClearTechnical(p) \/ WriteSwing(p) \/ ClearSwing(p)
      PROVE  TabInv(q)'
  <2>1. Inside(p)
    BY <1>3 DEF Inside, Outside, BuildReports, WriteAll, ClearRest, VerifyHeaders,
                WriteTechnical, ClearTechnical, WriteSwing, ClearSwing
  <2>2. CASE q # p
    <3>1. pc[q] \in Outside
      BY <1>a, <2>1, <2>2, Alone
    <3>2. pc'[q] = pc[q]
      BY <1>3, <2>2 DEF TypeOK, Goto, BuildReports, WriteAll, ClearRest, VerifyHeaders,
                        WriteTechnical, ClearTechnical, WriteSwing, ClearSwing
    <3>3. QED
      BY <3>1, <3>2 DEF TabInv, Outside
  <2>3. CASE q = p
    <3>1. TabInv(p)
      BY <1>b, <2>3
    <3> USE <3>1, PublishAssumption DEF TypeOK, TabInv, Goto, work, tabs, Building, Chunk
    <3>2. CASE BuildReports(p)
      <4>1. RunId \ UsedIds # {} /\ id'[p] = CHOOSE r \in RunId \ UsedIds : TRUE
        <5> HIDE DEF UsedIds
        <5> QED BY <3>2 DEF BuildReports
      <4>2. id'[p] \in RunId
        <5> HIDE DEF UsedIds
        <5> QED BY <4>1
      <4>3. size'[p] \in 0..MaxChunks /\ next'[p] = 1
        BY <3>2 DEF BuildReports, Sizes
      <4>4. pc'[p] = IF p \in Technical THEN "write" ELSE "verify"
        BY <3>2 DEF BuildReports
      <4>5. p \in Technical \/ p \in Workbook
        BY DEF Publisher
      <4>6. TabInv(p)'
        BY <4>2, <4>3, <4>4, <4>5
      <4>7. QED
        BY <4>6, <2>3
    <3>3. CASE VerifyHeaders(p)
      BY <2>3, <3>3 DEF VerifyHeaders, Written
    <3>4. CASE WriteAll(p)
      BY <2>3, <3>4 DEF WriteAll, Written
    <3>5. CASE ClearRest(p)
      BY <2>3, <3>5 DEF ClearRest, ClearBelow, Written, Whole
    <3>6. CASE WriteTechnical(p)
      BY <2>3, <3>6 DEF WriteTechnical, Put, Written
    <3>7. CASE ClearTechnical(p)
      BY <2>3, <3>7 DEF ClearTechnical, ClearBelow, Written, Whole
    <3>8. CASE WriteSwing(p)
      BY <2>3, <3>8 DEF WriteSwing, Put, Written, Whole
    <3>9. CASE ClearSwing(p)
      BY <2>3, <3>9 DEF ClearSwing, ClearBelow, Written, Whole
    <3>10. QED
      BY <1>3, <3>2, <3>3, <3>4, <3>5, <3>6, <3>7, <3>8, <3>9
  <2>4. QED
    BY <2>2, <2>3
<1>4. QED
  BY <1>1, <1>2, <1>3 DEF Next, Step

LEMMA TabsInvariant == Spec => []TabsInv
<1>1. Init => TabsInv
  BY DEF Init, TabsInv, TabInv
<1>2. QED
  BY <1>1, TabStep, LockInvariant, PTL DEF Spec

(* A publisher that returns leaves whole tabs, until a file is taken over.  *)
THEOREM PublishesWhole == Spec => []PublishIsWhole
<1>1. TabsInv => PublishIsWhole
  BY DEF TabsInv, TabInv, PublishIsWhole
<1>2. QED
  BY <1>1, TabsInvariant, PTL

(* A verified header stands while rows are written under it.                *)
THEOREM HeaderIsStable == Spec => []HeaderStands
<1>1. TabsInv => HeaderStands
  BY DEF TabsInv, TabInv, HeaderStands, Publisher
<1>2. QED
  BY <1>1, TabsInvariant, PTL
=============================================================================
