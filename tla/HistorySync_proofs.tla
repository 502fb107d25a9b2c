-------------------------- MODULE HistorySync_proofs --------------------------
(***************************************************************************)
(* Theorems about HistorySync for every value of its constants: the types, *)
(* and, when the jobs do not overlap, that the columns derived from the    *)
(* candles agree with them between undisturbed runs.                       *)
(***************************************************************************)
EXTENDS HistorySync, FiniteSetTheorems, WellFoundedInduction, TLAPS

-----------------------------------------------------------------------------
(* What the operators on histories return. *)

(* A non-empty set of natural numbers with an upper bound has a greatest. *)
LEMMA GreatestExists ==
    ASSUME NEW N \in Nat, NEW S \in SUBSET (0..N), S # {}
    PROVE  \E d \in S : \A x \in S : x <= d
<1> DEFINE Less == {ss \in Nat \X Nat : ss[1] < ss[2]}
           T == {N - x : x \in S}
<1>1. IsWellFoundedOn(Less, Nat)
  BY NatLessThanWellFounded DEF OpToRel
<1>2. T \in SUBSET Nat /\ T # {}
  <2>1. \A x \in S : N - x \in Nat
    OBVIOUS
  <2> QED
    BY <2>1
<1> HIDE DEF Less
<1>3. PICK m \in T : \A y \in T : <<y, m>> \notin Less
  <2> HIDE DEF T
  <2> QED
    BY <1>1, <1>2, WFMin
<1>4. PICK d \in S : m = N - d
  BY <1>3
<1>5. ASSUME NEW x \in S  PROVE x <= d
  <2>1. N - x \in T /\ N - x \in Nat /\ m \in Nat
    BY <1>2, <1>3
  <2>2. <<N - x, m>> \notin Less
    BY <1>3, <2>1
  <2>3. ~ (N - x < m)
    BY <2>1, <2>2 DEF Less
  <2> QED
    BY <2>3, <1>4
<1> QED
  BY <1>5

LEMMA StoredType ==
    ASSUME NEW h \in History
    PROVE  /\ Stored(h) \in SUBSET (0..MaxSession)
           /\ \A d \in Stored(h) : d \in Session /\ h[d] \in Price
BY SyncAssumption DEF Stored, History, Session

(* The latest session is a stored one, and 0 stands for none. *)
LEMMA LatestStoredType ==
    ASSUME NEW h \in History
    PROVE  /\ LatestStored(h) \in 0..MaxSession
           /\ \A d \in Stored(h) : d <= LatestStored(h)
           /\ Stored(h) # {} => LatestStored(h) \in Stored(h) /\ LatestStored(h) # 0
<1>1. CASE Stored(h) = {}
  BY <1>1, SyncAssumption DEF LatestStored
<1>2. CASE Stored(h) # {}
  <2>1. \E d \in Stored(h) : \A x \in Stored(h) : x <= d
    BY <1>2, StoredType, GreatestExists, SyncAssumption
  <2>2. LatestStored(h) \in Stored(h) /\ \A x \in Stored(h) : x <= LatestStored(h)
    BY <1>2, <2>1 DEF LatestStored
  <2> QED
    BY <2>2, StoredType DEF Session
<1> QED
  BY <1>1, <1>2

LEMMA OverwriteType ==
    ASSUME NEW h \in History, NEW a \in History
    PROVE  /\ Overwrite(h, a) \in History
           /\ Stored(Overwrite(h, a)) = Stored(h) \cup Stored(a)
           /\ \A d \in Stored(a) : Overwrite(h, a)[d] = a[d]
           /\ \A d \in Stored(h) \ Stored(a) : Overwrite(h, a)[d] = h[d]
BY DEF Overwrite, History, Stored

LEMMA NoCandlesType ==
    /\ NoCandles \in History
    /\ Stored(NoCandles) = {}
    /\ \A h \in History : Overwrite(h, NoCandles) = h
BY DEF NoCandles, History, Stored, Overwrite

(* Two upserts one after the other are one upsert of the merged rows. *)
LEMMA OverwriteTwice ==
    ASSUME NEW h \in History, NEW a \in History, NEW b \in History
    PROVE  Overwrite(h, Overwrite(a, b)) = Overwrite(Overwrite(h, a), b)
BY DEF Overwrite, History

LEMMA HighestType ==
    ASSUME NEW a \in History, Stored(a) # {}
    PROVE  /\ Highest(a) \in Price
           /\ \A d \in Stored(a) : a[d] <= Highest(a)
<1> DEFINE P == {a[d] : d \in Stored(a)}
<1>1. P \in SUBSET (0..MaxPrice) /\ P # {}
  BY StoredType, SyncAssumption DEF Price
<1>2. PICK p \in P : \A x \in P : x <= p
  BY <1>1, GreatestExists, SyncAssumption
<1>3. /\ p \in Price
      /\ \E d \in Session : a[d] = p
      /\ \A d \in Stored(a) : a[d] <= p
  BY <1>2, StoredType
<1> QED
  BY <1>3 DEF Highest

(* The high kept in memory is a price once there is an answer. *)
LEMMA HighAfterType ==
    ASSUME NEW old \in Price \cup {Null}, NEW a \in History, Stored(a) # {}
    PROVE  HighAfter(old, a) \in Price
BY HighestType DEF HighAfter

(* What an answer makes of the run that receives it. *)
LEMMA BufferedType ==
    ASSUME NEW r \in Runs, NEW c \in DOMAIN r.queue, NEW a \in History, Stored(a) # {}
    PROVE  /\ Buffered(r, c, a) \in Runs
           /\ DOMAIN Buffered(r, c, a).queue = DOMAIN r.queue \ {c}
           /\ Buffered(r, c, a).stage = r.stage
           /\ Buffered(r, c, a).summaries = r.summaries \cup {c}
           /\ \A d \in Company \ {c} :
                /\ Buffered(r, c, a).buffer[d] = r.buffer[d]
                /\ Buffered(r, c, a).high[d] = r.high[d]
                /\ Buffered(r, c, a).success[d] = r.success[d]
           /\ Buffered(r, c, a).buffer[c] = Overwrite(r.buffer[c], a)
           /\ Buffered(r, c, a).high[c] = HighAfter(r.high[c], a)
           /\ Buffered(r, c, a).success[c] = LatestStored(a)
<1>1. /\ r.queue \in UNION {[S -> 0..Cardinality(Company)] : S \in SUBSET Company}
      /\ c \in Company
  BY DEF Runs
<1>2. Rest(r.queue, c) \in UNION {[S -> 0..Cardinality(Company)] : S \in SUBSET Company}
  <2>1. PICK S \in SUBSET Company : r.queue \in [S -> 0..Cardinality(Company)]
    BY <1>1
  <2>2. Rest(r.queue, c) \in [S \ {c} -> 0..Cardinality(Company)]
    BY <2>1 DEF Rest
  <2> QED
    BY <2>2
<1>3. Overwrite(r.buffer[c], a) \in History
  BY <1>1, OverwriteType DEF Runs
<1>4. HighAfter(r.high[c], a) \in Price
  BY <1>1, HighAfterType DEF Runs
<1>5. LatestStored(a) \in 0..MaxSession
  BY LatestStoredType
<1>6. DOMAIN Rest(r.queue, c) = DOMAIN r.queue \ {c}
  BY DEF Rest
<1> HIDE DEF Rest, Overwrite, HighAfter, LatestStored, History
<1> QED
  BY <1>1, <1>2, <1>3, <1>4, <1>5, <1>6 DEF Buffered, Runs

(* A flush leaves nothing in the buffer and everything else alone. *)
LEMMA EmptiedType ==
    ASSUME NEW r \in Runs
    PROVE  /\ Emptied(r) \in Runs
           /\ Emptied(r).queue = r.queue
           /\ Emptied(r).stage = r.stage
           /\ Emptied(r).summaries = r.summaries
           /\ Emptied(r).high = r.high
           /\ Emptied(r).success = r.success
           /\ Emptied(r).buffer = [c \in Company |-> NoCandles]
BY NoCandlesType DEF Emptied, Runs

LEMMA FlushedType ==
    ASSUME TypeOK, NEW r \in Runs
    PROVE  /\ Flushed(r) \in [Company -> History]
           /\ \A c \in Company : Flushed(r)[c] = Overwrite(candles[c], r.buffer[c])
BY OverwriteType DEF Flushed, TypeOK, Runs

LEMMA IdleType == Idle \in Runs
<1>1. [c \in {} |-> 0] \in [{} -> 0..Cardinality(Company)]
  OBVIOUS
<1>2. [c \in {} |-> 0] \in UNION {[S -> 0..Cardinality(Company)] : S \in SUBSET Company}
  BY <1>1
<1> QED
  BY <1>2, NoCandlesType, SyncAssumption DEF Idle, Runs, Stages, Session

(* A batch gives some of the pending companies a place each. *)
LEMMA BatchType ==
    ASSUME NEW j \in Job
    PROVE  /\ Batch(j) \in UNION {[S -> 0..Cardinality(Company)] : S \in SUBSET Company}
           /\ DOMAIN Batch(j) \subseteq Pending(j)
<1> DEFINE key == [c \in Pending(j) |-> SortKey(j, c)]
           place == [c \in Pending(j) |->
                       Cardinality({d \in Pending(j) : TupleLess(key[d], key[c])})]
           S == {d \in Pending(j) : place[d] < BATCH_LIMIT}
<1>1. \A c \in Pending(j) : place[c] \in 0..Cardinality(Company)
  <2> SUFFICES ASSUME NEW c \in Pending(j)  PROVE place[c] \in 0..Cardinality(Company)
    OBVIOUS
  <2> HIDE DEF key
  <2>1. {d \in Pending(j) : TupleLess(key[d], key[c])} \in SUBSET Company
    BY DEF Pending
  <2>2. IsFiniteSet(Company)
    BY SyncAssumption
  <2>3. Cardinality(Company) \in Nat
    BY <2>2, FS_CardinalityType
  <2>4. /\ Cardinality({d \in Pending(j) : TupleLess(key[d], key[c])}) \in Nat
        /\ Cardinality({d \in Pending(j) : TupleLess(key[d], key[c])}) <= Cardinality(Company)
    BY <2>1, <2>2, FS_Subset, FS_CardinalityType
  <2> QED
    BY <2>3, <2>4
<1>2. Batch(j) = [c \in S |-> place[c]]
  BY DEF Batch
<1> HIDE DEF place
<1>3. S \subseteq Company /\ S \subseteq Pending(j)
  BY DEF Pending
<1>4. Batch(j) \in [S -> 0..Cardinality(Company)] /\ DOMAIN Batch(j) = S
  BY <1>1, <1>2
<1> HIDE DEF S
<1> QED
  BY <1>3, <1>4

(* Where a request starts is a session. *)
LEMMA StartType ==
    ASSUME TypeOK, NEW j \in Job, NEW c \in Pending(j)
    PROVE  StartOf(j, c) \in Session
<1>1. c \in Company /\ candles[c] \in History
  BY DEF Pending, TypeOK
<1>2. LatestStored(candles[c]) \in 0..MaxSession
  BY <1>1, LatestStoredType
<1> HIDE DEF LatestStored, Stored, Underfilled
<1> QED
  BY <1>1, <1>2, SyncAssumption DEF StartOf, Pending, Behind, TypeOK, Session

-----------------------------------------------------------------------------
(***************************************************************************)
(* Types.  That attempts are ordered needs two more facts: only a run that *)
(* is still requesting holds attempts in memory, and a company that waits  *)
(* for its turn has none there.                                            *)
(***************************************************************************)
InMemory ==
    /\ \A t \in attempts : t.by # Null => run[t.by].stage = "requesting"
    /\ \A j \in Job : run[j].stage = "requesting" =>
         \A c \in DOMAIN run[j].queue : [by |-> j, of |-> c] \notin attempts

TypeInv == TypeOK /\ InMemory

(* A company that is stamped while it waits for its turn comes last. *)
LEMMA StampStep ==
    ASSUME TypeInv, NEW j \in Job, NEW c, Turn(j, c), Stamp(j, c)
    PROVE  /\ c \in Company /\ run[j] \in Runs
           /\ attempts' \subseteq Attempt
           /\ StrictOrder'
           /\ attempts' = attempts \cup {[by |-> j, of |-> c]}
<1> DEFINE t == [by |-> j, of |-> c]
<1>1. c \in Company /\ run[j] \in Runs
  BY DEF TypeInv, TypeOK, Runs, Turn
<1>2. t \in Attempt /\ t \notin attempts
  BY <1>1 DEF Attempt, TypeInv, InMemory, Turn
<1>3. attempts' = attempts \cup {t} /\ before' = before \cup (attempts \X {t})
  BY DEF Stamp
<1> HIDE DEF t
<1>4. attempts' \subseteq Attempt
  BY <1>2, <1>3 DEF TypeInv, TypeOK
<1>5. StrictOrder'
  BY <1>2, <1>3 DEF TypeInv, TypeOK, StrictOrder
<1> QED
  BY <1>1, <1>3, <1>4, <1>5 DEF t

(* The run's attempts take the place of those in the database. *)
LEMMA SettleStep ==
    ASSUME TypeInv, NEW j \in Job, StampAttempts(j)
    PROVE  /\ attempts' \subseteq Attempt
           /\ StrictOrder'
           /\ \A t \in attempts' : t.by # j /\ (t.by # Null => t \in attempts)
<1> DEFINE kept == {t \in attempts : t.by = Null => t.of \notin Mine(j)}
<1>0. j # Null
  BY SyncAssumption
<1>1. /\ attempts' = {Settled(j, t) : t \in kept}
      /\ before' = {<<Settled(j, p[1]), Settled(j, p[2])>> : p \in before \cap (kept \X kept)}
  BY DEF StampAttempts, Keep
<1>2. \A t \in kept : t \in attempts /\ t \in Attempt
  BY DEF TypeInv, TypeOK
<1>3. \A t \in kept : Settled(j, t) \in Attempt /\ Settled(j, t).by # j
  BY <1>0, <1>2 DEF Settled, Saved, Attempt
<1>4. \A t, u \in kept : Settled(j, t) = Settled(j, u) => t = u
  <2> SUFFICES ASSUME NEW t \in kept, NEW u \in kept, Settled(j, t) = Settled(j, u)
               PROVE  t = u
    OBVIOUS
  <2>1. t \in Attempt /\ u \in Attempt
    BY <1>2
  <2>2. CASE t.by = j /\ u.by = j
    BY <2>1, <2>2 DEF Settled, Saved, Attempt
  <2>3. CASE t.by # j /\ u.by # j
    BY <2>3 DEF Settled
  <2>4. ASSUME NEW a \in kept, NEW b \in kept, a.by = j, b.by # j,
               Settled(j, a) = Settled(j, b)
        PROVE  FALSE
    <3>1. a \in Attempt /\ a \in attempts /\ b \in Attempt
      BY <2>4, <1>2
    <3>2. b = Saved(a.of)
      BY <2>4 DEF Settled
    <3>3. a = [by |-> j, of |-> a.of] /\ a.of \in Company
      BY <3>1, <2>4 DEF Attempt
    <3>4. b.by = Null /\ b.of = a.of
      BY <3>2 DEF Saved
    <3>5. a.of \in Mine(j)
      BY <3>1, <3>3 DEF Mine
    <3> QED
      BY <3>4, <3>5
  <2> QED
    BY <2>2, <2>3, <2>4
<1>5. \A t, u \in kept :
        <<Settled(j, t), Settled(j, u)>> \in before' <=> <<t, u>> \in before
  <2> SUFFICES ASSUME NEW t \in kept, NEW u \in kept
               PROVE  <<Settled(j, t), Settled(j, u)>> \in before' <=> <<t, u>> \in before
    OBVIOUS
  <2>1. ASSUME <<t, u>> \in before  PROVE <<Settled(j, t), Settled(j, u)>> \in before'
    <3>1. <<t, u>> \in before \cap (kept \X kept)
      BY <2>1
    <3> HIDE DEF kept
    <3> QED
      BY <3>1, <1>1
  <2>2. ASSUME <<Settled(j, t), Settled(j, u)>> \in before'  PROVE <<t, u>> \in before
    <3> HIDE DEF kept
    <3>1. PICK p \in before \cap (kept \X kept) :
            <<Settled(j, t), Settled(j, u)>> = <<Settled(j, p[1]), Settled(j, p[2])>>
      BY <2>2, <1>1
    <3>2. p[1] \in kept /\ p[2] \in kept /\ p = <<p[1], p[2]>>
      BY <3>1
    <3>3. t = p[1] /\ u = p[2]
      BY <3>1, <3>2, <1>4
    <3> QED
      BY <3>1, <3>2, <3>3
  <2> QED
    BY <2>1, <2>2
<1>6. attempts' \subseteq Attempt
  BY <1>1, <1>3
<1>7. StrictOrder'
  <2>1. before' \subseteq attempts' \X attempts'
    <3> HIDE DEF kept
    <3> QED
      BY <1>1
  <2>2. \A x \in attempts' : \E t \in kept : x = Settled(j, t)
    BY <1>1
  <2> HIDE DEF kept
  <2>3. \A t, u \in kept : t # u => <<t, u>> \in before \/ <<u, t>> \in before
    BY <1>2 DEF TypeInv, TypeOK, StrictOrder
  <2>4. \A t, u \in kept : ~ (<<t, u>> \in before /\ <<u, t>> \in before)
    BY <1>2 DEF TypeInv, TypeOK, StrictOrder
  <2>5. \A t, u, v \in kept :
          <<t, u>> \in before /\ <<u, v>> \in before => <<t, v>> \in before
    BY <1>2 DEF TypeInv, TypeOK, StrictOrder
  <2>6. \A x, y \in attempts' : x # y => <<x, y>> \in before' \/ <<y, x>> \in before'
    BY <2>2, <2>3, <1>5
  <2>7. \A x, y \in attempts' : ~ (<<x, y>> \in before' /\ <<y, x>> \in before')
    BY <2>2, <2>4, <1>5
  <2>8. \A x, y, z \in attempts' :
          <<x, y>> \in before' /\ <<y, z>> \in before' => <<x, z>> \in before'
    BY <2>2, <2>5, <1>5
  <2> QED
    BY <2>1, <2>6, <2>7, <2>8 DEF StrictOrder
<1>8. \A x \in attempts' : x.by # j /\ (x.by # Null => x \in attempts)
  <2> SUFFICES ASSUME NEW x \in attempts'
               PROVE  x.by # j /\ (x.by # Null => x \in attempts)
    OBVIOUS
  <2>1. PICK t \in kept : x = Settled(j, t)
    BY <1>1
  <2> QED
    BY <2>1, <1>2, <1>3 DEF Settled, Saved
<1> QED
  BY <1>6, <1>7, <1>8

(* What a killed run held in memory is lost, the order of the rest stays. *)
LEMMA CrashStep ==
    ASSUME TypeInv, NEW j \in Job, Crash(j)
    PROVE  attempts' \subseteq Attempt /\ StrictOrder'
<1>1. /\ attempts' = {t \in attempts : t.by # j}
      /\ before' = {p \in before : p[1].by # j /\ p[2].by # j}
  BY DEF Crash
<1>2. \A t, u \in attempts' : <<t, u>> \in before' <=> <<t, u>> \in before
  BY <1>1
<1>3. before' \subseteq attempts' \X attempts'
  BY <1>1 DEF TypeInv, TypeOK, StrictOrder
<1> QED
  BY <1>1, <1>2, <1>3 DEF TypeInv, TypeOK, StrictOrder

(* An answer, as the model builds it, is a non-empty history. *)
LEMMA AnswerType ==
    ASSUME TypeOK, NEW j \in Job, NEW c \in Company, NEW D \in AnswerSessions(j, c),
           NEW a \in [D -> Price], NEW answer,
           answer = [d \in Session |-> IF d \in D THEN a[d] ELSE Null]
    PROVE  /\ answer \in History
           /\ Stored(answer) = D
           /\ Stored(answer) # {}
<1>1. run[j] \in Runs
  BY DEF TypeOK
<1>2. run[j].start[c] \in Session /\ run[j].target \in 0..MaxSession
  BY <1>1 DEF Runs
<1>3. D \in SUBSET (run[j].start[c]..run[j].target) /\ D # {}
  BY DEF AnswerSessions
<1>4. D \subseteq Session
  BY <1>2, <1>3, SyncAssumption DEF Session
<1>5. Null \notin Price
  BY SyncAssumption DEF Price
<1>6. \A d \in D : a[d] \in Price
  OBVIOUS
<1>7. answer \in History
  BY <1>6 DEF History
<1>8. Stored(answer) = D
  BY <1>4, <1>5, <1>6 DEF Stored
<1> QED
  BY <1>3, <1>7, <1>8

LEMMA TypeStep == TypeInv /\ [Next]_vars => TypeInv'
<1> SUFFICES ASSUME TypeInv, [Next]_vars  PROVE TypeInv'
  OBVIOUS
<1>1. CASE UNCHANGED vars
  BY <1>1 DEF TypeInv, TypeOK, InMemory, StrictOrder, vars, stamps
<1>2. CASE CloseSession
  BY <1>2, SyncAssumption DEF CloseSession, TypeInv, TypeOK, InMemory, StrictOrder, stamps
<1>3. ASSUME NEW j \in Job, StartSync(j)  PROVE TypeInv'
  <2>1. PICK r : /\ r = [Idle EXCEPT !.stage = "requesting", !.target = latest,
                           !.queue = Batch(j),
                           !.start = [c \in Company |->
                               IF c \in DOMAIN Batch(j) THEN StartOf(j, c) ELSE 1],
                           !.high = [c \in Company |->
                               IF c \in DOMAIN Batch(j) THEN high[c] ELSE Null],
                           !.success = [c \in Company |->
                               IF c \in DOMAIN Batch(j) THEN success[c] ELSE 0]]
                 /\ run' = [run EXCEPT ![j] = r]
    BY <1>3 DEF StartSync, Idle
  <2>2. r \in Runs
    <3>1. \A c \in DOMAIN Batch(j) : StartOf(j, c) \in Session
      BY StartType, BatchType DEF TypeInv
    <3> HIDE DEF Batch, StartOf
    <3> QED
      BY <2>1, <3>1, BatchType, IdleType, SyncAssumption DEF Runs, Idle, Stages, TypeInv, TypeOK, Session
  <2>3. run' \in [Job -> Runs]
    BY <2>1, <2>2 DEF TypeInv, TypeOK
  <2>4. \A c : [by |-> j, of |-> c] \notin attempts
    <3> SUFFICES ASSUME NEW c, [by |-> j, of |-> c] \in attempts  PROVE FALSE
      OBVIOUS
    <3>1. run[j].stage = "requesting"
      BY SyncAssumption DEF TypeInv, InMemory
    <3> QED
      BY <1>3, <3>1 DEF StartSync
  <2>5. run'[j].stage = "requesting" /\ \A k \in Job \ {j} : run'[k] = run[k]
    BY <2>1 DEF Idle, TypeInv, TypeOK
  <2>6. InMemory'
    BY <1>3, <2>4, <2>5 DEF StartSync, stamps, TypeInv, TypeOK, InMemory, Attempt
  <2> QED
    BY <1>3, <2>3, <2>6 DEF StartSync, stamps, TypeInv, TypeOK, StrictOrder
<1>4. ASSUME NEW j \in Job, NEW c \in Company, RequestFails(j, c)  PROVE TypeInv'
  <2>1. /\ Turn(j, c) /\ Stamp(j, c)
        /\ run' = [run EXCEPT ![j].queue = Rest(@, c)]
    BY <1>4 DEF RequestFails
  <2>2. run[j] \in Runs /\ attempts' \subseteq Attempt /\ StrictOrder'
        /\ attempts' = attempts \cup {[by |-> j, of |-> c]}
    BY <2>1, StampStep
  <2>3. Rest(run[j].queue, c) \in UNION {[S -> 0..Cardinality(Company)] : S \in SUBSET Company}
        /\ DOMAIN Rest(run[j].queue, c) = DOMAIN run[j].queue \ {c}
    <3>1. PICK S \in SUBSET Company : run[j].queue \in [S -> 0..Cardinality(Company)]
      BY <2>2 DEF Runs
    <3>2. Rest(run[j].queue, c) \in [S \ {c} -> 0..Cardinality(Company)]
      BY <3>1 DEF Rest
    <3> QED
      BY <3>2 DEF Rest
  <2> DEFINE r == [run[j] EXCEPT !.queue = Rest(@, c)]
  <2>4. r \in Runs /\ r.stage = run[j].stage /\ DOMAIN r.queue = DOMAIN run[j].queue \ {c}
    <3> HIDE DEF Rest
    <3> QED
      BY <2>2, <2>3 DEF Runs
  <2>5. run' = [run EXCEPT ![j] = r]
    BY <2>1 DEF TypeInv, TypeOK
  <2> HIDE DEF r
  <2>6. run' \in [Job -> Runs] /\ run'[j] = r /\ \A k \in Job \ {j} : run'[k] = run[k]
    BY <2>4, <2>5 DEF TypeInv, TypeOK
  <2>7. InMemory'
    BY <2>1, <2>2, <2>4, <2>6 DEF Turn, TypeInv, TypeOK, InMemory, Attempt
  <2> QED
    BY <1>4, <2>2, <2>6, <2>7 DEF RequestFails, TypeInv, TypeOK
<1>5. ASSUME NEW j \in Job, NEW c \in Company, RequestAnswered(j, c)  PROVE TypeInv'
  <2>1. Turn(j, c) /\ Stamp(j, c)
    BY <1>5 DEF RequestAnswered
  <2>2. run[j] \in Runs /\ attempts' \subseteq Attempt /\ StrictOrder'
        /\ attempts' = attempts \cup {[by |-> j, of |-> c]}
    BY <2>1, StampStep
  <2> DEFINE Answer(D, a) == [d \in Session |-> IF d \in D THEN a[d] ELSE Null]
             Received(b) ==
                 \/ /\ candles' = Flushed(Buffered(run[j], c, b))
                    /\ run' = [run EXCEPT ![j] = Emptied(Buffered(run[j], c, b))]
                 \/ /\ candles' = candles
                    /\ run' = [run EXCEPT ![j] = Buffered(run[j], c, b)]
  <2>3. PICK answer \in History : Stored(answer) # {} /\ Received(answer)
    <3>1. PICK D \in AnswerSessions(j, c) : \E a \in [D -> Price] : Received(Answer(D, a))
      BY <1>5 DEF RequestAnswered
    <3>2. PICK a \in [D -> Price] : Received(Answer(D, a))
      BY <3>1
    <3>3. Answer(D, a) \in History /\ Stored(Answer(D, a)) # {}
      BY AnswerType DEF TypeInv
    <3> HIDE DEF Answer, Received
    <3> QED
      BY <3>2, <3>3
  <2> DEFINE r == Buffered(run[j], c, answer)
  <2>5. r \in Runs /\ r.stage = run[j].stage /\ DOMAIN r.queue = DOMAIN run[j].queue \ {c}
    BY <2>1, <2>2, <2>3, BufferedType DEF Turn
  <2> HIDE DEF r
  <2>6. PICK q \in Runs : /\ q.stage = run[j].stage
                          /\ DOMAIN q.queue = DOMAIN run[j].queue \ {c}
                          /\ run' = [run EXCEPT ![j] = q]
    BY <2>3, <2>5, EmptiedType DEF r
  <2>7. run' \in [Job -> Runs] /\ run'[j] = q /\ \A k \in Job \ {j} : run'[k] = run[k]
    BY <2>6 DEF TypeInv, TypeOK
  <2>8. InMemory'
    BY <2>1, <2>2, <2>6, <2>7 DEF Turn, TypeInv, TypeOK, InMemory, Attempt
  <2>9. candles' \in [Company -> History]
    BY <2>3, <2>5, FlushedType DEF r, TypeInv, TypeOK
  <2> QED
    BY <1>5, <2>2, <2>7, <2>8, <2>9 DEF RequestAnswered, TypeInv, TypeOK
<1>6. ASSUME NEW j \in Job, StampAttempts(j)  PROVE TypeInv'
  <2>1. run[j] \in Runs
    BY DEF TypeInv, TypeOK
  <2>2. /\ attempts' \subseteq Attempt /\ StrictOrder'
        /\ \A t \in attempts' : t.by # j /\ (t.by # Null => t \in attempts)
    BY <1>6, SettleStep
  <2>3. run' = [run EXCEPT ![j].stage = "stamped"]
    BY <1>6 DEF StampAttempts
  <2>4. run' \in [Job -> Runs] /\ run'[j].stage = "stamped"
        /\ \A k \in Job \ {j} : run'[k] = run[k]
    BY <2>1, <2>3 DEF TypeInv, TypeOK, Runs, Stages
  <2>5. InMemory'
    <3>1. \A t \in attempts' : t.by # Null => run'[t.by].stage = "requesting"
      BY <2>2, <2>4 DEF TypeInv, TypeOK, InMemory, Attempt
    <3>2. ASSUME NEW k \in Job, run'[k].stage = "requesting", NEW d \in DOMAIN run'[k].queue
          PROVE  [by |-> k, of |-> d] \notin attempts'
      <4>1. k # j /\ run'[k] = run[k] /\ k # Null
        BY <2>4, <3>2, SyncAssumption
      <4>2. [by |-> k, of |-> d] \notin attempts
        BY <3>2, <4>1 DEF TypeInv, InMemory
      <4> QED
        BY <2>2, <4>1, <4>2
    <3> QED
      BY <3>1, <3>2 DEF InMemory
  <2>6. success' \in [Company -> 0..MaxSession]
    BY <1>6, <2>1 DEF StampAttempts, TypeInv, TypeOK, Runs
  <2> QED
    BY <1>6, <2>2, <2>4, <2>5, <2>6 DEF StampAttempts, TypeInv, TypeOK
<1>7. ASSUME NEW j \in Job, FlushRows(j)  PROVE TypeInv'
  <2>1. run[j] \in Runs
    BY DEF TypeInv, TypeOK
  <2> DEFINE r == [Emptied(run[j]) EXCEPT !.stage = "flushed"]
  <2>2. r \in Runs /\ r.stage = "flushed"
    BY <2>1, EmptiedType DEF Runs, Stages
  <2>3. run' = [run EXCEPT ![j] = r] /\ candles' = Flushed(run[j]) /\ run[j].stage = "stamped"
    BY <1>7 DEF FlushRows
  <2> HIDE DEF r
  <2>4. run' \in [Job -> Runs] /\ run'[j] = r /\ \A k \in Job \ {j} : run'[k] = run[k]
    BY <2>2, <2>3 DEF TypeInv, TypeOK
  <2>5. candles' \in [Company -> History]
    BY <2>1, <2>3, FlushedType DEF TypeInv
  <2>6. InMemory'
    BY <1>7, <2>2, <2>3, <2>4 DEF FlushRows, stamps, TypeInv, TypeOK, InMemory, Attempt
  <2> QED
    BY <1>7, <2>4, <2>5, <2>6 DEF FlushRows, stamps, TypeInv, TypeOK, StrictOrder
<1>8. ASSUME NEW j \in Job, SaveSummaries(j)  PROVE TypeInv'
  <2>1. run' = [run EXCEPT ![j] = Idle] /\ run[j].stage = "flushed" /\ run[j] \in Runs
    BY <1>8 DEF SaveSummaries, TypeInv, TypeOK
  <2>2. run' \in [Job -> Runs] /\ run'[j].stage = "idle" /\ \A k \in Job \ {j} : run'[k] = run[k]
    BY <2>1, IdleType DEF TypeInv, TypeOK, Idle
  <2>3. InMemory'
    BY <1>8, <2>1, <2>2 DEF SaveSummaries, stamps, TypeInv, TypeOK, InMemory, Attempt
  <2>4. high' \in [Company -> Price \cup {Null}]
    BY <1>8, <2>1 DEF SaveSummaries, TypeInv, TypeOK, Runs
  <2> QED
    BY <1>8, <2>2, <2>3, <2>4 DEF SaveSummaries, stamps, TypeInv, TypeOK, StrictOrder
<1>9. ASSUME NEW j \in Job, Crash(j)  PROVE TypeInv'
  <2>1. attempts' \subseteq Attempt /\ StrictOrder'
    BY <1>9, CrashStep
  <2>2. run' = [run EXCEPT ![j] = Idle] /\ attempts' = {t \in attempts : t.by # j}
    BY <1>9 DEF Crash
  <2>3. run' \in [Job -> Runs] /\ run'[j].stage = "idle" /\ \A k \in Job \ {j} : run'[k] = run[k]
    BY <2>2, IdleType DEF TypeInv, TypeOK, Idle
  <2>4. InMemory'
    BY <2>2, <2>3 DEF TypeInv, TypeOK, InMemory, Attempt
  <2>5. crashes' \in 0..MaxCrashes
    BY <1>9, SyncAssumption DEF Crash, TypeInv, TypeOK
  <2> QED
    BY <1>9, <2>1, <2>3, <2>4, <2>5 DEF Crash, TypeInv, TypeOK
<1> QED
  BY <1>1, <1>2, <1>3, <1>4, <1>5, <1>6, <1>7, <1>8, <1>9 DEF Next, Step

LEMMA TypeInvariant == Spec => []TypeInv
<1>1. Init => TypeInv
  BY IdleType, NoCandlesType, SyncAssumption
     DEF Init, TypeInv, TypeOK, InMemory, StrictOrder, Idle
<1> QED
  BY <1>1, TypeStep, PTL DEF Spec

(***************************************************************************)
(* Every variable keeps its type, and the attempts stay one after the      *)
(* other, however many jobs run sync_stock_history at the same time.       *)
(***************************************************************************)
THEOREM TypeCorrect == Spec => []TypeOK
BY TypeInvariant, PTL DEF TypeInv

-----------------------------------------------------------------------------
(***************************************************************************)
(* The derived columns, when the jobs take turns.                          *)
(***************************************************************************)

(* The high p is not below any candle of h. *)
Covered(h, p) == \A d \in Stored(h) : p # Null /\ p >= h[d]

(* The success s names a session that h reaches. *)
Supported(h, s) == s <= LatestStored(h) /\ ((s = 0) <=> (Stored(h) = {}))

LEMMA CoveredAfter ==
    ASSUME NEW h \in History, NEW p \in Price \cup {Null}, Covered(h, p),
           NEW a \in History, Stored(a) # {},
           Cardinality(Stored(a)) >= FULL_HISTORY => Stored(h) \subseteq Stored(a)
    PROVE  Covered(Overwrite(h, a), HighAfter(p, a))
<1>1. /\ Highest(a) \in Price
      /\ \A d \in Stored(a) : a[d] <= Highest(a) /\ a[d] \in Price
  BY HighestType, StoredType
<1>2. /\ Stored(Overwrite(h, a)) = Stored(h) \cup Stored(a)
      /\ \A d \in Stored(a) : Overwrite(h, a)[d] = a[d]
      /\ \A d \in Stored(h) \ Stored(a) : Overwrite(h, a)[d] = h[d] /\ h[d] \in Price
  BY OverwriteType, StoredType
<1>3. \A x \in Price : x \in Int /\ x # Null
  BY SyncAssumption DEF Price
<1> HIDE DEF Overwrite, Highest, Stored, Price
<1>4. ASSUME NEW d \in Stored(a)
      PROVE  HighAfter(p, a) # Null /\ HighAfter(p, a) >= a[d]
  BY <1>1, <1>3 DEF HighAfter
<1>5. ASSUME NEW d \in Stored(h) \ Stored(a)
      PROVE  HighAfter(p, a) # Null /\ HighAfter(p, a) >= h[d]
  <2>1. p # Null /\ p >= h[d] /\ p \in Price /\ h[d] \in Price
    BY <1>2 DEF Covered
  <2>2. ~ (Cardinality(Stored(a)) >= FULL_HISTORY)
    OBVIOUS
  <2> QED
    BY <2>1, <2>2, <1>1, <1>3 DEF HighAfter
<1> QED
  BY <1>2, <1>4, <1>5 DEF Covered

LEMMA SupportedAfter ==
    ASSUME NEW h \in History, NEW a \in History, Stored(a) # {}
    PROVE  Supported(Overwrite(h, a), LatestStored(a))
<1>1. /\ LatestStored(a) \in Stored(a)
      /\ LatestStored(a) \in 0..MaxSession
      /\ LatestStored(a) # 0
  BY LatestStoredType
<1>2. Overwrite(h, a) \in History /\ LatestStored(a) \in Stored(Overwrite(h, a))
  BY <1>1, OverwriteType
<1>3. LatestStored(a) <= LatestStored(Overwrite(h, a))
  BY <1>2, LatestStoredType
<1> QED
  BY <1>1, <1>2, <1>3 DEF Supported

(* What the tables will hold when the run of j ends as it stands. *)
MergedCandles(j, c) == Overwrite(candles[c], run[j].buffer[c])
MergedHigh(j, c)    == IF c \in run[j].summaries THEN run[j].high[c] ELSE high[c]
MergedSuccess(j, c) ==
    IF run[j].stage = "requesting" /\ c \in Mine(j) THEN run[j].success[c] ELSE success[c]

Agrees(h, p, s) == Covered(h, p) /\ Supported(h, s)

OneRun == \A j, k \in Job : run[j].stage # "idle" /\ run[k].stage # "idle" => j = k

(* A company that waits for its turn is as the run read it. *)
Waiting(j, c) ==
    /\ run[j].buffer[c] = NoCandles
    /\ c \notin run[j].summaries
    /\ run[j].high[c] = high[c]
    /\ run[j].success[c] = success[c]

RunAgrees(j) ==
    /\ run[j].stage = "requesting" => \A c \in DOMAIN run[j].queue : Waiting(j, c)
    /\ run[j].stage = "flushed" => \A c \in Company : run[j].buffer[c] = NoCandles
    /\ (run[j].stage # "idle" /\ crashes = 0) =>
         \A c \in Company : Agrees(MergedCandles(j, c), MergedHigh(j, c), MergedSuccess(j, c))

TablesAgree ==
    (Quiet /\ crashes = 0) => \A c \in Company : Agrees(candles[c], high[c], success[c])

TurnsInv == TypeInv /\ OneRun /\ TablesAgree /\ \A j \in Job : RunAgrees(j)

(* While one job runs, the invariant is about that job alone. *)
LEMMA OthersIdle ==
    ASSUME OneRun, NEW j \in Job, run[j].stage # "idle",
           \A k \in Job \ {j} : run'[k] = run[k],
           run'[j].stage # "idle", RunAgrees(j)'
    PROVE  OneRun' /\ TablesAgree' /\ \A k \in Job : RunAgrees(k)'
<1>1. \A k \in Job \ {j} : run'[k].stage = "idle"
  BY DEF OneRun
<1>2. OneRun'
  BY <1>1 DEF OneRun
<1>3. TablesAgree'
  BY DEF TablesAgree, Quiet
<1>4. ASSUME NEW k \in Job \ {j}  PROVE RunAgrees(k)'
  BY <1>1, <1>4 DEF RunAgrees
<1> QED
  BY <1>2, <1>3, <1>4

LEMMA TurnsStep ==
    ASSUME ~ Overlap
    PROVE  TurnsInv /\ [Next]_vars => TurnsInv'
<1> SUFFICES ASSUME TurnsInv, [Next]_vars  PROVE TurnsInv'
  OBVIOUS
<1>0. TypeInv'
  BY TypeStep DEF TurnsInv
<1> DEFINE Agreement == OneRun' /\ TablesAgree' /\ \A k \in Job : RunAgrees(k)'
<1> SUFFICES Agreement
  BY <1>0 DEF TurnsInv
<1>1. ASSUME UNCHANGED <<candles, high, success, stamps, run, crashes>>  PROVE Agreement
  <2>1. OneRun' /\ TablesAgree'
    BY <1>1 DEF TurnsInv, OneRun, TablesAgree, Quiet, Agrees, Covered, Supported
  <2>2. \A j \in Job : RunAgrees(j)'
    BY <1>1 DEF TurnsInv, RunAgrees, Waiting, Agrees, Covered, Supported, MergedCandles,
                MergedHigh, MergedSuccess, Mine, stamps
  <2> QED
    BY <2>1, <2>2
<1>2. CASE UNCHANGED vars \/ CloseSession
  BY <1>1, <1>2 DEF CloseSession, vars
<1>3. ASSUME NEW j \in Job, StartSync(j)  PROVE Agreement
  <2>1. /\ Quiet
        /\ run' = [run EXCEPT ![j] =
             [Idle EXCEPT !.stage = "requesting", !.target = latest, !.queue = Batch(j),
                          !.start = [c \in Company |->
                              IF c \in DOMAIN Batch(j) THEN StartOf(j, c) ELSE 1],
                          !.high = [c \in Company |->
                              IF c \in DOMAIN Batch(j) THEN high[c] ELSE Null],
                          !.success = [c \in Company |->
                              IF c \in DOMAIN Batch(j) THEN success[c] ELSE 0]]]
        /\ UNCHANGED <<candles, high, success, attempts, crashes>>
    <3>1. Quiet
      BY <1>3 DEF StartSync, Quiet
    <3> QED
      BY <1>3, <3>1 DEF StartSync, Idle, stamps
  <2>2. /\ run'[j].stage = "requesting"
        /\ run'[j].queue = Batch(j)
        /\ run'[j].summaries = {}
        /\ run'[j].buffer = [c \in Company |-> NoCandles]
        /\ \A c \in DOMAIN Batch(j) \cap Company :
             run'[j].high[c] = high[c] /\ run'[j].success[c] = success[c]
        /\ \A k \in Job \ {j} : run'[k] = run[k]
    <3> HIDE DEF Batch, StartOf, NoCandles
    <3> QED
      BY <2>1 DEF Idle, TurnsInv, TypeInv, TypeOK
  <2>3. DOMAIN Batch(j) \subseteq Company
    BY BatchType DEF Pending
  <2>4. Mine(j)' = {}
    <3>1. \A c \in Company : [by |-> j, of |-> c] \notin attempts
      BY <2>1, SyncAssumption DEF Quiet, TurnsInv, TypeInv, InMemory
    <3> QED
      BY <2>1, <3>1 DEF Mine
  <2>5. \A c \in DOMAIN run'[j].queue : Waiting(j, c)'
    BY <2>1, <2>2, <2>3 DEF Waiting
  <2>6. \A c \in Company : /\ MergedCandles(j, c)' = candles[c]
                           /\ MergedHigh(j, c)' = high[c]
                           /\ MergedSuccess(j, c)' = success[c]
    BY <2>1, <2>2, <2>4, NoCandlesType
       DEF MergedCandles, MergedHigh, MergedSuccess, TurnsInv, TypeInv, TypeOK
  <2>7. crashes' = 0 =>
          \A c \in Company : Agrees(MergedCandles(j, c)', MergedHigh(j, c)', MergedSuccess(j, c)')
    BY <2>1, <2>6 DEF TurnsInv, TablesAgree
  <2>8. RunAgrees(j)'
    BY <2>2, <2>5, <2>7 DEF RunAgrees, Agrees, Covered, Supported
  <2>9. \A k \in Job \ {j} : run'[k].stage = "idle"
    BY <2>1, <2>2 DEF Quiet
  <2> QED
    BY <2>2, <2>8, <2>9 DEF OneRun, TablesAgree, Quiet, RunAgrees
<1>4. ASSUME NEW j \in Job, NEW c \in Company, RequestFails(j, c)  PROVE Agreement
  <2>1. /\ Turn(j, c) /\ Stamp(j, c)
        /\ run' = [run EXCEPT ![j].queue = Rest(@, c)]
        /\ UNCHANGED <<candles, high, success, crashes>>
    BY <1>4 DEF RequestFails
  <2>2. run[j] \in Runs /\ run[j].stage = "requesting" /\ c \in DOMAIN run[j].queue
    BY <2>1 DEF Turn, TurnsInv, TypeInv, TypeOK
  <2>3. /\ run'[j].stage = "requesting"
        /\ DOMAIN run'[j].queue = DOMAIN run[j].queue \ {c}
        /\ run'[j].buffer = run[j].buffer
        /\ run'[j].summaries = run[j].summaries
        /\ run'[j].high = run[j].high
        /\ run'[j].success = run[j].success
        /\ \A k \in Job \ {j} : run'[k] = run[k]
    <3>1. DOMAIN Rest(run[j].queue, c) = DOMAIN run[j].queue \ {c}
      BY DEF Rest
    <3> HIDE DEF Rest
    <3> QED
      BY <2>1, <2>2, <3>1 DEF Runs, TurnsInv, TypeInv, TypeOK
  <2>4. Waiting(j, c) /\ \A d \in DOMAIN run[j].queue : Waiting(j, d)
    BY <2>2 DEF TurnsInv, RunAgrees
  <2>5. \A d \in DOMAIN run'[j].queue : Waiting(j, d)'
    BY <2>1, <2>3, <2>4 DEF Waiting
  <2>6. Mine(j)' = Mine(j) \cup {c}
    BY <2>1, StampStep DEF TurnsInv, Mine
  <2>7. \A d \in Company : /\ MergedCandles(j, d)' = MergedCandles(j, d)
                           /\ MergedHigh(j, d)' = MergedHigh(j, d)
                           /\ MergedSuccess(j, d)' = MergedSuccess(j, d)
    BY <2>1, <2>2, <2>3, <2>4, <2>6 DEF MergedCandles, MergedHigh, MergedSuccess, Waiting
  <2>8. RunAgrees(j)'
    BY <2>1, <2>2, <2>3, <2>5, <2>7 DEF TurnsInv, RunAgrees, Agrees, Covered, Supported
  <2> QED
    BY <2>2, <2>3, <2>8, OthersIdle DEF TurnsInv
<1>5. ASSUME NEW j \in Job, NEW c \in Company, RequestAnswered(j, c)  PROVE Agreement
  <2>1. Turn(j, c) /\ Stamp(j, c) /\ UNCHANGED <<high, success, crashes>>
    BY <1>5 DEF RequestAnswered
  <2>2. run[j] \in Runs /\ run[j].stage = "requesting" /\ c \in DOMAIN run[j].queue
    BY <2>1 DEF Turn, TurnsInv, TypeInv, TypeOK
  <2> DEFINE Answer(D, a) == [d \in Session |-> IF d \in D THEN a[d] ELSE Null]
             Received(b) ==
                 \/ /\ candles' = Flushed(Buffered(run[j], c, b))
                    /\ run' = [run EXCEPT ![j] = Emptied(Buffered(run[j], c, b))]
                 \/ /\ candles' = candles
                    /\ run' = [run EXCEPT ![j] = Buffered(run[j], c, b)]
             Full(b) == Cardinality(Stored(b)) >= FULL_HISTORY =>
                          Stored(candles[c]) \subseteq Stored(b)
  <2>3. PICK answer \in History : Stored(answer) # {} /\ Full(answer) /\ Received(answer)
    <3>1. PICK D \in AnswerSessions(j, c) : \E a \in [D -> Price] : Received(Answer(D, a))
      BY <1>5 DEF RequestAnswered
    <3>2. PICK a \in [D -> Price] : Received(Answer(D, a))
      BY <3>1
    <3>3. /\ Answer(D, a) \in History /\ Stored(Answer(D, a)) # {}
          /\ Stored(Answer(D, a)) = D
      BY AnswerType DEF TurnsInv, TypeInv
    <3>4. Full(Answer(D, a))
      BY <3>3 DEF AnswerSessions
    <3> HIDE DEF Answer, Received, Full
    <3> QED
      BY <3>2, <3>3, <3>4
  <2> DEFINE b == Buffered(run[j], c, answer)
  <2>4. /\ b \in Runs
        /\ DOMAIN b.queue = DOMAIN run[j].queue \ {c}
        /\ b.stage = "requesting"
        /\ b.summaries = run[j].summaries \cup {c}
        /\ \A d \in Company \ {c} : /\ b.buffer[d] = run[j].buffer[d]
                                   /\ b.high[d] = run[j].high[d]
                                   /\ b.success[d] = run[j].success[d]
        /\ b.buffer[c] = Overwrite(run[j].buffer[c], answer)
        /\ b.high[c] = HighAfter(run[j].high[c], answer)
        /\ b.success[c] = LatestStored(answer)
    BY <2>2, <2>3, BufferedType
  <2>5. \/ candles' = Flushed(b) /\ run' = [run EXCEPT ![j] = Emptied(b)]
        \/ candles' = candles /\ run' = [run EXCEPT ![j] = b]
    BY <2>3
  <2> HIDE DEF b
  <2>6. /\ DOMAIN run'[j].queue = DOMAIN run[j].queue \ {c}
        /\ run'[j].stage = "requesting"
        /\ run'[j].summaries = b.summaries
        /\ run'[j].high = b.high
        /\ run'[j].success = b.success
        /\ \A k \in Job \ {j} : run'[k] = run[k]
    BY <2>4, <2>5, EmptiedType DEF TurnsInv, TypeInv, TypeOK
  <2>7. \A d \in Company : candles[d] \in History /\ b.buffer[d] \in History
    BY <2>4 DEF Runs, TurnsInv, TypeInv, TypeOK
  <2>8. \A d \in Company : MergedCandles(j, d)' = Overwrite(candles[d], b.buffer[d])
    <3>1. CASE candles' = Flushed(b) /\ run' = [run EXCEPT ![j] = Emptied(b)]
      <4>1. \A d \in Company : /\ candles'[d] = Overwrite(candles[d], b.buffer[d])
                               /\ candles'[d] \in History
        BY <2>4, <3>1, FlushedType DEF TurnsInv, TypeInv
      <4>2. \A d \in Company : run'[j].buffer[d] = NoCandles
        BY <2>4, <3>1, EmptiedType DEF TurnsInv, TypeInv, TypeOK
      <4> QED
        BY <4>1, <4>2, NoCandlesType DEF MergedCandles
    <3>2. CASE candles' = candles /\ run' = [run EXCEPT ![j] = b]
      BY <3>2 DEF MergedCandles, TurnsInv, TypeInv, TypeOK
    <3> QED
      BY <2>5, <3>1, <3>2
  <2>9. Waiting(j, c) /\ \A d \in DOMAIN run[j].queue : Waiting(j, d)
    BY <2>2 DEF TurnsInv, RunAgrees
  <2>10. \A d \in DOMAIN run'[j].queue : Waiting(j, d)'
    <3> SUFFICES ASSUME NEW d \in DOMAIN run'[j].queue  PROVE Waiting(j, d)'
      OBVIOUS
    <3>1. d \in Company \ {c} /\ Waiting(j, d)
      BY <2>2, <2>6, <2>9 DEF Runs
    <3>2. run'[j].buffer[d] = NoCandles
      BY <2>4, <2>5, <3>1, EmptiedType DEF Waiting, TurnsInv, TypeInv, TypeOK
    <3> QED
      BY <2>1, <2>4, <2>6, <3>1, <3>2 DEF Waiting
  <2>11. Mine(j)' = Mine(j) \cup {c}
    BY <2>1, StampStep DEF TurnsInv, Mine
  <2>12. ASSUME crashes = 0, NEW d \in Company \ {c}
         PROVE  Agrees(MergedCandles(j, d)', MergedHigh(j, d)', MergedSuccess(j, d)')
    <3>1. /\ MergedCandles(j, d)' = MergedCandles(j, d)
          /\ MergedHigh(j, d)' = MergedHigh(j, d)
          /\ MergedSuccess(j, d)' = MergedSuccess(j, d)
      BY <2>1, <2>2, <2>4, <2>6, <2>8, <2>11 DEF MergedCandles, MergedHigh, MergedSuccess
    <3> QED
      BY <2>2, <2>12, <3>1 DEF TurnsInv, RunAgrees
  <2>13. ASSUME crashes = 0
         PROVE  Agrees(MergedCandles(j, c)', MergedHigh(j, c)', MergedSuccess(j, c)')
    <3>1. Agrees(MergedCandles(j, c), MergedHigh(j, c), MergedSuccess(j, c))
      BY <2>2, <2>13 DEF TurnsInv, RunAgrees
    <3>2. MergedCandles(j, c) = candles[c] /\ MergedHigh(j, c) = high[c]
      BY <2>7, <2>9, NoCandlesType DEF MergedCandles, MergedHigh, Waiting
    <3>3. /\ MergedHigh(j, c)' = HighAfter(high[c], answer)
          /\ MergedSuccess(j, c)' = LatestStored(answer)
      BY <2>4, <2>6, <2>9, <2>11 DEF MergedHigh, MergedSuccess, Waiting
    <3>4. MergedCandles(j, c)' = Overwrite(candles[c], answer)
      BY <2>3, <2>4, <2>7, <2>8, <2>9, OverwriteTwice, NoCandlesType DEF Waiting
    <3>5. Covered(Overwrite(candles[c], answer), HighAfter(high[c], answer))
      <4>1. candles[c] \in History /\ high[c] \in Price \cup {Null}
        BY DEF TurnsInv, TypeInv, TypeOK
      <4> QED
        BY <2>3, <3>1, <3>2, <4>1, CoveredAfter DEF Agrees
    <3>6. Supported(Overwrite(candles[c], answer), LatestStored(answer))
      BY <2>3, <2>7, SupportedAfter
    <3> QED
      BY <3>3, <3>4, <3>5, <3>6 DEF Agrees
  <2>14. RunAgrees(j)'
    BY <2>1, <2>6, <2>10, <2>12, <2>13 DEF RunAgrees, Agrees, Covered, Supported
  <2> QED
    BY <2>2, <2>6, <2>14, OthersIdle DEF TurnsInv
<1>6. ASSUME NEW j \in Job, StampAttempts(j)  PROVE Agreement
  <2>1. /\ run[j].stage = "requesting" /\ run[j] \in Runs
        /\ run' = [run EXCEPT ![j].stage = "stamped"]
        /\ success' = [c \in Company |-> IF c \in Mine(j) THEN run[j].success[c] ELSE success[c]]
        /\ UNCHANGED <<candles, high, crashes>>
    BY <1>6 DEF StampAttempts, TurnsInv, TypeInv, TypeOK
  <2>2. /\ run'[j].stage = "stamped"
        /\ run'[j].buffer = run[j].buffer
        /\ run'[j].summaries = run[j].summaries
        /\ run'[j].high = run[j].high
        /\ \A k \in Job \ {j} : run'[k] = run[k]
    BY <2>1 DEF Runs, TurnsInv, TypeInv, TypeOK
  <2>3. \A c \in Company : /\ MergedCandles(j, c)' = MergedCandles(j, c)
                           /\ MergedHigh(j, c)' = MergedHigh(j, c)
                           /\ MergedSuccess(j, c)' = MergedSuccess(j, c)
    BY <2>1, <2>2 DEF MergedCandles, MergedHigh, MergedSuccess
  <2>4. RunAgrees(j)'
    BY <2>1, <2>2, <2>3 DEF TurnsInv, RunAgrees, Agrees, Covered, Supported
  <2> QED
    BY <2>1, <2>2, <2>4, OthersIdle DEF TurnsInv
<1>7. ASSUME NEW j \in Job, FlushRows(j)  PROVE Agreement
  <2>1. /\ run[j].stage = "stamped" /\ run[j] \in Runs
        /\ candles' = Flushed(run[j])
        /\ run' = [run EXCEPT ![j] = [Emptied(run[j]) EXCEPT !.stage = "flushed"]]
        /\ UNCHANGED <<high, success, crashes>>
    BY <1>7 DEF FlushRows, TurnsInv, TypeInv, TypeOK
  <2>2. /\ run'[j].stage = "flushed"
        /\ run'[j].buffer = [c \in Company |-> NoCandles]
        /\ run'[j].summaries = run[j].summaries
        /\ run'[j].high = run[j].high
        /\ \A k \in Job \ {j} : run'[k] = run[k]
    BY <2>1, EmptiedType DEF Runs, TurnsInv, TypeInv, TypeOK
  <2>3. \A c \in Company : /\ MergedCandles(j, c)' = MergedCandles(j, c)
                           /\ MergedHigh(j, c)' = MergedHigh(j, c)
                           /\ MergedSuccess(j, c)' = MergedSuccess(j, c)
    <3>1. \A c \in Company : candles'[c] = MergedCandles(j, c) /\ candles'[c] \in History
      BY <2>1, FlushedType DEF MergedCandles, TurnsInv, TypeInv
    <3> QED
      BY <2>1, <2>2, <3>1, NoCandlesType DEF MergedCandles, MergedHigh, MergedSuccess
  <2>4. RunAgrees(j)'
    BY <2>1, <2>2, <2>3 DEF TurnsInv, RunAgrees, Agrees, Covered, Supported
  <2> QED
    BY <2>1, <2>2, <2>4, OthersIdle DEF TurnsInv
<1>8. ASSUME NEW j \in Job, SaveSummaries(j)  PROVE Agreement
  <2>1. /\ run[j].stage = "flushed"
        /\ high' = [c \in Company |-> IF c \in run[j].summaries THEN run[j].high[c] ELSE high[c]]
        /\ run' = [run EXCEPT ![j] = Idle]
        /\ UNCHANGED <<candles, success, crashes>>
    BY <1>8 DEF SaveSummaries
  <2>2. \A k \in Job : run'[k].stage = "idle"
    BY <2>1 DEF TurnsInv, OneRun, TypeInv, TypeOK, Idle
  <2>3. \A c \in Company : /\ MergedCandles(j, c) = candles[c]
                           /\ MergedHigh(j, c) = high'[c]
                           /\ MergedSuccess(j, c) = success[c]
    BY <2>1, NoCandlesType
       DEF TurnsInv, RunAgrees, TypeInv, TypeOK, MergedCandles, MergedHigh, MergedSuccess
  <2>4. TablesAgree'
    BY <2>1, <2>3 DEF TurnsInv, RunAgrees, TablesAgree, Agrees, Covered, Supported
  <2> QED
    BY <2>2, <2>4 DEF OneRun, RunAgrees
<1>9. ASSUME NEW j \in Job, Crash(j)  PROVE Agreement
  <2>1. run' = [run EXCEPT ![j] = Idle] /\ crashes' = crashes + 1 /\ run[j].stage # "idle"
    BY <1>9 DEF Crash
  <2>2. \A k \in Job : run'[k].stage = "idle"
    BY <2>1 DEF TurnsInv, OneRun, TypeInv, TypeOK, Idle
  <2>3. crashes' # 0
    BY <2>1 DEF TurnsInv, TypeInv, TypeOK
  <2> QED
    BY <2>2, <2>3 DEF OneRun, TablesAgree, RunAgrees
<1> QED
  BY <1>2, <1>3, <1>4, <1>5, <1>6, <1>7, <1>8, <1>9 DEF Next, Step

LEMMA TurnsInvariant ==
    ASSUME ~ Overlap
    PROVE  Spec => []TurnsInv
<1>1. Init => TurnsInv
  <2> SUFFICES ASSUME Init  PROVE TurnsInv
    OBVIOUS
  <2>1. TypeInv
    BY IdleType, NoCandlesType, SyncAssumption
       DEF Init, TypeInv, TypeOK, InMemory, StrictOrder, Idle
  <2>2. \A j \in Job : run[j].stage = "idle"
    BY DEF Init, Idle
  <2>3. TablesAgree
    BY NoCandlesType, LatestStoredType
       DEF Init, TablesAgree, Agrees, Covered, Supported
  <2> QED
    BY <2>1, <2>2, <2>3 DEF TurnsInv, OneRun, RunAgrees
<1> QED
  BY <1>1, TurnsStep, PTL DEF Spec

(***************************************************************************)
(* When the jobs that run sync_stock_history take turns, and no run has    *)
(* been killed, Company.three_year_high is between runs not below any      *)
(* stored candle: whatever the sizes of batch, buffer and full history.    *)
(***************************************************************************)
THEOREM HighCovers ==
    ASSUME ~ Overlap
    PROVE  Spec => []HighCoversHistory
<1>1. TurnsInv => HighCoversHistory
  BY DEF TurnsInv, TablesAgree, HighCoversHistory, Agrees, Covered
<1> QED
  BY <1>1, TurnsInvariant, PTL

(***************************************************************************)
(* Under the same assumption history_sync_last_success_session is between  *)
(* runs a session the company's candles reach, and NULL exactly when it    *)
(* has none, although it is written before the candles it speaks of.       *)
(***************************************************************************)
THEOREM SuccessStored ==
    ASSUME ~ Overlap
    PROVE  Spec => []SuccessIsStored
<1>1. TurnsInv => SuccessIsStored
  BY DEF TurnsInv, TablesAgree, SuccessIsStored, Agrees, Supported
<1> QED
  BY <1>1, TurnsInvariant, PTL
=============================================================================
