-------------------------- MODULE LiveViews_proofs --------------------------
(***************************************************************************)
(* Proofs about the quotes on their way to the pages (QuoteFeed), for any  *)
(* instruments, batches, pages, tokens and channel capacity, and about the *)
(* pages (Dashboard), for any clock, tolerances, quotes and reports.       *)
(***************************************************************************)
EXTENDS QuoteFeed, Dashboard, WellFoundedInduction, TLAPS

-----------------------------------------------------------------------------
(* The credential's half of a step keeps its types.                        *)

LEMMA GotoTypes ==
    ASSUME client \in Client, NEW call \in {"none", "renewing", "storing", "ready", "raised"}, Goto(call)
    PROVE  client' \in Client /\ client'.call = call /\ client'.fetched = client.fetched
  BY DEF Client, Goto

LEMMA IssueTypes ==
    ASSUME TokenTypeOK, Issue
    PROVE  /\ issued' \in 0..MaxTokens /\ valid' \subseteq Tokens /\ aged' \subseteq Tokens
           /\ NextToken \in Tokens
  BY MaxTokensAssumption DEF TokenTypeOK, Issue, NextToken, Tokens

LEMMA SaveTypes ==
    ASSUME NEW access \in Tokens, NEW expires \in BOOLEAN, SaveToken(access, expires)
    PROVE  token' \in {None} \cup {<<r>> : r \in Row}
  BY DEF SaveToken, Row

LEMMA NewClientType == NewClient \in Client /\ NewClient.call # "storing"
  BY MaxTokensAssumption DEF NewClient, Client

LEMMA TokenTypes ==
    ASSUME TokenTypeOK, CredentialSteps PROVE TokenTypeOK'
<1> USE DEF TokenTypeOK, tokenVars
<1>1. ASSUME NEW renewable \in BOOLEAN, Login(renewable) PROVE TokenTypeOK'
  <2>1. token' \in {None} \cup {<<r>> : r \in Row}
    BY <1>1, IssueTypes, SaveTypes DEF Login
  <2>2. QED
    BY <1>1, <2>1, IssueTypes DEF Login
<1>2. ASSUME NEW t \in Tokens, TokenAges(t) \/ TokenDies(t) PROVE TokenTypeOK'
  BY <1>2 DEF TokenAges, TokenDies
<1>3. CASE EnsureConfigured
  <2>1. CASE \/ ~client.due /\ Goto("ready")
             \/ client.due /\ token = None /\ Goto("raised")
             \/ client.due /\ token # None /\ NeedsRefresh(token[1]) /\ Goto("renewing")
    BY <1>3, <2>1, GotoTypes DEF EnsureConfigured
  <2>2. CASE /\ token # None
             /\ client' = [client EXCEPT !.call = "ready", !.access = token[1].access, !.due = FALSE]
    <3>1. token[1].access \in 0..MaxTokens
      BY <2>2 DEF Row, Tokens, None
    <3>2. client' \in Client /\ client'.call # "storing"
      BY <2>2, <3>1 DEF Client
    <3>3. QED
      BY <1>3, <3>2 DEF EnsureConfigured
  <2>3. QED
    BY <1>3, <2>1, <2>2 DEF EnsureConfigured
<1>4. CASE RenewAnswered
  <2>1. CASE Goto("raised") /\ UNCHANGED tokenVars
    BY <2>1, GotoTypes
  <2>2. ASSUME Issue, UNCHANGED token, NEW expires \in BOOLEAN,
               client' = [client EXCEPT !.call = "storing", !.fetched = NextToken, !.expires = expires]
        PROVE  TokenTypeOK'
    <3>1. NextToken \in 0..MaxTokens /\ NextToken # 0
      BY <2>2, IssueTypes DEF Tokens
    <3>2. client' \in Client /\ client'.fetched # 0
      BY <2>2, <3>1 DEF Client
    <3>3. QED
      BY <2>2, <3>2, IssueTypes
  <2>3. QED
    BY <1>4, <2>1, <2>2 DEF RenewAnswered
<1>5. CASE RenewStored
  <2>1. client.fetched \in Tokens /\ client.expires \in BOOLEAN
    BY <1>5, MaxTokensAssumption DEF RenewStored, Client, Tokens
  <2>2. token' \in {None} \cup {<<r>> : r \in Row}
    BY <1>5, <2>1, SaveTypes DEF RenewStored
  <2>3. client' \in Client /\ client'.call # "storing"
    BY <1>5, <2>1, NewClientType DEF RenewStored, Client, Tokens
  <2>4. QED
    BY <1>5, <2>2, <2>3 DEF RenewStored
<1>6. CASE RecheckDue
  BY <1>6 DEF RecheckDue, Client
<1>7. QED
  BY <1>1, <1>2, <1>3, <1>4, <1>5, <1>6 DEF CredentialSteps

-----------------------------------------------------------------------------
(* The consumers' and the channel layer's half.                            *)

LEMMA ConsumerTypes ==
    ASSUME ConsumerTypeOK, ConsumerNext PROVE ConsumerTypeOK'
<1> USE DEF ConsumerTypeOK
<1> SUFFICES ASSUME NEW c \in Clients,
                    \/ Connect(c) \/ (\E S \in Subscriptions : Receive(c, S)) \/ GroupDiscard(c)
                    \/ GroupAdd(c) \/ Subscribed(c) \/ MarketMessage(c) \/ Disconnect(c)
             PROVE  ConsumerTypeOK'
  BY DEF ConsumerNext
<1>1. CASE Connect(c)
  BY <1>1 DEF Connect
<1>2. ASSUME NEW S \in Subscriptions, Receive(c, S) PROVE ConsumerTypeOK'
  BY <1>2, ConsumerAssumption DEF Receive
<1>3. CASE GroupDiscard(c)
  BY <1>3 DEF GroupDiscard
<1>4. CASE GroupAdd(c)
  <2>1. PICK i \in request[c][1] \ joined[c] : joined' = [joined EXCEPT ![c] = @ \cup {i}]
    BY <1>4 DEF GroupAdd
  <2>2. i \in Instruments
    BY <1>4 DEF GroupAdd
  <2>3. QED
    BY <1>4, <2>1, <2>2 DEF GroupAdd
<1>5. CASE Subscribed(c)
  BY <1>5 DEF Subscribed
<1>6. CASE MarketMessage(c)
  <2>1. Head(inbox[c]) \in Tick /\ Tail(inbox[c]) \in Seq(Tick)
    BY <1>6 DEF MarketMessage
  <2>2. shown' \in [Clients -> [Instruments -> Nat]] /\ live' \in [Clients -> SUBSET Instruments]
    <3>1. CASE UNCHANGED <<shown, live>>
      BY <3>1
    <3>2. CASE /\ shown' = [shown EXCEPT ![c][Head(inbox[c]).instrument] = Head(inbox[c]).version]
               /\ live' = [live EXCEPT ![c] = @ \cup {Head(inbox[c]).instrument}]
      BY <2>1, <3>2 DEF Tick
    <3>3. QED
      BY <1>6, <3>1, <3>2 DEF MarketMessage
  <2>3. QED
    BY <1>6, <2>1, <2>2 DEF MarketMessage
<1>7. CASE Disconnect(c)
  BY <1>7 DEF Disconnect
<1>8. QED
  BY <1>1, <1>2, <1>3, <1>4, <1>5, <1>6, <1>7

LEMMA GroupSendTypes ==
    ASSUME ConsumerTypeOK, NEW i \in Instruments, NEW v \in Nat, NEW R \in SUBSET Clients,
           GroupSend(i, v, R)
    PROVE  ConsumerTypeOK'
<1>1. [instrument |-> i, version |-> v] \in Tick
  BY DEF Tick
<1>2. \A c \in Clients : inbox'[c] \in Seq(Tick)
  BY <1>1 DEF GroupSend, ConsumerTypeOK
<1>3. inbox' \in [Clients -> Seq(Tick)]
  BY <1>2 DEF GroupSend
<1>4. QED
  BY <1>3 DEF GroupSend, ConsumerTypeOK

-----------------------------------------------------------------------------
(* A batch that ends leaves nothing in hand.                               *)

WorkerTypeOK ==
    /\ worker \in {"down", "start", "sleep", "ask", "save", "send"}
    /\ batch \in DOMAIN Batches
    /\ attempt \in 1..MAX_RETRIES
    /\ AreQuotes(answer, Instruments)

LEMMA BatchEnds ==
    ASSUME WorkerTypeOK, NextBatch \/ SyncEnds
    PROVE  WorkerTypeOK' /\ answer' = NoQuotes /\ worker' # "send"
<1>1. Len(Batches) \in Nat \ {0} /\ DOMAIN Batches = 1..Len(Batches)
  BY FeedAssumption
<1>2. AreQuotes(NoQuotes, Instruments)
  BY DEF AreQuotes, NoQuotes
<1>3. QED
  BY <1>1, <1>2, FeedAssumption DEF WorkerTypeOK, NextBatch, SyncEnds

LEMMA AnswerTypes ==
    ASSUME version \in [Instruments -> Nat], NEW S \in SUBSET Instruments, NEW a \in Answers(S)
    PROVE  AreQuotes(a, S) /\ \A i \in DOMAIN a : a[i] = version[i]
  BY DEF Answers, AreQuotes

LEMMA BulkSaveTypes ==
    ASSUME quotes \in [Instruments -> Nat], newest \in [Instruments -> Nat],
           NEW rows, AreQuotes(rows, Instruments), BulkSave(rows)
    PROVE  quotes' \in [Instruments -> Nat] /\ newest' \in [Instruments -> Nat]
  BY DEF BulkSave, AreQuotes

-----------------------------------------------------------------------------
(* Type correctness.                                                       *)

LEMMA TypesInit == FeedInit => FeedTypeOK
<1> SUFFICES ASSUME FeedInit PROVE FeedTypeOK
  OBVIOUS
<1>1. TokenTypeOK
  BY MaxTokensAssumption, NewClientType DEF FeedInit, TokenInit, TokenTypeOK
<1>2. ConsumerTypeOK
  BY DEF FeedInit, ConsumerInit, ConsumerTypeOK, NothingShown
<1>3. WorkerTypeOK /\ bad \subseteq DOMAIN Batches /\ compact \in BOOLEAN
  BY FeedAssumption DEF FeedInit, WorkerInit, WorkerTypeOK, AreQuotes, NoQuotes
<1>4. eod.step \in {"none", "asked", "saved"} /\ AreQuotes(eod.rows, Instruments)
  BY DEF FeedInit, WorkerInit, NoRun, AreQuotes, NoQuotes
<1>5. refresh \in [Clients -> Seq([Indices -> Nat])] /\ faults \in 0..MaxFaults
  BY FeedAssumption DEF FeedInit, WorkerInit
<1>6. QED
  BY <1>1, <1>2, <1>3, <1>4, <1>5 DEF FeedInit, WorkerInit, FeedTypeOK, WorkerTypeOK

(* What the parts of FeedTypeOK that an action leaves alone are.           *)
TableTypeOK ==
    /\ quotes \in [Instruments -> Nat] /\ newest \in [Instruments -> Nat]
    /\ snapshots \in [Instruments -> Nat]
RestTypeOK ==
    /\ version \in [Instruments -> Nat] /\ bad \subseteq DOMAIN Batches /\ compact \in BOOLEAN
    /\ eod.step \in {"none", "asked", "saved"} /\ AreQuotes(eod.rows, Instruments)
    /\ refresh \in [Clients -> Seq([Indices -> Nat])]
    /\ faults \in 0..MaxFaults

LEMMA TypeParts ==
    FeedTypeOK <=> TokenTypeOK /\ ConsumerTypeOK /\ WorkerTypeOK /\ TableTypeOK /\ RestTypeOK
  BY DEF FeedTypeOK, WorkerTypeOK, TableTypeOK, RestTypeOK

LEMMA TypesStep == FeedTypeOK /\ [FeedNext]_vars => FeedTypeOK'
<1> SUFFICES ASSUME FeedTypeOK, [FeedNext]_vars PROVE FeedTypeOK'
  OBVIOUS
<1>0. /\ TokenTypeOK /\ ConsumerTypeOK /\ WorkerTypeOK /\ TableTypeOK /\ RestTypeOK
      /\ UNCHANGED <<tokenVars, client>> => TokenTypeOK'
      /\ UNCHANGED consumerVars => ConsumerTypeOK'
      /\ UNCHANGED workerVars => WorkerTypeOK'
      /\ UNCHANGED tables => TableTypeOK'
      /\ UNCHANGED <<version, settings, eod, refresh, faults>> => RestTypeOK'
  <2>1. TokenTypeOK /\ ConsumerTypeOK /\ WorkerTypeOK /\ TableTypeOK /\ RestTypeOK
    BY TypeParts
  <2>2. UNCHANGED <<tokenVars, client>> => TokenTypeOK'
    BY <2>1 DEF TokenTypeOK, tokenVars
  <2>3. UNCHANGED consumerVars => ConsumerTypeOK'
    BY <2>1 DEF ConsumerTypeOK, consumerVars
  <2>4. UNCHANGED workerVars => WorkerTypeOK'
    BY <2>1 DEF WorkerTypeOK, workerVars
  <2>5. UNCHANGED tables => TableTypeOK'
    BY <2>1 DEF TableTypeOK, tables
  <2>6. UNCHANGED <<version, settings, eod, refresh, faults>> => RestTypeOK'
    BY <2>1 DEF RestTypeOK, settings
  <2>7. QED
    BY <2>1, <2>2, <2>3, <2>4, <2>5, <2>6
<1>G. ASSUME NEW call \in {"none", "renewing", "ready", "raised"}, Goto(call), UNCHANGED tokenVars
      PROVE  TokenTypeOK'
  BY <1>0, <1>G, GotoTypes DEF TokenTypeOK, tokenVars
<1>P. SUFFICES TokenTypeOK' /\ ConsumerTypeOK' /\ WorkerTypeOK' /\ TableTypeOK' /\ RestTypeOK'
  BY TypeParts DEF FeedTypeOK, WorkerTypeOK, TableTypeOK, RestTypeOK
<1> DEFINE Good == TokenTypeOK' /\ ConsumerTypeOK' /\ WorkerTypeOK' /\ TableTypeOK' /\ RestTypeOK'
<1>1. CASE CredentialSteps
  BY <1>0, <1>1, TokenTypes DEF CredentialSteps, feedVars
<1>2. CASE ConsumerNext /\ UNCHANGED <<tokenVars, client, feedVars>>
  BY <1>0, <1>2, ConsumerTypes DEF feedVars
<1>3. ASSUME NEW i \in Instruments, QuoteMoves(i) PROVE Good
  <2>1. RestTypeOK'
    BY <1>0, <1>3 DEF QuoteMoves, RestTypeOK, settings
  <2>2. QED
    BY <1>0, <1>3, <2>1 DEF QuoteMoves
<1>4. ASSUME NEW i \in Instruments, NEW R \in SUBSET Clients, Send(i, R) PROVE Good
  <2>1. ConsumerTypeOK'
    BY <1>0, <1>4, GroupSendTypes DEF Send, WorkerTypeOK, AreQuotes
  <2>2. WorkerTypeOK'
    <3>1. CASE NextBatch
      BY <3>1, <1>0, BatchEnds
    <3>2. CASE /\ answer' = [j \in DOMAIN answer \ {i} |-> answer[j]]
               /\ UNCHANGED <<worker, batch, attempt>>
      BY <3>2, <1>0 DEF WorkerTypeOK, AreQuotes
    <3>3. QED
      BY <1>4, <3>1, <3>2 DEF Send
  <2>3. QED
    BY <1>0, <1>4, <2>1, <2>2 DEF Send
<1>5. CASE Start
  <2>1. TokenTypeOK'
    BY <1>0, <1>5, NewClientType DEF Start, TokenTypeOK, tokenVars
  <2>2. WorkerTypeOK'
    BY <1>0, <1>5 DEF Start, WorkerTypeOK
  <2>3. QED
    BY <1>0, <1>5, <2>1, <2>2 DEF Start
<1>6. CASE Started
  <2>1. TokenTypeOK'
    BY <1>G, <1>6 DEF Started
  <2>2. WorkerTypeOK'
    BY <1>0, <1>6 DEF Started, WorkerTypeOK
  <2>3. QED
    BY <1>0, <1>6, <2>1, <2>2 DEF Started
<1>7. CASE Wake
  <2>1. WorkerTypeOK'
    BY <1>0, <1>7 DEF Wake, WorkerTypeOK
  <2>2. QED
    BY <1>0, <1>7, <2>1 DEF Wake
<1>8. CASE RequestFails
  <2>1. TokenTypeOK'
    BY <1>G, <1>8 DEF RequestFails
  <2>2. WorkerTypeOK'
    <3>1. CASE BatchFails
      BY <3>1, <1>0, BatchEnds DEF BatchFails
    <3>2. CASE /\ attempt < MAX_RETRIES /\ attempt' = attempt + 1
               /\ UNCHANGED <<worker, batch, answer>>
      BY <3>2, <1>0, FeedAssumption DEF WorkerTypeOK
    <3>3. QED
      BY <1>8, <3>1, <3>2 DEF RequestFails
  <2>3. QED
    BY <1>0, <1>8, <2>1, <2>2 DEF RequestFails
<1>9. CASE Answered
  <2>1. TokenTypeOK'
    BY <1>G, <1>9 DEF Answered
  <2>2. WorkerTypeOK'
    <3>1. CASE NextBatch
      BY <3>1, <1>0, BatchEnds
    <3>2. ASSUME NEW a \in Answers(Batches[batch]), worker' = "save", answer' = a,
                 UNCHANGED <<batch, attempt>>
          PROVE  WorkerTypeOK'
      <4>1. Batches[batch] \in SUBSET Instruments
        BY <1>0, FeedAssumption DEF WorkerTypeOK
      <4>2. AreQuotes(a, Instruments)
        BY <4>1, <1>0, AnswerTypes DEF AreQuotes, RestTypeOK
      <4>3. QED
        BY <3>2, <4>2, <1>0 DEF WorkerTypeOK
    <3>3. QED
      BY <1>9, <3>1, <3>2 DEF Answered
  <2>3. QED
    BY <1>0, <1>9, <2>1, <2>2 DEF Answered
<1>10. CASE Save
  <2>1. TableTypeOK'
    BY <1>0, <1>10, BulkSaveTypes DEF Save, TableTypeOK, WorkerTypeOK
  <2>2. WorkerTypeOK'
    BY <1>0, <1>10 DEF Save, WorkerTypeOK
  <2>3. QED
    BY <1>0, <1>10, <2>1, <2>2 DEF Save
<1>11. CASE WriteFails
  <2>1. WorkerTypeOK'
    BY <1>0, <1>11, BatchEnds DEF WriteFails
  <2>2. RestTypeOK'
    BY <1>0, <1>11, FeedAssumption DEF WriteFails, RestTypeOK, settings
  <2>3. QED
    BY <1>0, <1>11, <2>1, <2>2 DEF WriteFails
<1>12. CASE Crash
  <2>1. WorkerTypeOK'
    BY <1>0, <1>12, FeedAssumption DEF Crash, WorkerTypeOK, AreQuotes, NoQuotes
  <2>2. RestTypeOK'
    BY <1>0, <1>12, FeedAssumption DEF Crash, RestTypeOK, settings
  <2>3. TokenTypeOK'
    BY <1>0, <1>12, NewClientType DEF Crash, TokenTypeOK, tokenVars
  <2>4. QED
    BY <1>0, <1>12, <2>1, <2>2, <2>3 DEF Crash
<1>13. CASE EodAnswered
  <2>1. PICK a \in Answers(Instruments \ DOMAIN eod.rows) :
           eod' = [step |-> "asked", rows |-> [i \in DOMAIN eod.rows \cup DOMAIN a |->
                                                 IF i \in DOMAIN a THEN a[i] ELSE eod.rows[i]]]
    BY <1>13 DEF EodAnswered
  <2>2. AreQuotes(a, Instruments) /\ AreQuotes(eod.rows, Instruments)
    BY <1>0, AnswerTypes DEF RestTypeOK, AreQuotes
  <2>3. eod'.step = "asked" /\ AreQuotes(eod'.rows, Instruments)
    BY <2>1, <2>2 DEF AreQuotes
  <2>4. RestTypeOK'
    BY <1>0, <1>13, <2>3 DEF EodAnswered, EodAt, OutsideEod, RestTypeOK, settings
  <2>5. QED
    BY <1>0, <1>13, <2>4 DEF EodAnswered, EodAt, OutsideEod
<1>14. CASE EodSavesStocks \/ EodSavesIndices \/ EodEnds
  <2>1. AreQuotes(NoQuotes, Instruments)
    BY DEF AreQuotes, NoQuotes
  <2>2. UNCHANGED OutsideEod
    BY <1>14 DEF EodSavesStocks, EodSavesIndices, EodEnds, EodAt
  <2>3. eod'.step \in {"none", "saved"} /\ AreQuotes(eod'.rows, Instruments)
    BY <1>0, <1>14, <2>1 DEF EodSavesStocks, EodSavesIndices, EodEnds, NoRun, RestTypeOK
  <2>4. RestTypeOK'
    BY <1>0, <2>2, <2>3 DEF OutsideEod, RestTypeOK, settings
  <2>5. TableTypeOK'
    <3>1. CASE EodSavesStocks
      BY <1>0, <3>1 DEF EodSavesStocks, TableTypeOK, RestTypeOK, AreQuotes
    <3>2. CASE EodSavesIndices
      <4>1. AreQuotes([i \in DOMAIN eod.rows \cap Indices |-> eod.rows[i]], Instruments)
        BY <1>0 DEF RestTypeOK, AreQuotes
      <4>2. QED
        BY <1>0, <3>2, <4>1, BulkSaveTypes DEF EodSavesIndices, TableTypeOK
    <3>3. CASE EodEnds
      BY <1>0, <3>3 DEF EodEnds
    <3>4. QED
      BY <1>14, <3>1, <3>2, <3>3
  <2>6. QED
    BY <1>0, <2>2, <2>4, <2>5 DEF OutsideEod
<1>15. ASSUME NEW c \in Clients, PageLoads(c) PROVE Good
  <2>1. Rendered \in [Instruments -> Nat]
    BY <1>0 DEF Rendered, TableTypeOK
  <2>2. ConsumerTypeOK'
    BY <1>0, <1>15, <2>1 DEF PageLoads, Untouched, ConsumerTypeOK
  <2>3. QED
    BY <1>0, <1>15, <2>2 DEF PageLoads, Untouched
<1>16. ASSUME NEW c \in Clients, RestRead(c) PROVE Good
  <2>1. [i \in Indices |-> quotes[i]] \in [Indices -> Nat]
    BY <1>0, FeedAssumption DEF TableTypeOK
  <2>2. RestTypeOK'
    BY <1>0, <1>16, <2>1 DEF RestRead, Untouched, RestTypeOK, settings
  <2>3. ConsumerTypeOK'
    BY <1>0, <1>16 DEF RestRead, Untouched, ConsumerTypeOK
  <2>4. QED
    BY <1>0, <1>16, <2>2, <2>3 DEF RestRead, Untouched
<1>17. ASSUME NEW c \in Clients, RestArrives(c) PROVE Good
  <2>1. refresh[c] \in Seq([Indices -> Nat]) /\ refresh[c] # <<>>
    BY <1>0, <1>17 DEF RestTypeOK, RestArrives
  <2>2. refresh[c][1] \in [Indices -> Nat]
    BY <2>1
  <2>3. ConsumerTypeOK'
    <3>1. [i \in Instruments |-> IF i \in Indices THEN refresh[c][1][i] ELSE shown[c][i]]
             \in [Instruments -> Nat]
      BY <1>0, <2>2 DEF ConsumerTypeOK
    <3>2. shown' \in [Clients -> [Instruments -> Nat]]
      BY <1>0, <1>17, <3>1 DEF RestArrives, ConsumerTypeOK
    <3>3. QED
      BY <1>0, <1>17, <3>2 DEF RestArrives, Untouched, ConsumerTypeOK
  <2>4. RestTypeOK'
    BY <1>0, <1>17 DEF RestArrives, Untouched, RestTypeOK, settings
  <2>5. QED
    BY <1>0, <1>17, <2>3, <2>4 DEF RestArrives, Untouched
<1>18. CASE UNCHANGED vars
  BY <1>0, <1>18 DEF vars, feedVars
<1>19. QED
  BY <1>1, <1>2, <1>3, <1>4, <1>5, <1>6, <1>7, <1>8, <1>9, <1>10, <1>11, <1>12, <1>13, <1>14,
     <1>15, <1>16, <1>17, <1>18 DEF FeedNext

(* Every component of the feed keeps its types.                            *)
THEOREM TypeCorrect == FeedSpec => []FeedTypeOK
  BY TypesInit, TypesStep, PTL DEF FeedSpec

-----------------------------------------------------------------------------
(* Ticks follow the table.                                                 *)

(* The table and what the worker has in hand are never ahead of the        *)
(* provider; a stock's row, which the worker alone writes, never goes      *)
(* back.                                                                   *)
RowInv(i) ==
    /\ quotes[i] <= newest[i] /\ newest[i] <= version[i]
    /\ i \notin Indices => quotes[i] = newest[i]
    /\ i \in DOMAIN eod.rows => eod.rows[i] <= version[i]
    /\ i \in DOMAIN answer =>
         /\ answer[i] <= version[i]
         /\ i \notin Indices => newest[i] <= answer[i]
         /\ worker = "send" => answer[i] <= newest[i]

(* A page and its channel; what the worker has in hand is not older.       *)
PageInv(c, i) ==
    /\ \A j, k \in 1..Len(inbox[c]) :
          j < k /\ inbox[c][j].instrument = i /\ inbox[c][k].instrument = i
            => inbox[c][j].version <= inbox[c][k].version
    /\ \A k \in 1..Len(inbox[c]) :
          inbox[c][k].instrument = i =>
              /\ inbox[c][k].version <= newest[i]
              /\ i \in DOMAIN answer => inbox[c][k].version <= answer[i]
              /\ Ordered(c, i) => shown[c][i] <= inbox[c][k].version
    /\ Ordered(c, i) => shown[c][i] <= newest[i]

(* A page that is not connected has nothing on its way.                    *)
OfflineInv ==
    \A c \in Clients \ online : joined[c] = {} /\ request[c] = <<>> /\ inbox[c] = <<>>

TickInv ==
    /\ FeedTypeOK
    /\ OfflineInv
    /\ \A i \in Instruments : RowInv(i)
    /\ \A c \in Clients, i \in Instruments : PageInv(c, i)

LEMMA TickInvImplies == TickInv => TicksFollowTable
<1> SUFFICES ASSUME TickInv, NEW c \in Clients, NEW i \in Instruments
             PROVE  LET Ticks == {k \in DOMAIN inbox[c] : inbox[c][k].instrument = i}
                    IN  /\ \A j, k \in Ticks : j < k => inbox[c][j].version <= inbox[c][k].version
                        /\ \A k \in Ticks : inbox[c][k].version <= newest[i]
                        /\ Ordered(c, i) =>
                              /\ shown[c][i] <= newest[i]
                              /\ \A k \in Ticks : shown[c][i] <= inbox[c][k].version
  BY DEF TicksFollowTable
<1>1. DOMAIN inbox[c] = 1..Len(inbox[c])
  BY DEF TickInv, FeedTypeOK, ConsumerTypeOK
<1>2. PageInv(c, i)
  BY DEF TickInv
<1>3. QED
  BY <1>1, <1>2 DEF PageInv

LEMMA TickInvInit == FeedInit => TickInv
<1> SUFFICES ASSUME FeedInit PROVE TickInv
  OBVIOUS
<1>1. FeedTypeOK
  BY TypesInit
<1>2. OfflineInv
  BY DEF FeedInit, ConsumerInit, OfflineInv
<1>3. ASSUME NEW i \in Instruments PROVE RowInv(i)
  BY DEF FeedInit, WorkerInit, RowInv, NoRun, NoQuotes
<1>4. ASSUME NEW c \in Clients, NEW i \in Instruments PROVE PageInv(c, i)
  BY DEF FeedInit, ConsumerInit, WorkerInit, PageInv, NothingShown
<1>5. QED
  BY <1>1, <1>2, <1>3, <1>4 DEF TickInv

(* What an action that writes neither the table nor the answer keeps.      *)
LEMMA RowsStand ==
    ASSUME TickInv, UNCHANGED <<quotes, newest>>,
           \A i \in Instruments : version[i] <= version'[i],
           version' \in [Instruments -> Nat],
           eod'.rows = eod.rows \/ eod' = NoRun,
           \/ UNCHANGED answer /\ (worker' = "send" => worker = "send")
           \/ answer' = NoQuotes
    PROVE  \A i \in Instruments : RowInv(i)'
<1> SUFFICES ASSUME NEW i \in Instruments PROVE RowInv(i)'
  OBVIOUS
<1>1. RowInv(i) /\ quotes[i] \in Nat /\ newest[i] \in Nat /\ version[i] \in Nat /\ version'[i] \in Nat
  BY DEF TickInv, FeedTypeOK
<1>2. /\ i \in DOMAIN answer => answer[i] \in Nat
      /\ i \in DOMAIN eod.rows => eod.rows[i] \in Nat
  BY DEF TickInv, FeedTypeOK, AreQuotes
<1>3. DOMAIN NoQuotes = {} /\ NoRun.rows = NoQuotes
  BY DEF NoQuotes, NoRun
<1>4. version[i] <= version'[i]
  OBVIOUS
<1>5. i \in DOMAIN eod'.rows => i \in DOMAIN eod.rows /\ eod'.rows[i] = eod.rows[i]
  BY <1>3
<1>6. i \in DOMAIN answer' => /\ UNCHANGED answer /\ i \in DOMAIN answer
                              /\ worker' = "send" => worker = "send"
  BY <1>3
<1>7. QED
  BY <1>1, <1>2, <1>4, <1>5, <1>6 DEF RowInv

LEMMA PagesStand ==
    ASSUME TickInv, UNCHANGED <<newest, inbox, shown, live, compact>>,
           UNCHANGED answer \/ answer' = NoQuotes
    PROVE  \A c \in Clients, i \in Instruments : PageInv(c, i)'
<1> SUFFICES ASSUME NEW c \in Clients, NEW i \in Instruments PROVE PageInv(c, i)'
  OBVIOUS
<1>1. PageInv(c, i)
  BY DEF TickInv
<1>2. i \in DOMAIN answer' => i \in DOMAIN answer /\ answer'[i] = answer[i]
  BY DEF NoQuotes
<1>3. QED
  BY <1>1, <1>2 DEF PageInv, Ordered

(* Rows that are not older than the row of a stock, nor newer than the     *)
(* provider.                                                               *)
LEMMA SavedRows ==
    ASSUME TickInv, NEW rows, AreQuotes(rows, Instruments), BulkSave(rows), NEW i \in Instruments,
           i \in DOMAIN rows => rows[i] <= version[i] /\ (i \notin Indices => newest[i] <= rows[i])
    PROVE  /\ quotes'[i] \in Nat /\ newest'[i] \in Nat
           /\ quotes'[i] <= newest'[i] /\ newest'[i] <= version[i] /\ newest[i] <= newest'[i]
           /\ i \notin Indices => quotes'[i] = newest'[i]
           /\ i \in DOMAIN rows => rows[i] <= newest'[i]
           /\ i \notin DOMAIN rows => newest'[i] = newest[i]
           /\ i \in DOMAIN rows /\ i \notin Indices => newest'[i] = rows[i]
<1>1. RowInv(i) /\ quotes[i] \in Nat /\ newest[i] \in Nat /\ version[i] \in Nat
  BY DEF TickInv, FeedTypeOK
<1>2. i \in DOMAIN rows => rows[i] \in Nat
  BY DEF AreQuotes
<1>3. /\ quotes'[i] = IF i \in DOMAIN rows THEN rows[i] ELSE quotes[i]
      /\ newest'[i] = IF i \in DOMAIN rows /\ rows[i] > newest[i] THEN rows[i] ELSE newest[i]
  BY DEF BulkSave
<1>4. QED
  BY <1>1, <1>2, <1>3 DEF RowInv

(* Pages when the table's rows become newer.                               *)
LEMMA PagesUnderSave ==
    ASSUME TickInv, UNCHANGED <<inbox, shown, live, compact, answer>>,
           \A i \in Instruments : newest'[i] \in Nat /\ newest[i] <= newest'[i]
    PROVE  \A c \in Clients, i \in Instruments : PageInv(c, i)'
<1> SUFFICES ASSUME NEW c \in Clients, NEW i \in Instruments PROVE PageInv(c, i)'
  OBVIOUS
<1>1. PageInv(c, i) /\ newest[i] \in Nat /\ newest'[i] \in Nat /\ newest[i] <= newest'[i]
  BY DEF TickInv, FeedTypeOK
<1>2. shown[c][i] \in Nat /\ \A k \in 1..Len(inbox[c]) : inbox[c][k].version \in Nat
  <2>1. inbox[c] \in Seq(Tick) /\ shown[c] \in [Instruments -> Nat]
    BY DEF TickInv, FeedTypeOK, ConsumerTypeOK
  <2>2. \A k \in 1..Len(inbox[c]) : inbox[c][k] \in Tick
    BY <2>1
  <2>3. QED
    BY <2>1, <2>2 DEF Tick
<1>3. QED
  BY <1>1, <1>2 DEF PageInv, Ordered

-----------------------------------------------------------------------------
(* A step of a consumer.                                                   *)

LEMMA OfflineStep ==
    ASSUME TickInv, ConsumerNext PROVE OfflineInv'
<1>1. OfflineInv /\ ConsumerTypeOK
  BY DEF TickInv, FeedTypeOK
<1> SUFFICES ASSUME NEW c \in Clients,
                    \/ Connect(c) \/ (\E S \in Subscriptions : Receive(c, S)) \/ GroupDiscard(c)
                    \/ GroupAdd(c) \/ Subscribed(c) \/ MarketMessage(c) \/ Disconnect(c)
             PROVE  OfflineInv'
  BY DEF ConsumerNext
<1>2. CASE Connect(c)
  BY <1>1, <1>2 DEF Connect, OfflineInv
<1>3. CASE \E S \in Subscriptions : Receive(c, S)
  BY <1>1, <1>3 DEF Receive, OfflineInv, ConsumerTypeOK
<1>4. CASE GroupDiscard(c)
  BY <1>1, <1>4 DEF GroupDiscard, OfflineInv, ConsumerTypeOK
<1>5. CASE GroupAdd(c)
  BY <1>1, <1>5 DEF GroupAdd, OfflineInv, ConsumerTypeOK
<1>6. CASE Subscribed(c)
  BY <1>1, <1>6 DEF Subscribed, OfflineInv, ConsumerTypeOK
<1>7. CASE MarketMessage(c)
  BY <1>1, <1>7 DEF MarketMessage, OfflineInv, ConsumerTypeOK
<1>8. CASE Disconnect(c)
  BY <1>1, <1>8 DEF Disconnect, OfflineInv, ConsumerTypeOK
<1>9. QED
  BY <1>2, <1>3, <1>4, <1>5, <1>6, <1>7, <1>8

(* The oldest tick is shown, or passed over.                               *)
LEMMA MessageShown ==
    ASSUME TickInv, UNCHANGED <<newest, answer, compact>>, NEW d \in Clients, MarketMessage(d)
    PROVE  \A c \in Clients, i \in Instruments : PageInv(c, i)'
<1> SUFFICES ASSUME NEW c \in Clients, NEW i \in Instruments PROVE PageInv(c, i)'
  OBVIOUS
<1>1. PageInv(c, i) /\ ConsumerTypeOK
  BY DEF TickInv, FeedTypeOK
<1>2. CASE c # d
  <2>1. inbox'[c] = inbox[c] /\ shown'[c] = shown[c] /\ live'[c] = live[c]
    BY <1>1, <1>2 DEF MarketMessage, ConsumerTypeOK
  <2>2. QED
    BY <1>1, <2>1 DEF PageInv, Ordered
<1>3. CASE c = d
  <2> DEFINE old == inbox[c]
             new == inbox'[c]
  <2>1. old \in Seq(Tick) /\ old # <<>> /\ new = Tail(old)
    BY <1>1, <1>3 DEF MarketMessage, ConsumerTypeOK
  <2>2. /\ Len(old) \in Nat \ {0} /\ Len(new) = Len(old) - 1
        /\ \A k \in 1..Len(new) : k + 1 \in 1..Len(old) /\ new[k] = old[k + 1]
        /\ Head(old) = old[1] /\ 1 \in 1..Len(old)
        /\ \A k \in 1..Len(old) : old[k] \in Tick
    BY <2>1
  <2>3. \/ shown'[c][i] = shown[c][i] /\ Ordered(c, i)' = Ordered(c, i)
        \/ old[1].instrument = i /\ shown'[c][i] = old[1].version
    <3>1. CASE UNCHANGED <<shown, live>>
      BY <3>1 DEF Ordered
    <3>2. CASE /\ shown' = [shown EXCEPT ![d][Head(inbox[d]).instrument] = Head(inbox[d]).version]
               /\ live' = [live EXCEPT ![d] = @ \cup {Head(inbox[d]).instrument}]
      <4>1. /\ shown'[c] = [shown[c] EXCEPT ![old[1].instrument] = old[1].version]
            /\ live'[c] = live[c] \cup {old[1].instrument}
        BY <1>1, <1>3, <2>2, <3>2 DEF ConsumerTypeOK
      <4>2. shown[c] \in [Instruments -> Nat]
        BY <1>1 DEF ConsumerTypeOK
      <4>3. QED
        BY <4>1, <4>2 DEF Ordered
    <3>3. QED
      BY <1>3, <3>1, <3>2 DEF MarketMessage
  <2>4. \A j, k \in 1..Len(new) :
            j < k /\ new[j].instrument = i /\ new[k].instrument = i => new[j].version <= new[k].version
    <3> SUFFICES ASSUME NEW j \in 1..Len(new), NEW k \in 1..Len(new), j < k,
                        new[j].instrument = i, new[k].instrument = i
                 PROVE  new[j].version <= new[k].version
      OBVIOUS
    <3>1. /\ j + 1 \in 1..Len(old) /\ k + 1 \in 1..Len(old) /\ j + 1 < k + 1
          /\ new[j] = old[j + 1] /\ new[k] = old[k + 1]
      BY <2>2
    <3>2. QED
      BY <1>1, <3>1 DEF PageInv
  <2>5. \A k \in 1..Len(new) :
            new[k].instrument = i =>
                /\ new[k].version <= newest[i]
                /\ i \in DOMAIN answer => new[k].version <= answer[i]
                /\ Ordered(c, i)' => shown'[c][i] <= new[k].version
    BY <1>1, <2>2, <2>3 DEF PageInv
  <2>6. Ordered(c, i)' => shown'[c][i] <= newest[i]
    BY <1>1, <2>2, <2>3 DEF PageInv
  <2>7. QED
    BY <2>4, <2>5, <2>6 DEF PageInv
<1>4. QED
  BY <1>2, <1>3

LEMMA ConsumerPages ==
    ASSUME TickInv, ConsumerNext, UNCHANGED <<newest, answer, compact>>
    PROVE  \A c \in Clients, i \in Instruments : PageInv(c, i)'
<1> SUFFICES ASSUME NEW c \in Clients,
                    \/ Connect(c) \/ (\E S \in Subscriptions : Receive(c, S)) \/ GroupDiscard(c)
                    \/ GroupAdd(c) \/ Subscribed(c) \/ MarketMessage(c) \/ Disconnect(c)
             PROVE  \A d \in Clients, i \in Instruments : PageInv(d, i)'
  BY DEF ConsumerNext
<1>1. CASE \/ Connect(c) \/ (\E S \in Subscriptions : Receive(c, S)) \/ GroupDiscard(c)
           \/ GroupAdd(c) \/ Subscribed(c)
  BY <1>1, PagesStand DEF Connect, Receive, GroupDiscard, GroupAdd, Subscribed
<1>2. CASE MarketMessage(c)
  BY <1>2, MessageShown
<1>3. CASE Disconnect(c)
  <2> SUFFICES ASSUME NEW d \in Clients, NEW i \in Instruments PROVE PageInv(d, i)'
    OBVIOUS
  <2>1. PageInv(d, i) /\ ConsumerTypeOK
    BY DEF TickInv, FeedTypeOK
  <2>2. UNCHANGED <<shown, live>> /\ (inbox'[d] = inbox[d] \/ inbox'[d] = <<>>)
    BY <1>3, <2>1 DEF Disconnect, ConsumerTypeOK
  <2>3. QED
    BY <2>1, <2>2 DEF PageInv, Ordered
<1>4. QED
  BY <1>1, <1>2, <1>3

-----------------------------------------------------------------------------
(* A tick is sent.                                                         *)

LEMMA SendPages ==
    ASSUME TickInv, NEW s \in Instruments, NEW R \in SUBSET Clients, Send(s, R)
    PROVE  /\ \A c \in Clients, i \in Instruments : PageInv(c, i)'
           /\ OfflineInv'
           /\ \A i \in Instruments : RowInv(i)'
<1>1. ConsumerTypeOK /\ OfflineInv
  BY DEF TickInv, FeedTypeOK
<1>2. s \in DOMAIN answer /\ answer[s] \in Nat /\ worker = "send" /\ UNCHANGED <<quotes, newest, version, eod>>
  BY DEF Send, TickInv, FeedTypeOK, AreQuotes, tables
<1>3. \A i \in Instruments :
         i \in DOMAIN answer' => i \in DOMAIN answer /\ i # s /\ answer'[i] = answer[i]
  BY DEF Send, NextBatch, NoQuotes
<1>4. \A c \in R : s \in joined[c]
  BY DEF Send, GroupSend
<1>5. ASSUME NEW c \in Clients, NEW i \in Instruments PROVE PageInv(c, i)'
  <2>1. PageInv(c, i) /\ PageInv(c, s) /\ RowInv(s)
    BY DEF TickInv
  <2>2. shown' = shown /\ Ordered(c, i)' = Ordered(c, i)
    BY DEF Send, GroupSend, settings, Ordered
  <2>3. CASE c \notin R
    <3>1. inbox'[c] = inbox[c]
      BY <2>3 DEF Send, GroupSend
    <3>2. QED
      BY <1>2, <1>3, <2>1, <2>2, <3>1 DEF PageInv
  <2>4. CASE c \in R
    <3> DEFINE old == inbox[c]
               new == inbox'[c]
               tick == [instrument |-> s, version |-> answer[s]]
    <3>1. old \in Seq(Tick) /\ new = Append(old, tick)
      BY <1>1, <2>4 DEF Send, GroupSend, ConsumerTypeOK
    <3>2. tick.instrument = s /\ tick.version = answer[s]
      OBVIOUS
    <3>3. /\ Len(old) \in Nat /\ Len(new) = Len(old) + 1 /\ new[Len(old) + 1] = tick
          /\ \A k \in 1..Len(old) : new[k] = old[k]
      BY <3>1
    <3>4. \A k \in 1..Len(new) : k \in 1..Len(old) \/ k = Len(old) + 1
      BY <3>3
    <3>5. \A j, k \in 1..Len(new) :
            j < k /\ new[j].instrument = i /\ new[k].instrument = i => new[j].version <= new[k].version
      <4> SUFFICES ASSUME NEW j \in 1..Len(new), NEW k \in 1..Len(new), j < k,
                          new[j].instrument = i, new[k].instrument = i
                   PROVE  new[j].version <= new[k].version
        OBVIOUS
      <4>1. j \in 1..Len(old) /\ new[j] = old[j]
        BY <3>3, <3>4
      <4>2. CASE k \in 1..Len(old)
        BY <4>1, <4>2, <3>3, <2>1 DEF PageInv
      <4>3. CASE k = Len(old) + 1
        BY <4>1, <4>3, <3>2, <3>3, <2>1, <1>2 DEF PageInv
      <4>4. QED
        BY <4>2, <4>3, <3>4
    <3>6. answer[s] <= newest[s] /\ (s \notin Indices => answer[s] = newest[s])
      <4>1. newest[s] \in Nat
        BY DEF TickInv, FeedTypeOK
      <4>2. QED
        BY <1>2, <2>1, <4>1 DEF RowInv
    <3>7. ASSUME NEW k \in 1..Len(new), new[k].instrument = i
          PROVE  /\ new[k].version <= newest[i]
                 /\ i \in DOMAIN answer' => new[k].version <= answer'[i]
                 /\ Ordered(c, i) => shown[c][i] <= new[k].version
      <4>1. CASE k \in 1..Len(old)
        BY <3>7, <4>1, <3>3, <2>1, <1>3 DEF PageInv
      <4>2. CASE k = Len(old) + 1
        BY <3>7, <4>2, <3>2, <3>3, <3>6, <2>1, <1>3 DEF PageInv, Ordered
      <4>3. QED
        BY <4>1, <4>2, <3>4
    <3>8. QED
      BY <1>2, <2>1, <2>2, <3>5, <3>7 DEF PageInv
  <2>5. QED
    BY <2>3, <2>4
<1>6. OfflineInv'
  BY <1>1, <1>4 DEF Send, GroupSend, OfflineInv
<1>7. ASSUME NEW i \in Instruments PROVE RowInv(i)'
  <2>1. RowInv(i)
    BY DEF TickInv
  <2>2. QED
    BY <2>1, <1>2, <1>3 DEF RowInv
<1>8. QED
  BY <1>5, <1>6, <1>7

-----------------------------------------------------------------------------
(* The worker gets an answer.                                              *)

LEMMA AnswerHolds ==
    ASSUME TickInv, Answered
    PROVE  (\A i \in Instruments : RowInv(i)') /\ (\A c \in Clients, i \in Instruments : PageInv(c, i)')
<1>1. CASE NextBatch
  <2>1. answer' = NoQuotes /\ worker' # "send"
    BY <1>1 DEF NextBatch
  <2>2. QED
    BY <2>1, RowsStand, PagesStand
       DEF Answered, consumerVars, tables, settings, TickInv, FeedTypeOK
<1>2. ASSUME NEW a \in Answers(Batches[batch]), worker' = "save", answer' = a
      PROVE  /\ \A i \in Instruments : RowInv(i)'
             /\ \A c \in Clients, i \in Instruments : PageInv(c, i)'
  <2>1. Batches[batch] \in SUBSET Instruments
    BY FeedAssumption DEF TickInv, FeedTypeOK
  <2>2. \A i \in DOMAIN a : i \in Instruments /\ a[i] = version[i]
    BY <2>1, AnswerTypes DEF TickInv, FeedTypeOK, AreQuotes
  <2>3. ASSUME NEW i \in Instruments PROVE RowInv(i)'
    <3>1. RowInv(i) /\ version[i] \in Nat
      BY DEF TickInv, FeedTypeOK
    <3>2. UNCHANGED <<version, quotes, newest, eod>>
      BY DEF Answered, tables
    <3>3. QED
      BY <1>2, <2>2, <3>1, <3>2 DEF RowInv
  <2>4. ASSUME NEW c \in Clients, NEW i \in Instruments PROVE PageInv(c, i)'
    <3>1. PageInv(c, i) /\ RowInv(i) /\ version[i] \in Nat /\ newest[i] \in Nat
      BY DEF TickInv, FeedTypeOK
    <3>2. \A k \in 1..Len(inbox[c]) : inbox[c][k].version \in Nat
      <4>1. inbox[c] \in Seq(Tick)
        BY DEF TickInv, FeedTypeOK, ConsumerTypeOK
      <4>2. \A k \in 1..Len(inbox[c]) : inbox[c][k] \in Tick
        BY <4>1
      <4>3. QED
        BY <4>2 DEF Tick
    <3>3. \A k \in 1..Len(inbox[c]) : inbox[c][k].instrument = i => inbox[c][k].version <= version[i]
      BY <3>1, <3>2 DEF PageInv, RowInv
    <3>4. UNCHANGED <<newest, inbox, shown>> /\ Ordered(c, i)' = Ordered(c, i)
      BY DEF Answered, consumerVars, tables, settings, Ordered
    <3>5. i \in DOMAIN answer' => answer'[i] = version[i]
      BY <1>2, <2>2
    <3>6. QED
      BY <3>1, <3>3, <3>4, <3>5 DEF PageInv
  <2>5. QED
    BY <2>3, <2>4
<1>3. QED
  BY <1>1, <1>2 DEF Answered

(* The answer, and the ingestion's rows, are written to the table.         *)
LEMMA SaveHolds ==
    ASSUME TickInv, Save
    PROVE  (\A i \in Instruments : RowInv(i)') /\ (\A c \in Clients, i \in Instruments : PageInv(c, i)')
<1>1. AreQuotes(answer, Instruments) /\ BulkSave(answer)
      /\ UNCHANGED <<version, eod, answer, inbox, shown, live, compact>>
  BY DEF TickInv, FeedTypeOK, Save, consumerVars, settings
<1>2. ASSUME NEW i \in Instruments
      PROVE  RowInv(i)' /\ newest'[i] \in Nat /\ newest[i] <= newest'[i]
  <2>1. RowInv(i)
    BY DEF TickInv
  <2>2. QED
    BY <1>1, <2>1, SavedRows DEF RowInv
<1>3. QED
  BY <1>1, <1>2, PagesUnderSave

LEMMA EodSavesHolds ==
    ASSUME TickInv, EodSavesIndices
    PROVE  (\A i \in Instruments : RowInv(i)') /\ (\A c \in Clients, i \in Instruments : PageInv(c, i)')
<1> DEFINE rows == [i \in DOMAIN eod.rows \cap Indices |-> eod.rows[i]]
<1>1. AreQuotes(rows, Instruments) /\ BulkSave(rows) /\ DOMAIN rows \subseteq Indices
      /\ UNCHANGED <<version, worker, answer, inbox, shown, live, compact>>
  BY DEF TickInv, FeedTypeOK, EodSavesIndices, EodAt, OutsideEod, workerVars, settings, consumerVars,
         AreQuotes
<1>2. DOMAIN eod'.rows = {} /\ \A i \in DOMAIN rows : i \in DOMAIN eod.rows /\ rows[i] = eod.rows[i]
  BY DEF EodSavesIndices, NoRun, NoQuotes
<1> HIDE DEF rows
<1>3. ASSUME NEW i \in Instruments
      PROVE  RowInv(i)' /\ newest'[i] \in Nat /\ newest[i] <= newest'[i]
  <2>1. RowInv(i) /\ newest[i] \in Nat /\ (i \in DOMAIN answer => answer[i] \in Nat)
    BY DEF TickInv, FeedTypeOK, AreQuotes
  <2>2. /\ quotes'[i] <= newest'[i] /\ newest'[i] <= version[i] /\ newest[i] <= newest'[i]
        /\ newest'[i] \in Nat
        /\ i \notin Indices => quotes'[i] = newest'[i] /\ newest'[i] = newest[i]
    BY <1>1, <1>2, <2>1, SavedRows DEF RowInv
  <2>3. QED
    BY <1>1, <1>2, <2>1, <2>2 DEF RowInv
<1>4. QED
  BY <1>1, <1>3, PagesUnderSave

(* A page is drawn from the table, or an old answer arrives.               *)
LEMMA LoadHolds ==
    ASSUME TickInv, NEW d \in Clients, PageLoads(d) \/ RestArrives(d)
    PROVE  \A c \in Clients, i \in Instruments : PageInv(c, i)'
<1> SUFFICES ASSUME NEW c \in Clients, NEW i \in Instruments PROVE PageInv(c, i)'
  OBVIOUS
<1>1. PageInv(c, i) /\ RowInv(i) /\ ConsumerTypeOK /\ OfflineInv
  BY DEF TickInv, FeedTypeOK
<1>2. UNCHANGED <<newest, inbox, answer, compact>>
  BY DEF PageLoads, RestArrives, Untouched, tables, workerVars, settings
<1>3. CASE PageLoads(d) /\ c = d
  <2>1. c \notin online /\ inbox[c] = <<>>
    BY <1>1, <1>3 DEF PageLoads, OfflineInv
  <2>2. shown'[c][i] = Rendered[i] /\ live'[c] = {}
    BY <1>1, <1>3 DEF PageLoads, ConsumerTypeOK
  <2>3. Ordered(c, i)' => i \notin Indices /\ shown'[c][i] = quotes[i]
    BY <1>2, <2>2 DEF Ordered, Rendered
  <2>4. QED
    BY <1>1, <1>2, <2>1, <2>3 DEF PageInv, RowInv
<1>4. CASE PageLoads(d) /\ c # d
  <2>1. shown'[c] = shown[c] /\ live'[c] = live[c]
    BY <1>1, <1>4 DEF PageLoads, ConsumerTypeOK
  <2>2. QED
    BY <1>1, <1>2, <2>1 DEF PageInv, Ordered
<1>5. CASE RestArrives(d)
  <2>1. ASSUME i \notin Indices PROVE shown'[c][i] = shown[c][i]
    <3> DEFINE news == [j \in Instruments |-> IF j \in Indices THEN refresh[d][1][j] ELSE shown[d][j]]
    <3>1. UNCHANGED shown \/ shown' = [shown EXCEPT ![d] = news]
      BY <1>5 DEF RestArrives
    <3>2. news[i] = shown[d][i]
      BY <2>1
    <3>3. DOMAIN shown = Clients
      BY <1>1 DEF ConsumerTypeOK
    <3> HIDE DEF news
    <3>4. QED
      BY <3>1, <3>2, <3>3
  <2>2. UNCHANGED live
    BY <1>5 DEF RestArrives
  <2>3. QED
    BY <1>1, <1>2, <2>1, <2>2 DEF PageInv, Ordered
<1>6. QED
  BY <1>3, <1>4, <1>5

-----------------------------------------------------------------------------
LEMMA TickInvStep == TickInv /\ [FeedNext]_vars => TickInv'
<1> SUFFICES ASSUME TickInv, [FeedNext]_vars PROVE TickInv'
  OBVIOUS
<1>0. FeedTypeOK' /\ (\A i \in Instruments : version'[i] \in Nat)
  <2>1. FeedTypeOK'
    BY TypesStep DEF TickInv
  <2>2. QED
    BY <2>1 DEF FeedTypeOK
<1>R. ASSUME UNCHANGED <<quotes, newest, compact, consumerVars>>,
             \A i \in Instruments : version[i] <= version'[i],
             eod'.rows = eod.rows \/ eod' = NoRun,
             \/ UNCHANGED answer /\ (worker' = "send" => worker = "send")
             \/ answer' = NoQuotes
      PROVE  TickInv'
  <2>1. OfflineInv'
    BY <1>R DEF TickInv, OfflineInv, consumerVars
  <2>2. version' \in [Instruments -> Nat]
    BY <1>0 DEF FeedTypeOK
  <2>3. QED
    BY <1>0, <1>R, <2>1, <2>2, RowsStand, PagesStand DEF TickInv, consumerVars
<1>V. version' = version => \A i \in Instruments : version[i] <= version'[i]
  BY DEF TickInv, FeedTypeOK
<1>1. CASE CredentialSteps
  BY <1>1, <1>R, <1>V DEF CredentialSteps, feedVars, tables, settings, workerVars
<1>2. CASE ConsumerNext /\ UNCHANGED <<tokenVars, client, feedVars>>
  <2>1. \A i \in Instruments : RowInv(i)'
    <3>1. version' \in [Instruments -> Nat]
      BY <1>0 DEF FeedTypeOK
    <3>2. QED
      BY <1>2, <1>V, <3>1, RowsStand DEF feedVars, tables, workerVars
  <2>2. QED
    BY <1>0, <1>2, <2>1, OfflineStep, ConsumerPages DEF feedVars, tables, settings, workerVars, TickInv
<1>3. ASSUME NEW i \in Instruments, QuoteMoves(i) PROVE TickInv'
  <2>1. \A j \in Instruments : version[j] <= version'[j]
    BY <1>3 DEF QuoteMoves, TickInv, FeedTypeOK
  <2>2. QED
    BY <1>3, <2>1, <1>R DEF QuoteMoves, tables, settings, workerVars
<1>4. ASSUME NEW i \in Instruments, NEW R \in SUBSET Clients, Send(i, R) PROVE TickInv'
  BY <1>0, <1>4, SendPages DEF TickInv
<1>5. CASE Start \/ Started \/ Wake
  BY <1>5, <1>R, <1>V DEF Start, Started, Wake, tables, settings
<1>6. CASE RequestFails
  <2>1. (UNCHANGED answer /\ worker' = worker) \/ answer' = NoQuotes
    BY <1>6 DEF RequestFails, BatchFails, NextBatch
  <2>2. UNCHANGED <<consumerVars, version, quotes, newest, compact, eod>>
    BY <1>6 DEF RequestFails, tables, settings
  <2>3. QED
    BY <2>1, <2>2, <1>R, <1>V
<1>7. CASE WriteFails \/ Crash
  <2>1. answer' = NoQuotes /\ UNCHANGED <<consumerVars, version, quotes, newest, compact, eod>>
    BY <1>7 DEF WriteFails, Crash, SyncEnds, tables, settings
  <2>2. QED
    BY <2>1, <1>R, <1>V
<1>8. CASE Answered
  <2>1. OfflineInv'
    BY <1>8 DEF Answered, TickInv, OfflineInv, consumerVars
  <2>2. QED
    BY <1>0, <1>8, <2>1, AnswerHolds DEF TickInv
<1>9. CASE Save
  <2>1. OfflineInv'
    BY <1>9 DEF Save, TickInv, OfflineInv, consumerVars
  <2>2. QED
    BY <1>0, <1>9, <2>1, SaveHolds DEF TickInv
<1>10. CASE EodAnswered
  <2>1. PICK a \in Answers(Instruments \ DOMAIN eod.rows) :
           eod' = [step |-> "asked", rows |-> [i \in DOMAIN eod.rows \cup DOMAIN a |->
                                                 IF i \in DOMAIN a THEN a[i] ELSE eod.rows[i]]]
    BY <1>10 DEF EodAnswered
  <2>2. UNCHANGED <<consumerVars, version, quotes, newest, compact, answer, worker>>
    BY <1>10 DEF EodAnswered, EodAt, OutsideEod, tables, settings, workerVars
  <2>3. /\ \A i \in DOMAIN a : a[i] = version[i]
        /\ \A i \in DOMAIN eod'.rows : \/ eod'.rows[i] = version[i]
                                       \/ i \in DOMAIN eod.rows /\ eod'.rows[i] = eod.rows[i]
    <3>1. \A i \in DOMAIN a : a[i] = version[i]
      BY AnswerTypes DEF TickInv, FeedTypeOK
    <3>2. QED
      BY <2>1, <3>1
  <2>4. ASSUME NEW i \in Instruments PROVE RowInv(i)'
    <3>1. RowInv(i) /\ version[i] \in Nat
      BY DEF TickInv, FeedTypeOK
    <3>2. QED
      BY <2>2, <2>3, <3>1 DEF RowInv
  <2>5. OfflineInv' /\ \A c \in Clients, i \in Instruments : PageInv(c, i)'
    BY <2>2, PagesStand DEF TickInv, OfflineInv, consumerVars
  <2>6. QED
    BY <1>0, <2>4, <2>5 DEF TickInv
<1>11. CASE EodSavesIndices
  <2>1. OfflineInv'
    BY <1>11 DEF EodSavesIndices, EodAt, OutsideEod, TickInv, OfflineInv, consumerVars
  <2>2. QED
    BY <1>0, <1>11, <2>1, EodSavesHolds DEF TickInv
<1>12. CASE EodSavesStocks \/ EodEnds
  <2>1. UNCHANGED <<consumerVars, version, quotes, newest, compact, answer, worker>>
    BY <1>12 DEF EodSavesStocks, EodEnds, EodAt, OutsideEod, tables, settings, workerVars
  <2>2. eod'.rows = eod.rows \/ eod' = NoRun
    BY <1>12 DEF EodSavesStocks, EodEnds
  <2>3. QED
    BY <2>1, <2>2, <1>R, <1>V
<1>13. ASSUME NEW c \in Clients, RestRead(c) PROVE TickInv'
  BY <1>13, <1>R, <1>V DEF RestRead, Untouched, consumerVars, tables, settings, workerVars
<1>14. ASSUME NEW c \in Clients, PageLoads(c) \/ RestArrives(c) PROVE TickInv'
  <2>1. UNCHANGED <<online, joined, request, inbox, version, quotes, newest, worker, answer, eod>>
    BY <1>14 DEF PageLoads, RestArrives, Untouched, tables, workerVars
  <2>2. \A i \in Instruments : RowInv(i)'
    <3>1. version' \in [Instruments -> Nat]
      BY <1>0 DEF FeedTypeOK
    <3>2. QED
      BY <2>1, <1>V, <3>1, RowsStand
  <2>3. OfflineInv'
    BY <2>1 DEF TickInv, OfflineInv
  <2>4. QED
    BY <1>0, <1>14, <2>2, <2>3, LoadHolds DEF TickInv
<1>15. CASE UNCHANGED vars
  BY <1>15, <1>R, <1>V DEF vars, feedVars, tables, settings, workerVars
<1>16. QED
  BY <1>1, <1>2, <1>3, <1>4, <1>5, <1>6, <1>7, <1>8, <1>9, <1>10, <1>11, <1>12, <1>13, <1>14,
     <1>15 DEF FeedNext

(* The order of quotes: no tick is ahead of the table, none overtakes      *)
(* another, and what a page shows of a stock never goes back.              *)
THEOREM TicksAreInOrder == FeedSpec => []TicksFollowTable
  BY TickInvInit, TickInvStep, TickInvImplies, PTL DEF FeedSpec

-----------------------------------------------------------------------------
(* Days and weekdays.                                                      *)

LEMMA DayMonotone ==
    ASSUME NEW s \in Int, NEW t \in Int, s <= t
    PROVE  Day(s) \in Int /\ Day(t) \in Int /\ Day(s) <= Day(t)
  BY ClockAssumption DEF Day

LEMMA DayCovers ==
    ASSUME NEW t \in Int, NEW d \in Int, d <= Day(t) PROVE d * DayLength <= t
  BY ClockAssumption DEF Day

LEMMA LastWeekdayBack ==
    ASSUME NEW d \in Int
    PROVE  LastWeekday(d) \in Int /\ LastWeekday(d) <= d /\ LastWeekday(d) # Unknown
  BY DEF LastWeekday, IsWeekday, Unknown

LEMMA ExpectedBack ==
    ASSUME NEW t \in Int
    PROVE  ExpectedSession(t) \in Int /\ ExpectedSession(t) <= Day(t) /\ ExpectedSession(t) # Unknown
<1>1. Day(t) \in Int
  BY DayMonotone
<1>2. LastWeekday(Day(t)) <= Day(t) /\ LastWeekday(Day(t) - 1) <= Day(t) - 1
      /\ LastWeekday(Day(t)) \in Int /\ LastWeekday(Day(t) - 1) \in Int
      /\ LastWeekday(Day(t)) # Unknown /\ LastWeekday(Day(t) - 1) # Unknown
  BY <1>1, LastWeekdayBack
<1>3. QED
  BY <1>1, <1>2 DEF ExpectedSession

(* A quote's last trade is not after the day of its stamp.                 *)
LEMMA TradesBack ==
    ASSUME NEW s \in Int, NEW d \in Trades(s)
    PROVE  d \in Int /\ (d # Unknown => s # Unknown /\ d <= Day(s))
<1>1. Day(s) \in Int
  BY DayMonotone
<1>2. LastTrade(s) \in Int /\ LastTrade(s) <= Day(s)
  <2>1. LastWeekday(Day(s)) \in Int /\ LastWeekday(Day(s)) <= Day(s)
        /\ LastWeekday(Day(s) - 1) \in Int /\ LastWeekday(Day(s) - 1) <= Day(s) - 1
    BY <1>1, LastWeekdayBack
  <2>2. QED
    BY <1>1, <2>1 DEF LastTrade
<1>3. LastWeekday(LastTrade(s) - 1) \in Int /\ LastWeekday(LastTrade(s) - 1) <= LastTrade(s) - 1
  BY <1>2, LastWeekdayBack
<1>4. QED
  BY <1>1, <1>2, <1>3 DEF Trades, Unknown

-----------------------------------------------------------------------------
(* What a status says.                                                     *)

Covers(at, t) == t >= ExpectedSession(at) * DayLength

LEMMA LiveStamp ==
    ASSUME NEW at \in Nat, NEW stamp \in Nat \cup {Unknown}, NEW session,
           ForProviderTimestamp(at, stamp, session) = "LIVE"
    PROVE  /\ stamp \in Nat /\ IsTradingWindow(at) /\ at - stamp <= StaleAfter /\ stamp <= at + Skew
<1>1. stamp \in Nat /\ stamp <= at + Skew /\ stamp \in 0..(at + Skew)
  BY ClockAssumption DEF ForProviderTimestamp, Unknown
<1>2. QED
  BY <1>1, ClockAssumption DEF ForProviderTimestamp, Unknown

LEMMA ClosedStamp ==
    ASSUME NEW at \in Nat, NEW stamp \in Nat \cup {Unknown}, NEW session \in Int,
           stamp # Unknown /\ session # Unknown => session <= Day(stamp),
           ForProviderTimestamp(at, stamp, session) = "MARKET_CLOSED"
    PROVE  stamp \in Nat /\ ~IsTradingWindow(at) /\ Covers(at, stamp)
<1>1. stamp \in Nat /\ stamp \in 0..(at + Skew)
  BY ClockAssumption DEF ForProviderTimestamp, Unknown
<1>2. ~IsTradingWindow(at) /\ (ExpectedSession(at) \in {session, Day(stamp)} \/ Day(stamp) = Day(at))
  BY <1>1, ClockAssumption DEF ForProviderTimestamp, Unknown
<1>3. ExpectedSession(at) \in Int /\ ExpectedSession(at) <= Day(stamp)
  BY <1>1, <1>2, ExpectedBack DEF Unknown
<1>4. QED
  BY <1>1, <1>2, <1>3, DayCovers DEF Covers

LEMMA SessionStatus ==
    ASSUME NEW at \in Nat, NEW session \in Int,
           ForScannerSession(at, session) \in {"LIVE", "MARKET_CLOSED"}
    PROVE  session = ExpectedSession(at)
  BY DEF ForScannerSession

-----------------------------------------------------------------------------
(* The newest of bounded values is one of them, and none is newer.         *)

LEMMA LatestIsNewest ==
    ASSUME NEW S \in SUBSET Int, NEW bound \in Int, \A x \in S : x <= bound, S # {}
    PROVE  Latest(S) \in S /\ \A x \in S : x <= Latest(S)
<1> DEFINE T == {bound - x : x \in S}
           Less == {ss \in Nat \X Nat : ss[1] < ss[2]}
<1>1. T \in SUBSET Nat /\ T # {}
  <2>1. ASSUME NEW x \in S PROVE bound - x \in Nat
    <3>1. x \in Int /\ x <= bound
      OBVIOUS
    <3>2. QED
      BY <3>1
  <2>2. PICK x \in S : TRUE
    OBVIOUS
  <2>3. bound - x \in T
    BY <2>2
  <2>4. T \subseteq Nat
    BY <2>1
  <2>5. QED
    BY <2>3, <2>4
<1>2. IsWellFoundedOn(Less, Nat)
  BY NatLessThanWellFounded DEF OpToRel
<1> HIDE DEF Less, T
<1>3. PICK y \in T : \A z \in T : <<z, y>> \notin Less
  BY <1>1, <1>2, WFMin
<1>4. PICK m \in S : y = bound - m
  BY <1>3 DEF T
<1>5. \A x \in S : x <= m
  <2> SUFFICES ASSUME NEW x \in S PROVE x <= m
    OBVIOUS
  <2>1. bound - x \in T /\ bound - x \in Nat /\ y \in Nat
    BY <1>1, <1>3 DEF T
  <2>2. ~(bound - x < y)
    BY <2>1, <1>3 DEF Less
  <2>3. QED
    BY <2>2, <1>4
<1>6. \E x \in S : \A z \in S : x >= z
  BY <1>5
<1>7. QED
  BY <1>6 DEF Latest, Max

-----------------------------------------------------------------------------
(* What is stored.                                                         *)

(* Nothing is stamped further ahead than Lead, and no trade is told before *)
(* it happened.                                                            *)
StoredQuote(row) ==
    row # <<>> =>
        /\ row[1] \in Quote
        /\ row[1].stamp <= Horizon + Lead
        /\ row[1].session # Unknown => row[1].stamp # Unknown /\ row[1].session <= Day(row[1].stamp)

StoreInv ==
    /\ now \in 0..Horizon
    /\ DOMAIN equity = Companies /\ \A c \in Companies : StoredQuote(equity[c])
    /\ DOMAIN indices = IndexKeys /\ \A k \in IndexKeys : StoredQuote(indices[k])
    /\ aligned \in Int
    /\ cache # <<>> => /\ cache[1].session \in Int
                       /\ \A r \in cache[1].reports : r.session = cache[1].session

LEMMA ProvidedStored ==
    ASSUME StoreInv, NEW q \in Provided PROVE StoredQuote(<<q>>)
<1>1. PICK s \in Stamps : q \in [stamp : {s}, session : Trades(s), priced : BOOLEAN, change : -1..1]
  BY DEF Provided
<1>2. s \in Nat \cup {Unknown} /\ s <= Horizon + Lead /\ s \in Int
  BY <1>1, DashboardAssumption DEF Stamps, Unknown, StoreInv
<1>3. q.stamp = s /\ q.session \in Trades(s) /\ q \in [stamp : {s}, session : Trades(s), priced : BOOLEAN, change : -1..1]
  BY <1>1
<1>4. q.session \in Int /\ (q.session # Unknown => s # Unknown /\ q.session <= Day(s))
  BY <1>2, <1>3, TradesBack
<1>5. q \in Quote
  BY <1>2, <1>3, <1>4 DEF Quote
<1>6. QED
  BY <1>2, <1>3, <1>4, <1>5 DEF StoredQuote

(* The newest stamp and trade of a table's rows.                           *)
LEMMA LatestOfTable ==
    ASSUME NEW table, NEW Keys, DOMAIN table = Keys, \A c \in Keys : StoredQuote(table[c])
    PROVE  /\ LatestStamp(table) \in Nat \cup {Unknown}
           /\ LatestTrade(table) \in Int
           /\ LatestStamp(table) # Unknown /\ LatestTrade(table) # Unknown
                => LatestTrade(table) <= Day(LatestStamp(table))
           /\ \A c \in Keys : table[c] # <<>> => table[c][1].stamp <= LatestStamp(table)
<1> DEFINE S == {q.stamp : q \in Rows(table)}
           D == {q.session : q \in Rows(table)}
           bound == Horizon + Lead
<1>0. bound \in Int /\ Day(bound) \in Int /\ -1 <= bound
  BY DashboardAssumption, DayMonotone
<1>1. \A q \in Rows(table) :
         /\ q.stamp \in Nat \cup {Unknown} /\ q.session \in Int /\ q.stamp <= bound
         /\ q.session # Unknown => q.stamp # Unknown /\ q.session <= Day(q.stamp)
  BY DEF Rows, StoredQuote, Quote
<1>2. CASE Rows(table) = {}
  <2>1. S = {} /\ D = {}
    BY <1>2
  <2>2. LatestStamp(table) = Unknown /\ LatestTrade(table) = Unknown
    BY <2>1 DEF LatestStamp, LatestTrade, Latest
  <2>3. \A c \in Keys : table[c] = <<>>
    BY <1>2 DEF Rows
  <2>4. QED
    BY <2>2, <2>3 DEF Unknown
<1>3. CASE Rows(table) # {}
  <2>1. S \in SUBSET Int /\ S # {} /\ \A x \in S : x <= bound
    BY <1>1, <1>3 DEF Unknown
  <2>2. LatestStamp(table) \in S /\ \A x \in S : x <= LatestStamp(table)
    BY <1>0, <2>1, LatestIsNewest DEF LatestStamp
  <2>3. LatestStamp(table) \in Nat \cup {Unknown}
    BY <1>1, <2>2
  <2>4. ASSUME NEW q \in Rows(table), q.session # Unknown
        PROVE  q.session <= Day(LatestStamp(table)) /\ q.session <= Day(bound)
    <3>1. q.stamp \in Int /\ LatestStamp(table) \in Int /\ q.stamp <= LatestStamp(table)
          /\ q.session <= Day(q.stamp) /\ q.session \in Int /\ q.stamp <= bound
      BY <1>1, <2>1, <2>2, <2>4 DEF Unknown
    <3>2. Day(q.stamp) <= Day(LatestStamp(table)) /\ Day(q.stamp) <= Day(bound)
          /\ Day(q.stamp) \in Int /\ Day(LatestStamp(table)) \in Int
      BY <3>1, <1>0, DayMonotone
    <3>3. QED
      BY <1>0, <3>1, <3>2
  <2>5. D \in SUBSET Int /\ D # {} /\ \A x \in D : x <= Day(bound)
    <3>1. -1 <= Day(bound)
      BY <1>0, ClockAssumption DEF Day
    <3>2. QED
      BY <1>0, <1>1, <1>3, <2>4, <3>1 DEF Unknown
  <2>6. LatestTrade(table) \in D
    BY <1>0, <2>5, LatestIsNewest DEF LatestTrade
  <2>7. LatestTrade(table) \in Int
        /\ (LatestTrade(table) # Unknown => LatestTrade(table) <= Day(LatestStamp(table)))
    BY <2>4, <2>5, <2>6
  <2>8. \A c \in Keys : table[c] # <<>> => table[c][1].stamp <= LatestStamp(table)
    BY <2>2 DEF Rows
  <2>9. QED
    BY <2>3, <2>7, <2>8
<1>4. QED
  BY <1>2, <1>3

LEMMA StoreStep ==
    ASSUME StoreInv, [PagesNext]_pageVars PROVE StoreInv'
<1>1. ASSUME UNCHANGED stored, now' \in 0..Horizon PROVE StoreInv'
  BY <1>1 DEF StoreInv, stored, StoredQuote, Quote
<1>2. CASE HomeStarts \/ HomeReadsQuotes \/ HomeLoadsReports \/ HomeReadsIndices
           \/ (\E c \in Companies : StockDetail(c)) \/ UNCHANGED pageVars
  BY <1>1, <1>2 DEF HomeStarts, HomeReadsQuotes, HomeLoadsReports, HomeReadsIndices, StockDetail,
                    pageVars, StoreInv
<1>3. CASE ClockTick
  BY <1>1, <1>3, DashboardAssumption DEF ClockTick, StoreInv
<1>4. ASSUME NEW c \in Companies, StoreQuote(c) PROVE StoreInv'
  <2>1. PICK q \in Provided : equity' = [equity EXCEPT ![c] = <<q>>]
    BY <1>4 DEF StoreQuote
  <2>2. StoredQuote(<<q>>)
    BY ProvidedStored
  <2>3. DOMAIN equity' = Companies /\ \A d \in Companies : StoredQuote(equity'[d])
    <3>1. \A d \in Companies : equity'[d] = equity[d] \/ equity'[d] = <<q>>
      BY <2>1 DEF StoreInv
    <3>2. QED
      BY <2>1, <2>2, <3>1 DEF StoreInv
  <2>4. QED
    BY <1>4, <2>3 DEF StoreQuote, StoreInv, StoredQuote
<1>5. ASSUME NEW k \in IndexKeys, StoreIndexQuote(k) PROVE StoreInv'
  <2>1. PICK q \in Provided : indices' = [indices EXCEPT ![k] = <<q>>]
    BY <1>5 DEF StoreIndexQuote
  <2>2. StoredQuote(<<q>>)
    BY ProvidedStored
  <2>3. DOMAIN indices' = IndexKeys /\ \A d \in IndexKeys : StoredQuote(indices'[d])
    <3>1. \A d \in IndexKeys : indices'[d] = indices[d] \/ indices'[d] = <<q>>
      BY <2>1 DEF StoreInv
    <3>2. QED
      BY <2>1, <2>2, <3>1 DEF StoreInv
  <2>4. QED
    BY <1>5, <2>3 DEF StoreIndexQuote, StoreInv, StoredQuote
<1>6. CASE StoreCandles
  <2>1. aligned' \in Int
    BY <1>6, ExpectedBack DEF StoreCandles, StoreInv, Unknown
  <2>2. QED
    BY <1>6, <2>1 DEF StoreCandles, StoreInv, StoredQuote
<1>7. CASE SaveCache
  <2>1. PICK S \in SUBSET Reports :
            cache' = <<[session |-> aligned, reports |-> {[r EXCEPT !.session = aligned] : r \in S}]>>
    BY <1>7 DEF SaveCache
  <2>2. \A r \in S : [r EXCEPT !.session = aligned].session = aligned
    BY <2>1, DashboardAssumption DEF Report
  <2>3. cache'[1].session = aligned /\ \A r \in cache'[1].reports : r.session = aligned
    BY <2>1, <2>2
  <2>4. QED
    BY <1>7, <2>3 DEF SaveCache, StoreInv, StoredQuote
<1>8. QED
  BY <1>2, <1>3, <1>4, <1>5, <1>6, <1>7 DEF PagesNext

-----------------------------------------------------------------------------
(* What a page has read.                                                   *)

ItemOK(at, item) ==
    /\ item.status = "LIVE" =>
          IsTradingWindow(at) /\ Between(item.stamp, at - StaleAfter, at + Skew)
    /\ item.status = "MARKET_CLOSED" => ~IsTradingWindow(at) /\ Covers(at, item.stamp)
    /\ item.stamp # Unknown => item.status # "DATA_UNAVAILABLE"

CountedOK(h) ==
    /\ h.movers.status = "LIVE" =>
          /\ IsTradingWindow(h.at)
          /\ \A c \in DOMAIN h.counted :
                Between(h.counted[c].stamp, h.at - StaleAfter - Coherence, h.at + Skew)
    /\ h.movers.status = "MARKET_CLOSED" =>
          \A c \in DOMAIN h.counted : Covers(h.at, h.counted[c].stamp + Coherence)

SectionsOK(h) ==
    h.sections.status \in {"LIVE", "MARKET_CLOSED"} =>
        \A card \in h.sections.priority \cup h.sections.prebreakout :
            card.session = ExpectedSession(h.at)

IndicesOK(h) ==
    /\ \A k \in IndexKeys : ItemOK(h.at, h.indices.items[k])
    /\ h.indices.status = "LIVE" =>
          \A k \in IndexKeys : h.indices.items[k].stamp # Unknown
                                  => h.indices.items[k].status = "LIVE"

HomeInv ==
    /\ DOMAIN home = DOMAIN NoHome
    /\ home.at \in Nat
    /\ home.step \in {"reports", "indices", "shown"} => CountedOK(home)
    /\ home.step \in {"indices", "shown"} => SectionsOK(home)
    /\ home.step = "shown" => IndicesOK(home)

DetailInv == detail.at \in Nat /\ (detail.quote # <<>> => ItemOK(detail.at, detail.quote))

PagesInv == StoreInv /\ HomeInv /\ DetailInv

LEMMA CoversLater ==
    ASSUME NEW at \in Nat, NEW s \in Int, NEW t \in Int, s <= t, Covers(at, s) PROVE Covers(at, t)
  BY ExpectedBack, ClockAssumption DEF Covers

LEMMA ItemHolds ==
    ASSUME NEW at \in Nat, NEW row, StoredQuote(row) PROVE ItemOK(at, IndexItem(at, row))
<1>1. CASE row = <<>>
  BY <1>1 DEF IndexItem, ItemOK
<1>2. CASE row # <<>>
  <2> DEFINE q == row[1]
             status == ForProviderTimestamp(at, q.stamp, q.session)
  <2>1. /\ q.stamp \in Nat \cup {Unknown} /\ q.session \in Int
        /\ q.stamp # Unknown /\ q.session # Unknown => q.session <= Day(q.stamp)
    BY <1>2 DEF StoredQuote, Quote
  <2>2. IndexItem(at, row) = [status |-> status, stamp |-> q.stamp]
    BY <1>2 DEF IndexItem
  <2>3. status = "LIVE" => IsTradingWindow(at) /\ Between(q.stamp, at - StaleAfter, at + Skew)
    <3> HAVE status = "LIVE"
    <3>1. q.stamp \in Nat /\ IsTradingWindow(at) /\ at - q.stamp <= StaleAfter /\ q.stamp <= at + Skew
      BY <2>1, LiveStamp
    <3>2. QED
      BY <3>1, ClockAssumption DEF Between
  <2>4. status = "MARKET_CLOSED" => ~IsTradingWindow(at) /\ Covers(at, q.stamp)
    BY <2>1, ClosedStamp
  <2>5. q.stamp # Unknown => status # "DATA_UNAVAILABLE"
    <3> HAVE q.stamp # Unknown
    <3>1. q.stamp > at + Skew \/ q.stamp \in 0..(at + Skew)
      BY <2>1, ClockAssumption
    <3>2. QED
      BY <3>1, <2>1, ClockAssumption DEF ForProviderTimestamp
  <2>6. QED
    BY <2>2, <2>3, <2>4, <2>5 DEF ItemOK
<1>3. QED
  BY <1>1, <1>2

LEMMA CountedHolds ==
    ASSUME StoreInv, NEW at \in Nat, NEW h, h.at = at,
           h.movers.status = QuoteStatus(at, equity),
           h.counted = [c \in Coherent(at, equity) |-> equity[c][1]]
    PROVE  CountedOK(h)
<1> DEFINE latest == LatestStamp(equity)
           trade == LatestTrade(equity)
<1>1. /\ latest \in Nat \cup {Unknown} /\ trade \in Int
      /\ latest # Unknown /\ trade # Unknown => trade <= Day(latest)
      /\ \A c \in Companies : equity[c] # <<>> => equity[c][1].stamp <= latest
  BY LatestOfTable DEF StoreInv
<1>2. ASSUME NEW c \in DOMAIN h.counted
      PROVE  /\ h.counted[c].stamp \in Nat /\ h.counted[c].stamp <= latest
             /\ latest - h.counted[c].stamp <= Coherence
  <2>1. c \in Companies /\ equity[c] # <<>> /\ IsCoherent(equity[c][1], latest)
        /\ h.counted[c] = equity[c][1]
    BY DEF Coherent, StoreInv
  <2>2. equity[c][1].stamp \in Nat \cup {Unknown}
    BY <2>1 DEF StoreInv, StoredQuote, Quote
  <2>3. QED
    BY <1>1, <2>1, <2>2 DEF IsCoherent
<1>3. ASSUME h.movers.status = "LIVE"
      PROVE  /\ IsTradingWindow(at)
             /\ \A c \in DOMAIN h.counted :
                   Between(h.counted[c].stamp, at - StaleAfter - Coherence, at + Skew)
  <2>1. latest \in Nat /\ IsTradingWindow(at) /\ at - latest <= StaleAfter /\ latest <= at + Skew
    BY <1>1, <1>3, LiveStamp DEF QuoteStatus
  <2>2. QED
    BY <1>2, <2>1, ClockAssumption, DashboardAssumption DEF Between
<1>4. ASSUME h.movers.status = "MARKET_CLOSED"
      PROVE  \A c \in DOMAIN h.counted : Covers(at, h.counted[c].stamp + Coherence)
  <2>1. latest \in Nat /\ Covers(at, latest)
    BY <1>1, <1>4, ClosedStamp DEF QuoteStatus
  <2> SUFFICES ASSUME NEW c \in DOMAIN h.counted PROVE Covers(at, h.counted[c].stamp + Coherence)
    OBVIOUS
  <2>2. h.counted[c].stamp + Coherence \in Int /\ latest <= h.counted[c].stamp + Coherence
    BY <1>2, <2>1, DashboardAssumption
  <2>3. QED
    BY <2>1, <2>2, CoversLater
<1>5. QED
  BY <1>3, <1>4 DEF CountedOK

LEMMA SectionsHold ==
    ASSUME StoreInv, NEW at \in Nat, NEW h, h.at = at, h.sections = ScannerSections(at, LoadReports)
    PROVE  SectionsOK(h)
<1> SUFFICES ASSUME SectionStatus(at, LoadReports) \in {"LIVE", "MARKET_CLOSED"},
                    NEW r \in LoadReports.reports
             PROVE  r.session = ExpectedSession(at)
  BY DEF SectionsOK, ScannerSections, ReportCard
<1>1. ForScannerSession(at, LoadReports.session) \in {"LIVE", "MARKET_CLOSED"}
  BY DEF SectionStatus
<1>2. aligned # Unknown /\ cache # <<>> /\ cache[1].session = aligned
      /\ LoadReports = [reports |-> cache[1].reports, session |-> cache[1].session, error |-> ""]
  BY DEF LoadReports, NoReports
<1>3. r.session = cache[1].session /\ LoadReports.session = cache[1].session /\ cache[1].session \in Int
  BY <1>2 DEF StoreInv
<1>4. QED
  BY <1>1, <1>3, SessionStatus

LEMMA IndicesHold ==
    ASSUME StoreInv, NEW at \in Nat, NEW h, h.at = at, h.indices = IndexItems(at)
    PROVE  IndicesOK(h)
<1> DEFINE items == [k \in IndexKeys |-> IndexItem(at, indices[k])]
           item(k) == IndexItem(at, indices[k])
           states == {items[k].status : k \in {j \in IndexKeys : indices[j] # <<>>}}
<1>1. \A k \in IndexKeys : ItemOK(at, item(k))
  BY ItemHolds DEF StoreInv
<1>2. (\A k \in IndexKeys : h.indices.items[k] = item(k)) /\ h.indices.status = CombinedStatus(states)
  <2>1. h.indices = [items |-> items, status |-> CombinedStatus(states)]
    BY DEF IndexItems
  <2>2. QED
    BY <2>1
<1>3. ASSUME h.indices.status = "LIVE", NEW k \in IndexKeys, item(k).stamp # Unknown
      PROVE  item(k).status = "LIVE"
  <2>1. "STALE" \notin states /\ "LIVE" \in states
    BY <1>2, <1>3 DEF CombinedStatus
  <2>2. item(k).status \in states
    BY <1>3 DEF IndexItem
  <2>3. PICK j \in IndexKeys : item(j).status = "LIVE"
    BY <2>1
  <2>4. IsTradingWindow(at)
    BY <1>1, <2>3 DEF ItemOK
  <2>5. item(k).status # "MARKET_CLOSED" /\ item(k).status # "DATA_UNAVAILABLE"
    BY <1>1, <1>3, <2>4 DEF ItemOK
  <2>6. item(k).status \in Statuses
    <3>1. indices[k] # <<>> /\ StoredQuote(indices[k])
      BY <1>3 DEF IndexItem, StoreInv
    <3>2. QED
      BY <3>1, ClockAssumption DEF IndexItem, StoredQuote, Quote, ForProviderTimestamp, Statuses
  <2>7. QED
    BY <2>1, <2>2, <2>5, <2>6 DEF Statuses
<1>4. QED
  BY <1>1, <1>2, <1>3 DEF IndicesOK

-----------------------------------------------------------------------------
LEMMA HomeStep ==
    ASSUME PagesInv, [PagesNext]_pageVars PROVE HomeInv'
<1> USE DEF PagesInv, StoreInv
<1>0. HomeInv /\ now \in Nat
  BY DashboardAssumption
<1>1. CASE UNCHANGED home
  BY <1>0, <1>1 DEF HomeInv, CountedOK, SectionsOK, IndicesOK, ItemOK, Covers
<1>2. CASE HomeStarts
  <2>1. home'.step = "quotes" /\ home'.at = now /\ DOMAIN home' = DOMAIN NoHome
    BY <1>2 DEF HomeStarts, NoHome
  <2>2. QED
    BY <1>0, <2>1 DEF HomeInv
<1>3. CASE HomeReadsQuotes
  <2>1. /\ home'.step = "reports" /\ home'.at = home.at /\ DOMAIN home' = DOMAIN NoHome
        /\ home'.counted = [c \in Coherent(home.at, equity) |-> equity[c][1]]
        /\ home'.movers.status = QuoteStatus(home.at, equity)
    BY <1>0, <1>3 DEF HomeReadsQuotes, HomeInv, NoHome, TopMovers
  <2>2. CountedOK(home')
    BY <1>0, <2>1, CountedHolds DEF HomeInv
  <2>3. QED
    BY <1>0, <2>1, <2>2 DEF HomeInv, CountedOK
<1>4. CASE HomeLoadsReports
  <2>1. /\ home.step = "reports" /\ home'.step = "indices" /\ home'.at = home.at
        /\ DOMAIN home' = DOMAIN NoHome
        /\ home'.counted = home.counted /\ home'.movers = home.movers
        /\ home'.sections = ScannerSections(home.at, LoadReports)
    BY <1>0, <1>4 DEF HomeLoadsReports, HomeInv, NoHome
  <2>2. SectionsOK(home')
    BY <1>0, <2>1, SectionsHold DEF HomeInv
  <2>3. CountedOK(home')
    BY <1>0, <2>1 DEF HomeInv, CountedOK
  <2>4. QED
    BY <1>0, <2>1, <2>2, <2>3 DEF HomeInv
<1>5. CASE HomeReadsIndices
  <2>1. /\ home.step = "indices" /\ home'.step = "shown" /\ home'.at = home.at
        /\ DOMAIN home' = DOMAIN NoHome
        /\ home'.counted = home.counted /\ home'.movers = home.movers
        /\ home'.sections = home.sections /\ home'.indices = IndexItems(home.at)
    BY <1>0, <1>5 DEF HomeReadsIndices, HomeInv, NoHome
  <2>2. IndicesOK(home')
    BY <1>0, <2>1, IndicesHold DEF HomeInv
  <2>3. CountedOK(home') /\ SectionsOK(home')
    BY <1>0, <2>1 DEF HomeInv, CountedOK, SectionsOK
  <2>4. QED
    BY <1>0, <2>1, <2>2, <2>3 DEF HomeInv
<1>6. QED
  BY <1>1, <1>2, <1>3, <1>4, <1>5
     DEF PagesNext, ClockTick, StoreQuote, StoreIndexQuote, StoreCandles, SaveCache, StockDetail,
         pageVars

LEMMA DetailStep ==
    ASSUME PagesInv, [PagesNext]_pageVars PROVE DetailInv'
<1>0. DetailInv /\ StoreInv /\ now \in Nat
  BY DashboardAssumption DEF PagesInv, StoreInv
<1>1. CASE UNCHANGED detail
  BY <1>0, <1>1 DEF DetailInv
<1>2. ASSUME NEW c \in Companies, StockDetail(c) PROVE DetailInv'
  <2>1. detail'.at = now /\ detail'.quote = IndexItem(now, equity[c])
    BY <1>2 DEF StockDetail
  <2>2. ItemOK(now, IndexItem(now, equity[c]))
    BY <1>0, ItemHolds DEF StoreInv
  <2>3. QED
    BY <1>0, <2>1, <2>2 DEF DetailInv
<1>3. QED
  BY <1>1, <1>2 DEF PagesNext, HomeStarts, HomeReadsQuotes, HomeLoadsReports, HomeReadsIndices,
                    ClockTick, StoreQuote, StoreIndexQuote, StoreCandles, SaveCache, pageVars

LEMMA PagesInvInit == PagesInit => PagesInv
<1> SUFFICES ASSUME PagesInit PROVE PagesInv
  OBVIOUS
<1>1. now \in Int /\ Day(now) \in Int
  BY DashboardAssumption, DayMonotone DEF PagesInit
<1>2. StoreInv
  BY <1>1 DEF PagesInit, StoreInv, StoredQuote, Unknown
<1>3. HomeInv
  BY DEF PagesInit, HomeInv, NoHome
<1>4. DetailInv
  BY DEF PagesInit, DetailInv, NoDetail
<1>5. QED
  BY <1>2, <1>3, <1>4 DEF PagesInv

LEMMA PagesInvStep == PagesInv /\ [PagesNext]_pageVars => PagesInv'
  BY StoreStep, HomeStep, DetailStep DEF PagesInv

LEMMA PagesInvImplies == PagesInv => LiveIsRecent /\ ClosedCoversSession
<1> SUFFICES ASSUME PagesInv PROVE LiveIsRecent /\ ClosedCoversSession
  OBVIOUS
<1>1. Shown => CountedOK(home) /\ SectionsOK(home) /\ IndicesOK(home)
  BY DEF PagesInv, HomeInv, Shown
<1>2. detail.quote # <<>> => ItemOK(detail.at, detail.quote)
  BY DEF PagesInv, DetailInv
<1>3. LiveIsRecent
  BY <1>1, <1>2 DEF LiveIsRecent, CountedOK, SectionsOK, IndicesOK, ItemOK
<1>4. ClosedCoversSession
  BY <1>1, <1>2 DEF ClosedCoversSession, CountedOK, SectionsOK, IndicesOK, ItemOK, Covers
<1>5. QED
  BY <1>3, <1>4

(* LIVE keeps what it says: whatever is written between the reads of a     *)
(* request (home in dashboard_service.py), what is counted is recent.      *)
THEOREM LiveStaysRecent == PagesSpec => []LiveIsRecent
  BY PagesInvInit, PagesInvStep, PagesInvImplies, PTL DEF PagesSpec

(* MARKET_CLOSED keeps what it says: what is shown with it covers the last *)
(* completed session, for every clock and every order of writes.           *)
THEOREM ClosedStaysCovered == PagesSpec => []ClosedCoversSession
  BY PagesInvInit, PagesInvStep, PagesInvImplies, PTL DEF PagesSpec
=============================================================================
