------------------------------ MODULE QuoteFeed ------------------------------
(***************************************************************************)
(* Quotes on their way from the provider to the pages: the loop of the     *)
(* quote worker (management/commands/sync_quotes.py, services/             *)
(* quote_sync.py), which asks batch by batch, saves and broadcasts, beside *)
(* the quote step of the EOD ingestion (sync_quotes of                     *)
(* cloud_eod_ingestion_service.py), which writes the rows of the indices   *)
(* in the same table and those of the stocks in CloudQuoteSnapshot, which  *)
(* pages read in their place under the setting CLOUD_COMPACT_MARKET_DATA.  *)
(* Versions of a quote number the provider's states of it in time.         *)
(***************************************************************************)
EXTENDS TokenStore, MarketConsumer, FiniteSets

CONSTANTS MaxVersion,     \* the last version of each instrument's quote
          Batches,        \* default_instruments cut by BATCH_SIZE
          Indices,        \* the instruments that are indices
          MAX_RETRIES,
          MaxFaults      \* faults of the worker

ASSUME FeedAssumption ==
    /\ Batches \in Seq(SUBSET Instruments) /\ Batches # <<>>
    /\ Indices \subseteq Instruments
    /\ MAX_RETRIES \in Nat \ {0} /\ MaxFaults \in Nat

VARIABLES version,    \* the provider's quotes
          bad,        \* the batches every request of which is refused
          compact,    \* the setting CLOUD_COMPACT_MARKET_DATA of the pages' program
          quotes,     \* MarketQuote: the version in each instrument's row, 0 before
          snapshots,  \* CloudQuoteSnapshot: the same, of the stocks
          newest,     \* history: the newest version the row has ever had
          worker,     \* what the loop is at
          batch, attempt,
          answer,     \* the quotes in hand: what the answer held, then what is to be sent
          eod,        \* the EOD ingestion's quote step, and the rows it has collected
          refresh,    \* what a dashboard's REST fallback has read, <<>> for none
          faults

settings == <<bad, compact>>
tables == <<quotes, snapshots, newest>>
workerVars == <<worker, batch, attempt, answer>>
feedVars == <<version, settings, tables, workerVars, eod, refresh, faults>>
vars == <<tokenVars, client, consumerVars, feedVars>>

NoQuotes == [i \in {} |-> 0]
NoRun == [step |-> "none", rows |-> NoQuotes]
AreQuotes(a, S) == DOMAIN a \subseteq S /\ \A i \in DOMAIN a : a[i] \in Nat

FeedTypeOK ==
    /\ TokenTypeOK
    /\ ConsumerTypeOK
    /\ version \in [Instruments -> Nat]
    /\ bad \subseteq DOMAIN Batches
    /\ compact \in BOOLEAN
    /\ quotes \in [Instruments -> Nat]
    /\ snapshots \in [Instruments -> Nat]
    /\ newest \in [Instruments -> Nat]
    /\ worker \in {"down", "start", "sleep", "ask", "save", "send"}
    /\ batch \in DOMAIN Batches
    /\ attempt \in 1..MAX_RETRIES
    /\ AreQuotes(answer, Instruments)
    /\ eod.step \in {"none", "asked", "saved"} /\ AreQuotes(eod.rows, Instruments)
    /\ refresh \in [Clients -> Seq([Indices -> Nat])]
    /\ faults \in 0..MaxFaults

WorkerInit ==
    /\ version = [i \in Instruments |-> 1]
    /\ bad \in {{}, {1}}
    /\ compact \in BOOLEAN
    /\ quotes = [i \in Instruments |-> 0]
    /\ snapshots = [i \in Instruments |-> 0]
    /\ newest = [i \in Instruments |-> 0]
    /\ worker = "down"
    /\ batch = 1
    /\ attempt = 1
    /\ answer = NoQuotes
    /\ eod = NoRun
    /\ refresh = [c \in Clients |-> <<>>]
    /\ faults = 0
FeedInit == TokenInit /\ ConsumerInit /\ WorkerInit

-----------------------------------------------------------------------------
(* The provider, and writes to the table.                                  *)

QuoteMoves(i) ==
    /\ version[i] < MaxVersion[i]
    /\ version' = [version EXCEPT ![i] = @ + 1]
    /\ UNCHANGED <<tokenVars, client, consumerVars, settings, tables, workerVars, eod, refresh, faults>>

(* An answer may lack an instrument, or hold a quote that cannot be        *)
(* normalised or whose price is not positive.                              *)
Answers(S) == {[i \in T |-> version[i]] : T \in SUBSET S}

(* Rows are replaced without a look at what they hold.                     *)
BulkSave(rows) ==
    /\ quotes' = [i \in Instruments |-> IF i \in DOMAIN rows THEN rows[i] ELSE quotes[i]]
    /\ newest' = [i \in Instruments |->
                     IF i \in DOMAIN rows /\ rows[i] > newest[i] THEN rows[i] ELSE newest[i]]

-----------------------------------------------------------------------------
(* The quote worker.                                                       *)

(* The worker goes on at the next batch, or sleeps and starts again.       *)
NextBatch ==
    /\ batch' = IF batch < Len(Batches) THEN batch + 1 ELSE 1
    /\ worker' = IF batch < Len(Batches) THEN "ask" ELSE "sleep"
    /\ attempt' = 1
    /\ answer' = NoQuotes

(* An exception leaves sync: the command prints it and sleeps.             *)
SyncEnds ==
    /\ worker' = "sleep"
    /\ batch' = 1
    /\ attempt' = 1
    /\ answer' = NoQuotes

(* A batch that cannot be answered: the remaining batches go on.           *)
BatchFailsMutant == SyncEnds
BatchFails == NextBatch

(* handle builds the client before the loop: without a token it ends.      *)
Start ==
    /\ worker = "down"
    /\ worker' = "start"
    /\ client' = NewClient
    /\ UNCHANGED <<tokenVars, consumerVars, version, settings, tables, batch, attempt, answer,
                   eod, refresh, faults>>
Started ==
    /\ worker = "start"
    /\ client.call \in {"ready", "raised"}
    /\ worker' = IF client.call = "ready" THEN "sleep" ELSE "down"
    /\ Goto("none")
    /\ UNCHANGED <<tokenVars, consumerVars, version, settings, tables, batch, attempt, answer,
                   eod, refresh, faults>>

Wake ==
    /\ worker = "sleep"
    /\ worker' = "ask"
    /\ UNCHANGED <<tokenVars, client, consumerVars, version, settings, tables, batch, attempt, answer,
                   eod, refresh, faults>>

(* A failed check of the token has no status and is tried again, as are    *)
(* the provider's transient failures; a dead token or a bad batch is       *)
(* refused for good, and the remaining batches go on.                      *)
RequestFails ==
    /\ worker = "ask" /\ client.call \in {"ready", "raised"}
    /\ LET refused == client.call = "ready" /\ (~Accepted \/ batch \in bad)
       IN  IF attempt < MAX_RETRIES /\ ~refused
           THEN /\ attempt' = attempt + 1
                /\ UNCHANGED <<worker, batch, answer>>
           ELSE BatchFails
    /\ Goto("none")
    /\ UNCHANGED <<tokenVars, consumerVars, version, settings, tables, eod, refresh, faults>>

Answered ==
    /\ worker = "ask" /\ Accepted /\ batch \notin bad
    /\ \E a \in Answers(Batches[batch]) :
          IF a = NoQuotes THEN NextBatch
          ELSE /\ worker' = "save"
               /\ answer' = a
               /\ UNCHANGED <<batch, attempt>>
    /\ Goto("none")
    /\ UNCHANGED <<tokenVars, consumerVars, version, settings, tables, eod, refresh, faults>>

(* A bulk_save that raised would be passed over and its quotes sent.       *)
SaveMutant ==
    /\ worker = "save"
    /\ BulkSave(answer) \/ UNCHANGED <<quotes, newest>>
    /\ worker' = "send"
    /\ UNCHANGED <<tokenVars, client, consumerVars, version, settings, snapshots, batch, attempt, answer,
                   eod, refresh, faults>>
Save ==
    /\ worker = "save"
    /\ BulkSave(answer)
    /\ worker' = "send"
    /\ UNCHANGED <<tokenVars, client, consumerVars, version, settings, snapshots, batch, attempt, answer,
                   eod, refresh, faults>>

(* group_send instrument by instrument, in any order.                      *)
Send(i, readers) ==
    /\ worker = "send" /\ i \in DOMAIN answer
    /\ GroupSend(i, answer[i], readers)
    /\ IF DOMAIN answer = {i} THEN NextBatch
       ELSE /\ answer' = [j \in DOMAIN answer \ {i} |-> answer[j]]
            /\ UNCHANGED <<worker, batch, attempt>>
    /\ UNCHANGED <<tokenVars, client, version, settings, tables, eod, refresh, faults>>

(* The database or the channel layer raises.                               *)
WriteFails ==
    /\ worker \in {"save", "send"} /\ faults < MaxFaults
    /\ faults' = faults + 1
    /\ SyncEnds
    /\ UNCHANGED <<tokenVars, client, consumerVars, version, settings, tables, eod, refresh>>

Crash ==
    /\ worker # "down" /\ faults < MaxFaults
    /\ faults' = faults + 1
    /\ worker' = "down"
    /\ batch' = 1
    /\ attempt' = 1
    /\ answer' = NoQuotes
    /\ client' = NewClient
    /\ UNCHANGED <<tokenVars, consumerVars, version, settings, tables, eod, refresh>>

-----------------------------------------------------------------------------
(* The EOD ingestion's quotes: all batches are asked for, then the stocks' *)
(* rows are written to CloudQuoteSnapshot, then the indices' to the table. *)
(* Its client takes any token the provider accepts, and its retries and    *)
(* failed batches change nothing.                                          *)

OutsideEod == <<tokenVars, client, consumerVars, version, settings, workerVars, refresh, faults>>
EodAt(step) == eod.step = step /\ UNCHANGED OutsideEod

EodAnswered ==
    /\ EodAt("none") \/ EodAt("asked")
    /\ valid # {}
    /\ \E a \in Answers(Instruments \ DOMAIN eod.rows) :
          eod' = [step |-> "asked",
                  rows |-> [i \in DOMAIN eod.rows \cup DOMAIN a |->
                               IF i \in DOMAIN a THEN a[i] ELSE eod.rows[i]]]
    /\ UNCHANGED tables
EodSavesStocks ==
    /\ EodAt("asked")
    /\ snapshots' = [i \in Instruments |-> IF i \in DOMAIN eod.rows \ Indices THEN eod.rows[i]
                                           ELSE snapshots[i]]
    /\ eod' = [step |-> "saved", rows |-> eod.rows]
    /\ UNCHANGED <<quotes, newest>>
EodSavesIndices ==
    /\ EodAt("saved")
    /\ BulkSave([i \in DOMAIN eod.rows \cap Indices |-> eod.rows[i]])
    /\ eod' = NoRun
    /\ UNCHANGED snapshots

(* It ends before the one write or the other.                              *)
EodEnds ==
    /\ EodAt("asked") \/ EodAt("saved")
    /\ eod' = NoRun
    /\ UNCHANGED tables

-----------------------------------------------------------------------------
(* Pages that read the tables.                                             *)

Untouched == <<tokenVars, client, online, joined, wants, request, inbox, version, settings, tables,
               workerVars, eod, faults>>

(* A page is rendered before it connects, its stocks from the table the    *)
(* setting names.                                                          *)
Rendered == [i \in Instruments |-> IF compact /\ i \notin Indices THEN snapshots[i] ELSE quotes[i]]
PageLoads(c) ==
    /\ c \notin online /\ shown[c] = NothingShown
    /\ shown' = [shown EXCEPT ![c] = Rendered]
    /\ live' = [live EXCEPT ![c] = {}]
    /\ UNCHANGED <<Untouched, refresh>>

(* A dashboard whose socket closed asks for home; the answer is read now   *)
(* and its index items are shown when it arrives, if it does.              *)
RestRead(c) ==
    /\ c \notin online /\ refresh[c] = <<>>
    /\ refresh' = [refresh EXCEPT ![c] = <<[i \in Indices |-> quotes[i]]>>]
    /\ UNCHANGED <<Untouched, shown, live>>
RestArrives(c) ==
    /\ refresh[c] # <<>>
    /\ \/ UNCHANGED shown
       \/ shown' = [shown EXCEPT ![c] = [i \in Instruments |->
                        IF i \in Indices THEN refresh[c][1][i] ELSE shown[c][i]]]
    /\ refresh' = [refresh EXCEPT ![c] = <<>>]
    /\ UNCHANGED <<Untouched, live>>

-----------------------------------------------------------------------------
Asks == worker \in {"start", "ask"}

CredentialSteps ==
    /\ \/ \E renewable \in BOOLEAN : Login(renewable)
       \/ \E t \in Tokens : TokenAges(t) \/ TokenDies(t)
       \/ (Asks /\ EnsureConfigured) \/ RenewAnswered \/ RenewStored \/ RecheckDue
    /\ UNCHANGED <<consumerVars, feedVars>>

FeedNext ==
    \/ CredentialSteps
    \/ ConsumerNext /\ UNCHANGED <<tokenVars, client, feedVars>>
    \/ \E i \in Instruments : QuoteMoves(i) \/ (\E R \in SUBSET Clients : Send(i, R))
    \/ Start \/ Started \/ Wake \/ RequestFails \/ Answered \/ Save \/ WriteFails \/ Crash
    \/ EodAnswered \/ EodSavesStocks \/ EodSavesIndices \/ EodEnds
    \/ \E c \in Clients : PageLoads(c) \/ RestRead(c) \/ RestArrives(c)

-----------------------------------------------------------------------------
(* Fairness.  Both programs' steps go on; a token nobody can use any more  *)
(* makes somebody sign in; and the platform starts the worker again.       *)
Usable == token # None /\ token[1].access \in valid /\ ~NeedsRefresh(token[1])
TokensReturn ==
    /\ WF_vars(~Usable /\ Login(TRUE) /\ UNCHANGED <<consumerVars, feedVars>>)
    /\ WF_vars(RecheckDue /\ UNCHANGED <<consumerVars, feedVars>>)
    /\ WF_vars(Asks /\ EnsureConfigured /\ UNCHANGED <<consumerVars, feedVars>>)
    /\ WF_vars(RenewAnswered /\ UNCHANGED <<consumerVars, feedVars>>)
    /\ WF_vars(RenewStored /\ UNCHANGED <<consumerVars, feedVars>>)
WorkerRuns ==
    /\ WF_vars(Start) /\ WF_vars(Started) /\ WF_vars(Wake) /\ WF_vars(RequestFails \/ Answered)
    /\ WF_vars(Save \/ \E i \in Instruments, R \in SUBSET Clients : Send(i, R))

(* The provider answers for the whole of a batch again and again, unless   *)
(* it refuses it; a channel that has room again and again gets a tick; and *)
(* a consumer sends what is in its channel.                                *)
Delivery ==
    /\ \A b \in DOMAIN Batches : SF_vars(Answered /\ DOMAIN answer' = Batches[b])
    /\ \A c \in Clients :
          /\ \A i \in Instruments : SF_vars(\E R \in SUBSET Clients : c \in R /\ Send(i, R))
          /\ WF_vars(MarketMessage(c) /\ UNCHANGED <<tokenVars, client, feedVars>>)

Fairness == TokensReturn /\ WorkerRuns /\ Delivery
FeedSpec == FeedInit /\ [][FeedNext]_vars /\ Fairness

-----------------------------------------------------------------------------
(* Properties.                                                             *)

(* What a page shows of a stock never goes back: neither the row of        *)
(* MarketQuote it was rendered from, nor a tick, nor one still on its way  *)
(* is older than what came before, across lost ticks, reconnections,       *)
(* failing batches and faults, and no tick is ahead of the table (the      *)
(* quotes are saved before they are broadcast).  A page rendered from      *)
(* CloudQuoteSnapshot (compact) keeps to that from its first tick of the   *)
(* stock on: that tick may be older than the snapshot, the ingestion's.    *)
(* The ingestion's write of an older index quote and a late REST answer    *)
(* leave of it, for an index, the order of the ticks alone.                *)
Ordered(c, i) == i \notin Indices /\ (compact => i \in live[c])
TicksFollowTable ==
    \A c \in Clients, i \in Instruments :
        LET Ticks == {k \in DOMAIN inbox[c] : inbox[c][k].instrument = i}
        IN  /\ \A j, k \in Ticks : j < k => inbox[c][j].version <= inbox[c][k].version
            /\ \A k \in Ticks : inbox[c][k].version <= newest[i]
            /\ Ordered(c, i) =>
                 /\ shown[c][i] <= newest[i]
                 /\ \A k \in Ticks : shown[c][i] <= inbox[c][k].version

Subscribes(c, i) == c \in online /\ request[c] = <<>> /\ i \in wants[c]
BatchOf(i) == CHOOSE b \in DOMAIN Batches : i \in Batches[b]

(* The feed comes back: whatever batch is refused every time, whichever    *)
(* token expires and however often the worker starts again, a page that    *)
(* stays subscribed is shown the newest quote, and the table holds it.     *)
FeedResumes ==
    \A c \in Clients, i \in Instruments :
        <>[](Subscribes(c, i) /\ BatchOf(i) \notin bad)
            => []<>(shown[c][i] = version[i] /\ quotes[i] = version[i])
=============================================================================
