---------------------------- MODULE MCLiveViews ----------------------------
(***************************************************************************)
(* Live quotes from the provider to the pages: QuoteFeed and Dashboard in  *)
(* one run, a scene at a time.  A scene holds still what it is not about;  *)
(* of the actions under fairness it holds none still, and it leaves each   *)
(* outcome such an action is owed.                                         *)
(***************************************************************************)
EXTENDS QuoteFeed, Dashboard

VARIABLE part    \* the scene

TwoBatches == << {"s1"}, {"s2", "index"} >>
Subs == {{"index"}, {"s2"}, {}}
LastVersion == [s1 |-> 1, s2 |-> 2, index |-> 2]

SectorOf == [a |-> "x", b |-> ""]
SomeLags == {-2, 0, 3, 16}
SomeReports ==
    { [company |-> "a", session |-> Unknown, lifecycle |-> "FAILED_BREAKOUT", breakout |-> TRUE, prebreakout |-> TRUE,
       overall |-> 80, classification |-> "AVOID"],
      [company |-> "b", session |-> Unknown, lifecycle |-> "NEAR_PIVOT", breakout |-> FALSE, prebreakout |-> TRUE,
       overall |-> 60, classification |-> "WATCH"] }

FeedScenes == {"credentials", "delivery", "channel", "reconnect", "compact"}
PageScenes == {"equities", "indices", "reports"}

(* Friday in the window and after the grace, Saturday, Monday before the   *)
(* window and at its end.                                                  *)
Starts == {4 * 8 + 3, 4 * 8 + 6, 5 * 8, 7 * 8, 7 * 8 + 4}

Watching == {"credentials", "delivery"}
PageInit ==
    /\ online = Clients
    /\ joined = [c \in Clients |-> {"index"}]
    /\ wants = joined
    /\ request = [c \in Clients |-> <<>>]
    /\ inbox = [c \in Clients |-> <<>>]
    /\ shown = [c \in Clients |-> NothingShown]
    /\ live = [c \in Clients |-> {}]

MCInit ==
    /\ part \in FeedScenes \cup PageScenes
    /\ now \in IF part \in PageScenes THEN Starts ELSE {0}
    /\ aligned \in IF part = "reports" THEN {Unknown, 3, 4} ELSE {Unknown}
    /\ TokenInit /\ WorkerInit /\ PagesInit
    /\ IF part \in Watching THEN PageInit ELSE ConsumerInit
    /\ bad = IF part = "reconnect" THEN {} ELSE {1}
    /\ compact = (part = "compact")

(* One sign-in whenever there is no usable token, and none that ends.      *)
SteadyToken ==
    /\ valid \subseteq valid' /\ aged' = aged
    /\ issued' # issued => ~Usable /\ token' # token /\ ~token'[1].expires
NoRetry == attempt' <= attempt
AsksFor(S) == \A c \in Clients : request'[c] # request[c] /\ request'[c] # <<>>
                                   => wants[c] = {} /\ request'[c] \in {<<T>> : T \in S}
EodAsksFor(S) == eod'.step # "none" => DOMAIN eod'.rows = S

FeedScene ==
    CASE part = "credentials" ->
           /\ <<version, eod, faults, online, request, refresh>>'
                = <<version, eod, faults, online, request, refresh>>
      [] part = "delivery" ->
           /\ SteadyToken /\ NoRetry
           /\ <<version["s2"], online, request, refresh>>' = <<version["s2"], online, request, refresh>>
           /\ EodAsksFor(Indices)
      [] part = "channel" ->
           /\ SteadyToken /\ NoRetry
           /\ <<version["index"], eod, refresh>>' = <<version["index"], eod, refresh>>
           /\ \A c \in Clients : request'[c] # <<{"index"}>>
      [] part = "reconnect" ->
           /\ SteadyToken /\ NoRetry /\ AsksFor({{"index"}})
           /\ <<version["s2"], eod, faults>>' = <<version["s2"], eod, faults>>
           /\ UNCHANGED <<inbox, refresh>> => UNCHANGED shown
      [] part = "compact" ->
           /\ SteadyToken /\ NoRetry /\ AsksFor({{"s2"}})
           /\ <<version["index"], refresh, faults>>' = <<version["index"], refresh, faults>>
           /\ EodAsksFor({"s2"}) /\ online \subseteq online'

SceneStart == CHOOSE s \in Starts : s <= now /\ \A r \in Starts : r <= now => r <= s

(* The rise of one company, the fall of the other, which may be unpriced   *)
(* and without a recent trade.                                             *)
TwoKinds ==
    \A c \in Companies : equity'[c] # equity[c] =>
        LET q == equity'[c][1]
        IN  IF c = "a" THEN q.change = 1 /\ q.priced /\ q.session = LastTrade(q.stamp)
            ELSE q.change = -1
OneIndex == \A k \in IndexKeys : indices'[k] # indices[k] =>
                indices'[k][1].priced /\ indices'[k][1].change = 0

PageScene ==
    /\ ~Shown /\ detail = NoDetail
    /\ now' <= SceneStart + 1
    /\ part # "equities" => equity' = equity
    /\ part # "indices" => indices' = indices
    /\ part # "reports" => <<aligned, cache>>' = <<aligned, cache>>
    /\ home.step \in {"reports", "indices"} => equity' = equity /\ detail' = detail
    /\ TwoKinds /\ OneIndex

MCNext ==
    /\ \/ part \in FeedScenes /\ FeedNext /\ FeedScene /\ UNCHANGED pageVars
       \/ part \in PageScenes /\ PagesNext /\ PageScene /\ UNCHANGED vars
    /\ UNCHANGED part

MCSpec == MCInit /\ [][MCNext]_<<vars, pageVars, part>> /\ Fairness
=============================================================================
