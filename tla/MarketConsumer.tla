--------------------------- MODULE MarketConsumer ---------------------------
(***************************************************************************)
(* The WebSocket consumer (apps/market/consumers.py): a page's connection, *)
(* the groups its channel is in, and the ticks that wait in the channel    *)
(* until the consumer, which handles one message at a time, comes to them. *)
(* A tick is an instrument and the version of its quote; the page          *)
(* (static/js/stock_detail.js, dashboard.js) shows what it is sent.        *)
(***************************************************************************)
EXTENDS Integers, Sequences

CONSTANTS Clients, Instruments,
          Subscriptions,  \* the sets of instruments a page asks for
          Capacity        \* the messages a channel holds

ASSUME ConsumerAssumption == Subscriptions \subseteq SUBSET Instruments /\ Capacity \in Nat

VARIABLES online,     \* the clients that are connected
          joined,     \* the groups a client's channel is in
          wants,      \* its subscriptions
          request,    \* the subscription it is being given, <<>> between two
          inbox,      \* the ticks in its channel, oldest first
          shown,      \* the version of each quote the page shows, 0 for none
          live        \* history: the instruments a tick of which it has been shown

consumerVars == <<online, joined, wants, request, inbox, shown, live>>

Tick == [instrument : Instruments, version : Nat]
NothingShown == [i \in Instruments |-> 0]

ConsumerTypeOK ==
    /\ online \subseteq Clients
    /\ joined \in [Clients -> SUBSET Instruments]
    /\ wants \in [Clients -> SUBSET Instruments]
    /\ request \in [Clients -> {<<>>} \cup {<<S>> : S \in SUBSET Instruments}]
    /\ inbox \in [Clients -> Seq(Tick)]
    /\ shown \in [Clients -> [Instruments -> Nat]]
    /\ live \in [Clients -> SUBSET Instruments]

ConsumerInit ==
    /\ online = {}
    /\ joined = [c \in Clients |-> {}]
    /\ wants = [c \in Clients |-> {}]
    /\ request = [c \in Clients |-> <<>>]
    /\ inbox = [c \in Clients |-> <<>>]
    /\ shown = [c \in Clients |-> NothingShown]
    /\ live = [c \in Clients |-> {}]

(* A new connection, or a page's next after a close, has a channel of its  *)
(* own; an unauthenticated one is closed at once.                          *)
Connect(c) ==
    /\ c \notin online
    /\ online' = online \cup {c}
    /\ UNCHANGED <<joined, wants, request, inbox, shown, live>>

(* market.subscribe arrives: groups are left, then joined, one await each; *)
(* the ticks that come in meanwhile wait.                                  *)
Receive(c, S) ==
    /\ c \in online /\ request[c] = <<>>
    /\ request' = [request EXCEPT ![c] = <<S>>]
    /\ UNCHANGED <<online, joined, wants, inbox, shown, live>>
GroupDiscard(c) ==
    /\ request[c] # <<>>
    /\ \E i \in joined[c] \ request[c][1] : joined' = [joined EXCEPT ![c] = @ \ {i}]
    /\ UNCHANGED <<online, wants, request, inbox, shown, live>>
GroupAdd(c) ==
    /\ request[c] # <<>>
    /\ joined[c] \subseteq request[c][1]
    /\ \E i \in request[c][1] \ joined[c] : joined' = [joined EXCEPT ![c] = @ \cup {i}]
    /\ UNCHANGED <<online, wants, request, inbox, shown, live>>
Subscribed(c) ==
    /\ request[c] = <<joined[c]>>
    /\ wants' = [wants EXCEPT ![c] = joined[c]]
    /\ request' = [request EXCEPT ![c] = <<>>]
    /\ UNCHANGED <<online, joined, inbox, shown, live>>

(* Without a subscription every tick still in the channel is sent; the     *)
(* page compares no timestamps.                                            *)
MarketMessage(c) ==
    /\ c \in online /\ request[c] = <<>> /\ inbox[c] # <<>>
    /\ LET tick == Head(inbox[c])
       IN  IF wants[c] # {} /\ tick.instrument \notin wants[c] THEN UNCHANGED <<shown, live>>
           ELSE /\ shown' = [shown EXCEPT ![c][tick.instrument] = tick.version]
                /\ live' = [live EXCEPT ![c] = @ \cup {tick.instrument}]
    /\ inbox' = [inbox EXCEPT ![c] = Tail(@)]
    /\ UNCHANGED <<online, joined, wants, request>>

Disconnect(c) ==
    /\ c \in online /\ request[c] = <<>>
    /\ online' = online \ {c}
    /\ joined' = [joined EXCEPT ![c] = {}]
    /\ wants' = [wants EXCEPT ![c] = {}]
    /\ inbox' = [inbox EXCEPT ![c] = <<>>]
    /\ UNCHANGED <<request, shown, live>>

(* The channel layer: a tick reaches the channels of its group that have   *)
(* room, or is lost; readers are those it reaches.                         *)
GroupSend(i, v, readers) ==
    /\ \A c \in readers : i \in joined[c] /\ Len(inbox[c]) < Capacity
    /\ inbox' = [c \in Clients |->
                    IF c \in readers THEN Append(inbox[c], [instrument |-> i, version |-> v])
                    ELSE inbox[c]]
    /\ UNCHANGED <<online, joined, wants, request, shown, live>>

ConsumerNext ==
    \E c \in Clients :
        \/ Connect(c) \/ (\E S \in Subscriptions : Receive(c, S)) \/ GroupDiscard(c)
        \/ GroupAdd(c) \/ Subscribed(c) \/ MarketMessage(c) \/ Disconnect(c)
=============================================================================
