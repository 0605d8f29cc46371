------------------------------ MODULE TradeSink ------------------------------
(***************************************************************************)
(* The trade sink of the order server, broker/brokerserver.cpp: a broker's *)
(* thread hands trades over through tradeQueue, and the thread tradeSink   *)
(* sends them to the stats server, one at a time, each after a heartbeat   *)
(* that was answered. The connection may break at any time, and the sink   *)
(* then connects anew and goes on with the trade at the front.             *)
(*                                                                         *)
(* Trades are numbered in the order they are handed over; their contents   *)
(* are left out. The transport and the stats server are external: a line   *)
(* delivers in order until it breaks; a send on a broken line may still    *)
(* succeed; the stats server answers every heartbeat.                      *)
(***************************************************************************)
EXTENDS Integers, FiniteSets, SequencesExt

CONSTANTS
  MaxTrades,   \* bound: trades handed over
  MaxBreaks    \* bound: times the connection breaks

ASSUME BoundsAssumption == MaxTrades \in Nat /\ MaxBreaks \in Nat

Trades == 1 .. MaxTrades
Heartbeat == 0   \* on the wire

VARIABLES
  given,       \* trades handed to sendTradeToSink so far
  pushing,     \* a broker's thread is inside sendTradeToSink, with the mutex
  tradeQueue,
  pc,          \* where the thread of tradeSink is
  trade,       \* its local copy of the front of the queue
  line,        \* its connection: "none", "up" or "broken"
  wire,        \* what the stats server has yet to read
  answers,     \* answers the sink has yet to read
  received,    \* the trades the stats server has read
  breaks,      \* how often the connection broke
  races        \* how often a pop was lost to a push at the same time

queueVars == <<given, pushing, tradeQueue>>
sinkVars  == <<pc, trade>>
lineVars  == <<line, wire, answers, breaks>>
vars == <<queueVars, sinkVars, lineVars, received, races>>

Init ==
  /\ given = 0
  /\ pushing = FALSE
  /\ tradeQueue = << >>
  /\ pc = "connect"
  /\ trade = 0
  /\ line = "none"
  /\ wire = << >>
  /\ answers = 0
  /\ received = << >>
  /\ breaks = 0
  /\ races = 0

(***************************************************************************)
(* sendTradeToSink, called by the broker's thread at the end of            *)
(* tradeCallback.                                                          *)
(***************************************************************************)
PushedInFront(t) == <<t>> \o tradeQueue   \* fault: the newest trade goes first

Pushed(t) == Append(tradeQueue, t)

GiveTrade ==   \* takes tradeQueueMutex
  /\ ~ pushing /\ given < MaxTrades
  /\ given' = given + 1
  /\ pushing' = TRUE
  /\ UNCHANGED <<tradeQueue, sinkVars, lineVars, received, races>>

Push ==        \* and releases it
  /\ pushing
  /\ tradeQueue' = Pushed(given)
  /\ pushing' = FALSE
  /\ UNCHANGED <<given, sinkVars, lineVars, received, races>>

(***************************************************************************)
(* tradeSink                                                               *)
(***************************************************************************)
Connect ==   \* a failed attempt is repeated after a while
  /\ pc = "connect"
  /\ line' = "up" /\ wire' = << >> /\ answers' = 0
  /\ pc' = "heartbeat"
  /\ UNCHANGED <<queueVars, trade, received, breaks, races>>

GiveUp == "stopped"   \* fault: the thread ends when the line is broken

OnFailure == "connect"

Sends(message, next) ==   \* proto.sendMessage
  \/ line = "up" /\ wire' = Append(wire, message) /\ pc' = next
  \/ line = "broken" /\ pc' \in {next, OnFailure} /\ UNCHANGED wire

SendHeartbeat ==
  /\ pc = "heartbeat"
  /\ Sends(Heartbeat, "answer")
  /\ UNCHANGED <<queueVars, trade, line, answers, received, breaks, races>>

ReadAnswer ==
  /\ pc = "answer"
  /\ \/ answers > 0 /\ answers' = answers - 1 /\ pc' = "take"
     \/ line = "broken" /\ answers = 0 /\ pc' = OnFailure /\ UNCHANGED answers
  /\ UNCHANGED <<queueVars, trade, line, wire, received, breaks, races>>

TakeTrade ==   \* under tradeQueueMutex; waits while the queue is empty
  /\ pc = "take" /\ ~ pushing /\ tradeQueue # << >>
  /\ trade' = Head(tradeQueue)
  /\ pc' = "send"
  /\ UNCHANGED <<queueVars, lineVars, received, races>>

SendTrade ==
  /\ pc = "send"
  /\ Sends(trade, "pop")
  /\ UNCHANGED <<queueVars, trade, line, answers, received, breaks, races>>

SkipHeartbeat == "take"   \* fault: no heartbeat before the next trade

AfterPop == "heartbeat"

NeverPops == UNCHANGED tradeQueue   \* fault: the trade stays at the front

Pops == tradeQueue' = Tail(tradeQueue)

(***************************************************************************)
(* The pop is made without the mutex: if a push is being made, the two     *)
(* race on the deque, which may lose the pop.                              *)
(***************************************************************************)
PopTrade ==
  /\ pc = "pop"
  /\ \/ Pops /\ UNCHANGED races
     \/ pushing /\ races' = races + 1 /\ UNCHANGED tradeQueue
  /\ pc' = AfterPop
  /\ UNCHANGED <<given, pushing, trade, lineVars, received>>

(***************************************************************************)
(* The stats server reads a message; the line breaks, with what is on it,  *)
(* except perhaps answers that have arrived.                               *)
(***************************************************************************)
StatsServer ==
  /\ line = "up" /\ wire # << >>
  /\ wire' = Tail(wire)
  /\ IF Head(wire) = Heartbeat
     THEN answers' = answers + 1 /\ UNCHANGED received
     ELSE received' = Append(received, Head(wire)) /\ UNCHANGED answers
  /\ UNCHANGED <<queueVars, sinkVars, line, breaks, races>>

Break ==
  /\ line = "up" /\ breaks < MaxBreaks
  /\ line' = "broken" /\ wire' = << >> /\ answers' \in {0, answers}
  /\ breaks' = breaks + 1
  /\ UNCHANGED <<queueVars, sinkVars, received, races>>

Sink == Connect \/ SendHeartbeat \/ ReadAnswer \/ TakeTrade \/ SendTrade \/ PopTrade

Done ==   \* the bounds are reached and the sink waits for a trade
  /\ given = MaxTrades /\ tradeQueue = << >> /\ pc = "take"
  /\ UNCHANGED vars

Next == GiveTrade \/ Push \/ Sink \/ StatsServer \/ Break \/ Done

Spec == Init /\ [][Next]_vars

(***************************************************************************)
(* The threads of the broker and of the sink, and the stats server, go on; *)
(* a connection attempt succeeds at last; the line need not break. The     *)
(* sink waits for the mutex, which is free whenever no trade is handed     *)
(* over: as trades are bounded, weak fairness is enough.                   *)
(***************************************************************************)
FairSpec == Spec /\ WF_vars(Push) /\ WF_vars(Sink) /\ WF_vars(StatsServer)
-----------------------------------------------------------------------------
(***************************************************************************)
(* Every variable has its type.                                            *)
(***************************************************************************)
TypeOK ==
  /\ given \in 0 .. MaxTrades
  /\ pushing \in BOOLEAN
  /\ tradeQueue \in Seq(Trades)
  /\ pc \in {"connect", "heartbeat", "answer", "take", "send", "pop"}
  /\ trade \in Trades \cup {0}
  /\ line \in {"none", "up", "broken"}
  /\ wire \in Seq(Trades \cup {Heartbeat})
  /\ answers \in Nat
  /\ received \in Seq(Trades)
  /\ breaks \in Nat
  /\ races \in Nat

\* neither queued, nor being handed over, nor on the wire, nor received
Lost ==
  {t \in 1 .. given : /\ ~ (pushing /\ t = given)
                      /\ t \notin ToSet(tradeQueue)
                      /\ t \notin ToSet(wire)
                      /\ t \notin ToSet(received)}

(***************************************************************************)
(* However the line breaks, no more than one trade is lost each time: the  *)
(* one that was sent and popped when the answer to the next heartbeat had  *)
(* not come back yet.                                                      *)
(***************************************************************************)
AtMostOneLostPerBreak == Cardinality(Lost) <= breaks

(***************************************************************************)
(* The stats server receives a trade twice only if a pop was lost: not     *)
(* because the connection broke while the trade was sent.                  *)
(***************************************************************************)
RepeatedOnlyByRace == Len(received) - Cardinality(ToSet(received)) <= races

(***************************************************************************)
(* The sink implements the feed of trades.                                 *)
(***************************************************************************)
Feed == INSTANCE TradeFeed
FeedSpec == Feed!Spec

(***************************************************************************)
(* Every trade handed over is received or lost in the end: it does not     *)
(* stay in the queue, however often the connection broke.                  *)
(***************************************************************************)
EveryTradeLeavesTheQueue ==
  \A t \in Trades : given >= t ~> t \in ToSet(received) \cup Lost
=============================================================================
