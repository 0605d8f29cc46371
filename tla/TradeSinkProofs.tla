--------------------------- MODULE TradeSinkProofs ---------------------------
(***************************************************************************)
(* Proofs about TradeSink: the types, that the sink implements the feed    *)
(* that TradeFeed specifies, and what breaks of the line and lost pops can *)
(* cost, for any number of trades and breaks.                              *)
(***************************************************************************)
EXTENDS TradeSink, FiniteSetTheorems, SequenceTheorems, TLAPS

-----------------------------------------------------------------------------
(* The thread's copy of a trade is the front of the queue from the time it  *)
(* is taken to the pop, as nobody else takes trades out.                    *)

HoldsFront ==
  /\ pc \in {"send", "pop"} => tradeQueue # << >> /\ trade = Head(tradeQueue)
  /\ pushing => given \in Trades

TypeInv == TypeOK /\ HoldsFront

LEMMA InitTypeInv == Init => TypeInv
<1> SUFFICES ASSUME Init
             PROVE  TypeInv
  OBVIOUS
<1>1. << >> \in Seq(Trades) /\ << >> \in Seq(Trades \cup {Heartbeat})
  OBVIOUS
<1>2. given \in 0 .. MaxTrades
  BY BoundsAssumption DEF Init
<1> QED
  BY <1>1, <1>2 DEF Init, TypeInv, TypeOK, HoldsFront

LEMMA SendsType ==
  ASSUME TypeInv, NEW m \in Trades \cup {Heartbeat}, NEW next, Sends(m, next)
  PROVE  /\ wire' \in Seq(Trades \cup {Heartbeat})
         /\ pc' \in {next, "connect"}
<1>1. wire \in Seq(Trades \cup {Heartbeat})
  BY DEF TypeInv, TypeOK
<1> QED
  BY <1>1, AppendProperties DEF Sends, OnFailure

LEMMA NextTypeInv == TypeInv /\ [Next]_vars => TypeInv'
<1> SUFFICES ASSUME TypeInv, [Next]_vars
             PROVE  TypeInv'
  OBVIOUS
<1> USE DEF TypeInv, TypeOK, HoldsFront, queueVars, sinkVars, lineVars
<1>1. CASE GiveTrade
  <2>1. given' \in 0 .. MaxTrades /\ given' \in Trades
    BY <1>1, BoundsAssumption DEF GiveTrade, Trades
  <2> QED
    BY <1>1, <2>1 DEF GiveTrade
<1>2. CASE Push
  <2>1. /\ tradeQueue' = Append(tradeQueue, given) /\ given \in Trades
        /\ tradeQueue \in Seq(Trades)
    BY <1>2 DEF Push, Pushed
  <2>2. /\ tradeQueue' \in Seq(Trades) /\ tradeQueue' # << >>
        /\ tradeQueue # << >> => Head(tradeQueue') = Head(tradeQueue)
    BY <2>1, AppendProperties
  <2> QED
    BY <1>2, <2>2 DEF Push
<1>3. CASE Connect
  BY <1>3 DEF Connect
<1>4. CASE SendHeartbeat
  <2>1. /\ wire' \in Seq(Trades \cup {Heartbeat})
        /\ pc' \in {"answer", "connect"}
    BY <1>4, SendsType DEF SendHeartbeat
  <2> QED
    BY <1>4, <2>1 DEF SendHeartbeat
<1>5. CASE ReadAnswer
  BY <1>5 DEF ReadAnswer, OnFailure
<1>6. CASE TakeTrade
  BY <1>6 DEF TakeTrade
<1>7. CASE SendTrade
  <2>1. trade \in Trades
    BY <1>7 DEF SendTrade
  <2>2. /\ wire' \in Seq(Trades \cup {Heartbeat})
        /\ pc' \in {"pop", "connect"}
    BY <1>7, <2>1, SendsType DEF SendTrade
  <2> QED
    BY <1>7, <2>2 DEF SendTrade
<1>8. CASE PopTrade
  <2>1. tradeQueue' \in Seq(Trades)
    <3>1. tradeQueue \in Seq(Trades) /\ tradeQueue # << >>
      BY <1>8 DEF PopTrade
    <3>2. Tail(tradeQueue) \in Seq(Trades)
      BY <3>1
    <3> QED
      BY <1>8, <3>2 DEF PopTrade, Pops
  <2>2. races' \in Nat
    BY <1>8 DEF PopTrade
  <2> QED
    BY <1>8, <2>1, <2>2 DEF PopTrade, AfterPop
<1>9. CASE StatsServer
  <2>1. wire \in Seq(Trades \cup {Heartbeat}) /\ wire # << >>
    BY <1>9 DEF StatsServer
  <2>2. Tail(wire) \in Seq(Trades \cup {Heartbeat}) /\ Head(wire) \in Trades \cup {Heartbeat}
    BY <2>1
  <2>3. Head(wire) # Heartbeat => Append(received, Head(wire)) \in Seq(Trades)
    BY <2>2, AppendProperties
  <2>4. CASE Head(wire) = Heartbeat
    BY <1>9, <2>2, <2>4 DEF StatsServer
  <2>5. CASE Head(wire) # Heartbeat
    BY <1>9, <2>2, <2>3, <2>5 DEF StatsServer
  <2> QED
    BY <2>4, <2>5
<1>10. CASE Break
  BY <1>10 DEF Break
<1>11. CASE Done \/ UNCHANGED vars
  BY <1>11 DEF Done, vars
<1> QED
  BY <1>1, <1>2, <1>3, <1>4, <1>5, <1>6, <1>7, <1>8, <1>9, <1>10, <1>11 DEF Next, Sink

(***************************************************************************)
(* The variables keep their types; what the sink sends is the front of the *)
(* queue.                                                                  *)
(***************************************************************************)
THEOREM TypeCorrect == Spec => []TypeOK
<1>1. TypeInv => TypeOK
  BY DEF TypeInv
<1> QED
  BY <1>1, InitTypeInv, NextTypeInv, PTL DEF Spec

-----------------------------------------------------------------------------
(* The order of trades. Numbers never decrease from what was received last, *)
(* through the wire and the queue, to what was handed over last.            *)

Pipeline ==
  /\ received # << >> => Last(received) <= given
  /\ \A i \in DOMAIN wire : wire[i] # Heartbeat =>
       /\ wire[i] <= given
       /\ received # << >> => Last(received) <= wire[i]
  /\ \A i, j \in DOMAIN wire :
       i <= j /\ wire[i] # Heartbeat /\ wire[j] # Heartbeat => wire[i] <= wire[j]
  /\ \A k \in DOMAIN tradeQueue :
       /\ tradeQueue[k] <= given
       /\ received # << >> => Last(received) <= tradeQueue[k]
       /\ \A i \in DOMAIN wire : wire[i] # Heartbeat => wire[i] <= tradeQueue[k]
  /\ \A k, l \in DOMAIN tradeQueue : k <= l => tradeQueue[k] <= tradeQueue[l]

LEMMA ElementsOf ==
  ASSUME NEW S, NEW s \in Seq(S)
  PROVE  /\ Len(s) \in Nat /\ DOMAIN s = 1 .. Len(s)
         /\ \A i \in DOMAIN s : i \in Nat /\ s[i] \in S
         /\ s # << >> => Len(s) >= 1 /\ Len(s) \in DOMAIN s /\ 1 \in DOMAIN s
                         /\ Head(s) = s[1] /\ Last(s) \in S
BY ElementOfSeq, LenProperties, EmptySeq DEF Last

LEMMA AppendElements ==
  ASSUME NEW S, NEW s \in Seq(S), NEW e \in S
  PROVE  /\ Append(s, e) \in Seq(S) /\ Append(s, e) # << >>
         /\ Last(Append(s, e)) = e
         /\ DOMAIN Append(s, e) = 1 .. Len(s) + 1
         /\ \A i \in DOMAIN Append(s, e) :
              \/ i \in DOMAIN s /\ Append(s, e)[i] = s[i]
              \/ i = Len(s) + 1 /\ Append(s, e)[i] = e
<1>1. /\ Append(s, e) \in Seq(S) /\ Append(s, e) # << >>
      /\ Len(Append(s, e)) = Len(s) + 1
      /\ \A i \in 1 .. Len(s) : Append(s, e)[i] = s[i]
      /\ Append(s, e)[Len(s) + 1] = e
  BY AppendProperties
<1>2. DOMAIN Append(s, e) = 1 .. Len(s) + 1 /\ DOMAIN s = 1 .. Len(s) /\ Len(s) \in Nat
  BY <1>1, LenProperties
<1> QED
  BY <1>1, <1>2 DEF Last

LEMMA TailElements ==
  ASSUME NEW S, NEW s \in Seq(S), s # << >>
  PROVE  /\ Tail(s) \in Seq(S)
         /\ \A i \in DOMAIN Tail(s) : i \in Nat /\ i + 1 \in DOMAIN s /\ Tail(s)[i] = s[i + 1]
<1>1. /\ Tail(s) \in Seq(S) /\ Len(Tail(s)) = Len(s) - 1
      /\ \A i \in 1 .. Len(Tail(s)) : Tail(s)[i] = s[i + 1]
  BY HeadTailProperties
<1>2. Len(s) \in Nat /\ DOMAIN s = 1 .. Len(s) /\ DOMAIN Tail(s) = 1 .. Len(Tail(s))
  BY <1>1, LenProperties
<1> QED
  BY <1>1, <1>2

LEMMA NextPipeline == TypeInv /\ Pipeline /\ [Next]_vars => Pipeline'
<1> SUFFICES ASSUME TypeInv, Pipeline, [Next]_vars
             PROVE  Pipeline'
  OBVIOUS
<1> USE DEF queueVars, sinkVars, lineVars
<1> DEFINE Message == Trades \cup {Heartbeat}
<1>a. /\ given \in Nat /\ tradeQueue \in Seq(Trades) /\ wire \in Seq(Message)
      /\ received \in Seq(Trades)
      /\ Trades \subseteq Nat /\ Message \subseteq Nat /\ Heartbeat \in Message
  BY DEF TypeInv, TypeOK, Trades, Heartbeat
<1> HIDE DEF Message
<1>b. /\ \A i \in DOMAIN wire : wire[i] \in Nat /\ i \in Nat
      /\ \A k \in DOMAIN tradeQueue : tradeQueue[k] \in Nat /\ k \in Nat
      /\ received # << >> => Last(received) \in Nat
  <2>1. \A i \in DOMAIN wire : i \in Nat /\ wire[i] \in Message
    BY <1>a, ElementsOf
  <2>2. \A k \in DOMAIN tradeQueue : k \in Nat /\ tradeQueue[k] \in Trades
    BY <1>a, ElementsOf
  <2>3. received # << >> => Last(received) \in Trades
    BY <1>a, ElementsOf
  <2> QED
    BY <1>a, <2>1, <2>2, <2>3
<1>1. CASE GiveTrade
  <2>1. given' = given + 1 /\ UNCHANGED <<tradeQueue, wire, received>>
    BY <1>1 DEF GiveTrade
  <2> QED
    BY <1>a, <1>b, <2>1 DEF Pipeline
<1>2. CASE Push
  <2>1. tradeQueue' = Append(tradeQueue, given) /\ UNCHANGED <<given, wire, received>>
    BY <1>2 DEF Push, Pushed
  <2>2. \A k \in DOMAIN tradeQueue' :
          \/ k \in DOMAIN tradeQueue /\ tradeQueue'[k] = tradeQueue[k]
          \/ k = Len(tradeQueue) + 1 /\ tradeQueue'[k] = given
    <3>1. given \in Trades
      BY <1>2 DEF Push, TypeInv, HoldsFront
    <3> QED
      BY <1>a, <2>1, <3>1, AppendElements
  <2>3. \A k \in DOMAIN tradeQueue : k <= Len(tradeQueue) /\ Len(tradeQueue) \in Nat
    BY <1>a, ElementsOf
  <2>4. \A k, l \in DOMAIN tradeQueue' : k <= l => tradeQueue'[k] <= tradeQueue'[l]
    BY <1>a, <1>b, <2>2, <2>3 DEF Pipeline
  <2>5. \A k \in DOMAIN tradeQueue' :
          /\ tradeQueue'[k] <= given
          /\ received # << >> => Last(received) <= tradeQueue'[k]
          /\ \A i \in DOMAIN wire : wire[i] # Heartbeat => wire[i] <= tradeQueue'[k]
    <3> SUFFICES ASSUME NEW k \in DOMAIN tradeQueue'
                 PROVE  /\ tradeQueue'[k] <= given
                        /\ received # << >> => Last(received) <= tradeQueue'[k]
                        /\ \A i \in DOMAIN wire :
                             wire[i] # Heartbeat => wire[i] <= tradeQueue'[k]
      OBVIOUS
    <3>2. CASE k \in DOMAIN tradeQueue /\ tradeQueue'[k] = tradeQueue[k]
      BY <3>2 DEF Pipeline
    <3>3. CASE tradeQueue'[k] = given
      BY <1>a, <3>3 DEF Pipeline
    <3> QED
      BY <2>2, <3>2, <3>3
  <2> QED
    BY <2>1, <2>4, <2>5 DEF Pipeline
<1>3. ASSUME NEW m \in Message, NEW next, Sends(m, next),
             m = Heartbeat \/ (tradeQueue # << >> /\ m = Head(tradeQueue)),
             UNCHANGED <<given, tradeQueue, received>>
      PROVE  Pipeline'
  <2>1. CASE wire' = wire
    BY <1>3, <2>1 DEF Pipeline
  <2>2. CASE wire' = Append(wire, m)
    <3>1. \A i \in DOMAIN wire' :
            \/ i \in DOMAIN wire /\ wire'[i] = wire[i]
            \/ i = Len(wire) + 1 /\ wire'[i] = m
      BY <1>a, <2>2, AppendElements
    <3>2. \A i \in DOMAIN wire : i <= Len(wire) /\ Len(wire) \in Nat
      BY <1>a, ElementsOf
    <3>3. m # Heartbeat =>
            /\ m <= given
            /\ received # << >> => Last(received) <= m
            /\ \A k \in DOMAIN tradeQueue : m <= tradeQueue[k]
            /\ \A i \in DOMAIN wire : wire[i] # Heartbeat => wire[i] <= m
      <4>1. tradeQueue # << >> =>
              1 \in DOMAIN tradeQueue /\ Head(tradeQueue) = tradeQueue[1]
        BY <1>a, ElementsOf
      <4>2. \A k \in DOMAIN tradeQueue : 1 <= k
        BY <1>a, ElementsOf
      <4> QED
        BY <1>3, <4>1, <4>2 DEF Pipeline
    <3>4. m \in Nat
      BY <1>a
    <3>5. \A i, j \in DOMAIN wire' :
            i <= j /\ wire'[i] # Heartbeat /\ wire'[j] # Heartbeat => wire'[i] <= wire'[j]
      BY <1>b, <3>1, <3>2, <3>3, <3>4 DEF Pipeline
    <3>6. \A i \in DOMAIN wire' : wire'[i] # Heartbeat =>
            /\ wire'[i] <= given
            /\ received # << >> => Last(received) <= wire'[i]
            /\ \A k \in DOMAIN tradeQueue : wire'[i] <= tradeQueue[k]
      BY <3>1, <3>3 DEF Pipeline
    <3> QED
      BY <1>3, <3>5, <3>6 DEF Pipeline
  <2> QED
    BY <1>3, <2>1, <2>2 DEF Sends
<1>4. CASE SendHeartbeat
  BY <1>3, <1>4, <1>a DEF SendHeartbeat
<1>5. CASE SendTrade
  <2>1. tradeQueue # << >> /\ trade = Head(tradeQueue) /\ trade \in Message
    BY <1>5, <1>a, ElementsOf DEF SendTrade, TypeInv, HoldsFront, Message
  <2> QED
    BY <1>3, <1>5, <2>1 DEF SendTrade
<1>6. CASE wire' = << >> /\ UNCHANGED <<given, tradeQueue, received>>
  BY <1>6 DEF Pipeline
<1>7. CASE UNCHANGED <<given, tradeQueue, wire, received>>
  BY <1>7 DEF Pipeline
<1>8. CASE PopTrade
  <2>1. tradeQueue # << >> /\ UNCHANGED <<given, wire, received>>
    BY <1>8 DEF PopTrade, TypeInv, HoldsFront
  <2>2. CASE tradeQueue' = Tail(tradeQueue)
    <3>1. \A k \in DOMAIN tradeQueue' :
            k \in Nat /\ k + 1 \in DOMAIN tradeQueue /\ tradeQueue'[k] = tradeQueue[k + 1]
      BY <1>a, <2>1, <2>2, TailElements
    <3>2. \A k, l \in DOMAIN tradeQueue' : k <= l => k + 1 <= l + 1
      BY <3>1
    <3> QED
      BY <2>1, <3>1, <3>2 DEF Pipeline
  <2>3. CASE tradeQueue' = tradeQueue
    BY <1>7, <2>1, <2>3
  <2> QED
    BY <1>8, <2>2, <2>3 DEF PopTrade, Pops
<1>9. CASE StatsServer
  <2>1. wire # << >> /\ wire' = Tail(wire) /\ UNCHANGED <<given, tradeQueue>>
    BY <1>9 DEF StatsServer
  <2>2. \A i \in DOMAIN wire' :
          i \in Nat /\ i + 1 \in DOMAIN wire /\ wire'[i] = wire[i + 1] /\ 1 <= i + 1
    BY <1>a, <2>1, TailElements
  <2>3. 1 \in DOMAIN wire /\ Head(wire) = wire[1]
    BY <1>a, <2>1, ElementsOf
  <2>4. CASE received' = received
    BY <2>1, <2>2, <2>4 DEF Pipeline
  <2>5. CASE Head(wire) # Heartbeat /\ received' = Append(received, Head(wire))
    <3>1. received' # << >> /\ Last(received') = wire[1]
      <4>1. Head(wire) \in Trades
        BY <1>a, <2>3, <2>5, ElementsOf DEF Message
      <4> QED
        BY <1>a, <2>3, <2>5, <4>1, AppendElements
    <3> QED
      BY <2>1, <2>2, <2>3, <2>5, <3>1 DEF Pipeline
  <2> QED
    BY <1>9, <2>4, <2>5 DEF StatsServer
<1>10. CASE Connect \/ ReadAnswer \/ TakeTrade \/ Break \/ Done \/ UNCHANGED vars
  BY <1>6, <1>7, <1>10 DEF Connect, ReadAnswer, TakeTrade, Break, Done, vars
<1> QED
  BY <1>1, <1>2, <1>4, <1>5, <1>8, <1>9, <1>10 DEF Next, Sink

LEMMA NextFeed == TypeInv /\ Pipeline /\ [Next]_vars => [Feed!Next]_<<given, received>>
<1> SUFFICES ASSUME TypeInv, Pipeline, [Next]_vars
             PROVE  [Feed!Next]_<<given, received>>
  OBVIOUS
<1> USE DEF queueVars, sinkVars, lineVars, Feed!Next, Feed!Give, Feed!Receive
<1>1. CASE GiveTrade
  BY <1>1 DEF GiveTrade
<1>2. CASE StatsServer
  <2>1. UNCHANGED given
    BY <1>2 DEF StatsServer
  <2>2. CASE received' = received
    BY <2>1, <2>2
  <2>3. CASE Head(wire) # Heartbeat /\ received' = Append(received, Head(wire))
    <3>1. /\ given \in Nat /\ wire \in Seq(Trades \cup {Heartbeat}) /\ wire # << >>
          /\ received \in Seq(Trades)
      BY <1>2 DEF StatsServer, TypeInv, TypeOK, Trades
    <3>2. 1 \in DOMAIN wire /\ Head(wire) = wire[1] /\ wire[1] \in Trades \cup {Heartbeat}
      BY <3>1, ElementsOf
    <3>3. Head(wire) \in Nat /\ Head(wire) >= 1
      BY <2>3, <3>2 DEF Trades, Heartbeat
    <3>4. Head(wire) <= given /\ (received # << >> => Last(received) <= Head(wire))
      BY <2>3, <3>2 DEF Pipeline
    <3>5. received # << >> => Last(received) \in Trades
      BY <3>1, ElementsOf
    <3>6. Feed!Latest \in Nat /\ Feed!Latest <= Head(wire)
      BY <3>3, <3>4, <3>5 DEF Feed!Latest, Last, Trades
    <3>7. Head(wire) \in Feed!Latest .. given
      BY <3>1, <3>3, <3>4, <3>6
    <3> QED
      BY <2>1, <2>3, <3>7
  <2> QED
    BY <1>2, <2>2, <2>3 DEF StatsServer
<1>3. CASE \/ Push \/ Connect \/ SendHeartbeat \/ ReadAnswer \/ TakeTrade \/ SendTrade
           \/ PopTrade \/ Break \/ Done \/ UNCHANGED vars
  BY <1>3 DEF Push, Connect, SendHeartbeat, ReadAnswer, TakeTrade, SendTrade, PopTrade,
     Break, Done, vars
<1> QED
  BY <1>1, <1>2, <1>3 DEF Next, Sink

(***************************************************************************)
(* The trade sink implements the feed: however often its line breaks and   *)
(* its pops are lost, the stats server receives the trades in order.       *)
(***************************************************************************)
THEOREM ImplementsFeed == Spec => FeedSpec
<1>1. Init => Feed!Init
  BY DEF Init, Feed!Init
<1>2. Init => Pipeline
  BY DEF Init, Pipeline
<1> QED
  BY <1>1, <1>2, InitTypeInv, NextTypeInv, NextPipeline, NextFeed, PTL
  DEF Spec, FeedSpec, Feed!Spec, Feed!feedVars

-----------------------------------------------------------------------------
(* Each trade is queued once, and only the one at the front may have been   *)
(* sent. At most one is on the wire, the sink's copy, and none while the    *)
(* sink is about to send another.                                           *)

Afloat == {t \in Trades : t \in ToSet(wire)}
Sent == ToSet(received) \cup Afloat

Numbered ==
  /\ ToSet(tradeQueue) \cup Sent \subseteq 1 .. given
  /\ pushing => given \notin ToSet(tradeQueue) \cup Sent
  /\ \A k, l \in DOMAIN tradeQueue : k # l => tradeQueue[k] # tradeQueue[l]
  /\ \A k \in DOMAIN tradeQueue : k # 1 => tradeQueue[k] \notin Sent

WireOK ==
  /\ pc = "connect" => line # "up"
  /\ pc # "connect" => line # "none"
  /\ line # "up" \/ pc \in {"take", "send"} \/ answers > 0 => wire = << >>
  /\ answers \in {0, 1} /\ (pc # "answer" => answers = 0)
  /\ pc \in {"heartbeat", "pop"} => wire = << >> \/ (wire = <<trade>> /\ trade \in Trades)
  /\ pc = "answer" => \/ wire \in {<< >>, <<Heartbeat>>}
                      \/ wire = <<trade, Heartbeat>> /\ trade \in Trades
  /\ pc = "pop" /\ line = "up" => trade \in Sent

(* What is lost at a break, or will be at the next pop, is one trade. *)

AtRisk == IF line = "broken" /\ (pc \in {"take", "send", "pop"} \/ answers > 0)
          THEN 1 ELSE 0

LossBound == Cardinality(Lost) + AtRisk <= breaks

(* A trade that was sent and is still at the front will be sent again. *)

Repeats == Len(received) - Cardinality(ToSet(received))
WillRepeat == IF Afloat \cap ToSet(received) # {} THEN 1 ELSE 0
WillResend == IF pc # "pop" /\ tradeQueue # << >> /\ Head(tradeQueue) \in Sent
              THEN 1 ELSE 0

RepeatBound == Repeats + WillRepeat + WillResend <= races

LEMMA AppendSet ==
  ASSUME NEW S, NEW s \in Seq(S), NEW e \in S
  PROVE  ToSet(Append(s, e)) = ToSet(s) \cup {e}
<1>1. /\ DOMAIN Append(s, e) = 1 .. Len(s) + 1
      /\ \A i \in DOMAIN Append(s, e) :
           \/ i \in DOMAIN s /\ Append(s, e)[i] = s[i]
           \/ i = Len(s) + 1 /\ Append(s, e)[i] = e
  BY AppendElements
<1>2. Len(s) \in Nat /\ DOMAIN s = 1 .. Len(s)
  BY ElementsOf
<1>3. \A i \in DOMAIN s : i \in DOMAIN Append(s, e) /\ Append(s, e)[i] = s[i]
  BY <1>1, <1>2
<1>4. Len(s) + 1 \in DOMAIN Append(s, e) /\ Append(s, e)[Len(s) + 1] = e
  BY <1>1, <1>2
<1> QED
  BY <1>1, <1>3, <1>4 DEF ToSet

LEMMA TailSet ==
  ASSUME NEW S, NEW s \in Seq(S), s # << >>
  PROVE  ToSet(s) = ToSet(Tail(s)) \cup {Head(s)} /\ Head(s) \in S
<1>1. /\ \A i \in DOMAIN Tail(s) : i \in Nat /\ i + 1 \in DOMAIN s /\ Tail(s)[i] = s[i + 1]
      /\ Len(Tail(s)) = Len(s) - 1
  BY TailElements, HeadTailProperties
<1>2. /\ Len(s) \in Nat /\ DOMAIN s = 1 .. Len(s) /\ 1 \in DOMAIN s /\ Head(s) = s[1]
      /\ Head(s) \in S
  BY ElementsOf
<1>3. \A i \in DOMAIN s : i # 1 => i - 1 \in DOMAIN Tail(s) /\ Tail(s)[i - 1] = s[i]
  <2>1. DOMAIN Tail(s) = 1 .. Len(s) - 1
    BY <1>1, TailElements, ElementsOf
  <2>2. \A i \in DOMAIN s : i # 1 => i - 1 \in DOMAIN Tail(s) /\ (i - 1) + 1 = i
    BY <1>2, <2>1
  <2> QED
    BY <1>1, <2>2
<1>4. ASSUME NEW i \in DOMAIN s
      PROVE  s[i] \in ToSet(Tail(s)) \cup {Head(s)}
  <2>1. CASE i = 1
    BY <1>2, <2>1
  <2>2. CASE i # 1
    BY <1>3, <2>2 DEF ToSet
  <2> QED
    BY <2>1, <2>2
<1>5. ASSUME NEW i \in DOMAIN Tail(s)
      PROVE  Tail(s)[i] \in ToSet(s)
  BY <1>1 DEF ToSet
<1>6. Head(s) \in ToSet(s)
  BY <1>2 DEF ToSet
<1>7. \A q : ToSet(q) = {q[i] : i \in DOMAIN q}
  BY DEF ToSet
<1>8. \A e \in ToSet(s) : e \in ToSet(Tail(s)) \cup {Head(s)}
  BY <1>4, <1>7
<1>9. \A e \in ToSet(Tail(s)) : e \in ToSet(s)
  BY <1>5, <1>7
<1> QED
  BY <1>2, <1>6, <1>8, <1>9

LEMMA ShortSets ==
  /\ ToSet(<< >>) = {}
  /\ \A a, b : /\ ToSet(<<a>>) = {a} /\ ToSet(<<a, b>>) = {a, b}
               /\ <<a>> # << >> /\ <<a, b>> # << >>
               /\ Head(<<a>>) = a /\ Tail(<<a>>) = << >>
               /\ Head(<<a, b>>) = a /\ Tail(<<a, b>>) = <<b>>
               /\ Append(<< >>, a) = <<a>> /\ Append(<<a>>, b) = <<a, b>>
<1>1. ToSet(<< >>) = {}
  BY DEF ToSet
<1>2. ASSUME NEW a, NEW b
      PROVE  /\ ToSet(<<a>>) = {a} /\ ToSet(<<a, b>>) = {a, b}
  <2>1. ToSet(<<a>>) = {a}
    BY DEF ToSet
  <2>2. DOMAIN <<a, b>> = {1, 2}
    OBVIOUS
  <2>3. ToSet(<<a, b>>) = {a, b}
    BY <2>2 DEF ToSet
  <2> QED
    BY <2>1, <2>3
<1>3. ASSUME NEW a, NEW b
      PROVE  /\ <<a>> # << >> /\ <<a, b>> # << >>
             /\ Head(<<a>>) = a /\ Tail(<<a>>) = << >>
             /\ Head(<<a, b>>) = a /\ Tail(<<a, b>>) = <<b>>
  OBVIOUS
<1>4. ASSUME NEW a, NEW b
      PROVE  Append(<< >>, a) = <<a>> /\ Append(<<a>>, b) = <<a, b>>
  <2> DEFINE S == {a, b}
  <2>1. /\ << >> \in Seq(S) /\ <<a>> \in Seq(S) /\ <<a, b>> \in Seq(S)
        /\ Len(<< >>) = 0 /\ Len(<<a>>) = 1 /\ Len(<<a, b>>) = 2
        /\ <<a>>[1] = a /\ <<a, b>>[1] = a /\ <<a, b>>[2] = b
    OBVIOUS
  <2>2. /\ Append(<< >>, a) \in Seq(S) /\ Len(Append(<< >>, a)) = 1
        /\ Append(<< >>, a)[1] = a
    BY <2>1, AppendProperties
  <2>3. /\ Append(<<a>>, b) \in Seq(S) /\ Len(Append(<<a>>, b)) = 2
        /\ Append(<<a>>, b)[1] = a /\ Append(<<a>>, b)[2] = b
    BY <2>1, AppendProperties
  <2>4. Append(<< >>, a) = <<a>>
    BY <2>1, <2>2, SeqEqual
  <2> DEFINE ab == <<a, b>>
             pq == Append(<<a>>, b)
  <2>5. pq = ab
    <3>1. \A i \in 1 .. 2 : i = 1 \/ i = 2
      OBVIOUS
    <3>2. /\ ab \in Seq(S) /\ pq \in Seq(S) /\ Len(pq) = 2 /\ Len(ab) = 2
          /\ ab[1] = a /\ ab[2] = b /\ pq[1] = a /\ pq[2] = b
      BY <2>1, <2>3
    <3> HIDE DEF ab, pq, S
    <3>3. \A i \in 1 .. 2 : ab[i] = pq[i]
      BY <3>1, <3>2
    <3> QED
      BY <3>2, <3>3, SeqEqual
  <2> QED
    BY <2>4, <2>5
<1> QED
  BY <1>1, <1>2, <1>3, <1>4

LEMMA NextWireOK == TypeInv /\ WireOK /\ [Next]_vars => WireOK'
<1> SUFFICES ASSUME TypeInv, WireOK, [Next]_vars
             PROVE  WireOK'
  OBVIOUS
<1> USE DEF queueVars, sinkVars, lineVars
<1>a. /\ pc \in {"connect", "heartbeat", "answer", "take", "send", "pop"}
      /\ line \in {"none", "up", "broken"} /\ answers \in Nat
      /\ tradeQueue \in Seq(Trades) /\ received \in Seq(Trades)
      /\ wire \in Seq(Trades \cup {Heartbeat})
  BY DEF TypeInv, TypeOK
<1>1. CASE GiveTrade \/ Push \/ Done \/ UNCHANGED vars
  <2>1. UNCHANGED <<pc, line, wire, answers, trade, received>>
    BY <1>1 DEF GiveTrade, Push, Done, vars
  <2> QED
    BY <2>1 DEF WireOK, Sent, Afloat
<1>2. CASE Connect
  BY <1>2 DEF Connect, WireOK
<1>3. CASE SendHeartbeat
  <2>1. pc = "heartbeat" /\ UNCHANGED <<trade, line, answers, received>>
    BY <1>3 DEF SendHeartbeat
  <2>2. CASE line = "up" /\ wire' = Append(wire, Heartbeat) /\ pc' = "answer"
    <3>1. wire' = <<Heartbeat>> \/ (wire' = <<trade, Heartbeat>> /\ trade \in Trades)
      <4>1. /\ Append(<< >>, Heartbeat) = <<Heartbeat>>
            /\ Append(<<trade>>, Heartbeat) = <<trade, Heartbeat>>
        BY ShortSets
      <4>2. wire = << >> \/ (wire = <<trade>> /\ trade \in Trades)
        BY <2>1 DEF WireOK
      <4> QED
        BY <2>2, <4>1, <4>2
    <3> QED
      BY <2>1, <2>2, <3>1 DEF WireOK
  <2>3. CASE line = "broken" /\ pc' \in {"answer", "connect"} /\ wire' = wire
    BY <2>1, <2>3 DEF WireOK
  <2> QED
    BY <1>3, <2>2, <2>3 DEF SendHeartbeat, Sends, OnFailure
<1>4. CASE ReadAnswer
  <2>1. /\ pc = "answer" /\ UNCHANGED <<trade, line, wire, received>>
        /\ \/ answers > 0 /\ answers' = answers - 1 /\ pc' = "take"
           \/ line = "broken" /\ answers = 0 /\ pc' = "connect" /\ answers' = 0
    BY <1>4 DEF ReadAnswer, OnFailure
  <2> QED
    BY <1>a, <2>1 DEF WireOK
<1>5. CASE TakeTrade
  BY <1>5, <1>a DEF TakeTrade, WireOK
<1>6. CASE SendTrade
  <2>1. pc = "send" /\ wire = << >> /\ UNCHANGED <<trade, line, answers, received>>
    BY <1>6 DEF SendTrade, WireOK
  <2>2. trade \in Trades
    BY <1>a, <2>1, ElementsOf DEF TypeInv, HoldsFront
  <2>3. CASE line = "up" /\ wire' = Append(wire, trade) /\ pc' = "pop"
    <3>1. wire' = <<trade>> /\ ToSet(wire') = {trade}
      BY <2>1, <2>3, ShortSets
    <3>2. trade \in Sent'
      BY <2>2, <3>1 DEF Sent, Afloat
    <3> QED
      BY <2>1, <2>2, <2>3, <3>1, <3>2 DEF WireOK
  <2>4. CASE line = "broken" /\ pc' \in {"pop", "connect"} /\ wire' = wire
    BY <2>1, <2>4 DEF WireOK
  <2> QED
    BY <1>6, <2>3, <2>4 DEF SendTrade, Sends, OnFailure
<1>7. CASE PopTrade
  BY <1>7 DEF PopTrade, AfterPop, WireOK
<1>8. CASE StatsServer
  <2>1. line = "up" /\ wire # << >> /\ wire' = Tail(wire) /\ UNCHANGED <<pc, trade, line>>
    BY <1>8 DEF StatsServer
  <2>2. /\ Head(wire) = Heartbeat => answers' = answers + 1 /\ received' = received
        /\ Head(wire) # Heartbeat => answers' = answers /\ received' = Append(received, Head(wire))
    BY <1>8 DEF StatsServer
  <2>3. answers = 0 /\ pc \in {"heartbeat", "pop", "answer"}
    BY <1>a, <2>1 DEF WireOK
  <2>4. CASE wire = <<Heartbeat>> /\ pc = "answer"
    <3>1. wire' = << >> /\ answers' = 1
      BY <2>1, <2>2, <2>3, <2>4, ShortSets
    <3> QED
      BY <2>1, <2>4, <3>1 DEF WireOK
  <2>5. CASE wire = <<trade>> /\ trade \in Trades /\ pc \in {"heartbeat", "pop"}
    <3>1. /\ wire' = << >> /\ answers' = 0 /\ received' = Append(received, trade)
          /\ Head(wire) # Heartbeat
      BY <2>1, <2>2, <2>3, <2>5, ShortSets DEF Trades, Heartbeat
    <3>2. trade \in Sent'
      BY <1>a, <2>5, <3>1, AppendSet DEF Sent
    <3> QED
      BY <2>1, <2>5, <3>1, <3>2 DEF WireOK
  <2>6. CASE wire = <<trade, Heartbeat>> /\ trade \in Trades /\ pc = "answer"
    <3>1. wire' = <<Heartbeat>> /\ answers' = 0
      BY <2>1, <2>2, <2>3, <2>6, ShortSets DEF Trades, Heartbeat
    <3> QED
      BY <2>1, <2>6, <3>1 DEF WireOK
  <2> QED
    BY <2>1, <2>3, <2>4, <2>5, <2>6 DEF WireOK
<1>9. CASE Break
  <2>1. /\ line = "up" /\ line' = "broken" /\ wire' = << >> /\ answers' \in {0, answers}
        /\ UNCHANGED <<pc, trade>>
    BY <1>9 DEF Break
  <2> QED
    BY <1>a, <2>1 DEF WireOK
<1> QED
  BY <1>1, <1>2, <1>3, <1>4, <1>5, <1>6, <1>7, <1>8, <1>9 DEF Next, Sink

(* What is sent, or received from the wire, was on its way before. *)

LEMMA AfloatAfter ==
  ASSUME TypeInv
  PROVE  /\ SendHeartbeat => Afloat' = Afloat
         /\ SendTrade => \/ Afloat' = Afloat
                         \/ pc' = "pop" /\ line = "up" /\ Afloat' = Afloat \cup {trade}
         /\ StatsServer => /\ Sent' = Sent /\ Afloat' \subseteq Afloat
                           /\ Head(wire) # Heartbeat => Head(wire) \in Afloat
         /\ Connect \/ Break => Afloat' \subseteq Afloat
<1> USE DEF queueVars, sinkVars, lineVars
<1>a. /\ wire \in Seq(Trades \cup {Heartbeat}) /\ received \in Seq(Trades)
      /\ trade \in Trades \cup {0} /\ Heartbeat \notin Trades
  BY DEF TypeInv, TypeOK, Trades, Heartbeat
<1>1. ASSUME SendHeartbeat
      PROVE  Afloat' = Afloat
  <2>1. wire' = wire \/ wire' = Append(wire, Heartbeat)
    BY <1>1 DEF SendHeartbeat, Sends
  <2>2. ToSet(Append(wire, Heartbeat)) = ToSet(wire) \cup {Heartbeat}
    BY <1>a, AppendSet
  <2>3. \A t \in Trades : t \in ToSet(wire') <=> t \in ToSet(wire)
    <3>1. \A t \in Trades : t # Heartbeat
      BY <1>a
    <3>2. ToSet(wire') = ToSet(wire) \/ ToSet(wire') = ToSet(wire) \cup {Heartbeat}
      BY <2>1, <2>2
    <3> QED
      BY <3>1, <3>2
  <2> QED
    BY <2>3 DEF Afloat
<1>2. ASSUME SendTrade
      PROVE  \/ Afloat' = Afloat
             \/ pc' = "pop" /\ line = "up" /\ Afloat' = Afloat \cup {trade}
  <2>1. \/ wire' = wire
        \/ line = "up" /\ wire' = Append(wire, trade) /\ pc' = "pop"
    BY <1>2 DEF SendTrade, Sends
  <2>2. trade \in Trades
    <3>1. /\ tradeQueue \in Seq(Trades) /\ tradeQueue # << >> /\ trade = Head(tradeQueue)
      BY <1>2 DEF SendTrade, TypeInv, TypeOK, HoldsFront
    <3> QED
      BY <3>1, TailSet
  <2>3. ToSet(Append(wire, trade)) = ToSet(wire) \cup {trade}
    BY <1>a, <2>2, AppendSet
  <2> QED
    BY <2>1, <2>2, <2>3 DEF Afloat
<1>3. ASSUME StatsServer
      PROVE  /\ Sent' = Sent /\ Afloat' \subseteq Afloat
             /\ Head(wire) # Heartbeat => Head(wire) \in Afloat
  <2>1. wire # << >> /\ wire' = Tail(wire)
    BY <1>3 DEF StatsServer
  <2>2. ToSet(wire) = ToSet(wire') \cup {Head(wire)} /\ Head(wire) \in Trades \cup {Heartbeat}
    BY <1>a, <2>1, TailSet
  <2>3. CASE Head(wire) = Heartbeat
    <3>1. received' = received
      BY <1>3, <2>3 DEF StatsServer
    <3> QED
      BY <1>a, <2>2, <2>3, <3>1 DEF Sent, Afloat
  <2>4. CASE Head(wire) # Heartbeat
    <3>1. received' = Append(received, Head(wire)) /\ Head(wire) \in Trades
      BY <1>3, <2>2, <2>4 DEF StatsServer
    <3>2. ToSet(received') = ToSet(received) \cup {Head(wire)}
      BY <1>a, <3>1, AppendSet
    <3> QED
      BY <2>2, <3>1, <3>2 DEF Sent, Afloat
  <2> QED
    BY <2>3, <2>4
<1>4. ASSUME Connect \/ Break
      PROVE  Afloat' \subseteq Afloat
  <2>1. wire' = << >>
    BY <1>4 DEF Connect, Break
  <2> QED
    BY <2>1, ShortSets DEF Afloat
<1> QED
  BY <1>1, <1>2, <1>3, <1>4

LEMMA InitNumbered == Init => Numbered /\ WireOK
<1> SUFFICES ASSUME Init
             PROVE  Numbered /\ WireOK
  OBVIOUS
<1>1. ToSet(tradeQueue) = {} /\ Sent = {} /\ DOMAIN tradeQueue = {}
  <2>1. tradeQueue = << >> /\ wire = << >> /\ received = << >>
    BY DEF Init
  <2> QED
    BY <2>1, ShortSets DEF Sent, Afloat
<1> QED
  BY <1>1 DEF Init, Numbered, WireOK

LEMMA NextNumbered == TypeInv /\ Numbered /\ [Next]_vars => Numbered'
<1> SUFFICES ASSUME TypeInv, Numbered, [Next]_vars
             PROVE  Numbered'
  OBVIOUS
<1> USE DEF queueVars, sinkVars, lineVars
<1>a. /\ given \in Nat /\ tradeQueue \in Seq(Trades) /\ received \in Seq(Trades)
      /\ wire \in Seq(Trades \cup {Heartbeat})
  BY DEF TypeInv, TypeOK
<1>b. /\ ToSet(tradeQueue) \subseteq 1 .. given /\ Sent \subseteq 1 .. given
      /\ \A k \in DOMAIN tradeQueue : k \in Nat /\ tradeQueue[k] \in ToSet(tradeQueue)
  <2>1. \A k \in DOMAIN tradeQueue : k \in Nat
    BY <1>a, ElementsOf
  <2> QED
    BY <2>1 DEF Numbered, ToSet
<1>1. ASSUME UNCHANGED <<given, pushing, tradeQueue>>, Sent' \subseteq Sent
      PROVE  Numbered'
  BY <1>1 DEF Numbered
<1>2. CASE GiveTrade
  <2>1. /\ ~ pushing /\ given' = given + 1 /\ pushing' /\ UNCHANGED <<tradeQueue, received, wire>>
    BY <1>2 DEF GiveTrade
  <2>2. Sent' = Sent
    BY <2>1 DEF Sent, Afloat
  <2>3. 1 .. given \subseteq 1 .. given' /\ given' \notin 1 .. given
    BY <1>a, <2>1
  <2> QED
    BY <1>b, <2>1, <2>2, <2>3 DEF Numbered
<1>3. CASE Push
  <2>1. /\ pushing /\ ~ pushing' /\ tradeQueue' = Append(tradeQueue, given)
        /\ UNCHANGED <<given, received, wire>>
    BY <1>3 DEF Push, Pushed
  <2>2. Sent' = Sent
    BY <2>1 DEF Sent, Afloat
  <2>3. given \in Trades /\ given \in 1 .. given
    BY <1>a, <2>1 DEF TypeInv, HoldsFront, Trades
  <2>4. ToSet(tradeQueue') = ToSet(tradeQueue) \cup {given}
    BY <1>a, <2>1, <2>3, AppendSet
  <2>5. \A k \in DOMAIN tradeQueue' :
          \/ k \in DOMAIN tradeQueue /\ tradeQueue'[k] = tradeQueue[k]
          \/ k = Len(tradeQueue) + 1 /\ tradeQueue'[k] = given
    BY <1>a, <2>1, <2>3, AppendElements
  <2>6. given \notin ToSet(tradeQueue) /\ given \notin Sent
    BY <2>1 DEF Numbered
  <2>7. \A k, l \in DOMAIN tradeQueue' : k # l => tradeQueue'[k] # tradeQueue'[l]
    BY <1>b, <2>5, <2>6 DEF Numbered
  <2>8. \A k \in DOMAIN tradeQueue' : k # 1 => tradeQueue'[k] \notin Sent
    BY <2>5, <2>6 DEF Numbered
  <2> QED
    BY <1>b, <2>1, <2>2, <2>3, <2>4, <2>7, <2>8 DEF Numbered
<1>4. CASE SendTrade
  <2>1. UNCHANGED <<given, pushing, tradeQueue, received>>
    BY <1>4 DEF SendTrade
  <2>2. Sent' \subseteq Sent \cup {trade}
    BY <1>4, <2>1, AfloatAfter DEF Sent
  <2>3. /\ 1 \in DOMAIN tradeQueue /\ trade = tradeQueue[1] /\ trade \in ToSet(tradeQueue)
    <3>1. tradeQueue # << >> /\ trade = Head(tradeQueue)
      BY <1>4 DEF SendTrade, TypeInv, HoldsFront
    <3> QED
      BY <1>a, <1>b, <3>1, ElementsOf
  <2> QED
    BY <1>b, <2>1, <2>2, <2>3 DEF Numbered
<1>5. CASE PopTrade
  <2>1. tradeQueue # << >> /\ UNCHANGED <<given, pushing, received, wire>>
    BY <1>5 DEF PopTrade, TypeInv, HoldsFront
  <2>2. Sent' = Sent
    BY <2>1 DEF Sent, Afloat
  <2>3. CASE tradeQueue' = Tail(tradeQueue)
    <3>1. \A k \in DOMAIN tradeQueue' :
            /\ k \in Nat /\ k + 1 \in DOMAIN tradeQueue /\ k + 1 # 1
            /\ tradeQueue'[k] = tradeQueue[k + 1]
      <4>1. \A k \in DOMAIN tradeQueue' :
              k \in Nat /\ k + 1 \in DOMAIN tradeQueue /\ tradeQueue'[k] = tradeQueue[k + 1]
        BY <1>a, <2>1, <2>3, TailElements
      <4>2. \A k \in DOMAIN tradeQueue' : k \in 1 .. Len(tradeQueue')
        BY <1>a, <2>1, <2>3, TailElements, ElementsOf
      <4> QED
        BY <4>1, <4>2
    <3>2. ToSet(tradeQueue') \subseteq ToSet(tradeQueue)
      BY <1>a, <2>1, <2>3, TailSet
    <3>3. \A k, l \in DOMAIN tradeQueue' : k # l => k + 1 # l + 1
      BY <3>1
    <3> QED
      BY <2>1, <2>2, <3>1, <3>2, <3>3 DEF Numbered
  <2>4. CASE tradeQueue' = tradeQueue
    BY <1>1, <2>1, <2>2, <2>4
  <2> QED
    BY <1>5, <2>3, <2>4 DEF PopTrade, Pops
<1>6. CASE SendHeartbeat \/ StatsServer \/ Connect \/ Break
  <2>1. UNCHANGED <<given, pushing, tradeQueue>>
    BY <1>6 DEF SendHeartbeat, StatsServer, Connect, Break
  <2>2. StatsServer \/ received' = received
    BY <1>6 DEF SendHeartbeat, Connect, Break
  <2>3. Sent' \subseteq Sent
    BY <1>6, <2>2, AfloatAfter DEF Sent
  <2> QED
    BY <1>1, <2>1, <2>3
<1>7. CASE ReadAnswer \/ TakeTrade \/ Done \/ UNCHANGED vars
  <2>1. UNCHANGED <<given, pushing, tradeQueue, received, wire>>
    BY <1>7 DEF ReadAnswer, TakeTrade, Done, vars
  <2>2. Sent' = Sent
    BY <2>1 DEF Sent, Afloat
  <2> QED
    BY <1>1, <2>1, <2>2
<1> QED
  BY <1>2, <1>3, <1>4, <1>5, <1>6, <1>7 DEF Next, Sink

LEMMA Cardinalities ==
  ASSUME NEW A, IsFiniteSet(A), NEW B, NEW x
  PROVE  /\ Cardinality(A) \in Nat
         /\ B \subseteq A => /\ IsFiniteSet(B) /\ Cardinality(B) \in Nat
                             /\ Cardinality(B) <= Cardinality(A)
         /\ B \subseteq A \cup {x} => /\ IsFiniteSet(B) /\ Cardinality(B) \in Nat
                                      /\ Cardinality(B) <= Cardinality(A) + 1
<1>1. Cardinality(A) \in Nat
  BY FS_CardinalityType
<1>2. ASSUME B \subseteq A
      PROVE  /\ IsFiniteSet(B) /\ Cardinality(B) \in Nat /\ Cardinality(B) <= Cardinality(A)
  BY <1>2, FS_Subset, FS_CardinalityType
<1>3. ASSUME B \subseteq A \cup {x}
      PROVE  /\ IsFiniteSet(B) /\ Cardinality(B) \in Nat
             /\ Cardinality(B) <= Cardinality(A) + 1
  <2>1. /\ IsFiniteSet(A \cup {x}) /\ Cardinality(A \cup {x}) \in Nat
        /\ Cardinality(A \cup {x}) <= Cardinality(A) + 1
    BY <1>1, FS_AddElement, FS_CardinalityType
  <2>2. /\ IsFiniteSet(B) /\ Cardinality(B) \in Nat
        /\ Cardinality(B) <= Cardinality(A \cup {x})
    BY <1>3, <2>1, FS_Subset, FS_CardinalityType
  <2> QED
    BY <1>1, <2>1, <2>2
<1> QED
  BY <1>1, <1>2, <1>3

LEMMA NextLossBound ==
  TypeInv /\ TypeInv' /\ WireOK /\ LossBound /\ [Next]_vars => LossBound'
<1> SUFFICES ASSUME TypeInv, TypeInv', WireOK, LossBound, [Next]_vars
             PROVE  LossBound'
  OBVIOUS
<1> USE DEF queueVars, sinkVars, lineVars
<1>a. /\ given \in Nat /\ given <= MaxTrades /\ tradeQueue \in Seq(Trades) /\ breaks \in Nat
      /\ answers \in Nat /\ line \in {"none", "up", "broken"}
      /\ pc \in {"connect", "heartbeat", "answer", "take", "send", "pop"}
      /\ Trades = 1 .. MaxTrades /\ MaxTrades \in Nat
  BY BoundsAssumption DEF TypeInv, TypeOK, Trades
<1>b. /\ Lost = {t \in 1 .. given : /\ ~ (pushing /\ t = given)
                                    /\ t \notin ToSet(tradeQueue) \cup Sent}
      /\ Lost' = {t \in 1 .. given' : /\ ~ (pushing' /\ t = given')
                                      /\ t \notin ToSet(tradeQueue') \cup Sent'}
  <2>1. given' \in Nat /\ given' <= MaxTrades
    BY <1>a DEF TypeInv, TypeOK
  <2>2. 1 .. given \subseteq Trades /\ 1 .. given' \subseteq Trades
    BY <1>a, <2>1
  <2> QED
    BY <2>2 DEF Lost, Sent, Afloat
<1>c. /\ IsFiniteSet(Lost) /\ Cardinality(Lost) \in Nat
      /\ Cardinality(Lost) + AtRisk <= breaks /\ AtRisk \in {0, 1}
  <2>1. IsFiniteSet(1 .. given) /\ Lost \subseteq 1 .. given
    BY <1>a, <1>b, FS_Interval
  <2> QED
    BY <2>1, FS_Subset, FS_CardinalityType DEF LossBound, AtRisk
<1>d. /\ AtRisk' \in {0, 1}
      /\ AtRisk' = 1 <=> line' = "broken" /\ (pc' \in {"take", "send", "pop"} \/ answers' > 0)
  BY DEF AtRisk
<1>1. ASSUME Lost' \subseteq Lost, AtRisk' <= AtRisk, breaks' = breaks
      PROVE  LossBound'
  <2>1. Cardinality(Lost') \in Nat /\ Cardinality(Lost') <= Cardinality(Lost)
    BY <1>1, <1>c, Cardinalities
  <2> QED
    BY <1>1, <1>a, <1>c, <1>d, <2>1 DEF LossBound
<1>2. CASE GiveTrade \/ Push
  <2>1. UNCHANGED <<received, wire, line, pc, answers, breaks>>
    BY <1>2 DEF GiveTrade, Push
  <2>2. Sent' = Sent /\ AtRisk' = AtRisk
    BY <2>1 DEF Sent, Afloat, AtRisk
  <2>3. CASE GiveTrade
    <3>1. given' = given + 1 /\ pushing' /\ tradeQueue' = tradeQueue /\ ~ pushing
      BY <2>3 DEF GiveTrade
    <3>2. \A t \in 1 .. given' : t = given' \/ t \in 1 .. given
      BY <1>a, <3>1
    <3>3. Lost' \subseteq Lost
      BY <1>b, <2>2, <3>1, <3>2
    <3> QED
      BY <1>1, <1>c, <2>1, <2>2, <3>3
  <2>4. CASE Push
    <3>1. given \in Trades
      BY <2>4 DEF Push, TypeInv, HoldsFront
    <3>2. /\ given' = given /\ ~ pushing' /\ ToSet(tradeQueue') = ToSet(tradeQueue) \cup {given}
      BY <1>a, <2>4, <3>1, AppendSet DEF Push, Pushed
    <3>3. Lost' \subseteq Lost
      BY <1>b, <2>2, <3>2
    <3> QED
      BY <1>1, <1>c, <2>1, <2>2, <3>3
  <2> QED
    BY <1>2, <2>3, <2>4
<1>3. ASSUME UNCHANGED <<given, pushing, tradeQueue>>, Sent \subseteq Sent'
      PROVE  Lost' \subseteq Lost
  BY <1>b, <1>3
<1>4. CASE Connect
  <2>1. /\ UNCHANGED <<given, pushing, tradeQueue, received, breaks>>
        /\ line' = "up" /\ wire' = << >> /\ wire = << >>
    BY <1>4 DEF Connect, WireOK
  <2>2. Sent \subseteq Sent'
    BY <2>1 DEF Sent, Afloat
  <2> QED
    BY <1>1, <1>3, <1>c, <1>d, <2>1, <2>2
<1>5. CASE SendHeartbeat \/ ReadAnswer \/ TakeTrade \/ SendTrade
  <2>1. UNCHANGED <<given, pushing, tradeQueue, received, breaks, line>>
    BY <1>5 DEF SendHeartbeat, ReadAnswer, TakeTrade, SendTrade
  <2>2. Afloat \subseteq Afloat'
    <3>1. ReadAnswer \/ TakeTrade => Afloat' = Afloat
      BY DEF ReadAnswer, TakeTrade, Afloat
    <3> QED
      BY <1>5, <3>1, AfloatAfter
  <2>3. AtRisk' <= AtRisk
    <3>1. CASE SendHeartbeat
      <4>1. answers = 0 /\ answers' = answers /\ pc' \in {"answer", "connect"}
        BY <3>1 DEF SendHeartbeat, Sends, OnFailure, WireOK
      <4> QED
        BY <1>c, <1>d, <4>1
    <3>2. CASE ReadAnswer
      BY <1>a, <3>2 DEF ReadAnswer, AtRisk, OnFailure
    <3>3. CASE TakeTrade
      BY <1>a, <3>3 DEF TakeTrade, AtRisk
    <3>4. CASE SendTrade
      BY <1>a, <3>4 DEF SendTrade, Sends, AtRisk, OnFailure
    <3> QED
      BY <1>5, <3>1, <3>2, <3>3, <3>4
  <2>4. Sent \subseteq Sent'
    BY <2>1, <2>2 DEF Sent
  <2> QED
    BY <1>1, <1>3, <2>1, <2>3, <2>4
<1>6. CASE PopTrade
  <2>1. /\ UNCHANGED <<given, pushing, received, wire, line, answers, breaks, trade>>
        /\ pc = "pop" /\ pc' = "heartbeat" /\ answers = 0 /\ line # "none"
    BY <1>6 DEF PopTrade, AfterPop, WireOK
  <2>2. Sent' = Sent /\ AtRisk' = 0
    BY <1>d, <2>1 DEF Sent, Afloat
  <2>3. CASE tradeQueue' = tradeQueue
    BY <1>1, <1>3, <1>c, <2>1, <2>2, <2>3
  <2>4. CASE tradeQueue' = Tail(tradeQueue)
    <3>1. ToSet(tradeQueue) = ToSet(tradeQueue') \cup {trade}
      <4>1. tradeQueue # << >> /\ trade = Head(tradeQueue)
        BY <2>1 DEF TypeInv, HoldsFront
      <4> QED
        BY <1>a, <2>4, <4>1, TailSet
    <3>2. CASE line = "up"
      <4>1. trade \in Sent
        BY <2>1, <3>2 DEF WireOK
      <4>2. Lost' \subseteq Lost
        BY <1>b, <2>1, <2>2, <3>1, <4>1
      <4> QED
        BY <1>1, <1>c, <2>1, <2>2, <4>2
    <3>3. CASE line = "broken"
      <4>1. Lost' \subseteq Lost \cup {trade}
        BY <1>b, <2>1, <2>2, <3>1
      <4>2. Cardinality(Lost') \in Nat /\ Cardinality(Lost') <= Cardinality(Lost) + 1
        BY <1>c, <4>1, Cardinalities
      <4>3. AtRisk = 1
        BY <2>1, <3>3 DEF AtRisk
      <4>4. Cardinality(Lost') + AtRisk' <= breaks
        BY <1>a, <1>c, <2>2, <4>2, <4>3
      <4> QED
        BY <2>1, <4>4 DEF LossBound
    <3> QED
      BY <1>a, <2>1, <3>2, <3>3
  <2> QED
    BY <1>6, <2>3, <2>4 DEF PopTrade, Pops
<1>7. CASE StatsServer
  <2>1. /\ UNCHANGED <<given, pushing, tradeQueue, line, breaks>> /\ line = "up"
    BY <1>7 DEF StatsServer
  <2>2. Sent' = Sent
    BY <1>7, AfloatAfter
  <2> QED
    BY <1>1, <1>3, <1>c, <1>d, <2>1, <2>2
<1>8. CASE Break
  <2>1. /\ UNCHANGED <<given, pushing, tradeQueue, received, pc, trade>> /\ line = "up"
        /\ wire' = << >> /\ answers' \in {0, answers} /\ breaks' = breaks + 1
    BY <1>8 DEF Break
  <2>2. AtRisk = 0
    BY <2>1 DEF AtRisk
  <2>3. Afloat' = {} /\ (wire = << >> => Afloat = {}) /\ Afloat \subseteq {trade}
    <3>1. ToSet(<< >>) = {} /\ ToSet(<<Heartbeat>>) = {Heartbeat}
      BY ShortSets
    <3>2. ToSet(<<trade>>) = {trade} /\ ToSet(<<trade, Heartbeat>>) = {trade, Heartbeat}
      BY ShortSets
    <3>3. ToSet(wire) \subseteq {trade, Heartbeat} /\ Heartbeat \notin Trades
      BY <1>a, <2>1, <3>1, <3>2 DEF WireOK, Heartbeat
    <3> QED
      BY <2>1, <3>1, <3>3 DEF Afloat
  <2>4. CASE AtRisk' = 0
    <3>1. Lost' \subseteq Lost \cup {trade}
      BY <1>b, <2>1, <2>3 DEF Sent
    <3>2. Cardinality(Lost') \in Nat /\ Cardinality(Lost') <= Cardinality(Lost) + 1
      BY <1>c, <3>1, Cardinalities
    <3>3. Cardinality(Lost') + AtRisk' <= breaks'
      BY <1>a, <1>c, <2>1, <2>2, <2>4, <3>2
    <3> QED
      BY <3>3 DEF LossBound
  <2>5. CASE AtRisk' = 1
    <3>1. Afloat \subseteq ToSet(tradeQueue)
      <4>1. CASE pc = "pop"
        <5>1. tradeQueue # << >> /\ trade = Head(tradeQueue)
          BY <4>1 DEF TypeInv, HoldsFront
        <5>2. trade \in ToSet(tradeQueue)
          BY <1>a, <5>1, TailSet
        <5> QED
          BY <2>3, <5>2
      <4>2. CASE pc # "pop"
        <5>1. pc \in {"take", "send"} \/ answers > 0
          BY <1>d, <2>1, <2>5, <4>2
        <5> QED
          BY <2>3, <5>1 DEF WireOK
      <4> QED
        BY <4>1, <4>2
    <3>2. Lost' \subseteq Lost
      BY <1>b, <2>1, <3>1 DEF Sent
    <3>3. Cardinality(Lost') \in Nat /\ Cardinality(Lost') <= Cardinality(Lost)
      BY <1>c, <3>2, Cardinalities
    <3>4. Cardinality(Lost') + AtRisk' <= breaks'
      BY <1>a, <1>c, <2>1, <2>2, <2>5, <3>3
    <3> QED
      BY <3>4 DEF LossBound
  <2> QED
    BY <1>d, <2>4, <2>5
<1>9. CASE Done \/ UNCHANGED vars
  <2>1. UNCHANGED <<given, pushing, tradeQueue, received, wire, line, pc, answers, breaks>>
    BY <1>9 DEF Done, vars
  <2>2. Lost' = Lost /\ AtRisk' = AtRisk
    BY <2>1 DEF Lost, AtRisk
  <2> QED
    BY <2>1, <2>2 DEF LossBound
<1> QED
  BY <1>2, <1>4, <1>5, <1>6, <1>7, <1>8, <1>9 DEF Next, Sink

(***************************************************************************)
(* However often the line breaks, no more than one trade is lost each      *)
(* time.                                                                   *)
(***************************************************************************)
THEOREM AtMostOneLostPerBreakCorrect == Spec => []AtMostOneLostPerBreak
<1>1. Init => LossBound
  <2> SUFFICES ASSUME Init
               PROVE  LossBound
    OBVIOUS
  <2>1. Lost = {} /\ AtRisk = 0 /\ breaks = 0
    BY DEF Init, Lost, AtRisk
  <2> QED
    BY <2>1, FS_EmptySet DEF LossBound
<1>2. TypeInv /\ LossBound => AtMostOneLostPerBreak
  <2> SUFFICES ASSUME TypeInv, LossBound
               PROVE  AtMostOneLostPerBreak
    OBVIOUS
  <2>1. given \in Nat /\ breaks \in Nat /\ AtRisk \in {0, 1}
    BY DEF TypeInv, TypeOK, AtRisk
  <2>2. IsFiniteSet(1 .. given) /\ Lost \subseteq 1 .. given
    BY <2>1, FS_Interval DEF Lost
  <2>3. Cardinality(Lost) \in Nat
    BY <2>2, FS_Subset, FS_CardinalityType
  <2> QED
    BY <2>1, <2>3 DEF LossBound, AtMostOneLostPerBreak
<1> QED
  BY <1>1, <1>2, InitTypeInv, NextTypeInv, InitNumbered, NextWireOK, NextLossBound, PTL
  DEF Spec

LEMMA SumKept ==
  ASSUME NEW r \in Int, NEW n \in Int, NEW a \in {0, 1}, NEW b \in {0, 1}, r + a + b <= n,
         NEW c \in {0, 1}, NEW d \in {0, 1}, c <= a, d <= b
  PROVE  r + c + d <= n
OBVIOUS

LEMMA SumSwapped ==
  ASSUME NEW r \in Int, NEW n \in Int, NEW b \in {0, 1}, r + 0 + b <= n
  PROVE  r + b + 0 <= n
OBVIOUS

LEMMA SumGrown ==
  ASSUME NEW r \in Int, NEW n \in Int, NEW a \in {0, 1}, NEW b \in {0, 1}, r + a + 0 <= n
  PROVE  r + a + b <= n + 1
OBVIOUS

LEMMA SumMoved ==
  ASSUME NEW r \in Int, NEW n \in Int, NEW a \in {0, 1}, NEW b \in {0, 1}, r + a + b <= n,
         NEW q \in Int, q <= r + a
  PROVE  q + 0 + b <= n
OBVIOUS

LEMMA NextRepeatBound ==
  TypeInv /\ TypeInv' /\ WireOK /\ Numbered /\ RepeatBound /\ [Next]_vars => RepeatBound'
<1> SUFFICES ASSUME TypeInv, TypeInv', WireOK, Numbered, RepeatBound, [Next]_vars
             PROVE  RepeatBound'
  OBVIOUS
<1> USE DEF queueVars, sinkVars, lineVars
<1>a. /\ tradeQueue \in Seq(Trades) /\ received \in Seq(Trades) /\ races \in Nat
      /\ wire \in Seq(Trades \cup {Heartbeat}) /\ Heartbeat \notin Trades
  BY DEF TypeInv, TypeOK, Trades, Heartbeat
<1>b. /\ IsFiniteSet(ToSet(received)) /\ Repeats \in Int
      /\ Repeats + WillRepeat + WillResend <= races
  <2>1. Len(received) \in Nat /\ IsFiniteSet(1 .. Len(received))
    BY <1>a, ElementsOf, FS_Interval
  <2>2. ToSet(received) \subseteq Trades /\ IsFiniteSet(Trades)
    <3>1. \A i \in DOMAIN received : received[i] \in Trades
      BY <1>a, ElementsOf
    <3> QED
      BY <3>1, BoundsAssumption, FS_Interval DEF ToSet, Trades
  <2>3. IsFiniteSet(ToSet(received)) /\ Cardinality(ToSet(received)) \in Nat
    BY <2>2, FS_Subset, FS_CardinalityType
  <2> QED
    BY <2>1, <2>3 DEF Repeats, RepeatBound
<1>c. /\ WillRepeat \in {0, 1} /\ WillRepeat' \in {0, 1}
      /\ WillResend \in {0, 1} /\ WillResend' \in {0, 1}
  BY DEF WillRepeat, WillResend
<1>d. Repeats' \in Int /\ races \in Int /\ races' \in Int
  <2>1. received' \in Seq(Trades) /\ races \in Nat /\ races' \in Nat
    BY DEF TypeInv, TypeOK
  <2>2. ToSet(received') \subseteq Trades /\ IsFiniteSet(Trades) /\ Len(received') \in Nat
    <3>1. /\ Len(received') \in Nat
          /\ \A i \in DOMAIN received' : received'[i] \in Trades
      BY <2>1, ElementsOf
    <3> QED
      BY <3>1, BoundsAssumption, FS_Interval DEF ToSet, Trades
  <2>3. Cardinality(ToSet(received')) \in Nat
    BY <2>2, FS_Subset, FS_CardinalityType
  <2> QED
    BY <2>1, <2>2, <2>3 DEF Repeats
<1>1. ASSUME Repeats' = Repeats, WillRepeat' <= WillRepeat, WillResend' <= WillResend,
             races' = races
      PROVE  RepeatBound'
  <2>1. Repeats + WillRepeat' + WillResend' <= races
    BY <1>1, <1>b, <1>c, <1>d, SumKept
  <2> QED
    BY <1>1, <2>1 DEF RepeatBound
<1>2. ASSUME received' = received, Afloat' \subseteq Afloat, tradeQueue' = tradeQueue,
             pc = "pop" => pc' = "pop", races' = races
      PROVE  RepeatBound'
  <2>1. Repeats' = Repeats
    BY <1>2 DEF Repeats
  <2>2. WillRepeat' <= WillRepeat
    BY <1>2 DEF WillRepeat
  <2>3. WillResend' <= WillResend
    BY <1>2 DEF WillResend, Sent
  <2> QED
    BY <1>1, <1>2, <2>1, <2>2, <2>3
<1>3. CASE GiveTrade \/ ReadAnswer \/ TakeTrade \/ Done \/ UNCHANGED vars
  <2>1. UNCHANGED <<tradeQueue, received, wire, races>> /\ (pc = "pop" => pc' = "pop")
    BY <1>3 DEF GiveTrade, ReadAnswer, TakeTrade, Done, vars
  <2>2. Afloat' = Afloat
    BY <2>1 DEF Afloat
  <2> QED
    BY <1>2, <2>1, <2>2
<1>4. CASE Connect \/ SendHeartbeat \/ Break
  <2>1. UNCHANGED <<tradeQueue, received, races>> /\ (pc = "pop" => pc' = "pop")
    BY <1>4 DEF Connect, SendHeartbeat, Break
  <2>2. Afloat' \subseteq Afloat
    BY <1>4, AfloatAfter
  <2> QED
    BY <1>2, <2>1, <2>2
<1>5. CASE Push
  <2>1. /\ pushing /\ tradeQueue' = Append(tradeQueue, given)
        /\ UNCHANGED <<pc, received, wire, races>>
    BY <1>5 DEF Push, Pushed
  <2>2. Afloat' = Afloat /\ Sent' = Sent /\ given \notin Sent /\ given \in Trades
    BY <2>1 DEF Afloat, Sent, Numbered, TypeInv, HoldsFront
  <2>3. tradeQueue = << >> \/ Head(tradeQueue') = Head(tradeQueue)
    <3>1. /\ \A k \in DOMAIN tradeQueue' :
               \/ k \in DOMAIN tradeQueue /\ tradeQueue'[k] = tradeQueue[k]
               \/ k = Len(tradeQueue) + 1 /\ tradeQueue'[k] = given
          /\ tradeQueue' # << >> /\ tradeQueue' \in Seq(Trades)
      BY <1>a, <2>1, <2>2, AppendElements
    <3>2. 1 \in DOMAIN tradeQueue' /\ Head(tradeQueue') = tradeQueue'[1]
      BY <3>1, ElementsOf
    <3>3. tradeQueue # << >> => /\ Head(tradeQueue) = tradeQueue[1] /\ Len(tradeQueue) >= 1
                               /\ Len(tradeQueue) \in Nat
      BY <1>a, ElementsOf
    <3> QED
      BY <3>1, <3>2, <3>3
  <2>4. tradeQueue = << >> => Head(tradeQueue') = given
    BY <2>1, ShortSets
  <2>5. WillResend' <= WillResend
    BY <2>1, <2>2, <2>3, <2>4 DEF WillResend
  <2>6. Repeats' = Repeats /\ WillRepeat' = WillRepeat
    BY <2>1, <2>2 DEF Repeats, WillRepeat
  <2> QED
    BY <1>1, <1>c, <2>1, <2>5, <2>6
<1>6. CASE SendTrade
  <2>1. /\ pc = "send" /\ wire = << >> /\ UNCHANGED <<tradeQueue, received, races>>
        /\ tradeQueue # << >> /\ trade = Head(tradeQueue)
    BY <1>6 DEF SendTrade, WireOK, TypeInv, HoldsFront
  <2>2. Afloat = {} /\ Sent = ToSet(received)
    BY <2>1, ShortSets DEF Afloat, Sent
  <2>3. CASE Afloat' = Afloat
    BY <1>2, <2>1, <2>3
  <2>4. CASE pc' = "pop" /\ Afloat' = {trade}
    <3>1. WillRepeat = 0 /\ WillResend' = 0 /\ WillRepeat' = WillResend
      BY <2>1, <2>2, <2>4 DEF WillRepeat, WillResend
    <3>2. Repeats' = Repeats
      BY <2>1 DEF Repeats
    <3>3. Repeats' + WillRepeat' + WillResend' <= races'
      <4>1. Repeats + 0 + WillResend <= races
        BY <1>b, <3>1
      <4>2. Repeats + WillResend + 0 <= races
        BY <1>b, <1>c, <1>d, <4>1, SumSwapped
      <4> QED
        BY <2>1, <3>1, <3>2, <4>2
    <3> QED
      BY <3>3 DEF RepeatBound
  <2> QED
    BY <1>6, <2>2, <2>3, <2>4, AfloatAfter
<1>7. CASE PopTrade
  <2>1. /\ pc = "pop" /\ UNCHANGED <<received, wire>> /\ tradeQueue # << >>
        /\ \/ tradeQueue' = Tail(tradeQueue) /\ races' = races
           \/ tradeQueue' = tradeQueue /\ races' = races + 1
    BY <1>7 DEF PopTrade, Pops, TypeInv, HoldsFront
  <2>2. /\ Afloat' = Afloat /\ Sent' = Sent /\ Repeats' = Repeats /\ WillRepeat' = WillRepeat
        /\ WillResend = 0
    BY <2>1 DEF Afloat, Sent, Repeats, WillRepeat, WillResend
  <2>3. CASE tradeQueue' = tradeQueue /\ races' = races + 1
    <3>1. Repeats' + WillRepeat' + WillResend' <= races'
      <4>1. Repeats + WillRepeat + 0 <= races
        BY <1>b, <2>2
      <4>2. Repeats + WillRepeat + WillResend' <= races + 1
        BY <1>b, <1>c, <1>d, <4>1, SumGrown
      <4> QED
        BY <2>2, <2>3, <4>2
    <3> QED
      BY <3>1 DEF RepeatBound
  <2>4. CASE tradeQueue' = Tail(tradeQueue) /\ races' = races
    <3>1. tradeQueue' # << >> => Head(tradeQueue') \notin Sent
      <4>1. SUFFICES ASSUME tradeQueue' # << >>
                     PROVE  Head(tradeQueue') \notin Sent
        OBVIOUS
      <4>2. /\ tradeQueue' \in Seq(Trades)
            /\ \A i \in DOMAIN tradeQueue' : i \in Nat /\ i + 1 \in DOMAIN tradeQueue
                                            /\ tradeQueue'[i] = tradeQueue[i + 1]
        BY <1>a, <2>1, <2>4, TailElements
      <4>3. 1 \in DOMAIN tradeQueue' /\ Head(tradeQueue') = tradeQueue'[1]
        BY <4>1, <4>2, ElementsOf
      <4>4. 1 + 1 \in DOMAIN tradeQueue /\ Head(tradeQueue') = tradeQueue[1 + 1]
        BY <4>2, <4>3
      <4> QED
        BY <4>4 DEF Numbered
    <3>2. WillResend' = 0
      BY <2>2, <3>1 DEF WillResend
    <3> QED
      BY <1>1, <1>c, <2>2, <2>4, <3>2
  <2> QED
    BY <2>1, <2>3, <2>4
<1>8. CASE StatsServer
  <2>1. UNCHANGED <<tradeQueue, pc, races>> /\ wire # << >> /\ wire' = Tail(wire)
    BY <1>8 DEF StatsServer
  <2>2. Sent' = Sent /\ Afloat' \subseteq Afloat
    BY <1>8, AfloatAfter
  <2>3. CASE Head(wire) = Heartbeat
    <3>1. received' = received
      BY <1>8, <2>3 DEF StatsServer
    <3> QED
      BY <1>2, <2>1, <2>2, <3>1
  <2>4. CASE Head(wire) # Heartbeat
    <3> DEFINE t == Head(wire)
    <3>1. received' = Append(received, t) /\ t \in Afloat /\ t \in Trades
      BY <1>8, <2>4, AfloatAfter DEF StatsServer, Afloat
    <3>2. Afloat' = {}
      <4>1. wire' = << >> \/ wire' = <<Heartbeat>>
        <5>1. pc \in {"heartbeat", "answer", "pop"}
          BY <2>1 DEF WireOK, TypeInv, TypeOK
        <5>2. wire \in {<<Heartbeat>>, <<trade>>, <<trade, Heartbeat>>}
          BY <2>1, <5>1 DEF WireOK
        <5>3. /\ Head(<<Heartbeat>>) = Heartbeat /\ Tail(<<trade>>) = << >>
              /\ Tail(<<trade, Heartbeat>>) = <<Heartbeat>>
          BY ShortSets
        <5> QED
          BY <2>1, <2>4, <5>2, <5>3
      <4> QED
        BY <1>a, <4>1, ShortSets DEF Afloat
    <3>3. WillRepeat' = 0 /\ (t \in ToSet(received) => WillRepeat = 1)
      BY <3>1, <3>2 DEF WillRepeat
    <3>4. WillResend' = WillResend
      BY <2>1, <2>2 DEF WillResend
    <3>5. Repeats' <= Repeats + WillRepeat
      <4>1. /\ Len(received') = Len(received) + 1 /\ Len(received) \in Nat
            /\ ToSet(received') = ToSet(received) \cup {t}
        BY <1>a, <3>1, AppendSet, AppendProperties, ElementsOf
      <4>2. /\ Cardinality(ToSet(received)) \in Nat
            /\ Cardinality(ToSet(received')) = IF t \in ToSet(received)
                                               THEN Cardinality(ToSet(received))
                                               ELSE Cardinality(ToSet(received)) + 1
        BY <1>b, <4>1, FS_AddElement, FS_CardinalityType
      <4> QED
        BY <1>c, <3>3, <4>1, <4>2 DEF Repeats
    <3>6. Repeats' + WillRepeat' + WillResend' <= races'
      <4>1. Repeats' + 0 + WillResend <= races
        BY <1>b, <1>c, <1>d, <3>5, SumMoved
      <4> QED
        BY <2>1, <3>3, <3>4, <4>1
    <3> QED
      BY <3>6 DEF RepeatBound
  <2> QED
    BY <2>3, <2>4
<1> QED
  BY <1>3, <1>4, <1>5, <1>6, <1>7, <1>8 DEF Next, Sink

(***************************************************************************)
(* A trade is received twice only where a pop was lost to a push: no break *)
(* of the connection, wherever it falls, makes the sink repeat itself.     *)
(***************************************************************************)
THEOREM RepeatedOnlyByRaceCorrect == Spec => []RepeatedOnlyByRace
<1>1. Init => RepeatBound
  <2> SUFFICES ASSUME Init
               PROVE  RepeatBound
    OBVIOUS
  <2>1. received = << >> /\ tradeQueue = << >> /\ races = 0
    BY DEF Init
  <2>2. ToSet(received) = {} /\ Len(received) = 0
    BY <2>1, ShortSets
  <2>3. Repeats = 0 /\ WillRepeat = 0 /\ WillResend = 0
    BY <2>1, <2>2, FS_EmptySet DEF Repeats, WillRepeat, WillResend
  <2> QED
    BY <2>1, <2>3 DEF RepeatBound
<1>2. TypeInv /\ RepeatBound => RepeatedOnlyByRace
  <2> SUFFICES ASSUME TypeInv, RepeatBound
               PROVE  RepeatedOnlyByRace
    OBVIOUS
  <2>1. received \in Seq(Trades) /\ races \in Nat
    BY DEF TypeInv, TypeOK
  <2>2. ToSet(received) \subseteq Trades /\ IsFiniteSet(Trades) /\ Len(received) \in Nat
    <3>1. Len(received) \in Nat /\ \A i \in DOMAIN received : received[i] \in Trades
      BY <2>1, ElementsOf
    <3> QED
      BY <3>1, BoundsAssumption, FS_Interval DEF ToSet, Trades
  <2>3. Cardinality(ToSet(received)) \in Nat
    BY <2>2, FS_Subset, FS_CardinalityType
  <2>4. Repeats \in Int /\ WillRepeat \in {0, 1} /\ WillResend \in {0, 1}
    BY <2>2, <2>3 DEF Repeats, WillRepeat, WillResend
  <2>5. Repeats <= races
    BY <2>1, <2>4 DEF RepeatBound
  <2> QED
    BY <2>5 DEF Repeats, RepeatedOnlyByRace
<1> QED
  BY <1>1, <1>2, InitTypeInv, NextTypeInv, InitNumbered, NextNumbered, NextWireOK,
     NextRepeatBound, PTL DEF Spec

=============================================================================
