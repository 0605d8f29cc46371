-------------------------- MODULE QuoteSourceProofs --------------------------
(***************************************************************************)
(* Proofs about QuoteSource, for any set of clients, tickers and requests, *)
(* any capacity and any number of streams: the types, that no tick is      *)
(* unaccounted for after "success" unless two senders pop from one queue,  *)
(* and how far several senders run ahead of what was asked for. With one   *)
(* stream for each client, it implements TickStream.                       *)
(***************************************************************************)
EXTENDS QuoteSource, SequenceTheorems, FiniteSetTheorems, TLAPS

-----------------------------------------------------------------------------
(* Sequences. *)

LEMMA Elements ==
  ASSUME NEW S, NEW s \in Seq(S)
  PROVE  /\ Len(s) \in Nat /\ DOMAIN s = 1 .. Len(s)
         /\ \A i \in DOMAIN s : i \in Nat /\ s[i] \in S
         /\ s # << >> => 1 \in DOMAIN s /\ Head(s) = s[1] /\ Len(s) \in DOMAIN s
BY ElementOfSeq, LenProperties, EmptySeq

LEMMA AppendElements ==
  ASSUME NEW S, NEW s \in Seq(S), NEW e \in S
  PROVE  /\ Append(s, e) \in Seq(S) /\ Append(s, e) # << >>
         /\ Len(Append(s, e)) = Len(s) + 1 /\ Append(s, e)[Len(s) + 1] = e
         /\ \A i \in DOMAIN Append(s, e) :
              \/ i \in DOMAIN s /\ i <= Len(s) /\ Append(s, e)[i] = s[i]
              \/ i = Len(s) + 1 /\ Append(s, e)[i] = e
         /\ ToSet(Append(s, e)) = ToSet(s) \cup {e}
<1>1. /\ Append(s, e) \in Seq(S) /\ Append(s, e) # << >>
      /\ Len(Append(s, e)) = Len(s) + 1
      /\ \A i \in 1 .. Len(s) : Append(s, e)[i] = s[i]
      /\ Append(s, e)[Len(s) + 1] = e
  BY AppendProperties
<1>2. DOMAIN Append(s, e) = 1 .. Len(s) + 1 /\ DOMAIN s = 1 .. Len(s) /\ Len(s) \in Nat
  BY <1>1, LenProperties
<1>3. \A x : x \in ToSet(Append(s, e)) => x \in ToSet(s) \cup {e}
  BY <1>1, <1>2 DEF ToSet
<1>4. \A x : x \in ToSet(s) \cup {e} => x \in ToSet(Append(s, e))
  BY <1>1, <1>2 DEF ToSet
<1>5. ToSet(Append(s, e)) = ToSet(s) \cup {e}
  BY <1>3, <1>4
<1> QED
  BY <1>1, <1>2, <1>5

LEMMA TailElements ==
  ASSUME NEW S, NEW s \in Seq(S), s # << >>
  PROVE  /\ Tail(s) \in Seq(S) /\ Head(s) \in S /\ Head(s) = s[1]
         /\ \A i \in DOMAIN Tail(s) : i \in Nat /\ i + 1 \in DOMAIN s /\ Tail(s)[i] = s[i + 1]
         /\ \A i \in DOMAIN Tail(s) : i + 1 > 1
         /\ ToSet(s) = ToSet(Tail(s)) \cup {Head(s)}
<1>1. /\ Tail(s) \in Seq(S) /\ Len(Tail(s)) = Len(s) - 1
      /\ \A i \in 1 .. Len(Tail(s)) : Tail(s)[i] = s[i + 1]
      /\ Head(s) \in S
  BY HeadTailProperties
<1>2. /\ Len(s) \in Nat /\ Len(s) # 0 /\ DOMAIN s = 1 .. Len(s)
      /\ DOMAIN Tail(s) = 1 .. Len(Tail(s)) /\ Head(s) = s[1]
  BY <1>1, LenProperties, EmptySeq
<1>3. \A x : x \in ToSet(s) => x \in ToSet(Tail(s)) \cup {Head(s)}
  <2> SUFFICES ASSUME NEW i \in DOMAIN s
               PROVE  s[i] \in ToSet(Tail(s)) \cup {Head(s)}
    BY DEF ToSet
  <2>1. CASE i = 1
    BY <1>2, <2>1
  <2>2. CASE i # 1
    <3>1. i - 1 \in DOMAIN Tail(s) /\ Tail(s)[i - 1] = s[i]
      BY <1>1, <1>2, <2>2
    <3> QED
      BY <3>1 DEF ToSet
  <2> QED
    BY <2>1, <2>2
<1>4. \A x : x \in ToSet(Tail(s)) \cup {Head(s)} => x \in ToSet(s)
  BY <1>1, <1>2 DEF ToSet
<1>5. ToSet(s) = ToSet(Tail(s)) \cup {Head(s)}
  BY <1>3, <1>4
<1> QED
  BY <1>1, <1>2, <1>5

LEMMA Updated ==
  ASSUME NEW D, NEW R, NEW f \in [D -> R], NEW c \in D, NEW v \in R
  PROVE  [f EXCEPT ![c] = v] \in [D -> R]
OBVIOUS

-----------------------------------------------------------------------------
(* Types, what the senders hold, and where the places of the queue lie. *)

HandOK ==
  \A s \in Sender : /\ spc[s] \in {"store", "send"} => hand[s] \in Tick
                    /\ spc[s] \in {"copy", "store"} => at[s] + 1 <= Len(pushed[s[1]])

ClientsOK ==
  /\ delivering => Len(log) \in Tick
  /\ ~ delivering => visiting = {}
  /\ \A c \in Client : way[c] # "out" => c \in visiting
  /\ \A c \in Client : pc[c] \in {"subscribe", "reply"} => streams[c] \in 1 .. MaxStreams

TypeInv == TypeOK /\ HandOK /\ ClientsOK

(* A place of the ring stands for one of the last ticks pushed. *)

LEMMA PlaceInRing ==
  ASSUME NEW c \in Client, pushed[c] \in Seq(Tick), NEW i \in 1 .. Len(pushed[c])
  PROVE  /\ Place(c, i) \in 1 .. Len(pushed[c])
         /\ Len(pushed[c]) <= Place(c, i) + Capacity
<1> DEFINE n == Len(pushed[c])
<1>1. n \in Nat /\ i \in 1 .. n /\ Capacity \in Nat
  BY Elements, BoundsAssumption
<1>2. Place(c, i) = IF i + Capacity >= n THEN i ELSE n - ((n - i) % (Capacity + 1))
  BY DEF Place
<1> HIDE DEF n
<1>3. (n - i) % (Capacity + 1) \in 0 .. Capacity
  BY <1>1
<1>4. PICK r \in 0 .. Capacity : r = (n - i) % (Capacity + 1)
  BY <1>3
<1>5. Place(c, i) = IF i + Capacity >= n THEN i ELSE n - r
  BY <1>2, <1>4
<1>6. Place(c, i) \in 1 .. n /\ n <= Place(c, i) + Capacity
  BY <1>1, <1>5
<1> QED
  BY <1>6 DEF n

(* In time, a place stands for itself. *)

LEMMA PlaceInTime ==
  ASSUME NEW c \in Client, NEW i, i + Capacity >= Len(pushed[c])
  PROVE  Place(c, i) = i
BY DEF Place

LEMMA NotifiedType ==
  ASSUME rest \in [Sender -> {"no", "going", "waiting"}],
         NEW c \in Client, NotifyOne(c) \/ NotifyAll(c)
  PROVE  rest' \in [Sender -> {"no", "going", "waiting"}]
BY DEF NotifyOne, NotifyAll, Resting

LEMMA InitTypeInv == Init => TypeInv
<1> SUFFICES ASSUME Init
             PROVE  TypeInv
  OBVIOUS
<1>1. /\ << >> \in Seq(Ticker) /\ << >> \in Seq(Tick)
      /\ << >> \in Seq(Ticker \cup {All, Invalid}) /\ Len(<< >>) = 0
  OBVIOUS
<1>2. 0 \in 0 .. MaxStreams /\ 0 <= Capacity /\ 0 <= MaxTicks
  BY BoundsAssumption
<1>3. TypeOK
  <2>1. /\ log \in Seq(Ticker) /\ Len(log) <= MaxTicks /\ delivering \in BOOLEAN
        /\ visiting \subseteq clients /\ clients \subseteq Client /\ accepting \in BOOLEAN
        /\ stopping = "no" /\ untold \subseteq Client /\ shaken \in BOOLEAN
        /\ crashed \in BOOLEAN /\ way \in [Client -> {"out", "send", "push"}]
    BY <1>1, <1>2 DEF Init
  <2>2. /\ pc \in [Client -> {"none", "begin", "read", "subscribe", "reply", "remove",
                              "destroyed"}]
        /\ request \in [Client -> Seq(Ticker \cup {All, Invalid})]
        /\ streams \in [Client -> 0 .. MaxStreams] /\ run \in [Client -> BOOLEAN]
    BY <1>1, <1>2 DEF Init
  <2>3. /\ manualMode \in [Client -> BOOLEAN] /\ tickers \in [Client -> SUBSET Ticker]
        /\ allTickers \in [Client -> BOOLEAN] /\ pushed \in [Client -> Seq(Tick)]
        /\ readAt \in [Client -> Nat] /\ copied \in [Client -> SUBSET (Nat \ {0})]
        /\ credits \in [Client -> Int]
    BY <1>1 DEF Init
  <2>4. \A c \in Client : Len(pushed[c]) \in readAt[c] .. readAt[c] + Capacity
    BY <1>1, BoundsAssumption DEF Init
  <2>5. /\ spc \in [Sender -> {"none", "check", "load", "copy", "store", "send", "spend",
                               "ended"}]
        /\ rest \in [Sender -> {"no", "going", "waiting"}]
        /\ at \in [Sender -> Nat]
        /\ hand \in [Sender -> Tick \cup {NoTick}]
    BY DEF Init
  <2>6. /\ sent \in [Client -> Seq(Tick)] /\ dropped \in [Client -> SUBSET Tick]
        /\ nexts \in [Client -> Nat] /\ confirmed \in [Client -> SUBSET Ticker]
        /\ owed \in [Client -> SUBSET Tick] /\ early \in [Client -> Nat]
    BY <1>1 DEF Init
  <2> QED
    BY <2>1, <2>2, <2>3, <2>4, <2>5, <2>6 DEF TypeOK
<1>4. HandOK /\ ClientsOK
  BY DEF Init, HandOK, ClientsOK
<1> QED
  BY <1>3, <1>4 DEF TypeInv

LEMMA NextTypeInv == TypeInv /\ [Next]_vars => TypeInv'
<1> SUFFICES ASSUME TypeInv, [Next]_vars
             PROVE  TypeInv'
  OBVIOUS
<1> USE DEF tickVars, stopVars, requestVars, modeVars, queueVars, senderVars, promiseVars
<1>a. TypeOK /\ HandOK /\ ClientsOK
  BY DEF TypeInv
<1>1. ASSUME NEW c \in Client, Accept(c)
      PROVE  TypeInv'
  <2>1. TypeOK'
    BY <1>1, <1>a DEF TypeOK, Accept, At
  <2>2. HandOK'
    BY <1>1, <1>a DEF TypeOK, HandOK, Accept, At
  <2>3. ClientsOK'
    BY <1>1, <1>a DEF TypeOK, ClientsOK, Accept, At
  <2> QED
    BY <2>1, <2>2, <2>3 DEF TypeInv
<1>2. ASSUME AcceptNoMore
      PROVE  TypeInv'
  <2>1. TypeOK'
    BY <1>2, <1>a DEF TypeOK, AcceptNoMore
  <2>2. HandOK'
    BY <1>2, <1>a DEF TypeOK, HandOK, AcceptNoMore
  <2>3. ClientsOK'
    BY <1>2, <1>a DEF TypeOK, ClientsOK, AcceptNoMore
  <2> QED
    BY <2>1, <2>2, <2>3 DEF TypeInv
<1>3. ASSUME Stop
      PROVE  TypeInv'
  <2>1. TypeOK'
    BY <1>3, <1>a DEF TypeOK, Stop
  <2>2. HandOK'
    BY <1>3, <1>a DEF TypeOK, HandOK, Stop
  <2>3. ClientsOK'
    BY <1>3, <1>a DEF TypeOK, ClientsOK, Stop
  <2> QED
    BY <2>1, <2>2, <2>3 DEF TypeInv
<1>4. ASSUME NEW c \in Client, StopClient(c)
      PROVE  TypeInv'
  <2>1. TypeOK'
    <3>1. rest' \in [Sender -> {"no", "going", "waiting"}]
      BY <1>4, <1>a, NotifiedType DEF TypeOK, StopClient
    <3> QED
      BY <1>4, <1>a, <3>1 DEF TypeOK, StopClient
  <2>2. HandOK'
    BY <1>4, <1>a DEF TypeOK, HandOK, StopClient
  <2>3. ClientsOK'
    BY <1>4, <1>a DEF TypeOK, ClientsOK, StopClient
  <2> QED
    BY <2>1, <2>2, <2>3 DEF TypeInv
<1>5. ASSUME Stopped
      PROVE  TypeInv'
  <2>1. TypeOK'
    BY <1>5, <1>a DEF TypeOK, Stopped
  <2>2. HandOK'
    BY <1>5, <1>a DEF TypeOK, HandOK, Stopped
  <2>3. ClientsOK'
    BY <1>5, <1>a DEF TypeOK, ClientsOK, Stopped
  <2> QED
    BY <2>1, <2>2, <2>3 DEF TypeInv
<1>6. ASSUME NEW c \in Client, NEW manual \in BOOLEAN, NEW list \in Requests,
             StartStream(c, manual, list)
      PROVE  TypeInv'
  <2>1. TypeOK'
    <3>1. /\ streams[c] + 1 \in 0 .. MaxStreams
          /\ list \in Seq(Ticker \cup {All, Invalid})
      BY <1>6, <1>a, BoundsAssumption, RequestsAssumption DEF TypeOK, StartStream
    <3> QED
      BY <1>6, <1>a, <3>1 DEF TypeOK, StartStream
  <2>2. HandOK'
    BY <1>6, <1>a DEF TypeOK, HandOK, StartStream, At
  <2>3. ClientsOK'
    <3>1. /\ streams[c] + 1 \in 1 .. MaxStreams /\ streams' = [streams EXCEPT ![c] = @ + 1]
          /\ pc' = [pc EXCEPT ![c] = "subscribe"]
          /\ UNCHANGED <<log, delivering, visiting, way>>
      BY <1>6, <1>a, BoundsAssumption DEF TypeOK, StartStream
    <3>2. \A d \in Client : pc'[d] \in {"subscribe", "reply"} => streams'[d] \in 1 .. MaxStreams
      BY <1>a, <3>1 DEF TypeOK, ClientsOK
    <3> QED
      BY <1>a, <3>1, <3>2 DEF ClientsOK
  <2> QED
    BY <2>1, <2>2, <2>3 DEF TypeInv
<1>7. ASSUME NEW c \in Client, SubscribeNext(c)
      PROVE  TypeInv'
  <2>1. TypeOK'
    <3>1. request[c] \in Seq(Ticker \cup {All, Invalid}) /\ request[c] # << >>
      BY <1>7, <1>a DEF TypeOK, SubscribeNext
    <3>2. Tail(request[c]) \in Seq(Ticker \cup {All, Invalid})
      BY <3>1, TailElements
    <3>3. request' \in [Client -> Seq(Ticker \cup {All, Invalid})]
      <4>1. << >> \in Seq(Ticker \cup {All, Invalid})
        OBVIOUS
      <4>2. \/ request' = [request EXCEPT ![c] = << >>]
            \/ request' = [request EXCEPT ![c] = Tail(request[c])]
        BY <1>7 DEF SubscribeNext
      <4>3. request \in [Client -> Seq(Ticker \cup {All, Invalid})]
        BY <1>a DEF TypeOK
      <4>4. \A q \in Seq(Ticker \cup {All, Invalid}) :
              [request EXCEPT ![c] = q] \in [Client -> Seq(Ticker \cup {All, Invalid})]
        BY <4>3, Updated
      <4> QED
        BY <3>2, <4>1, <4>2, <4>4
    <3>4. /\ tickers' \in [Client -> SUBSET Ticker] /\ allTickers' \in [Client -> BOOLEAN]
      <4>1. \/ \E t \in Ticker : tickers' = [tickers EXCEPT ![c] = @ \cup {t}]
            \/ tickers' = tickers
        BY <1>7 DEF SubscribeNext
      <4>2. allTickers' = allTickers \/ allTickers' = [allTickers EXCEPT ![c] = TRUE]
        BY <1>7 DEF SubscribeNext
      <4>3. tickers' \in [Client -> SUBSET Ticker]
        <5>1. tickers \in [Client -> SUBSET Ticker]
          BY <1>a DEF TypeOK
        <5>2. ASSUME NEW t \in Ticker
              PROVE  [tickers EXCEPT ![c] = @ \cup {t}] \in [Client -> SUBSET Ticker]
          <6>1. tickers[c] \cup {t} \in SUBSET Ticker
            BY <5>1
          <6> QED
            BY <5>1, <6>1, Updated
        <5> QED
          BY <4>1, <5>1, <5>2
      <4> QED
        BY <1>a, <4>2, <4>3 DEF TypeOK
    <3>5. pc' \in [Client -> {"none", "begin", "read", "subscribe", "reply", "remove",
                              "destroyed"}]
      BY <1>7, <1>a DEF TypeOK, SubscribeNext, AfterMessage
    <3> QED
      BY <1>7, <1>a, <3>3, <3>4, <3>5 DEF TypeOK, SubscribeNext
  <2>2. HandOK'
    BY <1>7, <1>a DEF TypeOK, HandOK, SubscribeNext, At, AfterMessage
  <2>3. ClientsOK'
    BY <1>7, <1>a DEF TypeOK, ClientsOK, SubscribeNext, At, AfterMessage
  <2> QED
    BY <2>1, <2>2, <2>3 DEF TypeInv
<1>8. ASSUME NEW c \in Client, StartSender(c)
      PROVE  TypeInv'
  <2>1. TypeOK'
    BY <1>8, <1>a DEF TypeOK, StartSender, At
  <2>2. HandOK'
    <3>1. /\ UNCHANGED <<pushed, at, hand>>
          /\ spc' = spc \/ spc' = [spc EXCEPT ![<<c, streams[c]>>] = "check"]
      BY <1>8 DEF StartSender
    <3>2. \A s \in Sender : spc'[s] = spc[s] \/ spc'[s] = "check"
      BY <1>a, <3>1 DEF TypeOK
    <3> QED
      BY <1>a, <3>1, <3>2 DEF HandOK
  <2>3. ClientsOK'
    BY <1>8, <1>a DEF TypeOK, ClientsOK, StartSender, At
  <2> QED
    BY <2>1, <2>2, <2>3 DEF TypeInv
<1>9. ASSUME NEW c \in Client, ReplyOk(c)
      PROVE  TypeInv'
  <2>1. TypeOK'
    BY <1>9, <1>a DEF TypeOK, ReplyOk, At, AfterMessage
  <2>2. HandOK'
    BY <1>9, <1>a DEF TypeOK, HandOK, ReplyOk, At, AfterMessage
  <2>3. ClientsOK'
    BY <1>9, <1>a DEF TypeOK, ClientsOK, ReplyOk, At, AfterMessage
  <2> QED
    BY <2>1, <2>2, <2>3 DEF TypeInv
<1>10. ASSUME NEW c \in Client, Begin(c)
      PROVE  TypeInv'
  <2>1. TypeOK'
    BY <1>10, <1>a DEF TypeOK, Begin, At
  <2>2. HandOK'
    BY <1>10, <1>a DEF TypeOK, HandOK, Begin, At
  <2>3. ClientsOK'
    BY <1>10, <1>a DEF TypeOK, ClientsOK, Begin, At
  <2> QED
    BY <2>1, <2>2, <2>3 DEF TypeInv
<1>11. ASSUME NEW c \in Client, NextTick(c)
      PROVE  TypeInv'
  <2>1. TypeOK'
    <3>1. /\ nexts' \in [Client -> Nat] /\ credits' \in [Client -> Int]
          /\ pc' \in [Client -> {"none", "begin", "read", "subscribe", "reply", "remove",
                                 "destroyed"}]
      <4>1. nexts' \in [Client -> Nat]
        BY <1>11, <1>a DEF TypeOK, NextTick
      <4>2. credits' \in [Client -> Int]
        BY <1>11, <1>a DEF TypeOK, NextTick
      <4>3. pc' \in [Client -> {"none", "begin", "read", "subscribe", "reply", "remove",
                                "destroyed"}]
        BY <1>11, <1>a DEF TypeOK, NextTick, AfterMessage
      <4> QED
        BY <4>1, <4>2, <4>3
    <3>2. UNCHANGED <<tickVars, clients, stopVars, request, streams, run, modeVars, queueVars,
                      spc, at, hand, sent, dropped, promiseVars, crashed>>
      BY <1>11 DEF NextTick
    <3>3. rest' \in [Sender -> {"no", "going", "waiting"}]
      BY <1>11, <1>a, NotifiedType DEF TypeOK, NextTick
    <3> QED
      BY <1>a, <3>1, <3>2, <3>3 DEF TypeOK
  <2>2. HandOK'
    BY <1>11, <1>a DEF TypeOK, HandOK, NextTick, At, AfterMessage
  <2>3. ClientsOK'
    BY <1>11, <1>a DEF TypeOK, ClientsOK, NextTick, At, AfterMessage
  <2> QED
    BY <2>1, <2>2, <2>3 DEF TypeInv
<1>12. ASSUME NEW c \in Client, NoMessage(c)
      PROVE  TypeInv'
  <2>1. TypeOK'
    BY <1>12, <1>a DEF TypeOK, NoMessage, At, AfterMessage
  <2>2. HandOK'
    BY <1>12, <1>a DEF TypeOK, HandOK, NoMessage, At, AfterMessage
  <2>3. ClientsOK'
    BY <1>12, <1>a DEF TypeOK, ClientsOK, NoMessage, At, AfterMessage
  <2> QED
    BY <2>1, <2>2, <2>3 DEF TypeInv
<1>13. ASSUME NEW c \in Client, Disconnect(c)
      PROVE  TypeInv'
  <2>1. TypeOK'
    BY <1>13, <1>a DEF TypeOK, Disconnect, At
  <2>2. HandOK'
    BY <1>13, <1>a DEF TypeOK, HandOK, Disconnect, At
  <2>3. ClientsOK'
    BY <1>13, <1>a DEF TypeOK, ClientsOK, Disconnect, At
  <2> QED
    BY <2>1, <2>2, <2>3 DEF TypeInv
<1>14. ASSUME NEW c \in Client, RemoveClient(c)
      PROVE  TypeInv'
  <2>1. TypeOK'
    BY <1>14, <1>a DEF TypeOK, ClientsOK, RemoveClient, At, MutexFree
  <2>2. HandOK'
    BY <1>14, <1>a DEF TypeOK, HandOK, RemoveClient, At, MutexFree
  <2>3. ClientsOK'
    BY <1>14, <1>a DEF TypeOK, ClientsOK, RemoveClient, At, MutexFree
  <2> QED
    BY <2>1, <2>2, <2>3 DEF TypeInv
<1>15. ASSUME NEW ticker \in Ticker, ProduceTick(ticker)
      PROVE  TypeInv'
  <2>a. log' \in Seq(Ticker) /\ Len(log') <= MaxTicks /\ Len(log') \in Tick
    <3>1. log \in Seq(Ticker) /\ Len(log) < MaxTicks /\ log' = Append(log, ticker)
      BY <1>15, <1>a DEF TypeOK, ProduceTick
    <3>2. log' \in Seq(Ticker) /\ Len(log') = Len(log) + 1 /\ Len(log) \in Nat
      BY <3>1, AppendElements, Elements
    <3> QED
      BY <3>1, <3>2, BoundsAssumption DEF Tick
  <2>1. TypeOK'
    BY <1>15, <1>a, <2>a DEF TypeOK, ProduceTick
  <2>2. HandOK'
    BY <1>15, <1>a DEF TypeOK, HandOK, ProduceTick, MutexFree
  <2>3. ClientsOK'
    BY <1>15, <1>a, <2>a DEF TypeOK, ClientsOK, ProduceTick
  <2> QED
    BY <2>1, <2>2, <2>3 DEF TypeInv
<1>16. ASSUME NEW c \in Client, EnterClient(c)
      PROVE  TypeInv'
  <2>1. TypeOK'
    BY <1>16, <1>a DEF TypeOK, EnterClient
  <2>2. HandOK'
    BY <1>16, <1>a DEF TypeOK, HandOK, EnterClient
  <2>3. ClientsOK'
    BY <1>16, <1>a DEF TypeOK, ClientsOK, EnterClient
  <2> QED
    BY <2>1, <2>2, <2>3 DEF TypeInv
<1>d. ASSUME NEW c \in Client, way[c] # "out", Handed(c)
      PROVE  /\ Len(log) \in Tick /\ delivering /\ visiting' \subseteq visiting
             /\ way' \in [Client -> {"out", "send", "push"}]
             /\ \A d \in Client : way'[d] # "out" => d \in visiting'
             /\ owed' \in [Client -> SUBSET Tick]
  <2>1. Len(log) \in Tick /\ delivering
    BY <1>d, <1>a DEF ClientsOK
  <2>2. /\ visiting' = visiting \ {c} /\ way' = [way EXCEPT ![c] = "out"]
        /\ way \in [Client -> {"out", "send", "push"}]
    BY <1>d, <1>a DEF Handed, TypeOK
  <2>3. \A d \in Client : way'[d] # "out" => d \in visiting'
    BY <1>a, <2>2 DEF ClientsOK
  <2>4. owed' \in [Client -> SUBSET Tick]
    <3>1. owed' = owed \/ owed' = [owed EXCEPT ![c] = @ \cup {Len(log)}]
      BY <1>d DEF Handed
    <3>2. owed \in [Client -> SUBSET Tick] /\ owed[c] \cup {Len(log)} \in SUBSET Tick
      BY <1>a, <2>1 DEF TypeOK
    <3> QED
      BY <3>1, <3>2, Updated
  <2> QED
    BY <2>1, <2>2, <2>3, <2>4
<1>17. ASSUME NEW c \in Client, SendDirect(c)
      PROVE  TypeInv'
  <2>1. /\ Len(log) \in Tick /\ delivering /\ visiting' \subseteq visiting
        /\ way' \in [Client -> {"out", "send", "push"}]
        /\ \A d \in Client : way'[d] # "out" => d \in visiting'
        /\ owed' \in [Client -> SUBSET Tick]
    <3>1. way[c] # "out" /\ Handed(c)
      BY <1>17 DEF SendDirect
    <3> QED
      BY <1>d, <3>1
  <2>2. sent' \in [Client -> Seq(Tick)]
    <3>1. sent' = sent \/ sent' = [sent EXCEPT ![c] = Append(@, Len(log))]
      BY <1>17 DEF SendDirect
    <3>2. sent \in [Client -> Seq(Tick)]
      BY <1>a DEF TypeOK
    <3>3. Append(sent[c], Len(log)) \in Seq(Tick)
      BY <2>1, <3>2, AppendElements
    <3> QED
      BY <3>1, <3>2, <3>3, Updated
  <2>3. early' \in [Client -> Nat]
    <3>1. early \in [Client -> Nat]
      BY <1>a DEF TypeOK
    <3>2. \/ early' = early \/ early' = [early EXCEPT ![c] = @ + 1]
          \/ early' = [early EXCEPT ![c] = @ + 0]
      BY <1>17 DEF SendDirect
    <3>3. early[c] + 1 \in Nat /\ early[c] + 0 \in Nat
      BY <3>1
    <3> QED
      BY <3>1, <3>2, <3>3, Updated
  <2>4. UNCHANGED <<log, delivering, clients, stopVars, requestVars, modeVars, queueVars,
                    credits, senderVars, dropped, nexts, confirmed, crashed>>
    BY <1>17 DEF SendDirect
  <2>5. TypeOK'
    BY <1>a, <2>1, <2>2, <2>3, <2>4 DEF TypeOK
  <2>6. HandOK'
    BY <1>a, <2>4 DEF HandOK
  <2>7. ClientsOK'
    BY <1>a, <2>1, <2>4 DEF ClientsOK
  <2> QED
    BY <2>5, <2>6, <2>7 DEF TypeInv
<1>18. ASSUME NEW c \in Client, PushTick(c)
      PROVE  TypeInv'
  <2>1. /\ Len(log) \in Tick /\ delivering /\ visiting' \subseteq visiting
        /\ way' \in [Client -> {"out", "send", "push"}]
        /\ \A d \in Client : way'[d] # "out" => d \in visiting'
        /\ owed' \in [Client -> SUBSET Tick]
    <3>1. way[c] # "out" /\ Handed(c)
      BY <1>18 DEF PushTick
    <3> QED
      BY <1>d, <3>1
  <2>2. /\ pushed \in [Client -> Seq(Tick)] /\ readAt \in [Client -> Nat]
        /\ Append(pushed[c], Len(log)) \in Seq(Tick)
        /\ Len(Append(pushed[c], Len(log))) = Len(pushed[c]) + 1
        /\ \A d \in Client : Len(pushed[d]) \in Nat
        /\ \A d \in Client : Len(pushed[d]) \in readAt[d] .. readAt[d] + Capacity
    <3>1. /\ pushed \in [Client -> Seq(Tick)] /\ readAt \in [Client -> Nat]
          /\ \A d \in Client : Len(pushed[d]) \in readAt[d] .. readAt[d] + Capacity
      BY <1>a DEF TypeOK
    <3>2. \A d \in Client : Len(pushed[d]) \in Nat
      BY <3>1, Elements
    <3>3. /\ Append(pushed[c], Len(log)) \in Seq(Tick)
          /\ Len(Append(pushed[c], Len(log))) = Len(pushed[c]) + 1
      BY <2>1, <3>1, AppendElements
    <3> QED
      BY <3>1, <3>2, <3>3
  <2>3. \/ pushed' = pushed
        \/ /\ pushed' = [pushed EXCEPT ![c] = Append(@, Len(log))]
           /\ ~ Len(pushed[c]) - readAt[c] >= Capacity
    BY <1>18 DEF PushTick, Full
  <2>4. pushed' \in [Client -> Seq(Tick)]
    BY <2>2, <2>3, Updated
  <2>5. /\ \A d \in Client : Len(pushed'[d]) \in readAt[d] .. readAt[d] + Capacity
        /\ \A d \in Client : Len(pushed[d]) <= Len(pushed'[d])
    <3> SUFFICES ASSUME NEW d \in Client
                 PROVE  /\ Len(pushed'[d]) \in readAt[d] .. readAt[d] + Capacity
                        /\ Len(pushed[d]) <= Len(pushed'[d])
      OBVIOUS
    <3>1. \/ pushed'[d] = pushed[d]
          \/ /\ d = c /\ pushed'[d] = Append(pushed[c], Len(log))
             /\ ~ Len(pushed[c]) - readAt[c] >= Capacity
      BY <2>2, <2>3
    <3>2. CASE pushed'[d] = pushed[d]
      BY <2>2, <3>2
    <3>3. CASE /\ d = c /\ pushed'[d] = Append(pushed[c], Len(log))
               /\ ~ Len(pushed[c]) - readAt[c] >= Capacity
      <4>1. /\ Len(pushed'[c]) = Len(pushed[c]) + 1 /\ Len(pushed[c]) \in Nat
            /\ readAt[c] \in Nat /\ Len(pushed[c]) >= readAt[c]
        BY <2>2, <3>3
      <4>2. Len(pushed'[c]) \in readAt[c] .. readAt[c] + Capacity
        BY <3>3, <4>1, BoundsAssumption
      <4> QED
        BY <3>3, <4>1, <4>2
    <3> QED
      BY <3>1, <3>2, <3>3
  <2>6. dropped' \in [Client -> SUBSET Tick]
    <3>1. dropped' = dropped \/ dropped' = [dropped EXCEPT ![c] = @ \cup {Len(log)}]
      BY <1>18 DEF PushTick
    <3>2. dropped \in [Client -> SUBSET Tick] /\ dropped[c] \cup {Len(log)} \in SUBSET Tick
      BY <1>a, <2>1 DEF TypeOK
    <3> QED
      BY <3>1, <3>2, Updated
  <2>7. rest' \in [Sender -> {"no", "going", "waiting"}]
    BY <1>18, <1>a, NotifiedType DEF TypeOK, PushTick
  <2>8. UNCHANGED <<log, delivering, clients, stopVars, requestVars, modeVars, readAt, copied,
                    credits, spc, at, hand, sent, nexts, confirmed, early, crashed>>
    BY <1>18 DEF PushTick
  <2>9. TypeOK'
    BY <1>a, <2>1, <2>4, <2>5, <2>6, <2>7, <2>8 DEF TypeOK
  <2>10. HandOK'
    <3>1. \A s \in Sender : s[1] \in Client /\ at[s] \in Nat
      BY <1>a DEF TypeOK, Sender
    <3>2. \A d \in Client : Len(pushed'[d]) \in Nat
      BY <2>4, Elements
    <3>3. \A s \in Sender : /\ Len(pushed[s[1]]) \in Nat /\ Len(pushed'[s[1]]) \in Nat
                            /\ Len(pushed[s[1]]) <= Len(pushed'[s[1]])
      BY <2>2, <2>5, <3>1, <3>2
    <3>4. \A s \in Sender : at[s] + 1 <= Len(pushed[s[1]]) => at[s] + 1 <= Len(pushed'[s[1]])
      BY <3>1, <3>3
    <3> QED
      BY <1>a, <2>8, <3>4 DEF HandOK
  <2>11. ClientsOK'
    BY <1>a, <2>1, <2>8 DEF ClientsOK
  <2> QED
    BY <2>9, <2>10, <2>11 DEF TypeInv
<1>19. ASSUME DeliveredToAll
      PROVE  TypeInv'
  <2>1. TypeOK'
    BY <1>19, <1>a DEF TypeOK, DeliveredToAll
  <2>2. HandOK'
    BY <1>19, <1>a DEF TypeOK, HandOK, DeliveredToAll
  <2>3. ClientsOK'
    BY <1>19, <1>a DEF TypeOK, ClientsOK, DeliveredToAll
  <2> QED
    BY <2>1, <2>2, <2>3 DEF TypeInv
<1>20. ASSUME NEW s \in Sender, CheckQueue(s)
      PROVE  TypeInv'
  <2>1. TypeOK'
    BY <1>20, <1>a DEF TypeOK, CheckQueue
  <2>2. HandOK'
    BY <1>20, <1>a DEF TypeOK, HandOK, CheckQueue
  <2>3. ClientsOK'
    BY <1>20, <1>a DEF TypeOK, ClientsOK, CheckQueue
  <2> QED
    BY <2>1, <2>2, <2>3 DEF TypeInv
<1>21. ASSUME NEW s \in Sender, WaitForTick(s)
      PROVE  TypeInv'
  <2>1. TypeOK'
    BY <1>21, <1>a DEF TypeOK, WaitForTick
  <2>2. HandOK' /\ ClientsOK'
    BY <1>21, <1>a DEF HandOK, ClientsOK, WaitForTick
  <2> QED
    BY <2>1, <2>2 DEF TypeInv
<1>b. \A s \in Sender : /\ s[1] \in Client /\ pushed[s[1]] \in Seq(Tick)
                        /\ Len(pushed[s[1]]) \in Nat
                        /\ readAt[s[1]] \in Nat /\ at[s] \in Nat
  <2>1. \A s \in Sender : /\ s[1] \in Client /\ pushed[s[1]] \in Seq(Tick)
                          /\ readAt[s[1]] \in Nat /\ at[s] \in Nat
    BY <1>a DEF TypeOK, Sender
  <2>2. \A s \in Sender : Len(pushed[s[1]]) \in Nat
    BY <2>1, Elements
  <2> QED
    BY <2>1, <2>2
<1>22. ASSUME NEW s \in Sender, LoadIndex(s)
      PROVE  TypeInv'
  <2>1. /\ UNCHANGED <<log, delivering, visiting, way, pc, streams, pushed, hand>>
        /\ \/ spc' = [spc EXCEPT ![s] = "check"] /\ at' = at
           \/ /\ spc' = [spc EXCEPT ![s] = "copy"] /\ at' = [at EXCEPT ![s] = readAt[s[1]]]
              /\ Waiting(s[1]) # {}
    BY <1>22 DEF LoadIndex
  <2>2. TypeOK'
    BY <1>22, <1>a, <1>b DEF TypeOK, LoadIndex
  <2>3. HandOK'
    <3>1. Waiting(s[1]) # {} => readAt[s[1]] + 1 <= Len(pushed[s[1]])
      BY <1>b DEF Waiting
    <3>2. /\ spc \in [Sender -> {"none", "check", "load", "copy", "store", "send", "spend",
                                 "ended"}]
          /\ at \in [Sender -> Nat]
      BY <1>a DEF TypeOK
    <3>3. \A r \in Sender :
            spc'[r] \in {"store", "send"} => hand[r] \in Tick
      BY <1>a, <2>1, <3>2 DEF HandOK
    <3>4. \A r \in Sender :
            spc'[r] \in {"copy", "store"} => at'[r] + 1 <= Len(pushed[r[1]])
      BY <1>a, <2>1, <3>1, <3>2 DEF HandOK
    <3> QED
      BY <2>1, <3>3, <3>4 DEF HandOK
  <2>4. ClientsOK'
    BY <1>a, <2>1 DEF ClientsOK
  <2> QED
    BY <2>2, <2>3, <2>4 DEF TypeInv
<1>c. ASSUME NEW s \in Sender, spc[s] \in {"copy", "store"}
      PROVE  /\ Place(s[1], at[s] + 1) \in 1 .. Len(pushed[s[1]])
             /\ Len(pushed[s[1]]) <= Place(s[1], at[s] + 1) + Capacity
             /\ Place(s[1], at[s] + 1) \in Nat \ {0}
             /\ pushed[s[1]][Place(s[1], at[s] + 1)] \in Tick
  <2>1. at[s] + 1 \in 1 .. Len(pushed[s[1]])
    BY <1>a, <1>b, <1>c DEF HandOK
  <2>2. /\ Place(s[1], at[s] + 1) \in 1 .. Len(pushed[s[1]])
        /\ Len(pushed[s[1]]) <= Place(s[1], at[s] + 1) + Capacity
    BY <1>b, <2>1, PlaceInRing
  <2>3. Place(s[1], at[s] + 1) \in Nat \ {0}
    BY <1>b, <2>2
  <2>4. pushed[s[1]][Place(s[1], at[s] + 1)] \in Tick
    BY <1>b, <2>2, Elements
  <2> QED
    BY <2>2, <2>3, <2>4
<1>23. ASSUME NEW s \in Sender, CopyTick(s)
      PROVE  TypeInv'
  <2> DEFINE i == Place(s[1], at[s] + 1)
             tick == pushed[s[1]][i]
  <2>1. /\ UNCHANGED <<tickVars, clients, stopVars, requestVars, modeVars, pushed, readAt,
                       credits, rest, at, sent, dropped, nexts, promiseVars>>
        /\ spc[s] = "copy" /\ spc' = [spc EXCEPT ![s] = "store"]
        /\ hand' = [hand EXCEPT ![s] = tick]
        /\ copied' = [copied EXCEPT ![s[1]] = @ \cup {i}]
        /\ crashed' = crashed \/ crashed' = TRUE
    BY <1>23 DEF CopyTick, SenderAt
  <2>2. i \in Nat \ {0} /\ tick \in Tick
    BY <1>c, <2>1
  <2> HIDE DEF i, tick
  <2>3. TypeOK'
    <3>1. copied' \in [Client -> SUBSET (Nat \ {0})]
      <4>1. copied \in [Client -> SUBSET (Nat \ {0})] /\ s[1] \in Client
        BY <1>a, <1>b DEF TypeOK
      <4>2. copied[s[1]] \cup {i} \in SUBSET (Nat \ {0})
        BY <2>2, <4>1
      <4> QED
        BY <2>1, <4>1, <4>2, Updated
    <3>2. /\ hand' \in [Sender -> Tick \cup {NoTick}]
          /\ spc' \in [Sender -> {"none", "check", "load", "copy", "store", "send", "spend",
                                  "ended"}]
      BY <1>a, <2>1, <2>2 DEF TypeOK
    <3> QED
      BY <1>a, <2>1, <3>1, <3>2 DEF TypeOK
  <2>4. HandOK'
    <3>1. /\ spc \in [Sender -> {"none", "check", "load", "copy", "store", "send", "spend",
                                 "ended"}]
          /\ hand \in [Sender -> Tick \cup {NoTick}]
      BY <1>a DEF TypeOK
    <3> QED
      BY <1>a, <2>1, <2>2, <3>1 DEF HandOK
  <2>5. ClientsOK'
    BY <1>a, <2>1 DEF ClientsOK
  <2> QED
    BY <2>3, <2>4, <2>5 DEF TypeInv
<1>24. ASSUME NEW s \in Sender, StoreIndex(s)
      PROVE  TypeInv'
  <2> DEFINE i == Place(s[1], at[s] + 1)
  <2>1. /\ UNCHANGED <<tickVars, clients, stopVars, requestVars, modeVars, pushed, copied,
                       credits, rest, hand, sent, dropped, nexts, promiseVars, crashed>>
        /\ spc[s] = "store" /\ spc' = [spc EXCEPT ![s] = "send"]
        /\ at' = [at EXCEPT ![s] = 0]
        /\ readAt' = [readAt EXCEPT ![s[1]] = i]
    BY <1>24 DEF StoreIndex, SenderAt
  <2>2. i \in Nat \ {0} /\ i <= Len(pushed[s[1]]) /\ Len(pushed[s[1]]) <= i + Capacity
    BY <1>c, <2>1
  <2> HIDE DEF i
  <2>3. TypeOK'
    <3>1. readAt \in [Client -> Nat] /\ s[1] \in Client
      BY <1>a, <1>b DEF TypeOK
    <3>2. readAt' \in [Client -> Nat]
      BY <2>1, <2>2, <3>1
    <3>3. \A c \in Client : Len(pushed[c]) \in readAt'[c] .. readAt'[c] + Capacity
      <4> SUFFICES ASSUME NEW c \in Client
                   PROVE  Len(pushed[c]) \in readAt'[c] .. readAt'[c] + Capacity
        OBVIOUS
      <4>1. CASE c = s[1]
        <5>1. readAt'[c] = i
          BY <2>1, <3>1, <4>1
        <5> QED
          BY <1>b, <2>2, <4>1, <5>1, BoundsAssumption
      <4>2. CASE c # s[1]
        <5>1. readAt'[c] = readAt[c]
          BY <2>1, <3>1, <4>2
        <5> QED
          BY <1>a, <5>1 DEF TypeOK
      <4> QED
        BY <4>1, <4>2
    <3>4. /\ at' \in [Sender -> Nat]
          /\ spc' \in [Sender -> {"none", "check", "load", "copy", "store", "send", "spend",
                                  "ended"}]
      BY <1>a, <2>1 DEF TypeOK
    <3> QED
      BY <1>a, <2>1, <3>2, <3>3, <3>4 DEF TypeOK
  <2>4. HandOK'
    <3>1. /\ spc \in [Sender -> {"none", "check", "load", "copy", "store", "send", "spend",
                                 "ended"}]
          /\ at \in [Sender -> Nat]
      BY <1>a DEF TypeOK
    <3> QED
      BY <1>a, <2>1, <3>1 DEF HandOK
  <2>5. ClientsOK'
    BY <1>a, <2>1 DEF ClientsOK
  <2> QED
    BY <2>3, <2>4, <2>5 DEF TypeInv
<1>25. ASSUME NEW s \in Sender, SendTick(s)
      PROVE  TypeInv'
  <2>1. TypeOK'
    <3>1. s[1] \in Client /\ hand[s] \in Tick /\ sent[s[1]] \in Seq(Tick)
      BY <1>25, <1>a DEF TypeOK, HandOK, Sender, SendTick, SenderAt
    <3>2. Append(sent[s[1]], hand[s]) \in Seq(Tick)
      BY <3>1, AppendElements
    <3> QED
      BY <1>25, <1>a, <3>1, <3>2 DEF TypeOK, SendTick
  <2>2. HandOK'
    BY <1>25, <1>a DEF TypeOK, HandOK, SendTick
  <2>3. ClientsOK'
    BY <1>25, <1>a DEF TypeOK, ClientsOK, SendTick
  <2> QED
    BY <2>1, <2>2, <2>3 DEF TypeInv
<1>26. ASSUME NEW s \in Sender, SpendCredit(s)
      PROVE  TypeInv'
  <2>1. TypeOK'
    <3>1. s[1] \in Client /\ credits[s[1]] - 1 \in Int
      BY <1>a DEF TypeOK, Sender
    <3> QED
      BY <1>26, <1>a, <3>1 DEF TypeOK, SpendCredit, AfterSending
  <2>2. HandOK'
    BY <1>26, <1>a DEF TypeOK, HandOK, SpendCredit, AfterSending
  <2>3. ClientsOK'
    BY <1>26, <1>a DEF TypeOK, ClientsOK, SpendCredit
  <2> QED
    BY <2>1, <2>2, <2>3 DEF TypeInv
<1>27. ASSUME NEW s \in Sender, Orphaned(s)
      PROVE  TypeInv'
  <2>1. TypeOK'
    BY <1>27, <1>a DEF TypeOK, Orphaned
  <2>2. HandOK'
    BY <1>27, <1>a DEF TypeOK, HandOK, Orphaned
  <2>3. ClientsOK'
    BY <1>27, <1>a DEF TypeOK, ClientsOK, Orphaned
  <2> QED
    BY <2>1, <2>2, <2>3 DEF TypeInv
<1>28. ASSUME UNCHANGED vars
      PROVE  TypeInv'
  BY <1>28, <1>a DEF vars, TypeInv, TypeOK, HandOK, ClientsOK
<1> QED
  BY <1>1, <1>2, <1>3, <1>4, <1>5, <1>6, <1>7, <1>8, <1>9, <1>10, <1>11, <1>12, <1>13,
     <1>14, <1>15, <1>16, <1>17, <1>18, <1>19, <1>20, <1>21, <1>22, <1>23, <1>24,
     <1>25, <1>26, <1>27, <1>28
     DEF Next, EventLoop, IncomingTick, SenderStep, Finished

(***************************************************************************)
(* The variables keep their types, and no queue grows beyond its capacity, *)
(* also when several senders pop from it and set its index back.           *)
(***************************************************************************)
THEOREM TypeCorrect == Spec => []TypeOK
<1>1. TypeInv => TypeOK
  BY DEF TypeInv
<1> QED
  BY <1>1, InitTypeInv, NextTypeInv, PTL DEF Spec

-----------------------------------------------------------------------------
(***************************************************************************)
(* A client wants what it was confirmed. Its sender, if there is one only, *)
(* pops what lies after the read index, whatever is pushed meanwhile.      *)
(***************************************************************************)
ConfirmedWanted == \A c \in Client : \A ticker \in confirmed[c] : Wanted(c, ticker)

Sole(c) == \A r, s \in Started(c) : r = s

OwnPop(c) ==
  \A s \in Started(c) :
    /\ spc[s] \in {"copy", "store"} => at[s] = readAt[c]
    /\ spc[s] = "store" => hand[s] = pushed[c][readAt[c] + 1]

SolePops == \A c \in Client : Sole(c) => OwnPop(c)

(* A sender's thread does not exist before its request has got that far. *)

Unborn(s) == s[2] > streams[s[1]] \/ (s[2] = streams[s[1]] /\ pc[s[1]] = "subscribe")
SendersFresh == \A s \in Sender : Unborn(s) => spc[s] = "none"

Delivered == SendersFresh /\ SolePops /\ ConfirmedWanted /\ NothingMissedAfterOk

LEMMA InitDelivered == Init => Delivered
BY DEF Init, Delivered, SendersFresh, SolePops, OwnPop, Started, ConfirmedWanted,
   NothingMissedAfterOk

LEMMA NextSendersFresh == TypeInv /\ SendersFresh /\ [Next]_vars => SendersFresh'
<1> SUFFICES ASSUME TypeInv, SendersFresh, [Next]_vars
             PROVE  SendersFresh'
  OBVIOUS
<1> USE DEF tickVars, stopVars, requestVars, modeVars, queueVars, senderVars, promiseVars
<1>a. /\ pc \in [Client -> {"none", "begin", "read", "subscribe", "reply", "remove",
                            "destroyed"}]
      /\ streams \in [Client -> 0 .. MaxStreams]
      /\ spc \in [Sender -> {"none", "check", "load", "copy", "store", "send", "spend",
                             "ended"}]
  BY DEF TypeInv, TypeOK
<1>b. \A s \in Sender : s[1] \in Client /\ s[2] \in Nat
  BY DEF Sender
<1>1. ASSUME \A s \in Sender : Unborn(s)' => Unborn(s),
             \A s \in Sender : spc[s] = "none" => spc'[s] = "none" \/ ~ Unborn(s)'
      PROVE  SendersFresh'
  BY <1>1 DEF SendersFresh
<1>2. ASSUME NEW c \in Client, NEW manual \in BOOLEAN, NEW list \in Requests,
             StartStream(c, manual, list)
      PROVE  SendersFresh'
  <2>1. /\ streams' = [streams EXCEPT ![c] = @ + 1] /\ spc' = spc
        /\ pc' = [pc EXCEPT ![c] = "subscribe"] /\ pc[c] = "read"
    BY <1>2 DEF StartStream, At
  <2>2. ASSUME NEW s \in Sender, Unborn(s)'
        PROVE  Unborn(s)
    <3>1. CASE s[1] = c
      <4>1. streams'[c] = streams[c] + 1 /\ streams[c] \in Nat
        BY <1>a, <2>1, BoundsAssumption
      <4>2. s[2] >= streams'[c]
        BY <1>b, <2>2, <3>1, <4>1 DEF Unborn
      <4> QED
        BY <1>b, <3>1, <4>1, <4>2 DEF Unborn
    <3>2. CASE s[1] # c
      BY <1>a, <1>b, <2>1, <2>2, <3>2 DEF Unborn
    <3> QED
      BY <3>1, <3>2
  <2> QED
    BY <1>1, <2>1, <2>2
<1>3. ASSUME NEW c \in Client, StartSender(c)
      PROVE  SendersFresh'
  <2>1. /\ spc' = spc \/ spc' = [spc EXCEPT ![<<c, streams[c]>>] = "check"]
        /\ pc' = [pc EXCEPT ![c] = "reply"] /\ streams' = streams
    BY <1>3 DEF StartSender
  <2>2. \A s \in Sender : Unborn(s)' => Unborn(s) /\ s # <<c, streams[c]>>
    <3> SUFFICES ASSUME NEW s \in Sender, Unborn(s)'
                 PROVE  Unborn(s) /\ s # <<c, streams[c]>>
      OBVIOUS
    <3>1. s[1] = c => s[2] > streams[c]
      BY <1>a, <2>1 DEF Unborn
    <3>2. s[1] # c => Unborn(s)
      BY <1>a, <1>b, <2>1 DEF Unborn
    <3>3. s # <<c, streams[c]>>
      <4>1. CASE s[1] = c
        <5>1. s[2] > streams[c] /\ s[2] \in Nat /\ streams[c] \in Nat
          BY <1>a, <1>b, <3>1, <4>1, BoundsAssumption
        <5>2. s[2] # streams[c]
          BY <5>1
        <5> QED
          BY <5>2
      <4> QED
        BY <4>1
    <3> QED
      BY <3>1, <3>2, <3>3 DEF Unborn
  <2>3. \A s \in Sender : s # <<c, streams[c]>> => spc'[s] = spc[s]
    BY <1>a, <2>1
  <2> QED
    BY <2>2, <2>3 DEF SendersFresh
<1>4. ASSUME \/ \E c \in Client : \/ Accept(c) \/ StopClient(c) \/ Begin(c) \/ NextTick(c)
                                  \/ NoMessage(c) \/ Disconnect(c) \/ RemoveClient(c)
                                  \/ SubscribeNext(c) \/ ReplyOk(c) \/ EnterClient(c)
                                  \/ SendDirect(c) \/ PushTick(c)
             \/ \E ticker \in Ticker : ProduceTick(ticker)
             \/ AcceptNoMore \/ Stop \/ Stopped \/ DeliveredToAll \/ UNCHANGED vars
      PROVE  SendersFresh'
  <2>1. UNCHANGED <<spc, streams>>
    BY <1>4 DEF Accept, StopClient, Begin, NextTick, NoMessage, Disconnect, RemoveClient,
       SubscribeNext, ReplyOk, EnterClient, SendDirect, PushTick, ProduceTick, AcceptNoMore,
       Stop, Stopped, DeliveredToAll, vars
  <2>2. \/ pc' = pc
        \/ \E c \in Client, step \in {"begin", "read", "remove", "destroyed"} :
             pc' = [pc EXCEPT ![c] = step]
    <3>1. ASSUME NEW c \in Client,
                 \/ Accept(c) \/ Begin(c) \/ NextTick(c) \/ NoMessage(c) \/ Disconnect(c)
                 \/ RemoveClient(c) \/ ReplyOk(c) \/ SubscribeNext(c)
          PROVE  \/ pc' = pc
                 \/ \E step \in {"begin", "read", "remove", "destroyed"} :
                      pc' = [pc EXCEPT ![c] = step]
      BY <3>1 DEF Accept, Begin, NextTick, NoMessage, Disconnect, RemoveClient, ReplyOk,
         SubscribeNext, AfterMessage
    <3>2. ASSUME \/ \E c \in Client : \/ StopClient(c) \/ EnterClient(c) \/ SendDirect(c)
                                      \/ PushTick(c)
                 \/ \E ticker \in Ticker : ProduceTick(ticker)
                 \/ AcceptNoMore \/ Stop \/ Stopped \/ DeliveredToAll \/ UNCHANGED vars
          PROVE  pc' = pc
      BY <3>2 DEF StopClient, EnterClient, SendDirect, PushTick, ProduceTick, AcceptNoMore,
         Stop, Stopped, DeliveredToAll, vars
    <3> QED
      BY <1>4, <3>1, <3>2
  <2>3. \A c \in Client : pc'[c] = "subscribe" => pc[c] = "subscribe"
    BY <1>a, <2>2
  <2> QED
    BY <1>1, <1>b, <2>1, <2>3 DEF Unborn
<1>5. ASSUME NEW r \in Sender, SenderStep(r) \/ SendTick(r) \/ Orphaned(r)
      PROVE  SendersFresh'
  <2>1. UNCHANGED <<pc, streams>> /\ spc[r] # "none"
    BY <1>5 DEF SenderStep, CheckQueue, WaitForTick, LoadIndex, CopyTick, StoreIndex, SendTick,
       SpendCredit, Orphaned, SenderAt
  <2>2. \A s \in Sender : s # r => spc'[s] = spc[s]
    BY <1>5, <1>a DEF SenderStep, CheckQueue, WaitForTick, LoadIndex, CopyTick, StoreIndex,
       SendTick, SpendCredit, Orphaned
  <2> QED
    BY <1>1, <2>1, <2>2 DEF Unborn
<1> QED
  BY <1>2, <1>3, <1>4, <1>5 DEF Next, EventLoop, IncomingTick, Finished

(* A sender that was started is never again a sender that was not, and a   *)
(* client that was destroyed remains so.                                   *)

LEMMA Irrevocable ==
  ASSUME TypeInv, SendersFresh, [Next]_vars, NEW c \in Client
  PROVE  /\ pc'[c] # "destroyed" => pc[c] # "destroyed"
         /\ Started(c) \subseteq Started(c)' /\ (Sole(c)' => Sole(c))
<1> USE DEF tickVars, stopVars, requestVars, modeVars, queueVars, senderVars, promiseVars
<1>a. /\ pc \in [Client -> {"none", "begin", "read", "subscribe", "reply", "remove",
                            "destroyed"}]
      /\ spc \in [Sender -> {"none", "check", "load", "copy", "store", "send", "spend",
                             "ended"}]
  BY DEF TypeInv, TypeOK
<1>1. ASSUME NEW e \in Client, Accept(e) \/ EventLoop(e)
      PROVE  /\ pc'[c] # "destroyed" => pc[c] # "destroyed"
             /\ \A s \in Sender : spc[s] # "none" => spc'[s] # "none"
  <2>1. pc' = [pc EXCEPT ![e] = pc'[e]] /\ pc[e] # "destroyed"
    BY <1>1, <1>a DEF Accept, EventLoop, StartStream, SubscribeNext, StartSender, ReplyOk, Begin,
       NextTick, NoMessage, Disconnect, RemoveClient, At
  <2>2. spc' = spc \/ spc' = [spc EXCEPT ![<<e, streams[e]>>] = "check"]
    BY <1>1 DEF Accept, EventLoop, StartStream, SubscribeNext, StartSender, ReplyOk, Begin,
       NextTick, NoMessage, Disconnect, RemoveClient
  <2> QED
    BY <1>a, <2>1, <2>2
<1>2. ASSUME \/ AcceptNoMore \/ Stop \/ (\E e \in Client : StopClient(e)) \/ Stopped
             \/ IncomingTick \/ Finished \/ UNCHANGED vars
      PROVE  UNCHANGED <<pc, spc>>
  BY <1>2 DEF AcceptNoMore, Stop, StopClient, Stopped, IncomingTick, ProduceTick, EnterClient,
     SendDirect, PushTick, DeliveredToAll, Finished, vars
<1>3. ASSUME NEW r \in Sender, SenderStep(r) \/ SendTick(r) \/ Orphaned(r)
      PROVE  pc' = pc /\ \A s \in Sender : spc[s] # "none" => spc'[s] # "none"
  <2>1. pc' = pc
    BY <1>3 DEF SenderStep, CheckQueue, WaitForTick, LoadIndex, CopyTick, StoreIndex, SendTick,
       SpendCredit, Orphaned
  <2>2. \/ spc' = spc
        \/ \E step \in {"check", "load", "copy", "store", "send", "spend", "ended"} :
             spc' = [spc EXCEPT ![r] = step]
    BY <1>3 DEF SenderStep, CheckQueue, WaitForTick, LoadIndex, CopyTick, StoreIndex, SendTick,
       SpendCredit, AfterSending, Orphaned
  <2> QED
    BY <1>a, <2>1, <2>2
<1>4. /\ pc'[c] # "destroyed" => pc[c] # "destroyed"
      /\ \A s \in Sender : spc[s] # "none" => spc'[s] # "none"
  BY <1>1, <1>2, <1>3 DEF Next
<1>5. Started(c) \subseteq Started(c)'
  BY <1>4 DEF Started
<1> QED
  BY <1>4, <1>5 DEF Sole

(* What has to be shown of a step. *)

LEMMA AccountsKept ==
  ASSUME TypeInv, SendersFresh, [Next]_vars, NothingMissedAfterOk,
         \A c \in Client : pc'[c] # "destroyed" /\ Sole(c)' =>
           Accounted(c) \subseteq Accounted(c)' /\ owed'[c] \subseteq owed[c] \cup Accounted(c)'
  PROVE  NothingMissedAfterOk'
<1> SUFFICES ASSUME NEW c \in Client, pc'[c] # "destroyed", Sole(c)'
             PROVE  owed'[c] \subseteq Accounted(c)'
  BY DEF NothingMissedAfterOk, Sole
<1>1. pc[c] # "destroyed" /\ Sole(c)
  BY Irrevocable
<1>2. owed[c] \subseteq Accounted(c)
  BY <1>1 DEF NothingMissedAfterOk, Sole
<1> QED
  BY <1>2

(* Steps that send, queue and drop nothing. *)

LEMMA NothingMoved ==
  ASSUME TypeInv, Delivered, [Next]_vars, SendersFresh', ConfirmedWanted',
         UNCHANGED <<sent, queueVars, hand, dropped, owed>>,
         \A s \in Sender : pc'[s[1]] # "destroyed" =>
           \/ spc'[s] = spc[s] /\ at'[s] = at[s]
           \/ spc[s] \notin {"store", "send"} /\ spc'[s] \notin {"copy", "store"}
           \/ spc[s] = "load" /\ spc'[s] = "copy" /\ at'[s] = readAt[s[1]],
         \A s \in Sender :
           spc'[s] \in {"copy", "store"} =>
             \/ spc'[s] = spc[s] /\ at'[s] = at[s]
             \/ spc'[s] = "copy" /\ at'[s] = readAt[s[1]]
  PROVE  Delivered'
<1>a. UNCHANGED <<pushed, readAt>>
  BY DEF queueVars
<1>1. ASSUME NEW c \in Client, pc'[c] # "destroyed"
      PROVE  Accounted(c) \subseteq Accounted(c)'
  <2>1. \A s \in Started(c) : spc[s] \in {"store", "send"} =>
          s \in Started(c)' /\ spc'[s] \in {"store", "send"}
    BY <1>1 DEF Started
  <2>2. InHand(c) \subseteq InHand(c)'
    BY <2>1 DEF InHand
  <2>3. Waiting(c)' = Waiting(c)
    BY <1>a DEF Waiting
  <2> QED
    BY <2>2, <2>3 DEF Accounted
<1>2. NothingMissedAfterOk'
  <2>1. SendersFresh /\ NothingMissedAfterOk
    BY DEF Delivered
  <2>2. \A c \in Client : pc'[c] # "destroyed" /\ Sole(c)' =>
          Accounted(c) \subseteq Accounted(c)' /\ owed'[c] \subseteq owed[c] \cup Accounted(c)'
    BY <1>1
  <2> QED
    BY <2>1, <2>2, AccountsKept
<1>3. SolePops'
  <2> SUFFICES ASSUME NEW c \in Client, Sole(c)', NEW s \in Started(c)'
               PROVE  /\ spc'[s] \in {"copy", "store"} => at'[s] = readAt[c]
                      /\ spc'[s] = "store" => hand[s] = pushed[c][readAt[c] + 1]
    BY <1>a DEF SolePops, OwnPop
  <2>1. Sole(c) /\ s \in Sender /\ s[1] = c
    BY Irrevocable DEF Started, Delivered
  <2>2. OwnPop(c)
    BY <2>1 DEF Delivered, SolePops
  <2>3. spc[s] \in {"copy", "store"} => s \in Started(c)
    BY <2>1 DEF Started
  <2> QED
    BY <2>1, <2>2, <2>3 DEF OwnPop
<1> QED
  BY <1>2, <1>3 DEF Delivered

LEMMA NextDelivered == TypeInv /\ TypeInv' /\ Delivered /\ [Next]_vars => Delivered'
<1> SUFFICES ASSUME TypeInv, TypeInv', Delivered, [Next]_vars
             PROVE  Delivered'
  OBVIOUS
<1> USE DEF tickVars, stopVars, requestVars, modeVars, senderVars, promiseVars
<1>a. TypeOK /\ TypeOK' /\ HandOK /\ ClientsOK
  BY DEF TypeInv
<1>b. SendersFresh /\ SolePops /\ ConfirmedWanted /\ NothingMissedAfterOk
  BY DEF Delivered
<1>c. SendersFresh'
  BY <1>b, NextSendersFresh
<1>d. \A s \in Sender : s[1] \in Client
  BY DEF Sender
<1>e. /\ sent \in [Client -> Seq(Tick)] /\ pushed \in [Client -> Seq(Tick)]
      /\ readAt \in [Client -> Nat]
      /\ dropped \in [Client -> SUBSET Tick] /\ owed \in [Client -> SUBSET Tick]
      /\ hand \in [Sender -> Tick \cup {NoTick}] /\ at \in [Sender -> Nat]
      /\ spc \in [Sender -> {"none", "check", "load", "copy", "store", "send", "spend",
                             "ended"}]
      /\ confirmed \in [Client -> SUBSET Ticker]
  BY <1>a DEF TypeOK
<1>f. ASSUME UNCHANGED <<spc, at>>
      PROVE  /\ \A s \in Sender : pc'[s[1]] # "destroyed" =>
                  \/ spc'[s] = spc[s] /\ at'[s] = at[s]
                  \/ spc[s] \notin {"store", "send"} /\ spc'[s] \notin {"copy", "store"}
                  \/ spc[s] = "load" /\ spc'[s] = "copy" /\ at'[s] = readAt[s[1]]
             /\ \A s \in Sender :
                  spc'[s] \in {"copy", "store"} =>
                    \/ spc'[s] = spc[s] /\ at'[s] = at[s]
                    \/ spc'[s] = "copy" /\ at'[s] = readAt[s[1]]
  BY <1>f
<1>1. ASSUME \/ \E c \in Client : \/ Accept(c) \/ StopClient(c) \/ Begin(c) \/ NextTick(c)
                                  \/ NoMessage(c) \/ Disconnect(c) \/ RemoveClient(c)
                                  \/ EnterClient(c)
             \/ \E c \in Client, manual \in BOOLEAN, list \in Requests :
                  StartStream(c, manual, list)
             \/ \E ticker \in Ticker : ProduceTick(ticker)
             \/ AcceptNoMore \/ Stop \/ Stopped \/ DeliveredToAll \/ UNCHANGED vars
      PROVE  Delivered'
  <2>1. UNCHANGED <<sent, queueVars, hand, spc, at, dropped, owed, confirmed, tickers,
                    allTickers>>
    BY <1>1 DEF Accept, StopClient, Begin, NextTick, NoMessage, Disconnect, RemoveClient,
       EnterClient, StartStream, ProduceTick, AcceptNoMore, Stop, Stopped, DeliveredToAll, vars
  <2>2. ConfirmedWanted'
    BY <1>b, <2>1 DEF ConfirmedWanted, Wanted
  <2> QED
    BY <1>c, <1>f, <2>1, <2>2, NothingMoved
<1>2. ASSUME NEW c \in Client, SubscribeNext(c)
      PROVE  Delivered'
  <2>1. UNCHANGED <<sent, queueVars, hand, spc, at, dropped, owed, confirmed>>
    BY <1>2 DEF SubscribeNext
  <2>2. /\ \/ tickers' = tickers
           \/ \E t \in Ticker : tickers' = [tickers EXCEPT ![c] = @ \cup {t}]
        /\ \/ allTickers' = allTickers
           \/ allTickers' = [allTickers EXCEPT ![c] = TRUE]
    BY <1>2 DEF SubscribeNext
  <2>3. \A d \in Client : tickers[d] \subseteq tickers'[d] /\ (allTickers[d] => allTickers'[d])
    <3>1. tickers \in [Client -> SUBSET Ticker] /\ allTickers \in [Client -> BOOLEAN]
      BY <1>a DEF TypeOK
    <3>2. \A d \in Client : tickers[d] \subseteq tickers'[d]
      BY <2>2, <3>1
    <3>3. \A d \in Client : allTickers[d] => allTickers'[d]
      BY <2>2, <3>1
    <3> QED
      BY <3>2, <3>3
  <2>4. ConfirmedWanted'
    BY <1>b, <2>1, <2>3 DEF ConfirmedWanted, Wanted
  <2> QED
    BY <1>c, <1>f, <2>1, <2>4, NothingMoved
<1>3. ASSUME NEW c \in Client, StartSender(c)
      PROVE  Delivered'
  <2>1. UNCHANGED <<sent, queueVars, hand, at, dropped, owed, confirmed, tickers, allTickers>>
    BY <1>3 DEF StartSender
  <2>2. ConfirmedWanted'
    BY <1>b, <2>1 DEF ConfirmedWanted, Wanted
  <2>3. /\ pc[c] = "subscribe"
        /\ spc' = spc \/ spc' = [spc EXCEPT ![<<c, streams[c]>>] = "check"]
    BY <1>3 DEF StartSender, At
  <2>4. streams[c] \in 1 .. MaxStreams
    BY <1>a, <2>3 DEF ClientsOK
  <2>5. <<c, streams[c]>> \in Sender /\ spc[<<c, streams[c]>>] = "none"
    BY <1>b, <2>3, <2>4 DEF Sender, SendersFresh, Unborn
  <2>6. \A s \in Sender : spc'[s] = spc[s] \/ (spc[s] = "none" /\ spc'[s] = "check")
    BY <1>e, <2>3, <2>5
  <2>7. \A s \in Sender : pc'[s[1]] # "destroyed" =>
          \/ spc'[s] = spc[s] /\ at'[s] = at[s]
          \/ spc[s] \notin {"store", "send"} /\ spc'[s] \notin {"copy", "store"}
          \/ spc[s] = "load" /\ spc'[s] = "copy" /\ at'[s] = readAt[s[1]]
    BY <2>1, <2>6
  <2>8. \A s \in Sender :
          spc'[s] \in {"copy", "store"} =>
            \/ spc'[s] = spc[s] /\ at'[s] = at[s]
            \/ spc'[s] = "copy" /\ at'[s] = readAt[s[1]]
    BY <2>1, <2>6
  <2> QED
    BY <1>c, <2>1, <2>2, <2>7, <2>8, NothingMoved
<1>4. ASSUME NEW c \in Client, ReplyOk(c)
      PROVE  Delivered'
  <2>1. /\ UNCHANGED <<sent, queueVars, hand, spc, at, dropped, owed, tickers, allTickers>>
        /\ confirmed' = [confirmed EXCEPT ![c] = IF allTickers[c] THEN Ticker ELSE tickers[c]]
    BY <1>4 DEF ReplyOk
  <2>2. \A d \in Client : \A ticker \in confirmed'[d] :
          ticker \in confirmed[d] \/ ticker \in tickers[d] \/ allTickers[d]
    BY <1>e, <2>1
  <2>3. ConfirmedWanted'
    BY <1>b, <2>1, <2>2 DEF ConfirmedWanted, Wanted
  <2> QED
    BY <1>c, <1>f, <2>1, <2>3, NothingMoved
<1>g. ASSUME NEW c \in Client, Handed(c)
      PROVE  \A d \in Client : \A t \in owed'[d] :
               t \in owed[d] \/ (d = c /\ t = Len(log) /\ Wanted(c, log[Len(log)]))
  <2>1. \/ owed' = owed
        \/ owed' = [owed EXCEPT ![c] = @ \cup {Len(log)}] /\ log[Len(log)] \in confirmed[c]
    BY <1>g DEF Handed
  <2>2. log[Len(log)] \in confirmed[c] => Wanted(c, log[Len(log)])
    BY <1>b DEF ConfirmedWanted
  <2> QED
    BY <1>e, <2>1, <2>2
<1>5. ASSUME NEW c \in Client, SendDirect(c)
      PROVE  Delivered'
  <2> DEFINE tick == Len(log)
  <2>1. /\ Handed(c)
        /\ UNCHANGED <<pushed, readAt, hand, spc, at, dropped, confirmed, tickers, allTickers>>
        /\ \/ Wanted(c, log[tick]) /\ sent' = [sent EXCEPT ![c] = Append(@, tick)]
           \/ ~ Wanted(c, log[tick]) /\ sent' = sent
    BY <1>5 DEF SendDirect, queueVars
  <2>2. tick \in Tick
    BY <1>5, <1>a DEF ClientsOK, SendDirect
  <2>3. \A d \in Client : \A t \in owed'[d] :
          t \in owed[d] \/ (d = c /\ t = tick /\ Wanted(c, log[tick]))
    BY <1>g, <2>1
  <2> HIDE DEF tick
  <2>4. ToSet(Append(sent[c], tick)) = ToSet(sent[c]) \cup {tick}
    BY <1>e, <2>2, AppendElements
  <2>5. /\ \A d \in Client : ToSet(sent[d]) \subseteq ToSet(sent'[d])
        /\ Wanted(c, log[tick]) => tick \in ToSet(sent'[c])
    BY <1>e, <2>1, <2>4
  <2>6. \A d \in Client : pc'[d] # "destroyed" /\ Sole(d)' =>
          Accounted(d) \subseteq Accounted(d)' /\ owed'[d] \subseteq owed[d] \cup Accounted(d)'
    <3> SUFFICES ASSUME NEW d \in Client
                 PROVE  /\ Accounted(d) \subseteq Accounted(d)'
                        /\ owed'[d] \subseteq owed[d] \cup Accounted(d)'
      OBVIOUS
    <3>1. Waiting(d)' = Waiting(d) /\ InHand(d)' = InHand(d)
      BY <2>1 DEF Waiting, InHand, Started
    <3>2. Accounted(d) \subseteq Accounted(d)'
      BY <2>1, <2>5, <3>1 DEF Accounted
    <3>3. ToSet(sent'[d]) \subseteq Accounted(d)'
      BY DEF Accounted
    <3> QED
      BY <2>3, <2>5, <3>2, <3>3
  <2>7. NothingMissedAfterOk'
    BY <1>b, <2>6, AccountsKept
  <2>8. SolePops'
    BY <1>b, <2>1 DEF SolePops, Sole, OwnPop, Started
  <2>9. ConfirmedWanted'
    BY <1>b, <2>1 DEF ConfirmedWanted, Wanted
  <2> QED
    BY <1>c, <2>7, <2>8, <2>9 DEF Delivered
<1>6. ASSUME NEW c \in Client, PushTick(c)
      PROVE  Delivered'
  <2> DEFINE tick == Len(log)
  <2>1. /\ Handed(c)
        /\ UNCHANGED <<sent, readAt, hand, spc, at, confirmed, tickers, allTickers>>
        /\ \/ pushed' = [pushed EXCEPT ![c] = Append(@, tick)] /\ dropped' = dropped
           \/ pushed' = pushed /\ dropped' = [dropped EXCEPT ![c] = @ \cup {tick}]
    BY <1>6 DEF PushTick
  <2>2. tick \in Tick
    BY <1>6, <1>a DEF ClientsOK, PushTick
  <2>3. \A d \in Client : \A t \in owed'[d] : t \in owed[d] \/ (d = c /\ t = tick)
    BY <1>g, <2>1
  <2> HIDE DEF tick
  <2>4. /\ Append(pushed[c], tick)[Len(pushed[c]) + 1] = tick
        /\ Len(Append(pushed[c], tick)) = Len(pushed[c]) + 1
        /\ \A i \in 1 .. Len(pushed[c]) : Append(pushed[c], tick)[i] = pushed[c][i]
    BY <1>e, <2>2, AppendProperties
  <2>5. \A d \in Client : Len(pushed[d]) \in Nat /\ Len(pushed[d]) >= readAt[d]
    BY <1>a, <1>e, Elements DEF TypeOK
  <2>6. \A d \in Client : /\ Len(pushed[d]) <= Len(pushed'[d])
                          /\ \A i \in 1 .. Len(pushed[d]) : pushed'[d][i] = pushed[d][i]
    <3>1. \A d \in Client : \/ pushed'[d] = pushed[d]
                            \/ d = c /\ pushed'[d] = Append(pushed[c], tick)
      BY <1>e, <2>1
    <3> QED
      BY <2>4, <2>5, <3>1
  <2>7. \A d \in Client : Waiting(d) \subseteq Waiting(d)' /\ dropped[d] \subseteq dropped'[d]
    <3> SUFFICES ASSUME NEW d \in Client
                 PROVE  Waiting(d) \subseteq Waiting(d)' /\ dropped[d] \subseteq dropped'[d]
      OBVIOUS
    <3>1. dropped[d] \subseteq dropped'[d]
      BY <1>e, <2>1
    <3>2. Len(pushed'[d]) \in Nat /\ readAt[d] \in Nat
      <4>1. pushed'[d] \in Seq(Tick)
        BY <1>a DEF TypeOK
      <4> QED
        BY <1>e, <4>1, Elements
    <3>3. ASSUME NEW i \in readAt[d] + 1 .. Len(pushed[d])
          PROVE  pushed[d][i] \in Waiting(d)'
      <4>1. /\ i \in readAt[d] + 1 .. Len(pushed'[d]) /\ i \in 1 .. Len(pushed[d])
        BY <2>5, <2>6, <3>2, <3>3
      <4>2. pushed'[d][i] = pushed[d][i]
        BY <2>6, <4>1
      <4> QED
        BY <2>1, <4>1, <4>2 DEF Waiting
    <3> QED
      BY <3>1, <3>3 DEF Waiting
  <2>8. tick \in Waiting(c)' \cup dropped'[c]
    <3>1. CASE dropped' = [dropped EXCEPT ![c] = @ \cup {tick}]
      BY <1>e, <3>1
    <3>2. CASE pushed' = [pushed EXCEPT ![c] = Append(@, tick)]
      <4>1. pushed'[c] = Append(pushed[c], tick)
        BY <1>e, <3>2
      <4>2. Len(pushed[c]) + 1 \in readAt[c] + 1 .. Len(pushed'[c])
        BY <1>e, <2>4, <2>5, <4>1
      <4>3. pushed'[c][Len(pushed[c]) + 1] = tick
        BY <2>4, <4>1
      <4> QED
        BY <2>1, <4>2, <4>3 DEF Waiting
    <3> QED
      BY <2>1, <3>1, <3>2
  <2>9. \A d \in Client : pc'[d] # "destroyed" /\ Sole(d)' =>
          Accounted(d) \subseteq Accounted(d)' /\ owed'[d] \subseteq owed[d] \cup Accounted(d)'
    <3> SUFFICES ASSUME NEW d \in Client
                 PROVE  /\ Accounted(d) \subseteq Accounted(d)'
                        /\ owed'[d] \subseteq owed[d] \cup Accounted(d)'
      OBVIOUS
    <3>1. InHand(d)' = InHand(d)
      BY <2>1 DEF InHand, Started
    <3>2. Accounted(d) \subseteq Accounted(d)'
      BY <2>1, <2>7, <3>1 DEF Accounted
    <3>3. Waiting(d)' \cup dropped'[d] \subseteq Accounted(d)'
      BY DEF Accounted
    <3> QED
      BY <2>3, <2>8, <3>2, <3>3
  <2>10. NothingMissedAfterOk'
    BY <1>b, <2>9, AccountsKept
  <2>11. SolePops'
    <3> SUFFICES ASSUME NEW d \in Client, Sole(d)', NEW s \in Started(d)'
                 PROVE  /\ spc[s] \in {"copy", "store"} => at[s] = readAt[d]
                        /\ spc[s] = "store" => hand[s] = pushed'[d][readAt[d] + 1]
      BY <2>1 DEF SolePops, OwnPop
    <3>1. Sole(d) /\ s \in Started(d) /\ s \in Sender /\ s[1] = d
      BY <2>1 DEF Sole, Started
    <3>2. OwnPop(d)
      BY <1>b, <3>1 DEF SolePops
    <3>3. spc[s] = "store" => readAt[d] + 1 \in 1 .. Len(pushed[d])
      <4>1. spc[s] = "store" => at[s] = readAt[d] /\ at[s] + 1 <= Len(pushed[d])
        BY <1>a, <3>1, <3>2 DEF OwnPop, HandOK
      <4> QED
        BY <1>e, <2>5, <4>1
    <3>4. spc[s] = "store" => pushed'[d][readAt[d] + 1] = pushed[d][readAt[d] + 1]
      BY <2>6, <3>3
    <3> QED
      BY <3>1, <3>2, <3>4 DEF OwnPop
  <2>12. ConfirmedWanted'
    BY <1>b, <2>1 DEF ConfirmedWanted, Wanted
  <2> QED
    BY <1>c, <2>10, <2>11, <2>12 DEF Delivered
<1>7. ASSUME NEW s \in Sender, CheckQueue(s) \/ WaitForTick(s) \/ LoadIndex(s) \/ SpendCredit(s)
      PROVE  Delivered'
  <2>1. UNCHANGED <<sent, queueVars, hand, dropped, owed, confirmed, tickers, allTickers>>
    BY <1>7 DEF CheckQueue, WaitForTick, LoadIndex, SpendCredit
  <2>2. ConfirmedWanted'
    BY <1>b, <2>1 DEF ConfirmedWanted, Wanted
  <2>3. \/ UNCHANGED <<spc, at>>
        \/ /\ spc[s] \in {"check", "load", "spend"} /\ at' = at
           /\ \E step \in {"check", "load", "ended"} : spc' = [spc EXCEPT ![s] = step]
        \/ /\ spc[s] = "load" /\ spc' = [spc EXCEPT ![s] = "copy"]
           /\ at' = [at EXCEPT ![s] = readAt[s[1]]]
    BY <1>7 DEF CheckQueue, WaitForTick, LoadIndex, SpendCredit, AfterSending, SenderAt
  <2>4. \A r \in Sender : pc'[r[1]] # "destroyed" =>
          \/ spc'[r] = spc[r] /\ at'[r] = at[r]
          \/ spc[r] \notin {"store", "send"} /\ spc'[r] \notin {"copy", "store"}
          \/ spc[r] = "load" /\ spc'[r] = "copy" /\ at'[r] = readAt[r[1]]
    BY <1>e, <2>3
  <2>5. \A r \in Sender :
          spc'[r] \in {"copy", "store"} =>
            \/ spc'[r] = spc[r] /\ at'[r] = at[r]
            \/ spc'[r] = "copy" /\ at'[r] = readAt[r[1]]
    BY <1>e, <2>3
  <2> QED
    BY <1>c, <2>1, <2>2, <2>4, <2>5, NothingMoved
<1>8. ASSUME NEW s \in Sender, Orphaned(s)
      PROVE  Delivered'
  <2>1. /\ UNCHANGED <<sent, queueVars, hand, at, dropped, owed, confirmed, tickers, allTickers>>
        /\ spc' = spc \/ spc' = [spc EXCEPT ![s] = "ended"]
        /\ pc' = pc /\ pc[s[1]] = "destroyed"
    BY <1>8 DEF Orphaned
  <2>2. ConfirmedWanted'
    BY <1>b, <2>1 DEF ConfirmedWanted, Wanted
  <2>3. \A r \in Sender : spc'[r] = spc[r] \/ (r = s /\ spc'[r] = "ended")
    BY <1>e, <2>1
  <2>4. \A r \in Sender : pc'[r[1]] # "destroyed" =>
          \/ spc'[r] = spc[r] /\ at'[r] = at[r]
          \/ spc[r] \notin {"store", "send"} /\ spc'[r] \notin {"copy", "store"}
          \/ spc[r] = "load" /\ spc'[r] = "copy" /\ at'[r] = readAt[r[1]]
    BY <2>1, <2>3
  <2>5. \A r \in Sender :
          spc'[r] \in {"copy", "store"} =>
            \/ spc'[r] = spc[r] /\ at'[r] = at[r]
            \/ spc'[r] = "copy" /\ at'[r] = readAt[r[1]]
    BY <2>1, <2>3
  <2> QED
    BY <1>c, <2>1, <2>2, <2>4, <2>5, NothingMoved
<1>h. ASSUME NEW s \in Sender, spc[s] \in {"copy", "store"}, Sole(s[1])
      PROVE  /\ Place(s[1], at[s] + 1) = readAt[s[1]] + 1 /\ at[s] = readAt[s[1]]
             /\ (spc[s] = "store" => hand[s] = pushed[s[1]][readAt[s[1]] + 1])
             /\ \A r \in Sender : r[1] = s[1] /\ spc[r] \in {"copy", "store"} => r = s
  <2>1. s \in Started(s[1]) /\ s[1] \in Client
    BY <1>d, <1>h DEF Started
  <2>2. OwnPop(s[1])
    BY <1>b, <1>h, <2>1 DEF SolePops
  <2>3. at[s] = readAt[s[1]] /\ (spc[s] = "store" => hand[s] = pushed[s[1]][readAt[s[1]] + 1])
    BY <1>h, <2>1, <2>2 DEF OwnPop
  <2>4. Len(pushed[s[1]]) \in readAt[s[1]] .. readAt[s[1]] + Capacity /\ readAt[s[1]] \in Nat
    BY <1>a, <2>1 DEF TypeOK
  <2>5. (readAt[s[1]] + 1) + Capacity >= Len(pushed[s[1]])
    BY <2>4, BoundsAssumption
  <2>6. Place(s[1], readAt[s[1]] + 1) = readAt[s[1]] + 1
    BY <2>1, <2>5, PlaceInTime
  <2>7. \A r \in Sender : r[1] = s[1] /\ spc[r] \in {"copy", "store"} => r \in Started(s[1])
    BY DEF Started
  <2> QED
    BY <1>h, <2>1, <2>3, <2>6, <2>7 DEF Sole
<1>9. ASSUME NEW s \in Sender, CopyTick(s)
      PROVE  Delivered'
  <2> DEFINE c == s[1]
  <2>1. /\ UNCHANGED <<sent, pushed, readAt, at, dropped, owed, confirmed, tickers, allTickers>>
        /\ spc[s] = "copy" /\ spc' = [spc EXCEPT ![s] = "store"]
        /\ hand' = [hand EXCEPT ![s] = pushed[c][Place(c, at[s] + 1)]]
    BY <1>9 DEF CopyTick, SenderAt
  <2>2. \A r \in Sender : r # s => spc'[r] = spc[r] /\ hand'[r] = hand[r]
    BY <1>e, <2>1
  <2>3. spc'[s] = "store" /\ hand'[s] = pushed[c][Place(c, at[s] + 1)]
    BY <1>e, <2>1
  <2>4. \A d \in Client : pc'[d] # "destroyed" /\ Sole(d)' =>
          Accounted(d) \subseteq Accounted(d)' /\ owed'[d] \subseteq owed[d] \cup Accounted(d)'
    <3> SUFFICES ASSUME NEW d \in Client
                 PROVE  Accounted(d) \subseteq Accounted(d)'
      BY <2>1
    <3>1. \A r \in Started(d) : spc[r] \in {"store", "send"} => r # s
      BY <2>1
    <3>2. \A r \in Started(d) : spc[r] \in {"store", "send"} =>
            r \in Started(d)' /\ spc'[r] \in {"store", "send"} /\ hand'[r] = hand[r]
      BY <2>2, <3>1 DEF Started
    <3>3. InHand(d) \subseteq InHand(d)'
      BY <3>2 DEF InHand
    <3>4. Waiting(d)' = Waiting(d)
      BY <2>1 DEF Waiting
    <3> QED
      BY <2>1, <3>3, <3>4 DEF Accounted
  <2>5. NothingMissedAfterOk'
    BY <1>b, <2>4, AccountsKept
  <2>6. SolePops'
    <3> SUFFICES ASSUME NEW d \in Client, Sole(d)', NEW r \in Started(d)'
                 PROVE  /\ spc'[r] \in {"copy", "store"} => at[r] = readAt[d]
                        /\ spc'[r] = "store" => hand'[r] = pushed[d][readAt[d] + 1]
      BY <2>1 DEF SolePops, OwnPop
    <3>1. Sole(d) /\ r \in Sender /\ r[1] = d
      BY <1>b, Irrevocable DEF Started
    <3>2. CASE r = s
      BY <1>h, <2>1, <2>3, <3>1, <3>2
    <3>3. CASE r # s
      <4>1. spc'[r] = spc[r] /\ hand'[r] = hand[r] /\ r \in Started(d)
        BY <2>2, <3>1, <3>3 DEF Started
      <4> QED
        BY <1>b, <3>1, <4>1 DEF SolePops, OwnPop
    <3> QED
      BY <3>2, <3>3
  <2>7. ConfirmedWanted'
    BY <1>b, <2>1 DEF ConfirmedWanted, Wanted
  <2> QED
    BY <1>c, <2>5, <2>6, <2>7 DEF Delivered
<1>10. ASSUME NEW s \in Sender, StoreIndex(s)
       PROVE  Delivered'
  <2> DEFINE c == s[1]
  <2>1. /\ UNCHANGED <<sent, pushed, hand, dropped, owed, confirmed, tickers, allTickers>>
        /\ spc[s] = "store" /\ spc' = [spc EXCEPT ![s] = "send"]
        /\ at' = [at EXCEPT ![s] = 0]
        /\ readAt' = [readAt EXCEPT ![c] = Place(c, at[s] + 1)]
    BY <1>10 DEF StoreIndex, SenderAt
  <2>2. \A r \in Sender : r # s => spc'[r] = spc[r] /\ at'[r] = at[r]
    BY <1>e, <2>1
  <2>3. c \in Client /\ spc'[s] = "send" /\ readAt'[c] = Place(c, at[s] + 1)
    BY <1>d, <1>e, <2>1
  <2>4. \A d \in Client : d # c => readAt'[d] = readAt[d]
    BY <1>e, <2>1
  <2>5. \A d \in Client : pc'[d] # "destroyed" /\ Sole(d)' =>
          Accounted(d) \subseteq Accounted(d)' /\ owed'[d] \subseteq owed[d] \cup Accounted(d)'
    <3> SUFFICES ASSUME NEW d \in Client, Sole(d)'
                 PROVE  Accounted(d) \subseteq Accounted(d)'
      BY <2>1
    <3>1. Sole(d)
      BY <1>b, Irrevocable
    <3>2. \A r \in Started(d) : spc[r] \in {"store", "send"} =>
            r \in Started(d)' /\ spc'[r] \in {"store", "send"}
      BY <2>2, <2>3 DEF Started
    <3>3. InHand(d) \subseteq InHand(d)'
      BY <2>1, <3>2 DEF InHand
    <3>4. Waiting(d) \subseteq Waiting(d)' \cup InHand(d)'
      <4>1. CASE d # c
        BY <2>1, <2>4, <4>1 DEF Waiting
      <4>2. CASE d = c
        <5>1. readAt'[d] = readAt[d] + 1 /\ hand[s] = pushed[d][readAt[d] + 1]
          BY <1>h, <2>1, <2>3, <3>1, <4>2
        <5>2. hand[s] \in InHand(d)
          <6>1. s \in Started(d)
            BY <2>1, <4>2 DEF Started
          <6> QED
            BY <2>1, <6>1 DEF InHand
        <5>3. \A i \in readAt[d] + 1 .. Len(pushed[d]) :
                i = readAt[d] + 1 \/ i \in readAt'[d] + 1 .. Len(pushed[d])
          <6>1. readAt[d] \in Nat /\ Len(pushed[d]) \in Nat
            BY <1>e, Elements
          <6> QED
            BY <5>1, <6>1
        <5>4. \A i \in readAt[d] + 1 .. Len(pushed[d]) :
                pushed[d][i] \in Waiting(d)' \cup InHand(d)'
          BY <2>1, <3>3, <5>1, <5>2, <5>3 DEF Waiting
        <5> QED
          BY <5>4 DEF Waiting
      <4> QED
        BY <4>1, <4>2
    <3> QED
      BY <2>1, <3>3, <3>4 DEF Accounted
  <2>6. NothingMissedAfterOk'
    BY <1>b, <2>5, AccountsKept
  <2>7. SolePops'
    <3> SUFFICES ASSUME NEW d \in Client, Sole(d)', NEW r \in Started(d)',
                        spc'[r] \in {"copy", "store"}
                 PROVE  /\ at'[r] = readAt'[d]
                        /\ spc'[r] = "store" => hand[r] = pushed[d][readAt'[d] + 1]
      BY <2>1 DEF SolePops, OwnPop
    <3>1. Sole(d) /\ r \in Sender /\ r[1] = d
      BY <1>b, Irrevocable DEF Started
    <3>2. r # s /\ spc[r] = spc'[r] /\ at'[r] = at[r]
      BY <2>2, <2>3, <3>1
    <3>3. d # c
      BY <1>h, <2>1, <3>1, <3>2
    <3>4. r \in Started(d)
      BY <3>1, <3>2 DEF Started
    <3> QED
      BY <1>b, <2>4, <3>1, <3>2, <3>3, <3>4 DEF SolePops, OwnPop
  <2>8. ConfirmedWanted'
    BY <1>b, <2>1 DEF ConfirmedWanted, Wanted
  <2> QED
    BY <1>c, <2>6, <2>7, <2>8 DEF Delivered
<1>11. ASSUME NEW s \in Sender, SendTick(s)
       PROVE  Delivered'
  <2>1. /\ UNCHANGED <<pushed, readAt, at, dropped, owed, confirmed, tickers, allTickers>>
        /\ sent' = [sent EXCEPT ![s[1]] = Append(@, hand[s])]
        /\ hand' = [hand EXCEPT ![s] = NoTick]
        /\ spc' = [spc EXCEPT ![s] = "spend"] /\ spc[s] = "send"
    BY <1>11 DEF SendTick, SenderAt, queueVars
  <2>2. hand[s] \in Tick /\ s[1] \in Client
    BY <1>a, <1>d, <2>1 DEF HandOK
  <2>3. ToSet(Append(sent[s[1]], hand[s])) = ToSet(sent[s[1]]) \cup {hand[s]}
    BY <1>e, <2>2, AppendElements
  <2>4. /\ \A d \in Client : ToSet(sent[d]) \subseteq ToSet(sent'[d])
        /\ hand[s] \in ToSet(sent'[s[1]])
    BY <1>e, <2>1, <2>2, <2>3
  <2>5. \A r \in Sender : r # s => spc'[r] = spc[r] /\ hand'[r] = hand[r]
    BY <1>e, <2>1
  <2>6. \A d \in Client : pc'[d] # "destroyed" /\ Sole(d)' =>
          Accounted(d) \subseteq Accounted(d)' /\ owed'[d] \subseteq owed[d] \cup Accounted(d)'
    <3> SUFFICES ASSUME NEW d \in Client
                 PROVE  Accounted(d) \subseteq Accounted(d)'
      BY <2>1
    <3>1. \A r \in Started(d) : spc[r] \in {"store", "send"} =>
            \/ hand[r] \in ToSet(sent'[d])
            \/ r \in Started(d)' /\ spc'[r] \in {"store", "send"} /\ hand'[r] = hand[r]
      BY <2>4, <2>5 DEF Started
    <3>2. InHand(d) \subseteq InHand(d)' \cup ToSet(sent'[d])
      BY <3>1 DEF InHand
    <3>3. Waiting(d)' = Waiting(d)
      BY <2>1 DEF Waiting
    <3> QED
      BY <2>1, <2>4, <3>2, <3>3 DEF Accounted
  <2>7. NothingMissedAfterOk'
    BY <1>b, <2>6, AccountsKept
  <2>8. SolePops'
    <3> SUFFICES ASSUME NEW d \in Client, Sole(d)', NEW r \in Started(d)',
                        spc'[r] \in {"copy", "store"}
                 PROVE  /\ at[r] = readAt[d]
                        /\ spc'[r] = "store" => hand'[r] = pushed[d][readAt[d] + 1]
      BY <2>1 DEF SolePops, OwnPop
    <3>1. Sole(d) /\ r \in Sender /\ r[1] = d
      BY <1>b, Irrevocable DEF Started
    <3>2. r # s /\ spc[r] = spc'[r] /\ hand'[r] = hand[r]
      BY <1>e, <2>1, <2>5, <3>1
    <3>3. r \in Started(d)
      BY <3>1, <3>2 DEF Started
    <3> QED
      BY <1>b, <3>1, <3>2, <3>3 DEF SolePops, OwnPop
  <2>9. ConfirmedWanted'
    BY <1>b, <2>1 DEF ConfirmedWanted, Wanted
  <2> QED
    BY <1>c, <2>7, <2>8, <2>9 DEF Delivered
<1> QED
  BY <1>1, <1>2, <1>3, <1>4, <1>5, <1>6, <1>7, <1>8, <1>9, <1>10, <1>11
     DEF Next, EventLoop, IncomingTick, SenderStep, Finished

(***************************************************************************)
(* Once "success" was sent for a ticker, each of its ticks is accounted    *)
(* for, in any mix of modes and requests, and whatever its capacity: as    *)
(* long as one sender alone pops from the queue.                           *)
(***************************************************************************)
THEOREM NothingMissedAfterOkCorrect == Spec => []NothingMissedAfterOk
<1>1. Delivered => NothingMissedAfterOk
  BY DEF Delivered
<1> QED
  BY <1>1, InitTypeInv, NextTypeInv, InitDelivered, NextDelivered, PTL DEF Spec

-----------------------------------------------------------------------------
(* How far the senders of a client run ahead of its NextTick messages. Of   *)
(* the senders that have found a message to go by, each takes one off the   *)
(* counter; the one that was last to look at the counter found it positive. *)

Working(c) ==
  {s \in Started(c) : spc[s] \in {"load", "copy", "store", "send", "spend"}}

Within(working, started, left) == working - left <= 0 \/ working - left < started

WorkCovered ==
  \A c \in Client : Within(Cardinality(Working(c)), Cardinality(Started(c)), credits[c])

LEMMA SendersFinite ==
  ASSUME NEW c \in Client
  PROVE  IsFiniteSet({s \in Sender : s[1] = c})
<1> DEFINE S == {s \in Sender : s[1] = c}
           f == [s \in S |-> s[2]]
<1>1. IsFiniteSet(1 .. MaxStreams)
  BY BoundsAssumption, FS_Interval
<1>2. f \in Injection(S, 1 .. MaxStreams)
  <2>1. \A s \in S : s[2] \in 1 .. MaxStreams /\ s = <<c, s[2]>>
    BY DEF Sender
  <2>2. f \in [S -> 1 .. MaxStreams]
    BY <2>1
  <2>3. \A r, s \in S : f[r] = f[s] => r = s
    BY <2>1
  <2> HIDE DEF f, S
  <2> QED
    BY <2>2, <2>3 DEF Injection, IsInjective
<1> QED
  BY <1>1, <1>2, FS_Injection

LEMMA StartedFinite ==
  ASSUME NEW c \in Client
  PROVE  /\ IsFiniteSet(Started(c)) /\ Cardinality(Started(c)) \in Nat
         /\ IsFiniteSet(Working(c)) /\ Cardinality(Working(c)) \in Nat
         /\ Cardinality(Working(c)) <= Cardinality(Started(c))
<1>1. Started(c) \in SUBSET {s \in Sender : s[1] = c} /\ Working(c) \in SUBSET Started(c)
  BY DEF Started, Working
<1> QED
  BY <1>1, SendersFinite, FS_Subset, FS_CardinalityType

LEMMA SameWork ==
  ASSUME TypeInv, TypeInv', NEW c \in Client,
         Within(Cardinality(Working(c)), Cardinality(Started(c)), credits[c]),
         Working(c)' \subseteq Working(c), Started(c) \subseteq Started(c)',
         credits'[c] >= credits[c]
  PROVE  Within(Cardinality(Working(c)'), Cardinality(Started(c)'), credits'[c])
<1>1. /\ IsFiniteSet(Working(c)) /\ Cardinality(Working(c)) \in Nat
      /\ IsFiniteSet(Started(c)) /\ Cardinality(Started(c)) \in Nat
      /\ IsFiniteSet(Started(c)') /\ Cardinality(Started(c)') \in Nat
      /\ Cardinality(Working(c)') \in Nat
  <2>1. Started(c)' \in SUBSET {s \in Sender : s[1] = c} /\ Working(c)' \in SUBSET Started(c)'
    BY DEF Started, Working
  <2> QED
    BY <2>1, StartedFinite, SendersFinite, FS_Subset, FS_CardinalityType
<1>2. /\ Cardinality(Working(c)') <= Cardinality(Working(c))
      /\ Cardinality(Started(c)) <= Cardinality(Started(c)')
  BY <1>1, FS_Subset
<1>3. credits[c] \in Int /\ credits'[c] \in Int
  BY DEF TypeInv, TypeOK
<1> QED
  BY <1>1, <1>2, <1>3 DEF Within

LEMMA NextWorkCovered == TypeInv /\ TypeInv' /\ WorkCovered /\ [Next]_vars => WorkCovered'
<1> SUFFICES ASSUME TypeInv, TypeInv', WorkCovered, [Next]_vars, NEW c \in Client
             PROVE  Within(Cardinality(Working(c)'), Cardinality(Started(c)'), credits'[c])
  BY DEF WorkCovered
<1> USE DEF tickVars, stopVars, requestVars, modeVars, queueVars, senderVars, promiseVars
<1>a. /\ spc \in [Sender -> {"none", "check", "load", "copy", "store", "send", "spend",
                             "ended"}]
      /\ credits \in [Client -> Int] /\ credits' \in [Client -> Int]
  BY DEF TypeInv, TypeOK
<1>b. Within(Cardinality(Working(c)), Cardinality(Started(c)), credits[c])
  BY DEF WorkCovered
<1>1. CASE UNCHANGED <<spc, credits>>
  BY <1>1, <1>b DEF Working, Started
<1>2. ASSUME NEW e \in Client, NextTick(e)
      PROVE  Within(Cardinality(Working(c)'), Cardinality(Started(c)'), credits'[c])
  <2>1. spc' = spc /\ credits'[c] >= credits[c]
    BY <1>2, <1>a DEF NextTick
  <2>2. Working(c)' \subseteq Working(c) /\ Started(c) \subseteq Started(c)'
    BY <2>1 DEF Working, Started
  <2> QED
    BY <1>b, <2>1, <2>2, SameWork
<1>3. ASSUME NEW e \in Client, StartSender(e)
      PROVE  Within(Cardinality(Working(c)'), Cardinality(Started(c)'), credits'[c])
  <2>1. /\ spc' = spc \/ spc' = [spc EXCEPT ![<<e, streams[e]>>] = "check"]
        /\ credits' = credits
    BY <1>3 DEF StartSender
  <2>2. \A s \in Sender : spc'[s] = spc[s] \/ spc'[s] = "check"
    BY <1>a, <2>1
  <2>3. Working(c)' \subseteq Working(c) /\ Started(c) \subseteq Started(c)'
    BY <2>2 DEF Working, Started
  <2>4. credits'[c] >= credits[c]
    BY <1>a, <2>1
  <2> QED
    BY <1>b, <2>3, <2>4, SameWork
<1>4. ASSUME NEW r \in Sender, SenderStep(r) \/ SendTick(r) \/ Orphaned(r)
      PROVE  Within(Cardinality(Working(c)'), Cardinality(Started(c)'), credits'[c])
  <2>1. spc[r] # "none" /\ r[1] \in Client
    BY <1>4 DEF SenderStep, CheckQueue, WaitForTick, LoadIndex, CopyTick, StoreIndex, SendTick,
       SpendCredit, Orphaned, SenderAt, Sender
  <2>2. ASSUME NEW step \in {"check", "ended"}, spc' = [spc EXCEPT ![r] = step],
               credits' = credits
        PROVE  Within(Cardinality(Working(c)'), Cardinality(Started(c)'), credits'[c])
    <3>1. \A s \in Sender : spc'[s] = IF s = r THEN step ELSE spc[s]
      BY <1>a, <2>2
    <3>2. Working(c)' \subseteq Working(c) /\ Started(c) \subseteq Started(c)'
      BY <2>2, <3>1 DEF Working, Started
    <3>3. credits'[c] >= credits[c]
      BY <1>a, <2>2
    <3> QED
      BY <1>b, <3>2, <3>3, SameWork
  <2>3. ASSUME spc[r] \in {"load", "copy", "store", "send"},
               NEW step \in {"copy", "store", "send", "spend"},
               spc' = [spc EXCEPT ![r] = step], credits' = credits
        PROVE  Within(Cardinality(Working(c)'), Cardinality(Started(c)'), credits'[c])
    <3>1. \A s \in Sender : spc'[s] = IF s = r THEN step ELSE spc[s]
      BY <1>a, <2>3
    <3>2. Working(c)' \subseteq Working(c) /\ Started(c) \subseteq Started(c)'
      BY <2>3, <3>1 DEF Working, Started
    <3>3. credits'[c] >= credits[c]
      BY <1>a, <2>3
    <3> QED
      BY <1>b, <3>2, <3>3, SameWork
  <2>4. ASSUME Ready(r[1]), spc' = [spc EXCEPT ![r] = "load"], credits' = credits
        PROVE  Within(Cardinality(Working(c)'), Cardinality(Started(c)'), credits'[c])
    <3>1. \A s \in Sender : spc'[s] = IF s = r THEN "load" ELSE spc[s]
      BY <1>a, <2>4
    <3>2. CASE r[1] = c
      <4>1. Started(c)' = Started(c) /\ Working(c)' \in SUBSET Started(c)
        BY <2>1, <3>1 DEF Working, Started
      <4>2. /\ Cardinality(Started(c)) \in Nat /\ Cardinality(Working(c)') \in Nat
            /\ Cardinality(Working(c)') <= Cardinality(Started(c))
        BY <4>1, StartedFinite, FS_Subset, FS_CardinalityType
      <4>3. credits'[c] > 0 /\ credits'[c] \in Int
        BY <1>a, <2>4, <3>2 DEF Ready
      <4> QED
        BY <4>1, <4>2, <4>3 DEF Within
    <3>3. CASE r[1] # c
      <4>1. Started(c)' = Started(c) /\ Working(c)' = Working(c)
        BY <3>1, <3>3 DEF Working, Started
      <4> QED
        BY <1>b, <2>4, <4>1
    <3> QED
      BY <3>2, <3>3
  <2>5. ASSUME spc[r] = "spend", spc' = [spc EXCEPT ![r] = "check"],
               credits' = [credits EXCEPT ![r[1]] = @ - 1]
        PROVE  Within(Cardinality(Working(c)'), Cardinality(Started(c)'), credits'[c])
    <3>1. \A s \in Sender : spc'[s] = IF s = r THEN "check" ELSE spc[s]
      BY <1>a, <2>5
    <3>2. CASE r[1] = c
      <4>1. /\ Started(c)' = Started(c) /\ r \in Working(c)
            /\ Working(c)' = Working(c) \ {r}
        BY <2>5, <3>1, <3>2 DEF Working, Started
      <4>2. /\ IsFiniteSet(Working(c)) /\ Cardinality(Working(c)) \in Nat
            /\ Cardinality(Started(c)) \in Nat
        BY StartedFinite
      <4>3. Cardinality(Working(c)') = Cardinality(Working(c)) - 1
        BY <4>1, <4>2, FS_RemoveElement
      <4>4. credits[c] \in Int /\ credits'[c] = credits[c] - 1
        BY <1>a, <2>5, <3>2
      <4> QED
        BY <1>b, <4>1, <4>2, <4>3, <4>4 DEF Within
    <3>3. CASE r[1] # c
      <4>1. Started(c)' = Started(c) /\ Working(c)' = Working(c) /\ credits'[c] = credits[c]
        BY <1>a, <2>5, <3>1, <3>3 DEF Working, Started
      <4> QED
        BY <1>b, <4>1
    <3> QED
      BY <3>2, <3>3
  <2>6. CASE CheckQueue(r)
    BY <1>1, <2>2, <2>4, <2>6 DEF CheckQueue
  <2>7. CASE WaitForTick(r)
    BY <1>1, <2>7 DEF WaitForTick
  <2>8. CASE LoadIndex(r)
    BY <2>2, <2>3, <2>8 DEF LoadIndex, SenderAt
  <2>9. CASE CopyTick(r) \/ StoreIndex(r) \/ SendTick(r)
    BY <2>3, <2>9 DEF CopyTick, StoreIndex, SendTick, SenderAt
  <2>10. CASE SpendCredit(r)
    BY <2>5, <2>10 DEF SpendCredit, SenderAt, AfterSending
  <2>11. CASE Orphaned(r)
    BY <1>1, <2>2, <2>11 DEF Orphaned
  <2> QED
    BY <1>4, <2>6, <2>7, <2>8, <2>9, <2>10, <2>11 DEF SenderStep
<1>5. ASSUME \/ \E e \in Client : \/ Accept(e) \/ StopClient(e) \/ Begin(e)
                                  \/ NoMessage(e) \/ Disconnect(e) \/ RemoveClient(e)
                                  \/ SubscribeNext(e) \/ ReplyOk(e) \/ EnterClient(e)
                                  \/ SendDirect(e) \/ PushTick(e)
             \/ \E e \in Client, manual \in BOOLEAN, list \in Requests :
                  StartStream(e, manual, list)
             \/ \E ticker \in Ticker : ProduceTick(ticker)
             \/ AcceptNoMore \/ Stop \/ Stopped \/ DeliveredToAll \/ UNCHANGED vars
      PROVE  UNCHANGED <<spc, credits>>
  BY <1>5 DEF Accept, StopClient, Begin, NoMessage, Disconnect, RemoveClient,
     SubscribeNext, ReplyOk, EnterClient, SendDirect, PushTick, StartStream, ProduceTick,
     AcceptNoMore, Stop, Stopped, DeliveredToAll, vars
<1> QED
  BY <1>1, <1>2, <1>3, <1>4, <1>5 DEF Next, EventLoop, IncomingTick, Finished

(***************************************************************************)
(* The senders of a client are never ahead of its NextTick messages by as  *)
(* many ticks as there are senders, for any number of clients, requests    *)
(* and messages; a client that asks for one stream gets what it asked for. *)
(***************************************************************************)
THEOREM AheadBoundedCorrect == Spec => []AheadBounded
<1>1. Init => WorkCovered
  <2> SUFFICES ASSUME Init, NEW c \in Client
               PROVE  Within(Cardinality(Working(c)), Cardinality(Started(c)), credits[c])
    BY DEF WorkCovered
  <2>1. Started(c) = {} /\ Working(c) = {} /\ credits[c] = 0
    BY DEF Init, Started, Working
  <2> QED
    BY <2>1, FS_EmptySet DEF Within
<1>2. ASSUME TypeInv, WorkCovered
      PROVE  AheadBounded
  <2> SUFFICES ASSUME NEW c \in Client
               PROVE  Ahead(c) <= 0 \/ Ahead(c) < Cardinality(Started(c))
    BY DEF AheadBounded
  <2> DEFINE counting == {s \in Started(c) : spc[s] = "spend"}
  <2>1. counting \in SUBSET Working(c)
    BY DEF Working
  <2>2. /\ Cardinality(counting) \in Nat /\ Cardinality(Working(c)) \in Nat
        /\ Cardinality(counting) <= Cardinality(Working(c))
        /\ Cardinality(Started(c)) \in Nat
    BY <2>1, StartedFinite, FS_Subset, FS_CardinalityType
  <2>3. credits[c] \in Int
    BY <1>2 DEF TypeInv, TypeOK
  <2>4. Within(Cardinality(Working(c)), Cardinality(Started(c)), credits[c])
    BY <1>2 DEF WorkCovered
  <2>5. Ahead(c) = Cardinality(counting) - credits[c]
    BY DEF Ahead
  <2> HIDE DEF counting
  <2> QED
    BY <2>2, <2>3, <2>4, <2>5 DEF Within
<1> QED
  BY <1>1, <1>2, InitTypeInv, NextTypeInv, NextWorkCovered, PTL DEF Spec

-----------------------------------------------------------------------------
(***************************************************************************)
(* A client that asks for one stream. It has one sender, and what was sent *)
(* to it, what the sender holds and what waits follow one another in       *)
(* ascending order, up to the newest tick it was handed. A tick that was   *)
(* underway when the mode was set is sent before any other.                *)
(***************************************************************************)
Ascends(q) == \A i, j \in DOMAIN q : i < j => q[i] < q[j]
UpTo(q, t) == \A i \in DOMAIN q : q[i] <= t
AboveAfter(q, n, t) == \A i \in DOMAIN q : n < i => t < q[i]

LEMMA AppendAscends ==
  ASSUME NEW q \in Seq(Nat), Ascends(q), NEW n \in Nat, UpTo(q, n), NEW e \in Nat, n < e
  PROVE  /\ Ascends(Append(q, e)) /\ UpTo(Append(q, e), e)
         /\ \A k, t \in Nat : AboveAfter(q, k, t) /\ t < e => AboveAfter(Append(q, e), k, t)
<1> DEFINE a == Append(q, e)
<1>1. /\ Len(q) \in Nat /\ \A i \in DOMAIN q : i \in Nat /\ q[i] \in Nat
      /\ \A i \in DOMAIN a : \/ i \in DOMAIN q /\ i <= Len(q) /\ a[i] = q[i]
                             \/ i = Len(q) + 1 /\ a[i] = e
  <2>1. /\ Len(q) \in Nat /\ \A i \in DOMAIN q : i \in Nat /\ q[i] \in Nat
    BY Elements
  <2>2. \A i \in DOMAIN a : \/ i \in DOMAIN q /\ i <= Len(q) /\ a[i] = q[i]
                            \/ i = Len(q) + 1 /\ a[i] = e
    BY AppendElements
  <2> QED
    BY <2>1, <2>2
<1> HIDE DEF a
<1>2. UpTo(a, e)
  BY <1>1 DEF UpTo
<1>3. \A k, t \in Nat : AboveAfter(q, k, t) /\ t < e => AboveAfter(a, k, t)
  BY <1>1 DEF AboveAfter
<1>4. ASSUME NEW i \in DOMAIN a, NEW j \in DOMAIN a, i < j
      PROVE  a[i] < a[j]
  <2>1. CASE j \in DOMAIN q /\ j <= Len(q) /\ a[j] = q[j]
    <3>1. i \in DOMAIN q /\ a[i] = q[i]
      BY <1>1, <1>4, <2>1
    <3> QED
      BY <1>4, <2>1, <3>1 DEF Ascends
  <2>2. CASE j = Len(q) + 1 /\ a[j] = e
    <3>1. i \in DOMAIN q /\ a[i] = q[i] /\ q[i] <= n /\ q[i] \in Nat
      BY <1>1, <1>4, <2>2 DEF UpTo
    <3> QED
      BY <2>2, <3>1
  <2> QED
    BY <1>1, <2>1, <2>2
<1> QED
  BY <1>2, <1>3, <1>4 DEF a, Ascends

LEMMA EmptyAscends ==
  ASSUME NEW t, NEW k
  PROVE  Ascends(<< >>) /\ UpTo(<< >>, t) /\ AboveAfter(<< >>, k, t)
BY DEF Ascends, UpTo, AboveAfter

LastSent(c) == IF sent[c] = << >> THEN 0 ELSE sent[c][Len(sent[c])]
Newest(c) == IF c \in visiting THEN Len(log) - 1 ELSE Len(log)
SenderOf(c) == <<c, 1>>

NotStarted(c) ==
  streams[c] = 0 => /\ sent[c] = << >> /\ pushed[c] = << >>
                    /\ tickers[c] = {} /\ ~ allTickers[c] /\ ~ manualMode[c]

Direct(c) ==
  ~ manualMode[c] => /\ pushed[c] = << >> /\ way[c] # "push" /\ early[c] = 0
                     /\ spc[SenderOf(c)] = "none"

Underway(c) == manualMode[c] /\ way[c] = "send" => sent[c] = << >> /\ pushed[c] = << >>

Idle(c) == pushed[c] = << >> => spc[SenderOf(c)] \in {"none", "check", "ended"}

InOrder(c) ==
  /\ Ascends(pushed[c]) /\ UpTo(pushed[c], Newest(c))
  /\ LastSent(c) <= Newest(c) /\ AboveAfter(pushed[c], readAt[c], LastSent(c))
  /\ spc[SenderOf(c)] = "send" =>
       /\ LastSent(c) < hand[SenderOf(c)] /\ hand[SenderOf(c)] <= Newest(c)
       /\ AboveAfter(pushed[c], readAt[c], hand[SenderOf(c)])

Spending(c) == IF spc[SenderOf(c)] = "spend" THEN 1 ELSE 0

Paced(c) ==
  /\ ~ manualMode[c] => credits[c] = nexts[c]
  /\ manualMode[c] /\ pc[c] # "destroyed" =>
       credits[c] + Len(sent[c]) = (nexts[c] + early[c]) + Spending(c)
  /\ spc[SenderOf(c)] \in {"load", "copy", "store", "send"} => credits[c] > 0

Settled(c) == NotStarted(c) /\ Direct(c) /\ Underway(c) /\ Idle(c)
OneStream(c) == Settled(c) /\ InOrder(c) /\ Paced(c)
OneStreamEach == \A c \in Client : OneStream(c)

LEMMA NumberTypes ==
  ASSUME TypeInv, MaxStreams = 1, NEW c \in Client
  PROVE  /\ SenderOf(c) \in Sender /\ LastSent(c) \in Nat /\ Newest(c) \in Nat
         /\ Len(log) \in Nat /\ pushed[c] \in Seq(Nat) /\ Len(sent[c]) \in Nat
         /\ readAt[c] \in Nat /\ Len(pushed[c]) \in Nat
         /\ (spc[SenderOf(c)] = "send" => hand[SenderOf(c)] \in Nat)
<1>1. SenderOf(c) \in Sender
  BY DEF SenderOf, Sender
<1>2. /\ log \in Seq(Ticker) /\ sent[c] \in Seq(Tick) /\ pushed[c] \in Seq(Tick)
      /\ readAt[c] \in Nat
  BY DEF TypeInv, TypeOK
<1>3. Tick \subseteq Nat
  BY BoundsAssumption DEF Tick
<1>4. LastSent(c) \in Nat
  <2>1. sent[c] # << >> => sent[c][Len(sent[c])] \in Tick
    BY <1>2, Elements
  <2> QED
    BY <1>3, <2>1 DEF LastSent
<1>5. Len(log) \in Nat /\ Len(sent[c]) \in Nat /\ Len(pushed[c]) \in Nat
  BY <1>2, Elements
<1>6. Newest(c) \in Nat
  <2>1. c \in visiting => Len(log) \in Tick
    BY DEF TypeInv, ClientsOK
  <2> QED
    BY <1>5, <2>1, BoundsAssumption DEF Newest, Tick
<1>7. pushed[c] \in Seq(Nat)
  BY <1>2, <1>3, SeqMonotonic
<1>8. spc[SenderOf(c)] = "send" => hand[SenderOf(c)] \in Nat
  BY <1>1, <1>3 DEF TypeInv, HandOK
<1> QED
  BY <1>1, <1>2, <1>4, <1>5, <1>6, <1>7, <1>8

LEMMA SumMoves ==
  ASSUME NEW x \in Int, NEW y \in Int, NEW z \in Int
  PROVE  /\ x + y = z + 1 => (x - 1) + y = z + 0
         /\ x + y = z + 0 => x + (y + 1) = z + 1
OBVIOUS

LEMMA InitOneStream == ASSUME MaxStreams = 1 PROVE Init => OneStreamEach
<1> SUFFICES ASSUME Init, NEW c \in Client
             PROVE  OneStream(c)
  BY DEF OneStreamEach
<1>1. SenderOf(c) \in Sender
  BY DEF SenderOf, Sender
<1>2. /\ sent[c] = << >> /\ pushed[c] = << >> /\ tickers[c] = {} /\ ~ allTickers[c]
      /\ ~ manualMode[c] /\ spc[SenderOf(c)] = "none" /\ credits[c] = 0 /\ nexts[c] = 0
      /\ way[c] = "out" /\ early[c] = 0 /\ log = << >> /\ visiting = {}
  BY <1>1 DEF Init
<1>3. InOrder(c)
  BY <1>2, EmptyAscends DEF InOrder, LastSent, Newest
<1>4. Settled(c) /\ Paced(c)
  BY <1>2 DEF Settled, NotStarted, Direct, Underway, Idle, Paced
<1> QED
  BY <1>3, <1>4 DEF OneStream

(* What an action does not touch of a client keeps its stream in order. *)

Untouched(c) ==
  /\ streams'[c] = streams[c] /\ sent'[c] = sent[c] /\ pushed'[c] = pushed[c]
  /\ readAt'[c] = readAt[c] /\ way'[c] \in {way[c], "out"} /\ early'[c] = early[c]
  /\ tickers'[c] = tickers[c] /\ allTickers'[c] = allTickers[c]
  /\ manualMode'[c] = manualMode[c] /\ spc'[SenderOf(c)] = spc[SenderOf(c)]
  /\ hand'[SenderOf(c)] = hand[SenderOf(c)]
  /\ credits'[c] = credits[c] /\ nexts'[c] = nexts[c]

LEMMA InOrderKept ==
  ASSUME TypeInv, TypeInv', MaxStreams = 1, NEW c \in Client, InOrder(c),
         Newest(c) <= Newest(c)', sent'[c] = sent[c], pushed'[c] = pushed[c],
         readAt'[c] = readAt[c],
         spc'[SenderOf(c)] = "send" =>
           spc[SenderOf(c)] = "send" /\ hand'[SenderOf(c)] = hand[SenderOf(c)]
  PROVE  InOrder(c)'
<1>1. /\ LastSent(c) \in Nat /\ Newest(c) \in Nat /\ Newest(c)' \in Nat
      /\ pushed[c] \in Seq(Nat) /\ LastSent(c)' = LastSent(c)
      /\ (spc[SenderOf(c)] = "send" => hand[SenderOf(c)] \in Nat)
  <2>1. LastSent(c)' = LastSent(c)
    BY DEF LastSent
  <2>2. Newest(c)' \in Nat
    <3>1. log' \in Seq(Ticker) /\ (c \in visiting' => Len(log') \in Tick)
      BY DEF TypeInv, TypeOK, ClientsOK
    <3>2. Len(log') \in Nat
      BY <3>1, Elements
    <3> QED
      BY <3>1, <3>2, BoundsAssumption DEF Newest, Tick
  <2> QED
    BY <2>1, <2>2, NumberTypes
<1>2. UpTo(pushed[c], Newest(c)')
  <2>1. \A i \in DOMAIN pushed[c] : pushed[c][i] \in Nat
    BY <1>1, Elements
  <2> QED
    BY <1>1, <2>1 DEF InOrder, UpTo
<1> QED
  BY <1>1, <1>2 DEF InOrder, Ascends, UpTo, AboveAfter

LEMMA UntouchedInOrder ==
  ASSUME TypeInv, TypeInv', MaxStreams = 1, NEW c \in Client, OneStream(c), Untouched(c),
         pc'[c] # "destroyed" => pc[c] # "destroyed", Newest(c) <= Newest(c)'
  PROVE  OneStream(c)'
<1>1. InOrder(c)'
  BY InOrderKept DEF OneStream, Untouched
<1>2. Settled(c)'
  BY DEF OneStream, Settled, Untouched, NotStarted, Direct, Underway, Idle
<1>3. Paced(c)'
  BY DEF OneStream, Untouched, Paced, Spending
<1> QED
  BY <1>1, <1>2, <1>3 DEF OneStream

LEMMA NextOneStream ==
  ASSUME TypeInv, TypeInv', Delivered, MaxStreams = 1, OneStreamEach, [Next]_vars
  PROVE  OneStreamEach'
<1> USE DEF tickVars, stopVars, requestVars, modeVars, queueVars, senderVars, promiseVars
<1>a. /\ manualMode \in [Client -> BOOLEAN] /\ tickers \in [Client -> SUBSET Ticker]
      /\ allTickers \in [Client -> BOOLEAN] /\ pushed \in [Client -> Seq(Tick)]
      /\ readAt \in [Client -> Nat] /\ way \in [Client -> {"out", "send", "push"}]
      /\ credits \in [Client -> Int] /\ nexts \in [Client -> Nat] /\ early \in [Client -> Nat]
      /\ spc \in [Sender -> {"none", "check", "load", "copy", "store", "send", "spend",
                             "ended"}]
      /\ hand \in [Sender -> Tick \cup {NoTick}] /\ sent \in [Client -> Seq(Tick)]
      /\ streams \in [Client -> 0 .. MaxStreams]
  BY DEF TypeInv, TypeOK
<1>b. /\ \A c \in Client : SenderOf(c) \in Sender /\ SenderOf(c)[1] = c
      /\ \A s \in Sender : s[1] \in Client /\ s = SenderOf(s[1])
      /\ \A c, d \in Client : c # d => SenderOf(c) # SenderOf(d)
  BY DEF Sender, SenderOf
<1>c. \A c \in Client : OneStream(c)
  BY DEF OneStreamEach
<1>d. \A c \in Client : /\ Newest(c) \in Nat /\ LastSent(c) \in Nat /\ Len(sent[c]) \in Nat
                        /\ Len(pushed[c]) \in Nat
  BY NumberTypes
<1>e. ASSUME UNCHANGED <<log, visiting>>
      PROVE  \A c \in Client : Newest(c)' = Newest(c) /\ Newest(c) <= Newest(c)'
  <2>1. \A c \in Client : Newest(c)' = Newest(c)
    BY <1>e DEF Newest
  <2> QED
    BY <1>d, <2>1
<1>f. \A c \in Client : pc'[c] # "destroyed" => pc[c] # "destroyed"
  BY Irrevocable DEF Delivered
<1>g. ASSUME NEW c \in Client, UNCHANGED <<log, visiting>>, Untouched(c)
      PROVE  OneStream(c)'
  BY <1>c, <1>e, <1>f, <1>g, UntouchedInOrder
<1>h. ASSUME NEW c \in Client, UNCHANGED <<log, visiting, sent, pushed, readAt, hand>>,
             spc'[SenderOf(c)] = "send" => spc[SenderOf(c)] = "send"
      PROVE  InOrder(c)'
  <2>1. InOrder(c) /\ Newest(c) <= Newest(c)'
    BY <1>c, <1>e, <1>h DEF OneStream
  <2> QED
    BY <1>h, <2>1, InOrderKept
<1>1. ASSUME NEW c \in Client, NEW manual \in BOOLEAN, NEW list \in Requests,
             StartStream(c, manual, list), NEW d \in Client
      PROVE  OneStream(d)'
  <2>1. /\ UNCHANGED <<log, visiting, way, tickers, allTickers, pushed, readAt, credits, spc,
                       hand, sent, nexts, early>>
        /\ streams' = [streams EXCEPT ![c] = @ + 1] /\ streams[c] < MaxStreams
        /\ manualMode' = [manualMode EXCEPT ![c] = manual]
    BY <1>1 DEF StartStream
  <2>2. CASE d # c
    <3>1. Untouched(d)
      BY <1>a, <2>1, <2>2 DEF Untouched
    <3> QED
      BY <1>g, <2>1, <3>1
  <2>3. CASE d = c
    <3>1. streams[c] = 0 /\ streams'[c] = 1 /\ manualMode'[c] = manual
      BY <1>a, <2>1
    <3>2. /\ sent[c] = << >> /\ pushed[c] = << >> /\ ~ manualMode[c] /\ way[c] # "push"
          /\ early[c] = 0 /\ spc[SenderOf(c)] = "none" /\ credits[c] = nexts[c]
      BY <1>c, <3>1 DEF OneStream, Settled, NotStarted, Direct, Paced
    <3>3. InOrder(c)'
      BY <1>h, <2>1
    <3>4. Settled(c)'
      BY <2>1, <3>1, <3>2 DEF Settled, NotStarted, Direct, Underway, Idle
    <3>5. Paced(c)'
      <4>1. Len(sent[c]) = 0 /\ credits[c] + 0 = (nexts[c] + 0) + 0
        BY <1>a, <3>2
      <4> QED
        BY <2>1, <3>2, <4>1 DEF Paced, Spending
    <3> QED
      BY <2>3, <3>3, <3>4, <3>5 DEF OneStream
  <2> QED
    BY <2>2, <2>3
<1>2. ASSUME NEW c \in Client, SubscribeNext(c), NEW d \in Client
      PROVE  OneStream(d)'
  <2>1. /\ UNCHANGED <<log, visiting, way, streams, manualMode, pushed, readAt, credits, spc,
                       hand, sent, nexts, early>>
        /\ pc[c] = "subscribe"
    BY <1>2 DEF SubscribeNext, At
  <2>2. /\ tickers' = tickers \/ \E t \in Ticker : tickers' = [tickers EXCEPT ![c] = @ \cup {t}]
        /\ allTickers' = allTickers \/ allTickers' = [allTickers EXCEPT ![c] = TRUE]
    BY <1>2 DEF SubscribeNext
  <2>3. CASE d # c
    <3>1. tickers'[d] = tickers[d] /\ allTickers'[d] = allTickers[d]
      BY <1>a, <2>2, <2>3
    <3>2. Untouched(d)
      BY <2>1, <3>1 DEF Untouched
    <3> QED
      BY <1>g, <2>1, <3>2
  <2>4. CASE d = c
    <3>1. streams[c] # 0
      BY <2>1, BoundsAssumption DEF TypeInv, ClientsOK
    <3>2. InOrder(c)'
      BY <1>h, <2>1
    <3>3. Settled(c)'
      BY <1>c, <2>1, <3>1 DEF OneStream, Settled, NotStarted, Direct, Underway, Idle
    <3>4. Paced(c)'
      BY <1>c, <1>f, <2>1 DEF OneStream, Paced, Spending
    <3> QED
      BY <2>4, <3>2, <3>3, <3>4 DEF OneStream
  <2> QED
    BY <2>3, <2>4
<1>3. ASSUME NEW c \in Client, StartSender(c), NEW d \in Client
      PROVE  OneStream(d)'
  <2>1. /\ UNCHANGED <<log, visiting, way, streams, manualMode, tickers, allTickers, pushed,
                       readAt, credits, hand, sent, nexts, early>>
        /\ pc[c] = "subscribe"
        /\ IF manualMode[c] THEN spc' = [spc EXCEPT ![<<c, streams[c]>>] = "check"]
                            ELSE spc' = spc
    BY <1>3 DEF StartSender, At
  <2>2. <<c, streams[c]>> = SenderOf(c)
    <3>1. streams[c] \in 1 .. 1
      BY <2>1 DEF TypeInv, ClientsOK
    <3> QED
      BY <3>1 DEF SenderOf
  <2>3. CASE d # c \/ ~ manualMode[c]
    <3>1. spc'[SenderOf(d)] = spc[SenderOf(d)]
      BY <1>a, <1>b, <2>1, <2>2, <2>3
    <3>2. Untouched(d)
      BY <2>1, <3>1 DEF Untouched
    <3> QED
      BY <1>g, <2>1, <3>2
  <2>4. CASE d = c /\ manualMode[c]
    <3>1. spc[SenderOf(c)] = "none" /\ spc'[SenderOf(c)] = "check"
      <4>1. Unborn(SenderOf(c))
        BY <2>1, <2>2 DEF Unborn, SenderOf
      <4> QED
        BY <1>a, <1>b, <2>1, <2>2, <2>4, <4>1 DEF Delivered, SendersFresh
    <3>2. InOrder(c)'
      BY <1>h, <2>1, <3>1
    <3>3. Settled(c)'
      BY <1>c, <2>1, <2>4, <3>1 DEF OneStream, Settled, NotStarted, Direct, Underway, Idle
    <3>4. Paced(c)'
      BY <1>c, <1>f, <2>1, <2>4, <3>1 DEF OneStream, Paced, Spending
    <3> QED
      BY <2>4, <3>2, <3>3, <3>4 DEF OneStream
  <2> QED
    BY <2>3, <2>4
<1>4. ASSUME NEW c \in Client, NextTick(c), NEW d \in Client
      PROVE  OneStream(d)'
  <2>1. /\ UNCHANGED <<log, visiting, way, streams, manualMode, tickers, allTickers, pushed,
                       readAt, spc, hand, sent, early>>
        /\ nexts' = [nexts EXCEPT ![c] = @ + 1] /\ credits' = [credits EXCEPT ![c] = @ + 1]
    BY <1>4 DEF NextTick
  <2>2. CASE d # c
    <3>1. Untouched(d)
      BY <1>a, <2>1, <2>2 DEF Untouched
    <3> QED
      BY <1>g, <2>1, <3>1
  <2>3. CASE d = c
    <3>1. /\ nexts'[c] = nexts[c] + 1 /\ credits'[c] = credits[c] + 1
          /\ nexts[c] \in Nat /\ credits[c] \in Int /\ Len(sent[c]) \in Nat
          /\ early[c] \in Nat
      BY <1>a, <1>d, <2>1
    <3>2. InOrder(c)'
      BY <1>h, <2>1
    <3>3. Settled(c)'
      BY <1>c, <2>1 DEF OneStream, Settled, NotStarted, Direct, Underway, Idle
    <3>4. Paced(c)'
      <4>1. Paced(c) /\ Spending(c) \in Int /\ Spending(c)' = Spending(c)
        BY <1>c, <2>1 DEF OneStream, Spending
      <4>2. ~ manualMode[c] => credits'[c] = nexts'[c]
        BY <3>1, <4>1 DEF Paced
      <4>3. manualMode[c] /\ pc'[c] # "destroyed" =>
              credits'[c] + Len(sent[c]) = (nexts'[c] + early[c]) + Spending(c)
        <5>1. manualMode[c] /\ pc'[c] # "destroyed" =>
                credits[c] + Len(sent[c]) = (nexts[c] + early[c]) + Spending(c)
          BY <1>f, <4>1 DEF Paced
        <5>2. credits[c] + Len(sent[c]) = (nexts[c] + early[c]) + Spending(c) =>
                (credits[c] + 1) + Len(sent[c]) = ((nexts[c] + 1) + early[c]) + Spending(c)
          <6>1. /\ nexts[c] \in Int /\ early[c] \in Int /\ credits[c] \in Int
                /\ Len(sent[c]) \in Int
            BY <3>1
          <6>2. Spending(c) \in Int
            BY <4>1
          <6>3. PICK u \in Int : u = credits[c]
            BY <6>1
          <6>4. PICK v \in Int : v = Len(sent[c])
            BY <6>1
          <6>5. PICK x \in Int : x = nexts[c]
            BY <6>1
          <6>6. PICK y \in Int : y = early[c]
            BY <6>1
          <6>7. PICK z \in Int : z = Spending(c)
            BY <6>2
          <6>8. u + v = (x + y) + z => (u + 1) + v = ((x + 1) + y) + z
            OBVIOUS
          <6> QED
            BY <6>3, <6>4, <6>5, <6>6, <6>7, <6>8
        <5> QED
          BY <3>1, <5>1, <5>2
      <4>4. spc[SenderOf(c)] \in {"load", "copy", "store", "send"} => credits'[c] > 0
        <5>1. spc[SenderOf(c)] \in {"load", "copy", "store", "send"} => credits[c] > 0
          BY <4>1 DEF Paced
        <5> QED
          BY <3>1, <5>1
      <4> QED
        BY <2>1, <4>1, <4>2, <4>3, <4>4 DEF Paced
    <3> QED
      BY <2>3, <3>2, <3>3, <3>4 DEF OneStream
  <2> QED
    BY <2>2, <2>3
<1>5. ASSUME NEW ticker \in Ticker, ProduceTick(ticker), NEW d \in Client
      PROVE  OneStream(d)'
  <2>1. /\ log' = Append(log, ticker) /\ visiting' = clients /\ ~ delivering
        /\ Untouched(d)
    BY <1>5 DEF ProduceTick, MutexFree, Untouched
  <2>2. Newest(d) = Len(log) /\ Len(log) \in Nat
    BY <2>1, NumberTypes DEF TypeInv, ClientsOK, Newest
  <2>3. Len(log') = Len(log) + 1
    <3>1. log \in Seq(Ticker)
      BY DEF TypeInv, TypeOK
    <3> QED
      BY <2>1, <3>1, AppendElements
  <2>4. Newest(d) <= Newest(d)'
    BY <2>2, <2>3 DEF Newest
  <2> QED
    BY <1>c, <1>f, <2>1, <2>4, UntouchedInOrder
<1>6. ASSUME NEW c \in Client, EnterClient(c), NEW d \in Client
      PROVE  OneStream(d)'
  <2>1. /\ UNCHANGED <<log, visiting, streams, manualMode, tickers, allTickers, pushed, readAt,
                       credits, spc, hand, sent, nexts, early>>
        /\ way' = [way EXCEPT ![c] = IF manualMode[c] THEN "push" ELSE "send"]
    BY <1>6 DEF EnterClient
  <2>2. CASE d # c
    <3>1. Untouched(d)
      BY <1>a, <2>1, <2>2 DEF Untouched
    <3> QED
      BY <1>g, <2>1, <3>1
  <2>3. CASE d = c
    <3>1. way'[c] = IF manualMode[c] THEN "push" ELSE "send"
      BY <1>a, <2>1
    <3>2. InOrder(c)'
      BY <1>h, <2>1
    <3>3. Settled(c)'
      BY <1>c, <2>1, <3>1 DEF OneStream, Settled, NotStarted, Direct, Underway, Idle
    <3>4. Paced(c)'
      BY <1>c, <1>f, <2>1 DEF OneStream, Paced, Spending
    <3> QED
      BY <2>3, <3>2, <3>3, <3>4 DEF OneStream
  <2> QED
    BY <2>2, <2>3
<1>i. ASSUME NEW c \in Client, way[c] # "out", Handed(c)
      PROVE  /\ Len(log) \in Tick /\ Len(log) \in Nat /\ Newest(c) = Len(log) - 1
             /\ Newest(c) < Len(log) /\ c \in visiting /\ visiting' = visiting \ {c}
             /\ way' = [way EXCEPT ![c] = "out"] /\ way'[c] = "out"
             /\ log' = log => /\ Newest(c)' = Len(log)
                              /\ \A d \in Client : Newest(d) <= Newest(d)'
  <2>1. c \in visiting /\ visiting' = visiting \ {c} /\ Len(log) \in Tick
    BY <1>i DEF TypeInv, ClientsOK, Handed
  <2>2. Len(log) \in Nat /\ Newest(c) = Len(log) - 1 /\ Newest(c) < Len(log)
    BY <2>1, BoundsAssumption DEF Tick, Newest
  <2>3. way' = [way EXCEPT ![c] = "out"] /\ way'[c] = "out"
    BY <1>a, <1>i DEF Handed
  <2>4. log' = log => Newest(c)' = Len(log)
    BY <2>1 DEF Newest
  <2>5. log' = log => \A d \in Client : d # c => Newest(d)' = Newest(d)
    BY <2>1 DEF Newest
  <2>6. log' = log => \A d \in Client : Newest(d) <= Newest(d)'
    BY <1>d, <2>2, <2>4, <2>5
  <2> QED
    BY <2>1, <2>2, <2>3, <2>4, <2>6
<1>7. ASSUME NEW c \in Client, SendDirect(c), NEW d \in Client
      PROVE  OneStream(d)'
  <2> DEFINE tick == Len(log)
  <2>1. /\ UNCHANGED <<log, streams, manualMode, tickers, allTickers, pushed, readAt, credits,
                       spc, hand, nexts>>
        /\ way[c] = "send" /\ Handed(c)
        /\ \/ /\ Wanted(c, log[tick]) /\ sent' = [sent EXCEPT ![c] = Append(@, tick)]
              /\ early' = [early EXCEPT ![c] = @ + (IF manualMode[c] THEN 1 ELSE 0)]
           \/ sent' = sent /\ early' = early
    BY <1>7 DEF SendDirect
  <2>2. /\ tick \in Tick /\ tick \in Nat /\ Newest(c) < tick /\ Newest(c)' = tick
        /\ way' = [way EXCEPT ![c] = "out"] /\ way'[c] = "out"
        /\ \A e \in Client : Newest(e) <= Newest(e)'
    BY <1>i, <2>1
  <2> HIDE DEF tick
  <2>3. CASE d # c \/ (sent' = sent /\ early' = early)
    <3>1. sent'[d] = sent[d] /\ early'[d] = early[d] /\ way'[d] \in {way[d], "out"}
      BY <1>a, <2>1, <2>2, <2>3
    <3>2. Untouched(d)
      BY <2>1, <3>1 DEF Untouched
    <3> QED
      BY <1>c, <1>f, <2>2, <3>2, UntouchedInOrder
  <2>4. CASE /\ d = c /\ Wanted(c, log[tick]) /\ sent' = [sent EXCEPT ![c] = Append(@, tick)]
             /\ early' = [early EXCEPT ![c] = @ + (IF manualMode[c] THEN 1 ELSE 0)]
    <3>1. /\ sent'[c] = Append(sent[c], tick)
          /\ early'[c] = early[c] + (IF manualMode[c] THEN 1 ELSE 0)
      BY <1>a, <2>4
    <3>2. /\ pushed[c] = << >> /\ spc[SenderOf(c)] \in {"none", "check", "ended"}
          /\ manualMode[c] => sent[c] = << >>
          /\ ~ manualMode[c] => early[c] = 0
      BY <1>c, <2>1 DEF OneStream, Settled, Direct, Underway, Idle
    <3>3. LastSent(c)' = tick /\ Len(sent'[c]) = Len(sent[c]) + 1
      <4>1. sent[c] \in Seq(Tick)
        BY <1>a
      <4>2. /\ sent'[c] # << >> /\ Len(sent'[c]) = Len(sent[c]) + 1
            /\ sent'[c][Len(sent[c]) + 1] = tick
        BY <2>2, <3>1, <4>1, AppendElements
      <4> QED
        BY <4>2 DEF LastSent
    <3>4. InOrder(c)'
      <4>1. LastSent(c)' <= Newest(c)'
        BY <2>2, <3>3
      <4>2. pushed'[c] = << >> /\ spc'[SenderOf(c)] # "send"
        BY <2>1, <3>2
      <4>3. Ascends(pushed[c])' /\ UpTo(pushed[c], Newest(c))'
            /\ AboveAfter(pushed[c], readAt[c], LastSent(c))'
        BY <4>2, EmptyAscends
      <4> QED
        BY <4>1, <4>2, <4>3 DEF InOrder
    <3>5. streams[c] # 0
      BY <1>c, <2>4 DEF OneStream, Settled, NotStarted, Wanted
    <3>6. Settled(c)'
      <4>1. NotStarted(c)' /\ Underway(c)'
        BY <2>1, <2>2, <3>5 DEF NotStarted, Underway
      <4>2. ~ manualMode[c] => early'[c] = 0
        BY <1>a, <3>1, <3>2
      <4>3. Direct(c)' /\ Idle(c)'
        BY <1>c, <2>1, <2>2, <4>2 DEF OneStream, Settled, Direct, Idle
      <4> QED
        BY <4>1, <4>3 DEF Settled
    <3>7. Paced(c)'
      <4>1. CASE ~ manualMode[c]
        BY <1>c, <2>1, <4>1 DEF OneStream, Paced
      <4>2. CASE manualMode[c]
        <5>1. early'[c] = early[c] + 1 /\ Spending(c)' = 0 /\ Spending(c) = 0
          BY <2>1, <3>1, <3>2, <4>2 DEF Spending
        <5>2. /\ pc[c] # "destroyed" =>
                   credits[c] + Len(sent[c]) = (nexts[c] + early[c]) + 0
              /\ spc[SenderOf(c)] \notin {"load", "copy", "store", "send"}
          BY <1>c, <3>2, <4>2, <5>1 DEF OneStream, Paced
        <5>3. /\ credits[c] \in Int /\ nexts[c] \in Int /\ early[c] \in Int
              /\ Len(sent[c]) \in Int
          BY <1>a, <1>d
        <5>4. pc'[c] # "destroyed" =>
                credits[c] + Len(sent'[c]) = (nexts[c] + early'[c]) + 0
          <6>1. pc'[c] # "destroyed" =>
                  credits[c] + Len(sent[c]) = (nexts[c] + early[c]) + 0
            BY <1>f, <5>2
          <6>3. credits[c] + Len(sent[c]) = (nexts[c] + early[c]) + 0 =>
                  credits[c] + (Len(sent[c]) + 1) = (nexts[c] + (early[c] + 1)) + 0
            <7>1. PICK u \in Int : u = credits[c]
              BY <5>3
            <7>2. PICK v \in Int : v = Len(sent[c])
              BY <5>3
            <7>3. PICK x \in Int : x = nexts[c]
              BY <5>3
            <7>4. PICK y \in Int : y = early[c]
              BY <5>3
            <7>5. u + v = (x + y) + 0 => u + (v + 1) = (x + (y + 1)) + 0
              OBVIOUS
            <7> QED
              BY <7>1, <7>2, <7>3, <7>4, <7>5
          <6>4. Len(sent'[c]) = Len(sent[c]) + 1 /\ early'[c] = early[c] + 1
            BY <3>3, <5>1
          <6>5. credits[c] + Len(sent'[c]) = credits[c] + (Len(sent[c]) + 1)
            BY <6>4
          <6>6. (nexts[c] + early'[c]) + 0 = (nexts[c] + (early[c] + 1)) + 0
            BY <6>4
          <6> QED
            BY <6>1, <6>3, <6>5, <6>6
        <5>5. /\ manualMode'[c] /\ credits'[c] = credits[c] /\ nexts'[c] = nexts[c]
              /\ spc'[SenderOf(c)] = spc[SenderOf(c)]
          BY <2>1, <4>2
        <5>6. pc'[c] # "destroyed" =>
                credits'[c] + Len(sent'[c]) = (nexts'[c] + early'[c]) + Spending(c)'
          BY <5>1, <5>4, <5>5
        <5> QED
          BY <5>2, <5>5, <5>6 DEF Paced
      <4> QED
        BY <4>1, <4>2
    <3> QED
      BY <2>4, <3>4, <3>6, <3>7 DEF OneStream
  <2> QED
    BY <2>1, <2>3, <2>4
<1>8. ASSUME NEW c \in Client, PushTick(c), NEW d \in Client
      PROVE  OneStream(d)'
  <2> DEFINE tick == Len(log)
  <2>1. /\ UNCHANGED <<log, streams, manualMode, tickers, allTickers, readAt, credits, spc, hand,
                       sent, nexts, early>>
        /\ way[c] = "push" /\ Handed(c)
        /\ pushed' = pushed \/ pushed' = [pushed EXCEPT ![c] = Append(@, tick)]
    BY <1>8 DEF PushTick
  <2>2. /\ tick \in Tick /\ tick \in Nat /\ Newest(c) < tick /\ Newest(c)' = tick
        /\ way' = [way EXCEPT ![c] = "out"] /\ way'[c] = "out"
        /\ \A e \in Client : Newest(e) <= Newest(e)'
    BY <1>i, <2>1
  <2> HIDE DEF tick
  <2>3. CASE d # c \/ pushed' = pushed
    <3>1. pushed'[d] = pushed[d] /\ way'[d] \in {way[d], "out"}
      BY <1>a, <2>1, <2>2, <2>3
    <3>2. Untouched(d)
      BY <2>1, <3>1 DEF Untouched
    <3> QED
      BY <1>c, <1>f, <2>2, <3>2, UntouchedInOrder
  <2>4. CASE d = c /\ pushed' = [pushed EXCEPT ![c] = Append(@, tick)]
    <3> DEFINE q == pushed[c]
               n == Newest(c)
    <3>1. /\ q \in Seq(Nat) /\ n \in Nat /\ pushed'[c] = Append(q, tick)
          /\ LastSent(c)' = LastSent(c) /\ LastSent(c) \in Nat /\ readAt[c] \in Nat
          /\ (spc[SenderOf(c)] = "send" => hand[SenderOf(c)] \in Nat)
      BY <1>a, <2>1, <2>4, NumberTypes DEF LastSent
    <3>2. /\ Ascends(q) /\ UpTo(q, n) /\ LastSent(c) <= n /\ AboveAfter(q, readAt[c], LastSent(c))
          /\ spc[SenderOf(c)] = "send" =>
               /\ LastSent(c) < hand[SenderOf(c)] /\ hand[SenderOf(c)] <= n
               /\ AboveAfter(q, readAt[c], hand[SenderOf(c)])
      BY <1>c DEF OneStream, InOrder
    <3>3. /\ Ascends(Append(q, tick)) /\ UpTo(Append(q, tick), tick)
          /\ \A k, t \in Nat : AboveAfter(q, k, t) /\ t < tick => AboveAfter(Append(q, tick), k, t)
      BY <2>2, <3>1, <3>2, AppendAscends
    <3> HIDE DEF n, q
    <3>4. /\ LastSent(c) < tick
          /\ (spc[SenderOf(c)] = "send" => hand[SenderOf(c)] < tick)
      BY <2>2, <3>1, <3>2 DEF n
    <3>5. InOrder(c)'
      <4>1. /\ Ascends(pushed'[c]) /\ UpTo(pushed'[c], Newest(c)')
            /\ AboveAfter(pushed'[c], readAt[c], LastSent(c))
            /\ (spc[SenderOf(c)] = "send" =>
                  AboveAfter(pushed'[c], readAt[c], hand[SenderOf(c)]))
        BY <2>2, <3>1, <3>2, <3>3, <3>4
      <4>2. /\ LastSent(c)' <= Newest(c)'
            /\ (spc[SenderOf(c)] = "send" => hand[SenderOf(c)] <= Newest(c)')
        BY <2>2, <3>1, <3>4
      <4> QED
        BY <2>1, <3>1, <3>2, <4>1, <4>2 DEF InOrder, Ascends, UpTo, AboveAfter
    <3>6. /\ manualMode[c] /\ streams[c] # 0 /\ pushed'[c] # << >>
      <4>1. manualMode[c] /\ streams[c] # 0
        BY <1>c, <2>1 DEF OneStream, Settled, Direct, NotStarted
      <4>2. pushed[c] \in Seq(Tick)
        BY <1>a
      <4>3. Append(pushed[c], tick) # << >>
        BY <2>2, <4>2, AppendElements
      <4> QED
        BY <1>a, <2>4, <4>1, <4>3
    <3>7. Settled(c)'
      BY <2>1, <2>2, <3>6 DEF Settled, NotStarted, Direct, Underway, Idle
    <3>8. Paced(c)'
      BY <1>c, <1>f, <2>1 DEF OneStream, Paced, Spending
    <3> QED
      BY <2>4, <3>5, <3>7, <3>8 DEF OneStream
  <2> QED
    BY <2>1, <2>3, <2>4
<1>j. ASSUME NEW s \in Sender, NEW c \in Client, s = SenderOf(c), spc[s] # "none"
      PROVE  manualMode[c] /\ streams[c] # 0
  BY <1>c, <1>j DEF OneStream, Settled, NotStarted, Direct
<1>9. ASSUME NEW s \in Sender, NEW d \in Client,
             CheckQueue(s) \/ LoadIndex(s) \/ CopyTick(s) \/ Orphaned(s)
      PROVE  OneStream(d)'
  <2>1. /\ UNCHANGED <<log, visiting, way, streams, manualMode, tickers, allTickers, pushed,
                       readAt, credits, sent, nexts, early, pc>>
        /\ \A r \in Sender : r # s => hand'[r] = hand[r] /\ spc'[r] = spc[r]
    BY <1>9, <1>a DEF CheckQueue, LoadIndex, CopyTick, Orphaned
  <2>2. CASE s # SenderOf(d)
    <3>1. Untouched(d)
      BY <1>b, <2>1, <2>2 DEF Untouched
    <3> QED
      BY <1>g, <2>1, <3>1
  <2>3. CASE s = SenderOf(d)
    <3>1. /\ spc[s] # "none"
          /\ \/ spc'[s] = spc[s] /\ hand'[s] = hand[s]
             \/ spc[s] = "check" /\ spc'[s] = "load" /\ credits[d] > 0 /\ Waiting(d) # {}
             \/ spc[s] # "spend" /\ spc'[s] \in {"ended", "check"}
             \/ spc[s] = "load" /\ spc'[s] = "copy" /\ Waiting(d) # {}
             \/ spc[s] = "copy" /\ spc'[s] = "store"
             \/ pc[d] = "destroyed" /\ spc'[s] = "ended"
      <4>1. s[1] = d
        BY <1>b, <2>3
      <4>2. CASE CheckQueue(s)
        BY <1>a, <4>1, <4>2 DEF CheckQueue, SenderAt, Ready
      <4>3. CASE LoadIndex(s)
        BY <1>a, <4>1, <4>3 DEF LoadIndex, SenderAt
      <4>4. CASE CopyTick(s)
        BY <1>a, <4>4 DEF CopyTick, SenderAt
      <4>5. CASE Orphaned(s)
        BY <1>a, <4>1, <4>5 DEF Orphaned
      <4> QED
        BY <1>9, <4>2, <4>3, <4>4, <4>5
    <3>2. manualMode[d] /\ streams[d] # 0
      BY <1>j, <2>3, <3>1
    <3>3. Waiting(d) # {} => pushed[d] # << >>
      <4>1. pushed[d] = << >> => Len(pushed[d]) = 0
        OBVIOUS
      <4>2. readAt[d] \in Nat
        BY <1>a
      <4> QED
        BY <4>1, <4>2 DEF Waiting
    <3>4. InOrder(d)'
      <4>1. spc'[s] = "send" => spc[s] = "send" /\ hand'[s] = hand[s]
        BY <3>1
      <4>2. InOrder(d) /\ Newest(d) <= Newest(d)'
        BY <1>c, <1>e, <2>1 DEF OneStream
      <4> QED
        BY <2>1, <2>3, <4>1, <4>2, InOrderKept
    <3>5. Settled(d)'
      <4>1. NotStarted(d)' /\ Direct(d)' /\ Underway(d)'
        BY <1>c, <2>1, <3>2 DEF OneStream, Settled, NotStarted, Direct, Underway
      <4>2. Idle(d)'
        BY <1>c, <2>1, <2>3, <3>1, <3>3 DEF OneStream, Settled, Idle
      <4> QED
        BY <4>1, <4>2 DEF Settled
    <3>6. Paced(d)'
      <4>1. pc[d] # "destroyed" => Spending(d)' = Spending(d)
        BY <2>3, <3>1 DEF Spending
      <4>2. spc'[s] \in {"load", "copy", "store", "send"} => credits[d] > 0
        BY <1>c, <2>3, <3>1 DEF OneStream, Paced
      <4>3. pc[d] # "destroyed" =>
              credits[d] + Len(sent[d]) = (nexts[d] + early[d]) + Spending(d)
        BY <1>c, <3>2 DEF OneStream, Paced
      <4> QED
        BY <2>1, <2>3, <3>2, <4>1, <4>2, <4>3 DEF Paced
    <3> QED
      BY <3>4, <3>5, <3>6 DEF OneStream
  <2> QED
    BY <2>2, <2>3
<1>10. ASSUME NEW s \in Sender, StoreIndex(s), NEW d \in Client
       PROVE  OneStream(d)'
  <2> DEFINE c == s[1]
  <2>1. /\ UNCHANGED <<log, visiting, way, streams, manualMode, tickers, allTickers, pushed,
                       credits, hand, sent, nexts, early, pc>>
        /\ spc[s] = "store" /\ spc' = [spc EXCEPT ![s] = "send"]
        /\ readAt' = [readAt EXCEPT ![c] = Place(c, at[s] + 1)]
        /\ s = SenderOf(c) /\ c \in Client
    BY <1>10, <1>b DEF StoreIndex, SenderAt
  <2>2. CASE d # c
    <3>1. Untouched(d)
      BY <1>a, <1>b, <2>1, <2>2 DEF Untouched
    <3> QED
      BY <1>g, <2>1, <3>1
  <2>3. CASE d = c
    <3>1. /\ at[s] = readAt[c] /\ hand[s] = pushed[c][readAt[c] + 1]
          /\ readAt[c] + 1 \in DOMAIN pushed[c] /\ Place(c, at[s] + 1) = readAt[c] + 1
      <4>1. Sole(c) /\ s \in Started(c)
        <5>1. \A r \in Started(c) : r = s
          BY <1>b, <2>1 DEF Started
        <5> QED
          BY <2>1, <5>1 DEF Sole, Started
      <4>2. at[s] = readAt[c] /\ hand[s] = pushed[c][readAt[c] + 1]
        BY <2>1, <4>1 DEF Delivered, SolePops, OwnPop
      <4>3. at[s] + 1 <= Len(pushed[c])
        BY <2>1 DEF TypeInv, HandOK
      <4>4. readAt[c] + 1 \in DOMAIN pushed[c]
        <5>1. pushed[c] \in Seq(Tick) /\ readAt[c] \in Nat
          BY <1>a, <2>1
        <5>2. DOMAIN pushed[c] = 1 .. Len(pushed[c]) /\ Len(pushed[c]) \in Nat
          BY <5>1, Elements
        <5> HIDE DEF c
        <5> QED
          BY <4>2, <4>3, <5>1, <5>2
      <4>5. Place(c, at[s] + 1) = readAt[c] + 1
        <5>1. /\ Len(pushed[c]) \in readAt[c] .. readAt[c] + Capacity /\ readAt[c] \in Nat
              /\ Capacity \in Nat
          BY <2>1, BoundsAssumption DEF TypeInv, TypeOK
        <5> HIDE DEF c
        <5>2. (readAt[c] + 1) + Capacity >= Len(pushed[c])
          BY <5>1
        <5> QED
          BY <4>2, <5>2 DEF Place
      <4> QED
        BY <4>2, <4>4, <4>5
    <3>2. /\ readAt'[c] = readAt[c] + 1 /\ spc'[SenderOf(c)] = "send"
          /\ LastSent(c)' = LastSent(c) /\ Newest(c)' = Newest(c)
      BY <1>a, <1>e, <2>1, <3>1 DEF LastSent
    <3>3. manualMode[c] /\ streams[c] # 0 /\ credits[c] > 0
      <4>1. manualMode[c] /\ streams[c] # 0
        BY <1>j, <2>1
      <4> QED
        BY <1>c, <2>1, <4>1 DEF OneStream, Paced
    <3>4. /\ Ascends(pushed[c]) /\ UpTo(pushed[c], Newest(c)) /\ LastSent(c) <= Newest(c)
          /\ AboveAfter(pushed[c], readAt[c], LastSent(c))
      BY <1>c, <2>1 DEF OneStream, InOrder
    <3>5. /\ readAt[c] \in Nat /\ \A i \in DOMAIN pushed[c] : i \in Nat
      BY <1>a, <2>1, Elements
    <3>6. LastSent(c) < hand[s] /\ hand[s] <= Newest(c)
      <4>1. readAt[c] < readAt[c] + 1
        BY <3>5
      <4> QED
        BY <3>1, <3>4, <4>1 DEF UpTo, AboveAfter
    <3>7. AboveAfter(pushed[c], readAt[c] + 1, hand[s])
      BY <3>1, <3>4 DEF Ascends, AboveAfter
    <3>8. AboveAfter(pushed[c], readAt[c] + 1, LastSent(c))
      <4>1. \A i \in DOMAIN pushed[c] : readAt[c] + 1 < i => readAt[c] < i
        BY <3>5
      <4> QED
        BY <3>4, <4>1 DEF AboveAfter
    <3>9. InOrder(c)'
      BY <2>1, <3>2, <3>4, <3>6, <3>7, <3>8 DEF InOrder, Ascends, UpTo, AboveAfter
    <3>10. Settled(c)'
      <4>1. pushed[c] # << >>
        BY <3>1
      <4> QED
        BY <1>c, <2>1, <3>3, <4>1 DEF OneStream, Settled, NotStarted, Direct, Underway, Idle
    <3>11. Paced(c)'
      BY <1>c, <2>1, <3>2, <3>3 DEF OneStream, Paced, Spending
    <3> QED
      BY <2>3, <3>9, <3>10, <3>11 DEF OneStream
  <2> QED
    BY <2>2, <2>3
<1>11. ASSUME NEW s \in Sender, SendTick(s), NEW d \in Client
       PROVE  OneStream(d)'
  <2> DEFINE c == s[1]
  <2>1. /\ UNCHANGED <<log, visiting, way, streams, manualMode, tickers, allTickers, pushed,
                       readAt, credits, nexts, early, pc>>
        /\ sent' = [sent EXCEPT ![c] = Append(@, hand[s])]
        /\ hand' = [hand EXCEPT ![s] = NoTick]
        /\ spc' = [spc EXCEPT ![s] = "spend"] /\ spc[s] = "send"
        /\ s = SenderOf(c) /\ c \in Client /\ pc[c] # "destroyed"
    BY <1>11, <1>b DEF SendTick, SenderAt
  <2>2. CASE d # c
    <3>1. Untouched(d)
      BY <1>a, <1>b, <2>1, <2>2 DEF Untouched
    <3> QED
      BY <1>g, <2>1, <3>1
  <2>3. CASE d = c
    <3>1. manualMode[c] /\ streams[c] # 0
      BY <1>j, <2>1
    <3>2. hand[s] \in Tick /\ spc'[SenderOf(c)] = "spend"
      BY <1>a, <2>1 DEF TypeInv, HandOK
    <3>3. /\ Len(sent'[c]) = Len(sent[c]) + 1 /\ LastSent(c)' = hand[s]
      <4>1. sent'[c] = Append(sent[c], hand[s]) /\ sent[c] \in Seq(Tick)
        BY <1>a, <2>1
      <4>2. /\ sent'[c] # << >> /\ Len(sent'[c]) = Len(sent[c]) + 1
            /\ sent'[c][Len(sent[c]) + 1] = hand[s]
        BY <3>2, <4>1, AppendElements
      <4> QED
        BY <4>2 DEF LastSent
    <3>4. Settled(c)'
      <4>1. pushed[c] # << >>
        BY <1>c, <2>1 DEF OneStream, Settled, Idle
      <4> QED
        BY <1>c, <2>1, <3>1, <4>1 DEF OneStream, Settled, NotStarted, Direct, Underway, Idle
    <3>5. Paced(c)'
      <4>1. credits[c] + Len(sent[c]) = (nexts[c] + early[c]) + 0
        BY <1>c, <2>1, <3>1 DEF OneStream, Paced, Spending
      <4>2. credits[c] \in Int /\ Len(sent[c]) \in Int /\ nexts[c] + early[c] \in Int
        <5>1. c \in Client
          BY <2>1
        <5> HIDE DEF c
        <5>2. /\ credits[c] \in Int /\ Len(sent[c]) \in Nat
              /\ nexts[c] \in Nat /\ early[c] \in Nat
          BY <1>a, <1>d, <5>1
        <5> QED
          BY <5>2
      <4>3. credits[c] + Len(sent'[c]) = (nexts[c] + early[c]) + 1
        <5> HIDE DEF c
        <5>1. credits[c] + (Len(sent[c]) + 1) = (nexts[c] + early[c]) + 1
          BY <4>1, <4>2, SumMoves
        <5> QED
          BY <3>3, <5>1
      <4>4. /\ manualMode'[c] /\ spc'[SenderOf(c)] = "spend"
            /\ credits'[c] = credits[c] /\ nexts'[c] = nexts[c] /\ early'[c] = early[c]
        BY <2>1, <3>1, <3>2
      <4>5. Spending(c)' = 1
        BY <4>4 DEF Spending
      <4> QED
        BY <4>3, <4>4, <4>5 DEF Paced
    <3>6. InOrder(c)'
      <4>1. /\ Ascends(pushed[c]) /\ UpTo(pushed[c], Newest(c))
            /\ hand[s] <= Newest(c) /\ AboveAfter(pushed[c], readAt[c], hand[s])
        BY <1>c, <2>1 DEF OneStream, InOrder
      <4>2. Newest(c)' = Newest(c)
        BY <1>e, <2>1
      <4> QED
        BY <2>1, <3>2, <3>3, <4>1, <4>2 DEF InOrder, Ascends, UpTo, AboveAfter
    <3> QED
      BY <2>3, <3>4, <3>5, <3>6 DEF OneStream
  <2> QED
    BY <2>2, <2>3
<1>12. ASSUME NEW s \in Sender, SpendCredit(s), NEW d \in Client
       PROVE  OneStream(d)'
  <2> DEFINE c == s[1]
  <2>1. /\ UNCHANGED <<log, visiting, way, streams, manualMode, tickers, allTickers, pushed,
                       readAt, hand, sent, nexts, early, pc>>
        /\ credits' = [credits EXCEPT ![c] = @ - 1]
        /\ spc' = [spc EXCEPT ![s] = "check"] /\ spc[s] = "spend"
        /\ s = SenderOf(c) /\ c \in Client /\ pc[c] # "destroyed"
    BY <1>12, <1>b DEF SpendCredit, SenderAt, AfterSending
  <2>2. CASE d # c
    <3>1. Untouched(d)
      BY <1>a, <1>b, <2>1, <2>2 DEF Untouched
    <3> QED
      BY <1>g, <2>1, <3>1
  <2>3. CASE d = c
    <3>1. manualMode[c] /\ streams[c] # 0
      BY <1>j, <2>1
    <3>2. spc'[SenderOf(c)] = "check"
      BY <1>a, <2>1
    <3>3. Settled(c)'
      BY <1>c, <2>1, <3>1, <3>2 DEF OneStream, Settled, NotStarted, Direct, Underway, Idle
    <3>4. Paced(c)'
      <4>1. credits[c] + Len(sent[c]) = (nexts[c] + early[c]) + 1
        BY <1>c, <2>1, <3>1 DEF OneStream, Paced, Spending
      <4>c. c \in Client /\ credits' = [credits EXCEPT ![c] = @ - 1]
        BY <2>1
      <4> HIDE DEF c
      <4>2. /\ credits[c] \in Int /\ Len(sent[c]) \in Int /\ nexts[c] + early[c] \in Int
            /\ credits'[c] = credits[c] - 1
        <5>1. /\ credits[c] \in Int /\ Len(sent[c]) \in Nat
              /\ nexts[c] \in Nat /\ early[c] \in Nat
          BY <1>a, <1>d, <4>c
        <5>2. credits'[c] = credits[c] - 1
          BY <1>a, <4>c
        <5> QED
          BY <5>1, <5>2
      <4>3. credits'[c] + Len(sent[c]) = (nexts[c] + early[c]) + 0
        BY <4>1, <4>2, SumMoves
      <4>4. /\ manualMode'[c] /\ spc'[SenderOf(c)] = "check" /\ early'[c] = early[c]
            /\ sent'[c] = sent[c] /\ nexts'[c] = nexts[c]
        BY <2>1, <3>1, <3>2
      <4>5. Spending(c)' = 0
        BY <4>4 DEF Spending
      <4> QED
        BY <4>3, <4>4, <4>5 DEF Paced
    <3>5. InOrder(c)'
      BY <1>h, <2>1, <3>2
    <3> QED
      BY <2>3, <3>3, <3>4, <3>5 DEF OneStream
  <2> QED
    BY <2>2, <2>3
<1>13. ASSUME NEW d \in Client,
              \/ AcceptNoMore \/ Stop \/ Stopped \/ DeliveredToAll \/ Finished
              \/ UNCHANGED vars
              \/ \E c \in Client :
                   \/ Accept(c) \/ StopClient(c) \/ Begin(c) \/ ReplyOk(c)
                   \/ NoMessage(c) \/ Disconnect(c) \/ RemoveClient(c)
              \/ \E s \in Sender : WaitForTick(s)
       PROVE  OneStream(d)'
  <2>1. UNCHANGED <<log, visiting, way, streams, manualMode, tickers, allTickers, pushed, readAt,
                    spc, hand, sent, nexts, credits, early>>
    BY <1>13 DEF AcceptNoMore, Stop, Stopped, DeliveredToAll, Finished, vars, Accept, StopClient,
       Begin, ReplyOk, NoMessage, Disconnect, RemoveClient, WaitForTick
  <2>2. Untouched(d)
    BY <2>1 DEF Untouched
  <2> QED
    BY <1>g, <2>1, <2>2
<1> QED
  BY <1>1, <1>2, <1>3, <1>4, <1>5, <1>6, <1>7, <1>8, <1>9, <1>10, <1>11, <1>12, <1>13
     DEF OneStreamEach, Next, EventLoop, IncomingTick, SenderStep

LEMMA StreamStep ==
  ASSUME TypeInv, TypeInv', MaxStreams = 1, OneStreamEach, [Next]_vars
  PROVE  [Stream!Next]_(Stream!streamVars)
<1> USE DEF tickVars, stopVars, requestVars, modeVars, queueVars, senderVars, promiseVars
<1>a. /\ \A c \in Client : SenderOf(c) \in Sender
      /\ \A s \in Sender : s[1] \in Client /\ s = SenderOf(s[1])
  BY DEF Sender, SenderOf
<1>b. \A c \in Client : OneStream(c)
  BY DEF OneStreamEach
<1>c. \A c \in Client : /\ Newest(c) \in Nat /\ LastSent(c) \in Nat /\ Len(log) \in Nat
                        /\ LastSent(c) = Stream!LastSent(c) /\ Newest(c) <= Len(log)
  BY NumberTypes DEF LastSent, Stream!LastSent, Newest
<1>1. ASSUME NEW ticker \in Ticker, ProduceTick(ticker)
      PROVE  Stream!Produce
  <2>1. /\ log \in Seq(Ticker) /\ log' = Append(log, ticker)
        /\ UNCHANGED <<manualMode, nexts, sent, early>>
    BY <1>1 DEF ProduceTick, TypeInv, TypeOK
  <2>2. Len(log') = Len(log) + 1
    BY <2>1, AppendElements
  <2> QED
    BY <2>1, <2>2 DEF Stream!Produce
<1>2. ASSUME NEW c \in Client, NEW manual \in BOOLEAN, NEW list \in Requests,
             StartStream(c, manual, list)
      PROVE  Stream!SetMode(c)
  <2>1. streams[c] = 0
    <3>1. streams[c] \in 0 .. MaxStreams /\ streams[c] < MaxStreams
      BY <1>2 DEF StartStream, TypeInv, TypeOK
    <3> QED
      BY <3>1
  <2>2. sent[c] = << >>
    BY <1>b, <2>1 DEF OneStream, Settled, NotStarted
  <2> QED
    BY <1>2, <2>2 DEF StartStream, Stream!SetMode
<1>3. ASSUME NEW c \in Client, NextTick(c)
      PROVE  Stream!AskNext(c)
  BY <1>3 DEF NextTick, Stream!AskNext
<1>4. ASSUME NEW c \in Client, SendDirect(c)
      PROVE  Stream!Send(c) \/ Stream!SendUnderway(c) \/ UNCHANGED Stream!streamVars
  <2>1. /\ way[c] = "send" /\ UNCHANGED <<log, manualMode, nexts>>
        /\ \/ /\ sent' = [sent EXCEPT ![c] = Append(@, Len(log))]
              /\ early' = [early EXCEPT ![c] = @ + (IF manualMode[c] THEN 1 ELSE 0)]
           \/ UNCHANGED <<sent, early>>
    BY <1>4 DEF SendDirect
  <2>2. CASE UNCHANGED <<sent, early>>
    BY <2>1, <2>2 DEF Stream!streamVars
  <2>3. CASE /\ sent' = [sent EXCEPT ![c] = Append(@, Len(log))]
             /\ early' = [early EXCEPT ![c] = @ + (IF manualMode[c] THEN 1 ELSE 0)]
    <3>1. Len(log) \in Stream!LastSent(c) + 1 .. Len(log)
      <4>1. c \in visiting
        BY <2>1 DEF TypeInv, ClientsOK
      <4>2. LastSent(c) <= Len(log) - 1
        BY <1>b, <4>1 DEF OneStream, InOrder, Newest
      <4> QED
        BY <1>c, <4>2
    <3>2. Stream!SendNew(c)
      BY <2>3, <3>1 DEF Stream!SendNew
    <3>3. CASE manualMode[c]
      <4>1. sent[c] = << >>
        BY <1>b, <2>1, <3>3 DEF OneStream, Settled, Underway
      <4>2. early' = [early EXCEPT ![c] = @ + 1]
        BY <2>3, <3>3
      <4> QED
        BY <2>1, <3>2, <3>3, <4>1, <4>2 DEF Stream!SendUnderway
    <3>4. CASE ~ manualMode[c]
      <4>1. early \in [Client -> Nat]
        BY DEF TypeInv, TypeOK
      <4>2. early' = early
        <5>1. early' = [early EXCEPT ![c] = early[c] + 0] /\ early[c] + 0 = early[c]
          BY <2>3, <3>4, <4>1
        <5> QED
          BY <4>1, <5>1
      <4> QED
        BY <2>1, <3>2, <3>4, <4>2 DEF Stream!Send
    <3> QED
      BY <3>3, <3>4
  <2> QED
    BY <2>1, <2>2, <2>3
<1>5. ASSUME NEW s \in Sender, SendTick(s)
      PROVE  Stream!Send(s[1])
  <2> DEFINE c == s[1]
  <2>1. /\ UNCHANGED <<log, manualMode, nexts, early>>
        /\ sent' = [sent EXCEPT ![c] = Append(@, hand[s])]
        /\ spc[SenderOf(c)] = "send" /\ c \in Client /\ s = SenderOf(c)
        /\ pc[c] # "destroyed"
    BY <1>a, <1>5 DEF SendTick, SenderAt
  <2>2. hand[s] \in Nat /\ LastSent(c) < hand[s] /\ hand[s] <= Newest(c)
    BY <1>b, <2>1, NumberTypes DEF OneStream, InOrder
  <2>3. hand[s] \in Stream!LastSent(c) + 1 .. Len(log)
    BY <1>c, <2>1, <2>2
  <2>4. manualMode[c] => Len(sent[c]) < nexts[c] + early[c]
    <3>1. /\ manualMode[c] => credits[c] + Len(sent[c]) = (nexts[c] + early[c]) + 0
          /\ credits[c] > 0
      BY <1>b, <2>1 DEF OneStream, Paced, Spending
    <3>2. /\ credits[c] \in Int /\ nexts[c] \in Nat /\ early[c] \in Nat
          /\ Len(sent[c]) \in Nat
      BY <2>1, NumberTypes DEF TypeInv, TypeOK
    <3> HIDE DEF c
    <3> QED
      BY <3>1, <3>2
  <2>5. Stream!SendNew(c)
    BY <2>1, <2>3 DEF Stream!SendNew
  <2> QED
    BY <2>1, <2>4, <2>5 DEF Stream!Send
<1>6. ASSUME \/ AcceptNoMore \/ Stop \/ Stopped \/ DeliveredToAll \/ Finished
             \/ UNCHANGED vars
             \/ \E c \in Client :
                  \/ Accept(c) \/ StopClient(c) \/ Begin(c) \/ SubscribeNext(c)
                  \/ StartSender(c) \/ ReplyOk(c) \/ NoMessage(c) \/ Disconnect(c)
                  \/ RemoveClient(c) \/ EnterClient(c) \/ PushTick(c)
             \/ \E s \in Sender : SenderStep(s) \/ Orphaned(s)
      PROVE  UNCHANGED Stream!streamVars
  <2>1. CASE \/ AcceptNoMore \/ Stop \/ Stopped \/ DeliveredToAll \/ Finished
             \/ UNCHANGED vars
    BY <2>1 DEF AcceptNoMore, Stop, Stopped, DeliveredToAll, Finished, vars, Stream!streamVars
  <2>2. CASE \E c \in Client :
                  \/ Accept(c) \/ StopClient(c) \/ Begin(c) \/ SubscribeNext(c)
                  \/ StartSender(c) \/ ReplyOk(c) \/ NoMessage(c) \/ Disconnect(c)
                  \/ RemoveClient(c) \/ EnterClient(c) \/ PushTick(c)
    BY <2>2 DEF Accept, StopClient, Begin, SubscribeNext, StartSender, ReplyOk, NoMessage,
       Disconnect, RemoveClient, EnterClient, PushTick, Stream!streamVars
  <2>3. CASE \E s \in Sender : SenderStep(s) \/ Orphaned(s)
    BY <2>3 DEF SenderStep, CheckQueue, WaitForTick, LoadIndex, CopyTick, StoreIndex,
       SpendCredit, Orphaned, Stream!streamVars
  <2> QED
    BY <1>6, <2>1, <2>2, <2>3
<1>7. \/ Stream!Next
      \/ UNCHANGED Stream!streamVars
  BY <1>1, <1>2, <1>3, <1>4, <1>5, <1>6, <1>a
     DEF Next, EventLoop, IncomingTick, Stream!Next
<1> QED
  BY <1>7

(***************************************************************************)
(* For any number of clients that ask for one stream each, the quote       *)
(* source implements TickStream, whatever the interleaving of its threads  *)
(* and the feeding thread: ticks arrive in the order they were produced,   *)
(* none twice, and in manual mode no more than were asked for, but for one *)
(* that was underway, unpaced, when the mode was set.                      *)
(***************************************************************************)
THEOREM ImplementsStream == ASSUME MaxStreams = 1 PROVE Spec => StreamSpec
<1> DEFINE OneStreamInv == TypeInv /\ Delivered /\ OneStreamEach
<1>1. Init => OneStreamInv
  BY InitTypeInv, InitDelivered, InitOneStream
<1>2. OneStreamInv /\ [Next]_vars => OneStreamInv'
  BY NextTypeInv, NextDelivered, NextOneStream
<1>3. Init => Stream!Init
  <2>1. Len(<< >>) = 0
    OBVIOUS
  <2> QED
    BY <2>1 DEF Init, Stream!Init
<1>4. OneStreamInv /\ OneStreamInv' /\ [Next]_vars => [Stream!Next]_(Stream!streamVars)
  BY StreamStep
<1> QED
  BY <1>1, <1>2, <1>3, <1>4, PTL DEF Spec, StreamSpec, Stream!Spec

=============================================================================
