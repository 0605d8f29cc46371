------------------------- MODULE BrokerServerProofs -------------------------
(***************************************************************************)
(* Invariance proofs for BrokerServer, in layers: each invariant is proved *)
(* inductive relative to those before it.                                  *)
(***************************************************************************)
EXTENDS BrokerServer, SequenceTheorems, TLAPS

-----------------------------------------------------------------------------
(* Lists of orders. *)

(* Erasing from a vector shifts what follows down by one and keeps the rest. *)
LEMMA RemoveAtShifts ==
  ASSUME NEW S, NEW s \in Seq(S), NEW i \in DOMAIN s
  PROVE  /\ RemoveAt(s, i) \in Seq(S)
         /\ Len(RemoveAt(s, i)) = Len(s) - 1
         /\ \A j \in 1 .. Len(s) - 1 :
              RemoveAt(s, i)[j] = IF j < i THEN s[j] ELSE s[j + 1]
<1> DEFINE front == SubSeq(s, 1, i - 1)
           back == SubSeq(s, i + 1, Len(s))
           whole == front \o back
<1>1. /\ Len(s) \in Nat /\ i \in 1 .. Len(s) /\ i \in Int
      /\ \A j \in 1 .. Len(s) : s[j] \in S
  BY LenProperties, ElementOfSeq
<1>2. /\ front \in Seq(S) /\ Len(front) = i - 1
      /\ \A j \in 1 .. i - 1 : front[j] = s[j]
  <2>1. \A j \in 1 .. i - 1 : s[j] \in S
    BY <1>1
  <2>2. /\ front \in Seq(S)
        /\ Len(front) = IF 1 <= i - 1 THEN (i - 1) - 1 + 1 ELSE 0
        /\ \A j \in 1 .. (i - 1) - 1 + 1 : front[j] = s[1 + j - 1]
    BY <1>1, <2>1, SubSeqProperties
  <2> QED
    BY <1>1, <2>2
<1>3. /\ back \in Seq(S) /\ Len(back) = Len(s) - i
      /\ \A j \in 1 .. Len(s) - i : back[j] = s[i + j]
  <2>1. \A j \in i + 1 .. Len(s) : s[j] \in S
    BY <1>1
  <2>2. /\ back \in Seq(S)
        /\ Len(back) = IF i + 1 <= Len(s) THEN Len(s) - (i + 1) + 1 ELSE 0
        /\ \A j \in 1 .. Len(s) - (i + 1) + 1 : back[j] = s[i + 1 + j - 1]
    BY <1>1, <2>1, SubSeqProperties
  <2> HIDE DEF back
  <2> QED
    BY <1>1, <2>2
<1> HIDE DEF front, back
<1>4. /\ whole \in Seq(S)
      /\ Len(whole) = Len(s) - 1
      /\ \A j \in 1 .. Len(s) - 1 :
           whole[j] = IF j <= i - 1 THEN front[j] ELSE back[j - (i - 1)]
  BY <1>1, <1>2, <1>3, ConcatProperties, SMTT(30) DEF whole
<1> HIDE DEF whole
<1>5. \A j \in 1 .. Len(s) - 1 :
        whole[j] = IF j < i THEN s[j] ELSE s[j + 1]
  <2> SUFFICES ASSUME NEW j \in 1 .. Len(s) - 1
               PROVE  whole[j] = IF j < i THEN s[j] ELSE s[j + 1]
    OBVIOUS
  <2>1. CASE j < i
    BY <1>1, <1>2, <1>4, <2>1
  <2>2. CASE j >= i
    <3>1. j - (i - 1) \in 1 .. Len(s) - i /\ i + (j - (i - 1)) = j + 1
      BY <1>1, <2>2
    <3>2. back[j - (i - 1)] = s[j + 1]
      BY <1>3, <3>1
    <3> QED
      BY <1>1, <1>4, <2>2, <3>2
  <2> QED
    BY <1>1, <2>1, <2>2
<1> QED
  BY <1>4, <1>5 DEF RemoveAt, front, back, whole

-----------------------------------------------------------------------------
(* Types, and what the threads hold while they work on an order or a trade. *)

ThreadsOK ==
  /\ \A c \in Client : pc[c] \in {"acknowledge", "submit", "confirm", "cancel"} =>
       current[c] \in OrderId
  /\ xpc \in {"apply", "report"} => trade.client \in Client
  /\ xpc \in {"apply", "report", "forward"} => trade.order \in OrderId

TypeInv == TypeOK /\ ThreadsOK

LEMMA ReportedType ==
  ASSUME TypeOK, NEW o, NEW s \in State
  PROVE  Reported(o, s) \in [Client \X OrderId -> State \cup {Nothing}]
  BY DEF TypeOK, Reported

LEMMA ListedType ==
  ASSUME TypeOK, NEW c \in Client, NEW i \in DOMAIN clientOrders[c]
  PROVE  clientOrders[c][i] \in OrderId /\ i \in 1 .. Len(clientOrders[c])
<1>1. clientOrders[c] \in Seq(OrderId)
  BY DEF TypeOK
<1>2. i \in 1 .. Len(clientOrders[c])
  BY <1>1, LenProperties
<1> QED
  BY <1>1, <1>2, ElementOfSeq

LEMMA SlotOrderType ==
  ASSUME TypeInv, NEW c \in Client, SlotOrder(c) # NoOrder
  PROVE  SlotOrder(c) \in OrderId
<1>1. CASE Dangling(c)
  BY <1>1 DEF TypeInv, TypeOK, SlotOrder
<1>2. CASE ~ Dangling(c)
  <2>1. clientOrders[c] \in Seq(OrderId) /\ slot[c] \in DOMAIN clientOrders[c]
    BY <1>2 DEF Dangling, TypeInv, TypeOK
  <2> QED
    BY <1>2, <2>1, ElementOfSeq, LenProperties DEF SlotOrder
<1> QED
  BY <1>1, <1>2

LEMMA InitTypeInv == Init => TypeInv
<1> SUFFICES ASSUME Init
             PROVE  TypeInv
  OBVIOUS
<1>1. gsId \in 1 .. MaxOrders + 1
  BY MaxOrdersAssumption DEF Init
<1>2. << >> \in Seq(OrderId)
  OBVIOUS
<1>3. clientOrders \in [Client -> Seq(OrderId)]
  BY <1>2 DEF Init
<1>4. /\ trade \in [client : Client \cup {NoClient}, order : OrderId \cup {NoOrder},
                   quantity : Nat]
      /\ told \in [Client \X OrderId -> State \cup {Nothing}]
      /\ traded \in [Client \X OrderId -> Nat]
  BY DEF Init
<1>5. /\ executedQuantity \in [OrderId -> Nat] /\ quantity \in [OrderId -> Nat]
      /\ forwarded \in [OrderId -> Nat] /\ acked \in [OrderId -> BOOLEAN]
      /\ state \in [OrderId -> State]
      /\ owner \in [OrderId -> Client \cup {NoClient}]
      /\ clientAssignedId \in [OrderId -> Int]
  BY DEF Init, State
<1>6. /\ pc \in [Client -> {"none", "read", "acknowledge", "submit", "confirm",
                            "cancel", "ended"}]
      /\ identity \in [Client -> BOOLEAN]
      /\ current \in [Client -> OrderId \cup {NoOrder}]
      /\ slot \in [Client -> Nat]
      /\ retiredOrders \in [Client -> SUBSET OrderId]
      /\ husk \in [Client -> OrderId \cup {NoOrder}]
  BY DEF Init
<1>7. TypeOK
  BY <1>1, <1>3, <1>4, <1>5, <1>6 DEF Init, TypeOK
<1> QED
  BY <1>7 DEF Init, TypeInv, ThreadsOK

LEMMA SessionTypeInv ==
  ASSUME TypeInv, NEW c \in Client, Session(c)
  PROVE  TypeInv'
<1>a. \A i \in DOMAIN clientOrders[c] : clientOrders[c][i] \in OrderId /\ i \in Nat
  BY ListedType DEF TypeInv
<1> USE DEF TypeInv, TypeOK, ThreadsOK, listVars, sessionVars, bookVars, orderVars,
            fillVars, brokerVars, sentVars, At
<1>1. CASE GetIdentity(c)
  BY <1>1 DEF GetIdentity
<1>2. CASE Disconnect(c)
  BY <1>2 DEF Disconnect
<1>3. ASSUME NEW id \in ClientOrderId, RefuseDuplicate(c, id)
      PROVE  TypeInv'
  <2>1. gsId + 1 \in 1 .. MaxOrders + 1
    BY <1>3, MaxOrdersAssumption DEF RefuseDuplicate, OrderId
  <2> QED
    BY <1>3, <2>1 DEF RefuseDuplicate
<1>4. ASSUME NEW id \in ClientOrderId, NEW q \in Quantity, AddOrder(c, id, q)
      PROVE  TypeInv'
  <2>1. gsId \in OrderId /\ gsId + 1 \in 1 .. MaxOrders + 1
    BY <1>4, MaxOrdersAssumption DEF AddOrder, OrderId
  <2>2. id \in Int /\ q \in Nat
    BY ClientOrderIdAssumption, QuantityAssumption
  <2>3. clientOrders' \in [Client -> Seq(OrderId)]
    BY <1>4, <2>1, AppendProperties DEF AddOrder
  <2> QED
    BY <1>4, <2>1, <2>2, <2>3 DEF AddOrder, StepAfter
<1>5. CASE AckOrder(c)
  BY <1>5 DEF AckOrder, StepAfter
<1>6. CASE SubmitToBroker(c)
  BY <1>6, ZenonT(60) DEF SubmitToBroker, StepAfter, BrokerMutexFree
<1>7. ASSUME NEW i \in DOMAIN clientOrders[c], FindForCancel(c, i)
      PROVE  TypeInv'
  <2>1. clientOrders[c][i] \in OrderId /\ i \in Nat
    BY <1>7, <1>a
  <2> QED
    BY <1>7, <2>1 DEF FindForCancel
<1>8. CASE ConfirmCancel(c)
  BY <1>8 DEF ConfirmCancel
<1>9. CASE CancelAtBroker(c)
  <2>1. told' \in [Client \X OrderId -> State \cup {Nothing}]
    BY <1>9, ReportedType DEF CancelAtBroker, State
  <2> QED
    BY <1>9, <2>1 DEF CancelAtBroker, State
<1>10. CASE CancelCrash(c)
  BY <1>10 DEF CancelCrash
<1> QED
  BY <1>1, <1>2, <1>3, <1>4, <1>5, <1>6, <1>7, <1>8, <1>9, <1>10 DEF Session

LEMMA BrokerTypeInv ==
  ASSUME TypeInv, Broker
  PROVE  TypeInv'
<1>a. \A o : Reported(o, "submitted") \in [Client \X OrderId -> State \cup {Nothing}]
  BY ReportedType DEF TypeInv, State
<1> USE DEF TypeInv, TypeOK, ThreadsOK, listVars, sessionVars, bookVars, orderVars,
            fillVars, brokerVars, sentVars, BrokerAt
<1>1. CASE LockBroker
  BY <1>1 DEF LockBroker
<1>2. CASE AcceptNext
  <2>1. told' \in [Client \X OrderId -> State \cup {Nothing}]
    <3>1. CASE \E o \in Waiting : told' = Reported(o, "submitted")
      <4>1. PICK o \in Waiting : told' = Reported(o, "submitted")
        BY <3>1
      <4>2. Reported(o, "submitted") \in [Client \X OrderId -> State \cup {Nothing}]
        BY <1>a
      <4> QED
        BY <4>1, <4>2
    <3>2. CASE UNCHANGED told
      BY <3>2
    <3> QED
      BY <1>2, <3>1, <3>2 DEF AcceptNext
  <2>2. state' \in [OrderId -> State]
    BY <1>2 DEF AcceptNext, State
  <2> QED
    BY <1>2, <2>1, <2>2 DEF AcceptNext
<1>3. ASSUME NEW o \in OrderId, NEW lot \in Lot, Fill(o, lot)
      PROVE  TypeInv'
  <2>1. lot \in Nat
    BY QuantityAssumption
  <2>2. allOrders' \subseteq OrderId
    BY <1>3 DEF Fill
  <2>3. CASE \E c \in Holders(o) :
               /\ trade' = [client |-> c, order |-> o, quantity |-> lot]
               /\ traded' = [traded EXCEPT ![<<c, o>>] = @ + lot]
               /\ xpc' = "apply"
    <3>1. PICK c \in Client :
               /\ trade' = [client |-> c, order |-> o, quantity |-> lot]
               /\ traded' = [traded EXCEPT ![<<c, o>>] = @ + lot]
               /\ xpc' = "apply"
      BY <2>3 DEF Holders
    <3>2. traded' \in [Client \X OrderId -> Nat]
      <4>1. <<c, o>> \in Client \X OrderId /\ traded[<<c, o>>] + lot \in Nat
        BY <3>1, <2>1, SMTT(30)
      <4> QED
        BY <3>1, <4>1
    <3> QED
      BY <1>3, <2>1, <2>2, <3>1, <3>2 DEF Fill
  <2>4. CASE /\ trade' = [client |-> NoClient, order |-> o, quantity |-> lot]
             /\ xpc' = "forward"
             /\ UNCHANGED traded
    BY <1>3, <2>1, <2>2, <2>4 DEF Fill
  <2> QED
    BY <1>3, <2>3, <2>4 DEF Fill
<1>4. CASE ApplyTrade
  <2> DEFINE c == trade.client
             o == trade.order
             executed == NewExecuted(o, trade.quantity)
             s == StateAfterFill(o, executed)
  <2>1. c \in Client /\ o \in OrderId /\ executed \in Nat
    BY <1>4 DEF ApplyTrade, NewExecuted
  <2>2. s \in State
    BY DEF StateAfterFill, State
  <2>3. /\ clientOrders' \in [Client -> Seq(OrderId)]
        /\ retiredOrders' \in [Client -> SUBSET OrderId]
        /\ husk' \in [Client -> OrderId \cup {NoOrder}]
    <3>1. CASE UNCHANGED bookVars
      BY <3>1
    <3>2. ASSUME NEW i \in DOMAIN clientOrders[c],
                 clientOrders' = [clientOrders EXCEPT ![c] = RemoveAt(@, i)],
                 retiredOrders' = [retiredOrders EXCEPT ![c] = @ \cup {o}],
                 husk' = Left(c, i)
          PROVE  /\ clientOrders' \in [Client -> Seq(OrderId)]
                 /\ retiredOrders' \in [Client -> SUBSET OrderId]
                 /\ husk' \in [Client -> OrderId \cup {NoOrder}]
      <4>1. clientOrders[c] \in Seq(OrderId)
        BY <2>1
      <4>2. RemoveAt(clientOrders[c], i) \in Seq(OrderId)
        BY <3>2, <4>1, RemoveAtShifts
      <4>3. clientOrders[c][i] \in OrderId
        BY <2>1, <3>2, ListedType
      <4>4. husk' \in [Client -> OrderId \cup {NoOrder}]
        BY <3>2, <4>3 DEF Left
      <4> QED
        BY <2>1, <3>2, <4>2, <4>4
    <3> QED
      BY <1>4, <3>1, <3>2 DEF ApplyTrade, Retire
  <2>4. executedQuantity' \in [OrderId -> Nat] /\ state' \in [OrderId -> State]
    BY <1>4, <2>1, <2>2 DEF ApplyTrade
  <2> QED
    BY <1>4, <2>1, <2>3, <2>4 DEF ApplyTrade
<1>7. CASE ReportState
  <2>1. told' \in [Client \X OrderId -> State \cup {Nothing}]
    BY <1>7 DEF ReportState
  <2> QED
    BY <1>7, <2>1 DEF ReportState
<1>5. CASE ForwardTrade
  <2>1. forwarded' \in [OrderId -> Nat]
    BY <1>5 DEF ForwardTrade
  <2> QED
    BY <1>5, <2>1 DEF ForwardTrade
<1>6. CASE UnlockBroker
  BY <1>6 DEF UnlockBroker
<1> QED
  BY <1>1, <1>2, <1>3, <1>4, <1>5, <1>6, <1>7 DEF Broker

LEMMA NextTypeInv == TypeInv /\ [Next]_vars => TypeInv'
<1> SUFFICES ASSUME TypeInv, [Next]_vars
             PROVE  TypeInv'
  OBVIOUS
<1> USE DEF TypeInv, TypeOK, ThreadsOK, listVars, sessionVars, bookVars, orderVars,
            fillVars, brokerVars, sentVars
<1>1. ASSUME NEW c \in Client, Accept(c)
      PROVE  TypeInv'
  BY <1>1 DEF Accept, At
<1>2. CASE Register
  BY <1>2 DEF Register
<1>3. CASE UNCHANGED vars
  BY <1>3 DEF vars
<1> QED
  BY <1>1, <1>2, <1>3, SessionTypeInv, BrokerTypeInv DEF Next

(***************************************************************************)
(* The variables keep their types, whatever the number of sessions and     *)
(* orders; each thread holds an order while it works on one.               *)
(***************************************************************************)
THEOREM TypeCorrect == Spec => []TypeOK
<1>1. TypeInv => TypeOK
  BY DEF TypeInv
<1> QED
  BY <1>1, InitTypeInv, NextTypeInv, PTL DEF Spec

-----------------------------------------------------------------------------
(* What a session lists. An order it adds has a fresh id, so that no list   *)
(* can name it yet; a retired order leaves the list at the only place it    *)
(* has there.                                                               *)

OlderThanNext ==
  \A c \in Client :
    /\ \A i \in DOMAIN clientOrders[c] : clientOrders[c][i] < gsId
    /\ \A o \in retiredOrders[c] : o < gsId

BookInv == OlderThanNext /\ SessionBook

LEMMA SameBooks ==
  ASSUME TypeOK, BookInv, gsId' \in Nat, gsId <= gsId',
         UNCHANGED <<clientOrders, retiredOrders, owner, clientAssignedId>>
  PROVE  BookInv'
<1>1. \A c \in Client : \A i \in DOMAIN clientOrders[c] : clientOrders[c][i] \in Nat
  BY ListedType DEF OrderId
<1>2. \A c \in Client : \A o \in retiredOrders[c] : o \in Nat
  BY DEF TypeOK, OrderId
<1>3. gsId \in Nat
  BY DEF TypeOK
<1>4. OlderThanNext'
  BY <1>1, <1>2, <1>3 DEF BookInv, OlderThanNext
<1>5. SessionBook'
  BY DEF BookInv, SessionBook
<1> QED
  BY <1>4, <1>5 DEF BookInv

LEMMA AddOrderBook ==
  ASSUME TypeInv, BookInv, NEW c \in Client, NEW id, NEW q, AddOrder(c, id, q)
  PROVE  BookInv'
<1> DEFINE old == clientOrders[c]
<1>1. /\ gsId \in Nat /\ gsId \in OrderId /\ gsId' = gsId + 1
      /\ \A e \in Client : clientOrders[e] \in Seq(OrderId)
      /\ \A e \in Client : retiredOrders'[e] = retiredOrders[e]
  BY DEF AddOrder, TypeInv, TypeOK
<1>2. /\ clientOrders'[c] = Append(old, gsId)
      /\ \A e \in Client \ {c} : clientOrders'[e] = clientOrders[e]
  BY DEF AddOrder, TypeInv, TypeOK
<1>3. /\ owner'[gsId] = c /\ clientAssignedId'[gsId] = id
      /\ \A o \in OrderId : o < gsId =>
           owner'[o] = owner[o] /\ clientAssignedId'[o] = clientAssignedId[o]
  BY <1>1 DEF AddOrder, TypeInv, TypeOK, OrderId
<1>4. \A e \in Client : \A i \in DOMAIN clientOrders[e] :
        /\ clientOrders[e][i] \in OrderId /\ clientOrders[e][i] \in Nat
        /\ clientOrders[e][i] < gsId
        /\ owner[clientOrders[e][i]] = e
        /\ clientOrders[e][i] \notin retiredOrders[e]
  BY ListedType DEF BookInv, OlderThanNext, SessionBook, TypeInv, OrderId
<1>5. \A e \in Client : \A o \in retiredOrders[e] : o \in Nat /\ o < gsId
  BY DEF BookInv, OlderThanNext, TypeInv, TypeOK, OrderId
<1>6. /\ old \in Seq(OrderId) /\ DOMAIN old = 1 .. Len(old) /\ Len(old) \in Nat
      /\ DOMAIN Append(old, gsId) = 1 .. Len(old) + 1
      /\ \A i \in 1 .. Len(old) : Append(old, gsId)[i] = old[i]
      /\ Append(old, gsId)[Len(old) + 1] = gsId
  BY <1>1, AppendProperties, LenProperties
<1>7. \A i \in DOMAIN old : clientAssignedId[old[i]] # id
  BY <1>4 DEF AddOrder, IdInUse, ToSet
<1> HIDE DEF old
<1>8. OlderThanNext'
  <2> SUFFICES ASSUME NEW e \in Client
               PROVE  /\ \A i \in DOMAIN clientOrders'[e] : clientOrders'[e][i] < gsId'
                      /\ \A o \in retiredOrders'[e] : o < gsId'
    BY DEF OlderThanNext
  <2>1. \A o \in retiredOrders'[e] : o < gsId'
    BY <1>1, <1>5
  <2>2. CASE e = c
    <3>1. \A i \in 1 .. Len(old) : old[i] \in Nat /\ old[i] < gsId + 1
      BY <1>1, <1>4, <1>6 DEF old
    <3>2. \A i \in 1 .. Len(old) + 1 : Append(old, gsId)[i] < gsId + 1
      BY <1>1, <1>6, <3>1
    <3>3. \A i \in DOMAIN Append(old, gsId) : Append(old, gsId)[i] < gsId'
      BY <1>1, <1>6, <3>2
    <3> QED
      BY <1>2, <2>1, <2>2, <3>3
  <2>3. CASE e # c
    BY <1>1, <1>2, <1>4, <2>1, <2>3
  <2> QED
    BY <2>2, <2>3
<1>9. SessionBook'
  <2> SUFFICES ASSUME NEW e \in Client
               PROVE  /\ \A i \in DOMAIN clientOrders'[e] :
                           /\ owner'[clientOrders'[e][i]] = e
                           /\ clientOrders'[e][i] \notin retiredOrders'[e]
                      /\ \A i, j \in DOMAIN clientOrders'[e] :
                           clientAssignedId'[clientOrders'[e][i]]
                             = clientAssignedId'[clientOrders'[e][j]] => i = j
    BY DEF SessionBook
  <2>1. \A i, j \in DOMAIN clientOrders[e] :
          clientAssignedId[clientOrders[e][i]] = clientAssignedId[clientOrders[e][j]]
            => i = j
    BY DEF BookInv, SessionBook
  <2>2. CASE e # c
    <3>1. clientOrders'[e] = clientOrders[e] /\ retiredOrders'[e] = retiredOrders[e]
      BY <1>1, <1>2, <2>2
    <3>2. \A i \in DOMAIN clientOrders[e] :
            /\ owner'[clientOrders[e][i]] = e
            /\ clientAssignedId'[clientOrders[e][i]] = clientAssignedId[clientOrders[e][i]]
            /\ clientOrders[e][i] \notin retiredOrders[e]
      BY <1>3, <1>4
    <3> QED
      BY <2>1, <3>1, <3>2
  <2>3. CASE e = c
    <3>1. \A i \in 1 .. Len(old) + 1 :
            IF i = Len(old) + 1
            THEN clientOrders'[c][i] = gsId
            ELSE i \in DOMAIN old /\ clientOrders'[c][i] = old[i]
      BY <1>2, <1>6
    <3>2. \A i \in DOMAIN old :
            /\ owner'[old[i]] = c /\ old[i] \notin retiredOrders[c]
            /\ clientAssignedId'[old[i]] = clientAssignedId[old[i]]
      BY <1>3, <1>4 DEF old
    <3>3. gsId \notin retiredOrders[c]
      BY <1>1, <1>5
    <3>4. DOMAIN clientOrders'[c] = 1 .. Len(old) + 1
      BY <1>2, <1>6
    <3>5. \A i \in DOMAIN clientOrders'[c] :
            /\ owner'[clientOrders'[c][i]] = c
            /\ clientOrders'[c][i] \notin retiredOrders'[c]
      BY <1>1, <1>3, <3>1, <3>2, <3>3, <3>4
    <3>6. \A i, j \in DOMAIN clientOrders'[c] :
            clientAssignedId'[clientOrders'[c][i]]
              = clientAssignedId'[clientOrders'[c][j]] => i = j
      BY <1>3, <1>7, <2>1, <2>3, <3>1, <3>2, <3>4 DEF old
    <3> QED
      BY <2>3, <3>5, <3>6
  <2> QED
    BY <2>2, <2>3
<1> QED
  BY <1>8, <1>9 DEF BookInv

LEMMA ApplyTradeBook ==
  ASSUME TypeInv, BookInv, ApplyTrade
  PROVE  BookInv'
<1> DEFINE c == trade.client
           o == trade.order
<1>1. c \in Client /\ gsId \in Nat
  BY DEF ApplyTrade, BrokerAt, TypeInv, TypeOK, ThreadsOK
<1>2. UNCHANGED <<gsId, owner, clientAssignedId>>
  BY DEF ApplyTrade, orderVars
<1>3. CASE UNCHANGED bookVars
  BY <1>1, <1>2, <1>3, SameBooks DEF TypeInv, bookVars
<1>4. ASSUME NEW i \in DOMAIN clientOrders[c], clientOrders[c][i] = o,
             clientOrders' = [clientOrders EXCEPT ![c] = RemoveAt(@, i)],
             retiredOrders' = [retiredOrders EXCEPT ![c] = @ \cup {o}]
      PROVE  BookInv'
  <2> DEFINE old == clientOrders[c]
             new == RemoveAt(old, i)
             from(j) == IF j < i THEN j ELSE j + 1
  <2>1. /\ clientOrders'[c] = new
        /\ retiredOrders'[c] = retiredOrders[c] \cup {o}
        /\ \A e \in Client \ {c} : /\ clientOrders'[e] = clientOrders[e]
                                   /\ retiredOrders'[e] = retiredOrders[e]
    BY <1>1, <1>4 DEF TypeInv, TypeOK
  <2>2. old \in Seq(OrderId) /\ Len(old) \in Nat /\ DOMAIN old = 1 .. Len(old)
    BY <1>1, LenProperties DEF TypeInv, TypeOK
  <2>3. /\ new \in Seq(OrderId)
        /\ Len(new) = Len(old) - 1
        /\ \A j \in 1 .. Len(old) - 1 : new[j] = IF j < i THEN old[j] ELSE old[j + 1]
    BY <1>4, <2>2, RemoveAtShifts
  <2>4. DOMAIN new = 1 .. Len(old) - 1
    BY <2>3, LenProperties
  <2>5. \A j \in DOMAIN new :
          /\ from(j) \in DOMAIN old /\ from(j) # i
          /\ new[j] = old[from(j)]
    BY <1>4, <2>2, <2>3, <2>4, SMTT(30)
  <2>6. \A j, k \in DOMAIN new : from(j) = from(k) => j = k
    BY <1>4, <2>2, <2>4
  <2> HIDE DEF new, from
  <2>7. \A j \in DOMAIN old : old[j] < gsId /\ owner[old[j]] = c /\ old[j] \notin retiredOrders[c]
    BY <1>1 DEF BookInv, OlderThanNext, SessionBook
  <2>8. \A j, k \in DOMAIN old :
          clientAssignedId[old[j]] = clientAssignedId[old[k]] => j = k
    BY <1>1 DEF BookInv, SessionBook
  <2>9. \A j \in DOMAIN new : new[j] # o
    BY <1>4, <2>5, <2>8
  <2>10. OlderThanNext'
    <3> SUFFICES ASSUME NEW e \in Client
                 PROVE  /\ \A j \in DOMAIN clientOrders'[e] : clientOrders'[e][j] < gsId'
                        /\ \A p \in retiredOrders'[e] : p < gsId'
      BY DEF OlderThanNext
    <3>1. CASE e = c
      BY <1>2, <1>4, <2>1, <2>5, <2>7, <3>1 DEF BookInv, OlderThanNext
    <3>2. CASE e # c
      BY <1>2, <2>1, <3>2 DEF BookInv, OlderThanNext
    <3> QED
      BY <3>1, <3>2
  <2>11. SessionBook'
    <3> SUFFICES ASSUME NEW e \in Client
                 PROVE  /\ \A j \in DOMAIN clientOrders'[e] :
                             /\ owner'[clientOrders'[e][j]] = e
                             /\ clientOrders'[e][j] \notin retiredOrders'[e]
                        /\ \A j, k \in DOMAIN clientOrders'[e] :
                             clientAssignedId'[clientOrders'[e][j]]
                               = clientAssignedId'[clientOrders'[e][k]] => j = k
      BY DEF SessionBook
    <3>1. CASE e = c
      BY <1>2, <2>1, <2>5, <2>6, <2>7, <2>8, <2>9, <3>1
    <3>2. CASE e # c
      BY <1>2, <2>1, <3>2 DEF BookInv, SessionBook
    <3> QED
      BY <3>1, <3>2
  <2> QED
    BY <2>10, <2>11 DEF BookInv
<1> QED
  BY <1>3, <1>4 DEF ApplyTrade, Retire

LEMMA NextBookInv == TypeInv /\ BookInv /\ [Next]_vars => BookInv'
<1> SUFFICES ASSUME TypeInv, BookInv, [Next]_vars
             PROVE  BookInv'
  OBVIOUS
<1>1. ASSUME NEW c \in Client, NEW id, NEW q, AddOrder(c, id, q)
      PROVE  BookInv'
  BY <1>1, AddOrderBook
<1>2. CASE ApplyTrade
  BY <1>2, ApplyTradeBook
<1>3. ASSUME gsId' = gsId \/ gsId' = gsId + 1,
             UNCHANGED <<clientOrders, retiredOrders, owner, clientAssignedId>>
      PROVE  BookInv'
  <2>1. gsId' \in Nat /\ gsId <= gsId'
    BY <1>3 DEF TypeInv, TypeOK
  <2> QED
    BY <1>3, <2>1, SameBooks DEF TypeInv
<1> USE DEF listVars, sessionVars, bookVars, orderVars, fillVars, brokerVars, sentVars
<1>4. CASE \E c \in Client : Accept(c)
  BY <1>3, <1>4 DEF Accept
<1>5. CASE Register
  BY <1>3, <1>5 DEF Register
<1>6. ASSUME NEW c \in Client, Session(c)
      PROVE  BookInv'
  BY <1>1, <1>3, <1>6 DEF Session, GetIdentity, Disconnect, RefuseDuplicate, AckOrder,
       SubmitToBroker, FindForCancel, ConfirmCancel, CancelAtBroker, CancelCrash
<1>7. CASE Broker
  BY <1>2, <1>3, <1>7 DEF Broker, LockBroker, AcceptNext, Fill, ReportState,
       ForwardTrade, UnlockBroker
<1>8. CASE UNCHANGED vars
  BY <1>3, <1>8 DEF vars
<1> QED
  BY <1>4, <1>5, <1>6, <1>7, <1>8 DEF Next

(***************************************************************************)
(* A session's list holds its own live orders and tells them apart by the  *)
(* client's ids, whatever is added, filled and erased.                     *)
(***************************************************************************)
THEOREM SessionBookCorrect == Spec => []SessionBook
<1>1. Init => BookInv
  BY DEF Init, BookInv, OlderThanNext, SessionBook
<1>2. BookInv => SessionBook
  BY DEF BookInv
<1>3. Spec => [](TypeInv /\ BookInv)
  BY <1>1, InitTypeInv, NextTypeInv, NextBookInv, PTL DEF Spec
<1> QED
  BY <1>2, <1>3, PTL

=============================================================================
