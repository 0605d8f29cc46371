------------------------- MODULE BrokerReportProofs -------------------------
(***************************************************************************)
(* Invariance proofs for what BrokerServer reports to its clients, on top  *)
(* of the types and books of BrokerServerProofs.                           *)
(***************************************************************************)
EXTENDS BrokerServerProofs

-----------------------------------------------------------------------------
(* What a session lists, as a set. *)

Listed(c) == ToSet(clientOrders[c])

LEMMA ListedOwned ==
  ASSUME TypeInv, BookInv, NEW c \in Client, NEW o \in Listed(c)
  PROVE  /\ o \in OrderId /\ o < gsId
         /\ owner[o] = c
         /\ o \notin retiredOrders[c]
<1>1. PICK i \in DOMAIN clientOrders[c] : clientOrders[c][i] = o
  BY DEF Listed, ToSet
<1> QED
  BY <1>1, ListedType DEF TypeInv, BookInv, OlderThanNext, SessionBook

LEMMA AddOrderLists ==
  ASSUME TypeInv, NEW c \in Client, NEW id, NEW q, AddOrder(c, id, q), NEW e \in Client
  PROVE  ToSet(clientOrders'[e]) = IF e = c THEN Listed(c) \cup {gsId} ELSE Listed(e)
<1>1. /\ clientOrders[c] \in Seq(OrderId) /\ Len(clientOrders[c]) \in Nat
      /\ gsId \in OrderId
      /\ DOMAIN clientOrders[c] = 1 .. Len(clientOrders[c])
  BY LenProperties DEF TypeInv, TypeOK, AddOrder
<1>2. clientOrders' = [clientOrders EXCEPT ![c] = Append(@, gsId)]
  BY DEF AddOrder
<1>3. CASE e # c
  BY <1>2, <1>3 DEF Listed, TypeInv, TypeOK
<1>4. CASE e = c
  <2> DEFINE old == clientOrders[c]
             new == clientOrders'[c]
  <2>1. new = Append(old, gsId)
    BY <1>2 DEF TypeInv, TypeOK
  <2>2. /\ DOMAIN new = 1 .. Len(old) + 1
        /\ \A i \in 1 .. Len(old) : new[i] = old[i]
        /\ new[Len(old) + 1] = gsId
    BY <1>1, <2>1, AppendProperties, LenProperties
  <2> HIDE DEF new, old
  <2>3. ToSet(new) = ToSet(old) \cup {gsId}
    BY <1>1, <2>2 DEF ToSet, old
  <2> QED
    BY <1>4, <2>3 DEF Listed, new, old
<1> QED
  BY <1>3, <1>4

LEMMA RetireLists ==
  ASSUME TypeInv, BookInv, NEW c \in Client, NEW o, Retire(c, o), NEW e \in Client
  PROVE  /\ ToSet(clientOrders'[e]) = IF e = c THEN Listed(c) \ {o} ELSE Listed(e)
         /\ retiredOrders'[e] = IF e = c /\ o \in Listed(c)
                                THEN retiredOrders[c] \cup {o} ELSE retiredOrders[e]
<1>1. CASE o \notin Listed(c) /\ UNCHANGED bookVars
  BY <1>1 DEF Listed, bookVars
<1>2. ASSUME NEW i \in DOMAIN clientOrders[c], clientOrders[c][i] = o,
             clientOrders' = [clientOrders EXCEPT ![c] = RemoveAt(@, i)],
             retiredOrders' = [retiredOrders EXCEPT ![c] = @ \cup {o}]
      PROVE  /\ ToSet(clientOrders'[e]) = IF e = c THEN Listed(c) \ {o} ELSE Listed(e)
             /\ retiredOrders'[e] = IF e = c /\ o \in Listed(c)
                                    THEN retiredOrders[c] \cup {o} ELSE retiredOrders[e]
  <2> DEFINE old == clientOrders[c]
             new == clientOrders'[c]
  <2>1. /\ old \in Seq(OrderId) /\ Len(old) \in Nat
        /\ DOMAIN old = 1 .. Len(old)
        /\ new = RemoveAt(old, i)
    BY <1>2, LenProperties DEF TypeInv, TypeOK
  <2>2. /\ new \in Seq(OrderId) /\ Len(new) = Len(old) - 1
        /\ \A j \in 1 .. Len(old) - 1 : new[j] = IF j < i THEN old[j] ELSE old[j + 1]
    BY <1>2, <2>1, RemoveAtShifts, ZenonT(60)
  <2>3. DOMAIN new = 1 .. Len(old) - 1
    BY <2>2, LenProperties
  <2>4. \A j \in DOMAIN old : old[j] = o => j = i
    BY <1>2 DEF BookInv, SessionBook
  <2>5. o \in Listed(c)
    BY <1>2 DEF Listed, ToSet
  <2> HIDE DEF new, old
  <2>6. ToSet(new) \subseteq ToSet(old) \ {o}
    BY <1>2, <2>1, <2>2, <2>3, <2>4 DEF ToSet
  <2>7. ASSUME NEW j \in DOMAIN old, j # i
        PROVE  old[j] \in ToSet(new)
    <3>1. CASE j < i
      BY <1>2, <2>1, <2>2, <2>3, <3>1 DEF ToSet, old
    <3>2. CASE j > i
      <4>1. j - 1 \in DOMAIN new /\ new[j - 1] = old[j]
        BY <1>2, <2>1, <2>2, <2>3, <3>2 DEF old
      <4> QED
        BY <4>1 DEF ToSet
    <3> QED
      BY <1>2, <2>1, <2>7, <3>1, <3>2 DEF old
  <2>8. ToSet(old) \ {o} \subseteq ToSet(new)
    BY <1>2, <2>7 DEF ToSet, old
  <2>9. ToSet(new) = ToSet(old) \ {o}
    BY <2>6, <2>8
  <2>10. CASE e = c
    BY <1>2, <2>5, <2>9, <2>10 DEF Listed, new, old, TypeInv, TypeOK
  <2>11. CASE e # c
    BY <1>2, <2>11 DEF Listed, TypeInv, TypeOK
  <2> QED
    BY <2>10, <2>11
<1> QED
  BY <1>1, <1>2 DEF Retire, Listed

(* What a destroyed place holds afterwards is the retired order, or nothing. *)
LEMMA RetireHusk ==
  ASSUME TypeInv, NEW c \in Client, NEW o, Retire(c, o), NEW e \in Client,
         husk'[e] # husk[e]
  PROVE  /\ e = c /\ pc[c] \in {"confirm", "cancel"} /\ husk'[c] \in {NoOrder, o}
         /\ husk'[c] # NoOrder =>
              slot[c] \in DOMAIN clientOrders[c] /\ clientOrders[c][slot[c]] = o
<1>1. husk \in [Client -> OrderId \cup {NoOrder}]
  BY DEF TypeInv, TypeOK
<1>2. PICK i \in DOMAIN clientOrders[c] : clientOrders[c][i] = o /\ husk' = Left(c, i)
  BY DEF Retire, bookVars
<1> QED
  BY <1>1, <1>2 DEF Left

-----------------------------------------------------------------------------
(* Whose an order is. Nothing is known of an order nobody owns, threads     *)
(* work on orders that are owned, and the broker has owned orders only.     *)

Untouched(o) ==
  /\ executedQuantity[o] = 0 /\ forwarded[o] = 0
  /\ ~ acked[o]
  /\ \A c \in Client : told[<<c, o>>] = Nothing /\ traded[<<c, o>>] = 0

OwnedOrders ==
  /\ \A o \in OrderId : o >= gsId => owner[o] = NoClient
  /\ \A o \in OrderId : owner[o] = NoClient => Untouched(o)

OwnedWork ==
  /\ \A c \in Client : pc[c] \in {"acknowledge", "submit"} => owner[current[c]] = c
  /\ \A o \in allOrders : owner[o] \in Client
  /\ xpc \in {"apply", "report", "forward"} => owner[trade.order] \in Client
  /\ xpc = "apply" => trade.order \in Listed(trade.client)
  /\ xpc \in {"apply", "report"} =>
       trade.client \in clients /\ owner[trade.order] = trade.client

OwnInv == OwnedOrders /\ OwnedWork

LEMMA HoldersOwn ==
  ASSUME TypeInv, BookInv, NEW o, NEW c \in Holders(o)
  PROVE  c \in Client /\ c \in clients /\ o \in Listed(c) /\ owner[o] = c
<1>1. c \in Client /\ c \in clients /\ o \in Listed(c)
  BY DEF Holders, Listed, TypeInv, TypeOK
<1> QED
  BY <1>1, ListedOwned

LEMMA ReportedUnowned ==
  ASSUME TypeInv, BookInv, NEW o, NEW s, told' = Reported(o, s),
         NEW c \in Client, NEW p \in OrderId, owner[p] = NoClient
  PROVE  told'[<<c, p>>] = told[<<c, p>>]
<1>1. ~ (p = o /\ c \in Holders(o))
  BY HoldersOwn, NoClientAssumption
<1> QED
  BY <1>1 DEF Reported

LEMMA FillEffect ==
  ASSUME TypeInv, NEW o \in OrderId, NEW lot \in Lot, Fill(o, lot)
  PROVE  /\ trade'.order = o /\ trade'.quantity = lot
         /\ allOrders' \subseteq allOrders
         /\ \/ /\ xpc' = "apply"
               /\ trade'.client \in Holders(o)
               /\ \A e \in Client, p \in OrderId :
                    traded'[<<e, p>>] = IF e = trade'.client /\ p = o
                                        THEN traded[<<e, p>>] + lot
                                        ELSE traded[<<e, p>>]
            \/ xpc' = "forward" /\ Holders(o) = {} /\ traded' = traded
<1>1. allOrders' \subseteq allOrders
  BY DEF Fill
<1>2. ASSUME NEW c \in Holders(o),
             trade' = [client |-> c, order |-> o, quantity |-> lot],
             traded' = [traded EXCEPT ![<<c, o>>] = @ + lot]
      PROVE  /\ trade'.order = o /\ trade'.quantity = lot /\ trade'.client = c
             /\ \A e \in Client, p \in OrderId :
                  traded'[<<e, p>>] = IF e = c /\ p = o
                                      THEN traded[<<e, p>>] + lot ELSE traded[<<e, p>>]
  <2>1. trade'.order = o /\ trade'.quantity = lot /\ trade'.client = c
    BY <1>2
  <2>2. traded \in [Client \X OrderId -> Nat]
    BY DEF TypeInv, TypeOK
  <2> QED
    BY <1>2, <2>1, <2>2
<1>3. ASSUME trade' = [client |-> NoClient, order |-> o, quantity |-> lot]
      PROVE  trade'.order = o /\ trade'.quantity = lot
  BY <1>3
<1> QED
  BY <1>1, <1>2, <1>3 DEF Fill

LEMMA AddOrderOwn ==
  ASSUME TypeInv, BookInv, OwnInv, NEW c \in Client, NEW id, NEW q, AddOrder(c, id, q)
  PROVE  OwnInv'
<1>1. /\ gsId \in OrderId /\ gsId' = gsId + 1
      /\ owner' = [owner EXCEPT ![gsId] = c]
      /\ owner[gsId] = NoClient /\ gsId \in Int
      /\ UNCHANGED <<fillVars, brokerVars, sentVars, clients>>
  BY DEF AddOrder, OwnInv, OwnedOrders, TypeInv, TypeOK, listVars, OrderId
<1>2. \A o \in OrderId : /\ o \in Int
                         /\ owner'[o] = IF o = gsId THEN c ELSE owner[o]
                         /\ Untouched(o)' <=> Untouched(o)
  BY <1>1 DEF TypeInv, TypeOK, Untouched, fillVars, sentVars, OrderId
<1>3. OwnedOrders'
  BY <1>1, <1>2, NoClientAssumption DEF OwnInv, OwnedOrders
<1>4. /\ \A e \in Client : pc'[e] = IF e = c THEN "acknowledge" ELSE pc[e]
      /\ \A e \in Client : current'[e] = IF e = c THEN gsId ELSE current[e]
  BY DEF AddOrder, StepAfter, TypeInv, TypeOK
<1>5. \A e \in Client : pc'[e] \in {"acknowledge", "submit"} => owner'[current'[e]] = e
  <2>1. \A e \in Client : pc[e] \in {"acknowledge", "submit"} => current[e] \in OrderId
    BY DEF TypeInv, ThreadsOK
  <2> QED
    BY <1>1, <1>2, <1>4, <2>1, NoClientAssumption DEF OwnInv, OwnedWork
<1>6. \A o \in allOrders' : owner'[o] \in Client
  BY <1>1, <1>2 DEF OwnInv, OwnedWork, brokerVars, TypeInv, TypeOK
<1>7. /\ xpc' \in {"apply", "report", "forward"} => owner'[trade'.order] \in Client
      /\ xpc' \in {"apply", "report"} =>
           trade'.client \in clients' /\ owner'[trade'.order] = trade'.client
  BY <1>1, <1>2, NoClientAssumption
  DEF OwnInv, OwnedWork, brokerVars, TypeInv, ThreadsOK
<1>8. xpc' = "apply" => trade'.order \in ToSet(clientOrders'[trade'.client])
  <2> SUFFICES ASSUME xpc = "apply"
               PROVE  trade.order \in ToSet(clientOrders'[trade.client])
    BY <1>1 DEF brokerVars
  <2>1. trade.client \in Client
    BY DEF TypeInv, ThreadsOK
  <2>2. ToSet(clientOrders'[trade.client])
          = IF trade.client = c THEN Listed(c) \cup {gsId} ELSE Listed(trade.client)
    BY <2>1, AddOrderLists
  <2> QED
    BY <2>2 DEF OwnInv, OwnedWork
<1> QED
  BY <1>3, <1>5, <1>6, <1>7, <1>8 DEF OwnInv, OwnedWork, Listed

LEMMA SessionOwn ==
  ASSUME TypeInv, BookInv, OwnInv, NEW c \in Client, Session(c)
  PROVE  OwnInv'
<1>a. \A e \in Client : pc[e] \in {"acknowledge", "submit"} => current[e] \in OrderId
  BY DEF TypeInv, ThreadsOK
<1> USE DEF listVars, sessionVars, bookVars, orderVars, fillVars, brokerVars, sentVars
<1>1. ASSUME UNCHANGED <<clients, clientOrders, owner, fillVars, brokerVars, sentVars>>,
             gsId' = gsId \/ gsId' = gsId + 1,
             \A e \in Client : pc'[e] \in {"acknowledge", "submit"} =>
               pc[e] \in {"acknowledge", "submit"} /\ current'[e] = current[e]
      PROVE  OwnInv'
  <2>1. \A o \in OrderId : o >= gsId' => o >= gsId
    BY <1>1 DEF TypeInv, TypeOK, OrderId
  <2>2. OwnedOrders'
    BY <1>1, <2>1 DEF OwnInv, OwnedOrders, Untouched
  <2>3. OwnedWork'
    BY <1>1 DEF OwnInv, OwnedWork, Listed
  <2> QED
    BY <2>2, <2>3 DEF OwnInv
<1>2. CASE GetIdentity(c)
  BY <1>1, <1>2 DEF GetIdentity
<1>3. CASE Disconnect(c)
  BY <1>1, <1>3 DEF Disconnect, TypeInv, TypeOK
<1>4. CASE \E id \in ClientOrderId : RefuseDuplicate(c, id)
  BY <1>1, <1>4 DEF RefuseDuplicate
<1>5. CASE \E i \in DOMAIN clientOrders[c] : FindForCancel(c, i)
  BY <1>1, <1>5 DEF FindForCancel, TypeInv, TypeOK
<1>6. CASE ConfirmCancel(c)
  BY <1>1, <1>6 DEF ConfirmCancel, TypeInv, TypeOK
<1>7. CASE CancelCrash(c)
  BY <1>1, <1>7 DEF CancelCrash
<1>8. CASE AckOrder(c)
  <2>1. owner[current[c]] = c /\ current[c] \in OrderId
    BY <1>8, <1>a DEF AckOrder, At, OwnInv, OwnedWork
  <2>2. OwnedOrders'
    <3>1. \A o \in OrderId : owner[o] = NoClient => acked'[o] = acked[o]
      BY <1>8, <2>1, NoClientAssumption DEF AckOrder, TypeInv, TypeOK
    <3> QED
      BY <1>8, <3>1 DEF AckOrder, OwnInv, OwnedOrders, Untouched
  <2>3. \A e \in Client : pc'[e] \in {"acknowledge", "submit"} =>
          pc[e] \in {"acknowledge", "submit"}
    BY <1>8 DEF AckOrder, At, StepAfter, TypeInv, TypeOK
  <2>4. OwnedWork'
    BY <1>8, <2>3 DEF AckOrder, OwnInv, OwnedWork, Listed
  <2> QED
    BY <2>2, <2>4 DEF OwnInv
<1>9. CASE SubmitToBroker(c)
  <2>1. owner[current[c]] = c
    BY <1>9 DEF SubmitToBroker, At, OwnInv, OwnedWork
  <2>2. OwnedOrders'
    BY <1>9 DEF SubmitToBroker, OwnInv, OwnedOrders, Untouched
  <2>3. \A e \in Client : pc'[e] \in {"acknowledge", "submit"} =>
          pc[e] \in {"acknowledge", "submit"}
    BY <1>9 DEF SubmitToBroker, At, StepAfter, TypeInv, TypeOK
  <2>4. OwnedWork'
    BY <1>9, <2>1, <2>3 DEF SubmitToBroker, OwnInv, OwnedWork, Listed
  <2> QED
    BY <2>2, <2>4 DEF OwnInv
<1>10. CASE CancelAtBroker(c)
  <2>1. \A e \in Client, o \in OrderId : owner[o] = NoClient => told'[<<e, o>>] = told[<<e, o>>]
    BY <1>10, ReportedUnowned DEF CancelAtBroker
  <2>2. OwnedOrders'
    BY <1>10, <2>1 DEF CancelAtBroker, OwnInv, OwnedOrders, Untouched
  <2>3. \A e \in Client : pc'[e] \in {"acknowledge", "submit"} =>
          pc[e] \in {"acknowledge", "submit"}
    BY <1>10 DEF CancelAtBroker, TypeInv, TypeOK
  <2>4. OwnedWork'
    BY <1>10, <2>3 DEF CancelAtBroker, OwnInv, OwnedWork, Listed
  <2> QED
    BY <2>2, <2>4 DEF OwnInv
<1> QED
  BY <1>2, <1>3, <1>4, <1>5, <1>6, <1>7, <1>8, <1>9, <1>10, AddOrderOwn DEF Session

LEMMA BrokerOwn ==
  ASSUME TypeInv, BookInv, OwnInv, Broker
  PROVE  OwnInv'
<1> USE DEF listVars, sessionVars, bookVars, orderVars, fillVars, brokerVars, sentVars,
            BrokerAt
<1>1. CASE LockBroker
  BY <1>1 DEF LockBroker, OwnInv, OwnedOrders, OwnedWork, Untouched, Listed
<1>2. CASE AcceptNext
  <2>1. \A e \in Client, o \in OrderId : owner[o] = NoClient => told'[<<e, o>>] = told[<<e, o>>]
    BY <1>2, ReportedUnowned DEF AcceptNext
  <2>2. OwnedOrders'
    BY <1>2, <2>1 DEF AcceptNext, OwnInv, OwnedOrders, Untouched
  <2>3. OwnedWork'
    BY <1>2 DEF AcceptNext, OwnInv, OwnedWork, Listed
  <2> QED
    BY <2>2, <2>3 DEF OwnInv
<1>3. ASSUME NEW o \in OrderId, NEW lot \in Lot, Fill(o, lot)
      PROVE  OwnInv'
  <2>1. owner[o] \in Client
    BY <1>3 DEF Fill, Fillable, OwnInv, OwnedWork
  <2>2. UNCHANGED <<gsId, owner, executedQuantity, forwarded, acked, told, pc, current,
                    clients, clientOrders>>
    BY <1>3 DEF Fill
  <2>3. \A e \in Client, p \in OrderId : p # o => traded'[<<e, p>>] = traded[<<e, p>>]
    BY <1>3, FillEffect
  <2>4. OwnedOrders'
    BY <2>1, <2>2, <2>3, NoClientAssumption DEF OwnInv, OwnedOrders, Untouched
  <2>5. allOrders' \subseteq allOrders /\ trade'.order = o
    BY <1>3, FillEffect
  <2>6. xpc' = "apply" => trade'.client \in Holders(o)
    BY <1>3, FillEffect
  <2>7. /\ trade'.client \in Holders(o) => owner[o] = trade'.client
        /\ xpc' \in {"apply", "forward"}
    BY <1>3, HoldersOwn, FillEffect
  <2>8. OwnedWork'
    BY <2>1, <2>2, <2>5, <2>6, <2>7 DEF OwnInv, OwnedWork, Listed, Holders
  <2> QED
    BY <2>4, <2>8 DEF OwnInv
<1>4. CASE ApplyTrade
  <2> DEFINE o == trade.order
  <2>1. owner[o] \in Client /\ o \in OrderId
    BY <1>4 DEF ApplyTrade, OwnInv, OwnedWork, TypeInv, ThreadsOK
  <2>2. /\ \A p \in OrderId : p # o => executedQuantity'[p] = executedQuantity[p]
        /\ UNCHANGED <<gsId, owner, forwarded, acked, told, traded, pc, current, allOrders,
                       trade, clients>>
        /\ xpc = "apply" /\ xpc' = "report"
    BY <1>4 DEF ApplyTrade, TypeInv, TypeOK
  <2>3. OwnedOrders'
    BY <2>1, <2>2, NoClientAssumption DEF OwnInv, OwnedOrders, Untouched
  <2>4. OwnedWork'
    BY <2>1, <2>2 DEF OwnInv, OwnedWork
  <2> QED
    BY <2>3, <2>4 DEF OwnInv
<1>5. CASE ForwardTrade
  <2>1. owner[trade.order] \in Client
    BY <1>5 DEF ForwardTrade, OwnInv, OwnedWork
  <2>2. OwnedOrders'
    BY <1>5, <2>1, NoClientAssumption
    DEF ForwardTrade, OwnInv, OwnedOrders, Untouched, TypeInv, TypeOK
  <2>3. OwnedWork'
    BY <1>5 DEF ForwardTrade, OwnInv, OwnedWork
  <2> QED
    BY <2>2, <2>3 DEF OwnInv
<1>6. CASE UnlockBroker
  BY <1>6 DEF UnlockBroker, OwnInv, OwnedOrders, OwnedWork, Untouched
<1>7. CASE ReportState
  <2>1. owner[trade.order] \in Client
    BY <1>7 DEF ReportState, OwnInv, OwnedWork
  <2>2. \A e \in Client, p \in OrderId : owner[p] = NoClient => told'[<<e, p>>] = told[<<e, p>>]
    BY <1>7, <2>1, NoClientAssumption DEF ReportState, TypeInv, TypeOK
  <2>3. OwnedOrders'
    BY <1>7, <2>2 DEF ReportState, OwnInv, OwnedOrders, Untouched
  <2>4. OwnedWork'
    BY <1>7 DEF ReportState, OwnInv, OwnedWork
  <2> QED
    BY <2>3, <2>4 DEF OwnInv
<1> QED
  BY <1>1, <1>2, <1>3, <1>4, <1>5, <1>6, <1>7 DEF Broker

LEMMA NextOwnInv == TypeInv /\ BookInv /\ OwnInv /\ [Next]_vars => OwnInv'
<1> SUFFICES ASSUME TypeInv, BookInv, OwnInv, [Next]_vars
             PROVE  OwnInv'
  OBVIOUS
<1> USE DEF listVars, sessionVars, bookVars, orderVars, fillVars, brokerVars, sentVars
<1>1. ASSUME NEW c \in Client, Accept(c)
      PROVE  OwnInv'
  BY <1>1 DEF Accept, OwnInv, OwnedOrders, OwnedWork, Untouched, Listed, TypeInv, TypeOK
<1>2. CASE Register
  BY <1>2 DEF Register, OwnInv, OwnedOrders, OwnedWork, Untouched, Listed
<1>3. CASE UNCHANGED vars
  BY <1>3 DEF vars, OwnInv, OwnedOrders, OwnedWork, Untouched, Listed
<1> QED
  BY <1>1, <1>2, <1>3, SessionOwn, BrokerOwn DEF Next

-----------------------------------------------------------------------------
(* What was acknowledged. An order is acknowledged before it reaches the    *)
(* broker or can be cancelled: a listed order that is not is the one its    *)
(* session is about to acknowledge. What a destroyed place of the list      *)
(* still points to was listed when it was executed.                         *)

AckWork ==
  /\ \A o \in allOrders : acked[o]
  /\ xpc \in {"apply", "report", "forward"} => acked[trade.order]
  /\ \A c \in Client : husk[c] # NoOrder => acked[husk[c]]
  /\ \A c \in Client : pc[c] \in {"submit", "confirm", "cancel"} => acked[current[c]]
  /\ \A c \in Client : \A o \in Listed(c) :
       acked[o] \/ (pc[c] = "acknowledge" /\ current[c] = o)

LEMMA SlotOrderAcked ==
  ASSUME TypeInv, AckWork, NEW c \in Client, pc[c] = "cancel", SlotOrder(c) # NoOrder
  PROVE  acked[SlotOrder(c)]
<1>1. CASE Dangling(c)
  BY <1>1 DEF SlotOrder, AckWork
<1>2. CASE ~ Dangling(c)
  <2>1. SlotOrder(c) \in Listed(c)
    BY <1>2 DEF SlotOrder, Dangling, Listed, ToSet
  <2> QED
    BY <2>1 DEF AckWork
<1> QED
  BY <1>1, <1>2

(* A client hears of its own orders only, and of acknowledged ones only. *)
LEMMA ReportStep ==
  ASSUME TypeInv, BookInv, OwnInv, AckWork, [Next]_vars,
         NEW c \in Client, NEW o \in OrderId,
         told'[<<c, o>>] # told[<<c, o>>] \/ traded'[<<c, o>>] # traded[<<c, o>>]
  PROVE  owner[o] = c /\ acked[o]
<1> USE DEF listVars, sessionVars, bookVars, orderVars, fillVars, brokerVars, sentVars
<1>1. CASE \E e \in Client : CancelAtBroker(e)
  <2>1. PICK e \in Client : CancelAtBroker(e)
    BY <1>1
  <2>2. o = SlotOrder(e) /\ c \in Holders(o)
    BY <2>1 DEF CancelAtBroker, Reported
  <2>3. acked[o]
    BY <2>1, <2>2, SlotOrderAcked DEF CancelAtBroker, At
  <2> QED
    BY <2>2, <2>3, HoldersOwn
<1>2. CASE AcceptNext
  <2>1. o \in allOrders /\ c \in Holders(o)
    BY <1>2 DEF AcceptNext, Reported, Waiting
  <2> QED
    BY <2>1, HoldersOwn DEF AckWork
<1>3. ASSUME NEW p \in OrderId, NEW lot \in Lot, Fill(p, lot)
      PROVE  owner[o] = c /\ acked[o]
  <2>1. told' = told
    BY <1>3 DEF Fill
  <2>2. o = p /\ c \in Holders(o)
    BY <1>3, <2>1, FillEffect
  <2>3. acked[o]
    BY <1>3, <2>2 DEF Fill, Fillable, AckWork
  <2> QED
    BY <2>2, <2>3, HoldersOwn
<1>4. CASE ReportState
  <2>1. o = trade.order /\ c = trade.client /\ xpc = "report"
    BY <1>4 DEF ReportState, BrokerAt, TypeInv, TypeOK
  <2> QED
    BY <2>1 DEF OwnInv, OwnedWork, AckWork
<1>5. UNCHANGED <<told, traded>> => FALSE
  OBVIOUS
<1>6. CASE \/ UNCHANGED vars \/ Register
           \/ LockBroker \/ ApplyTrade \/ ForwardTrade \/ UnlockBroker
  BY <1>5, <1>6 DEF vars, Register, LockBroker, ApplyTrade, ForwardTrade, UnlockBroker
<1>7. CASE \E e \in Client : Accept(e) \/ (Session(e) /\ ~ CancelAtBroker(e))
  BY <1>5, <1>7 DEF Accept, Session, GetIdentity, Disconnect, RefuseDuplicate, AddOrder,
     AckOrder, SubmitToBroker, FindForCancel, ConfirmCancel, CancelCrash
<1> QED
  BY <1>1, <1>2, <1>3, <1>4, <1>6, <1>7 DEF Next, Broker

(* An order keeps its owner, and stays acknowledged. *)
LEMMA OwnerStays ==
  ASSUME TypeInv, OwnInv, [Next]_vars, NEW o \in OrderId
  PROVE  /\ owner[o] \in Client => owner'[o] = owner[o]
         /\ acked[o] => acked'[o]
<1> USE DEF listVars, sessionVars, bookVars, orderVars, fillVars, brokerVars, sentVars
<1>1. ASSUME NEW c \in Client, NEW id, NEW q, AddOrder(c, id, q)
      PROVE  /\ owner[o] \in Client => owner'[o] = owner[o]
             /\ acked'[o] = acked[o]
  <2>1. owner[gsId] = NoClient
    BY <1>1 DEF AddOrder, OwnInv, OwnedOrders, OrderId
  <2> QED
    BY <1>1, <2>1, NoClientAssumption DEF AddOrder, TypeInv, TypeOK
<1>2. ASSUME NEW c \in Client, AckOrder(c)
      PROVE  owner' = owner /\ (acked[o] => acked'[o])
  BY <1>2 DEF AckOrder, TypeInv, TypeOK
<1>3. CASE UNCHANGED <<owner, acked>>
  BY <1>3
<1>4. CASE UNCHANGED vars \/ Register \/ Broker
  BY <1>3, <1>4 DEF vars, Register, Broker, LockBroker, AcceptNext, Fill, ApplyTrade,
     ReportState, ForwardTrade, UnlockBroker
<1>5. CASE \E c \in Client : Accept(c) \/ Session(c)
  BY <1>1, <1>2, <1>3, <1>5 DEF Accept, Session, GetIdentity, Disconnect,
     RefuseDuplicate, SubmitToBroker, FindForCancel, ConfirmCancel, CancelAtBroker,
     CancelCrash
<1> QED
  BY <1>4, <1>5 DEF Next

LEMMA AddOrderAck ==
  ASSUME TypeInv, AckWork, NEW c \in Client, NEW id, NEW q, AddOrder(c, id, q)
  PROVE  AckWork'
<1>1. /\ \A e \in Client : pc'[e] = IF e = c THEN "acknowledge" ELSE pc[e]
      /\ \A e \in Client : current'[e] = IF e = c THEN gsId ELSE current[e]
      /\ pc[c] = "read"
      /\ UNCHANGED <<allOrders, xpc, trade, acked, husk>>
  BY DEF AddOrder, StepAfter, At, TypeInv, TypeOK, brokerVars, sentVars
<1>2. ASSUME NEW e \in Client, NEW o \in ToSet(clientOrders'[e])
      PROVE  acked'[o] \/ (pc'[e] = "acknowledge" /\ current'[e] = o)
  <2>1. ToSet(clientOrders'[e]) = IF e = c THEN Listed(c) \cup {gsId} ELSE Listed(e)
    BY AddOrderLists
  <2>2. CASE o \in Listed(e)
    <3>1. acked[o] \/ (pc[e] = "acknowledge" /\ current[e] = o)
      BY <2>2 DEF AckWork
    <3> QED
      BY <1>1, <3>1
  <2>3. CASE e = c /\ o = gsId
    BY <1>1, <2>3
  <2> QED
    BY <1>2, <2>1, <2>2, <2>3
<1> QED
  BY <1>1, <1>2 DEF AckWork, Listed

LEMMA SessionAck ==
  ASSUME TypeInv, BookInv, AckWork, NEW c \in Client, Session(c)
  PROVE  AckWork'
<1>a. \A e \in Client : \A o \in Listed(e) : o \in OrderId
  BY ListedOwned
<1>b. \A e \in Client :
        pc[e] \in {"acknowledge", "submit", "confirm", "cancel"} => current[e] \in OrderId
  BY DEF TypeInv, ThreadsOK
<1> USE DEF listVars, sessionVars, bookVars, orderVars, fillVars, brokerVars, sentVars, At
<1>1. ASSUME UNCHANGED <<clientOrders, allOrders, xpc, trade, acked>>,
             \A e \in Client : husk'[e] \in {husk[e], NoOrder},
             \A e \in Client : pc'[e] \in {"submit", "confirm", "cancel"} =>
               acked[current'[e]],
             \A e \in Client : pc[e] = "acknowledge" =>
               pc'[e] = "acknowledge" /\ current'[e] = current[e]
      PROVE  AckWork'
  <2>1. /\ \A o \in allOrders' : acked'[o]
        /\ xpc' \in {"apply", "report", "forward"} => acked'[trade'.order]
        /\ \A e \in Client : husk'[e] # NoOrder => acked'[husk'[e]]
    BY <1>1 DEF AckWork
  <2>2. \A e \in Client : pc'[e] \in {"submit", "confirm", "cancel"} =>
          acked'[current'[e]]
    BY <1>1
  <2>3. ASSUME NEW e \in Client, NEW o \in ToSet(clientOrders'[e])
        PROVE  acked'[o] \/ (pc'[e] = "acknowledge" /\ current'[e] = o)
    <3>1. o \in Listed(e)
      BY <1>1, <2>3 DEF Listed
    <3>2. acked[o] \/ (pc[e] = "acknowledge" /\ current[e] = o)
      BY <3>1 DEF AckWork
    <3> QED
      BY <1>1, <3>2
  <2> QED
    BY <2>1, <2>2, <2>3 DEF AckWork, Listed
<1>2. CASE GetIdentity(c)
  BY <1>1, <1>2 DEF GetIdentity, AckWork
<1>3. CASE Disconnect(c)
  BY <1>1, <1>3 DEF Disconnect, AckWork, TypeInv, TypeOK
<1>4. CASE \E id \in ClientOrderId : RefuseDuplicate(c, id)
  BY <1>1, <1>4 DEF RefuseDuplicate, AckWork
<1>5. ASSUME NEW i \in DOMAIN clientOrders[c], FindForCancel(c, i)
      PROVE  AckWork'
  <2>1. acked[clientOrders[c][i]]
    BY <1>5 DEF AckWork, Listed, ToSet, FindForCancel
  <2>2. \A e \in Client : pc'[e] \in {"submit", "confirm", "cancel"} =>
          acked[current'[e]]
    BY <1>5, <2>1, SMTT(30) DEF FindForCancel, AckWork, TypeInv, TypeOK
  <2> QED
    BY <1>1, <1>5, <2>2 DEF FindForCancel, TypeInv, TypeOK
<1>6. CASE ConfirmCancel(c)
  BY <1>1, <1>6 DEF ConfirmCancel, AckWork, TypeInv, TypeOK
<1>7. CASE CancelCrash(c)
  BY <1>1, <1>7 DEF CancelCrash, AckWork
<1>8. CASE AckOrder(c)
  <2>1. /\ \A o \in OrderId : acked'[o] <=> acked[o] \/ o = current[c]
        /\ \A e \in Client : pc'[e] = IF e = c THEN "submit" ELSE pc[e]
        /\ UNCHANGED <<clientOrders, current, allOrders, xpc, trade, husk>>
        /\ pc[c] = "acknowledge"
    BY <1>8 DEF AckOrder, StepAfter, TypeInv, TypeOK
  <2>2. /\ \A o \in allOrders : o \in OrderId
        /\ xpc \in {"apply", "report", "forward"} => trade.order \in OrderId
        /\ \A e \in Client : husk[e] # NoOrder => husk[e] \in OrderId
    BY DEF TypeInv, TypeOK, ThreadsOK
  <2>3. \A e \in Client : \A o \in Listed(e) :
          acked'[o] \/ (pc'[e] = "acknowledge" /\ current[e] = o)
    BY <1>a, <2>1 DEF AckWork
  <2>4. \A e \in Client : pc'[e] \in {"submit", "confirm", "cancel"} => acked'[current[e]]
    BY <1>b, <2>1 DEF AckWork
  <2> QED
    BY <2>1, <2>2, <2>3, <2>4 DEF AckWork, Listed
<1>9. CASE SubmitToBroker(c)
  <2>1. acked[current[c]]
    BY <1>9 DEF SubmitToBroker, AckWork
  <2>2. /\ \A e \in Client : pc'[e] = IF e = c THEN "read" ELSE pc[e]
        /\ UNCHANGED <<clientOrders, current, xpc, trade, acked, husk>>
        /\ allOrders' = allOrders \cup {current[c]}
        /\ pc[c] = "submit"
    BY <1>9 DEF SubmitToBroker, StepAfter, TypeInv, TypeOK
  <2> QED
    BY <2>1, <2>2 DEF AckWork, Listed
<1>10. CASE CancelAtBroker(c)
  BY <1>1, <1>10 DEF CancelAtBroker, AckWork, TypeInv, TypeOK
<1> QED
  BY <1>2, <1>3, <1>4, <1>5, <1>6, <1>7, <1>8, <1>9, <1>10, AddOrderAck DEF Session

LEMMA BrokerAck ==
  ASSUME TypeInv, BookInv, AckWork, Broker
  PROVE  AckWork'
<1> USE DEF listVars, sessionVars, bookVars, orderVars, fillVars, brokerVars, sentVars,
            BrokerAt
<1>1. CASE LockBroker \/ AcceptNext \/ ReportState \/ ForwardTrade \/ UnlockBroker
  BY <1>1 DEF LockBroker, AcceptNext, ReportState, ForwardTrade, UnlockBroker, AckWork, Listed
<1>2. ASSUME NEW o \in OrderId, NEW lot \in Lot, Fill(o, lot)
      PROVE  AckWork'
  <2>1. acked[o] /\ trade'.order = o /\ allOrders' \subseteq allOrders
    BY <1>2, FillEffect DEF Fill, Fillable, AckWork
  <2>2. UNCHANGED <<acked, pc, current, clientOrders, husk>>
    BY <1>2 DEF Fill
  <2> QED
    BY <2>1, <2>2 DEF AckWork, Listed
<1>3. CASE ApplyTrade
  <2>1. \A e \in Client : ToSet(clientOrders'[e]) \subseteq Listed(e)
    <3>1. CASE Retire(trade.client, trade.order)
      <4>1. trade.client \in Client
        BY <1>3 DEF ApplyTrade, TypeInv, ThreadsOK
      <4> QED
        BY <3>1, <4>1, RetireLists
    <3>2. CASE UNCHANGED bookVars
      BY <3>2 DEF Listed
    <3> QED
      BY <1>3, <3>1, <3>2 DEF ApplyTrade
  <2>2. UNCHANGED <<acked, pc, current, allOrders, trade>> /\ xpc' = "report" /\ xpc = "apply"
    BY <1>3 DEF ApplyTrade
  <2>3. \A e \in Client : husk'[e] \in {husk[e], NoOrder, trade.order}
    BY <1>3, RetireHusk DEF ApplyTrade, TypeInv, ThreadsOK
  <2> QED
    BY <2>1, <2>2, <2>3 DEF AckWork, Listed
<1> QED
  BY <1>1, <1>2, <1>3 DEF Broker

LEMMA NextAckWork == TypeInv /\ BookInv /\ AckWork /\ [Next]_vars => AckWork'
<1> SUFFICES ASSUME TypeInv, BookInv, AckWork, [Next]_vars
             PROVE  AckWork'
  OBVIOUS
<1> USE DEF listVars, sessionVars, bookVars, orderVars, fillVars, brokerVars, sentVars
<1>1. ASSUME NEW c \in Client, Accept(c)
      PROVE  AckWork'
  BY <1>1 DEF Accept, At, AckWork, Listed, TypeInv, TypeOK
<1>2. CASE Register \/ UNCHANGED vars
  BY <1>2 DEF Register, vars, AckWork, Listed
<1> QED
  BY <1>1, <1>2, SessionAck, BrokerAck DEF Next

ReportInv == OwnInv /\ AckWork /\ NoCrossTalk /\ AckBeforeReport

LEMMA NextReportInv == TypeInv /\ BookInv /\ ReportInv /\ [Next]_vars => ReportInv'
<1> SUFFICES ASSUME TypeInv, BookInv, ReportInv, [Next]_vars
             PROVE  ReportInv'
  OBVIOUS
<1>1. OwnInv' /\ AckWork'
  BY NextOwnInv, NextAckWork DEF ReportInv
<1>2. ASSUME NEW c \in Client, NEW o \in OrderId,
             told'[<<c, o>>] # Nothing \/ traded'[<<c, o>>] > 0
      PROVE  owner'[o] = c /\ acked'[o]
  <2>1. owner[o] = c /\ acked[o]
    <3>1. CASE told'[<<c, o>>] # told[<<c, o>>] \/ traded'[<<c, o>>] # traded[<<c, o>>]
      BY <3>1, ReportStep DEF ReportInv
    <3>2. CASE told'[<<c, o>>] = told[<<c, o>>] /\ traded'[<<c, o>>] = traded[<<c, o>>]
      BY <1>2, <3>2 DEF ReportInv, NoCrossTalk, AckBeforeReport
    <3> QED
      BY <3>1, <3>2
  <2> QED
    BY <2>1, OwnerStays DEF ReportInv
<1>3. NoCrossTalk' /\ AckBeforeReport'
  BY <1>2 DEF NoCrossTalk, AckBeforeReport
<1> QED
  BY <1>1, <1>3 DEF ReportInv

LEMMA InitReportInv == Init => ReportInv
<1> SUFFICES ASSUME Init
             PROVE  ReportInv
  OBVIOUS
<1>1. \A c \in Client : Listed(c) = {}
  BY DEF Init, Listed, ToSet
<1>2. \A o \in OrderId : Untouched(o)
  BY DEF Init, Untouched
<1>3. OwnInv
  BY <1>2 DEF Init, OwnInv, OwnedOrders, OwnedWork
<1>4. AckWork
  BY <1>1 DEF Init, AckWork
<1> QED
  BY <1>3, <1>4 DEF Init, ReportInv, NoCrossTalk, AckBeforeReport

LEMMA ReportsInvariant == Spec => [](TypeInv /\ BookInv /\ ReportInv)
<1>1. Init => BookInv
  BY DEF Init, BookInv, OlderThanNext, SessionBook
<1> QED
  BY <1>1, InitTypeInv, InitReportInv, NextTypeInv, NextBookInv, NextReportInv, PTL
  DEF Spec

(***************************************************************************)
(* No client hears of another's order, for any number of sessions that use *)
(* the same ids.                                                           *)
(***************************************************************************)
THEOREM NoCrossTalkCorrect == Spec => []NoCrossTalk
<1>1. ReportInv => NoCrossTalk
  BY DEF ReportInv
<1> QED
  BY <1>1, ReportsInvariant, PTL

(***************************************************************************)
(* The response to an order comes before any report about it.              *)
(***************************************************************************)
THEOREM AckBeforeReportCorrect == Spec => []AckBeforeReport
<1>1. ReportInv => AckBeforeReport
  BY DEF ReportInv
<1> QED
  BY <1>1, ReportsInvariant, PTL

=============================================================================
