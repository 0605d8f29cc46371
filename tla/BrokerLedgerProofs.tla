------------------------- MODULE BrokerLedgerProofs -------------------------
(***************************************************************************)
(* Invariance proofs for what BrokerServer's books, its orders and the     *)
(* reports about them have to do with each other, on top of                *)
(* BrokerReportProofs.                                                     *)
(***************************************************************************)
EXTENDS BrokerReportProofs

-----------------------------------------------------------------------------
(* The last report and the state. A session that is not in clients yet was  *)
(* told nothing; for any other every change of a listed order is reported   *)
(* in the step that makes it, or by the broker's thread in its next step.   *)

Unreported(o) == xpc = "report" /\ trade.order = o

InSync ==
  /\ \A c \in Client, o \in OrderId :
       o \in Listed(c) /\ ~ Unreported(o) => told[<<c, o>>] \in {Nothing, state[o]}
  /\ \A c \in Client, o \in OrderId : c \notin clients => told[<<c, o>>] = Nothing

LEMMA ReportedInSync ==
  ASSUME TypeInv, BookInv, InSync, NEW x \in OrderId, NEW s \in State,
         state' = [state EXCEPT ![x] = s], told' = Reported(x, s),
         UNCHANGED <<clients, clientOrders>>, xpc # "report"
  PROVE  InSync'
<1>1. \A o \in OrderId : state'[o] = IF o = x THEN s ELSE state[o]
  BY DEF TypeInv, TypeOK
<1>2. ASSUME NEW c \in Client, NEW o \in OrderId
      PROVE  /\ told'[<<c, o>>] = IF o = x /\ c \in Holders(x) THEN s ELSE told[<<c, o>>]
             /\ c \in Holders(x) <=> c \in clients /\ x \in Listed(c)
  BY <1>2 DEF Reported, Holders, Listed
<1>3. ASSUME NEW c \in Client, NEW o \in OrderId, o \in Listed(c)
      PROVE  told'[<<c, o>>] \in {Nothing, state'[o]}
  BY <1>1, <1>2, <1>3 DEF InSync, Unreported
<1>4. ASSUME NEW c \in Client, NEW o \in OrderId, c \notin clients
      PROVE  told'[<<c, o>>] = Nothing
  BY <1>2, <1>4 DEF InSync
<1> QED
  BY <1>3, <1>4 DEF InSync, Listed

LEMMA AddOrderInSync ==
  ASSUME TypeInv, OwnInv, InSync, NEW c \in Client, NEW id, NEW q, AddOrder(c, id, q)
  PROVE  InSync'
<1>1. /\ gsId \in OrderId
      /\ \A e \in Client : told[<<e, gsId>>] = Nothing
      /\ UNCHANGED <<clients, state, told, xpc, trade>>
  BY DEF AddOrder, OwnInv, OwnedOrders, Untouched, OrderId, listVars, fillVars, brokerVars,
     sentVars
<1>2. ASSUME NEW e \in Client, NEW o \in OrderId, o \in ToSet(clientOrders'[e]),
             ~ Unreported(o)
      PROVE  told[<<e, o>>] \in {Nothing, state[o]}
  <2>1. ToSet(clientOrders'[e]) = IF e = c THEN Listed(c) \cup {gsId} ELSE Listed(e)
    BY AddOrderLists
  <2>2. o \in Listed(e) \/ o = gsId
    BY <1>2, <2>1
  <2> QED
    BY <1>1, <1>2, <2>2 DEF InSync
<1> QED
  BY <1>1, <1>2 DEF InSync, Listed, Unreported

LEMMA ApplyTradeInSync ==
  ASSUME TypeInv, BookInv, InSync, ApplyTrade
  PROVE  InSync'
<1>1. /\ trade.client \in Client /\ trade.order \in OrderId
      /\ xpc = "apply" /\ xpc' = "report"
      /\ UNCHANGED <<clients, told, trade>>
  BY DEF ApplyTrade, BrokerAt, TypeInv, ThreadsOK, listVars, sentVars
<1>2. \A e \in Client : ToSet(clientOrders'[e]) \subseteq Listed(e)
  <2>1. CASE Retire(trade.client, trade.order)
    BY <1>1, <2>1, RetireLists, ZenonT(60)
  <2>2. CASE UNCHANGED bookVars
    BY <2>2 DEF bookVars, Listed
  <2> QED
    BY <2>1, <2>2 DEF ApplyTrade
<1>3. \A p \in OrderId : p # trade.order => state'[p] = state[p]
  BY DEF ApplyTrade, TypeInv, TypeOK
<1>4. ASSUME NEW e \in Client, NEW p \in OrderId, p \in ToSet(clientOrders'[e]),
             p # trade.order
      PROVE  told'[<<e, p>>] \in {Nothing, state'[p]}
  BY <1>1, <1>2, <1>3, <1>4 DEF InSync, Unreported
<1> QED
  BY <1>1, <1>4 DEF InSync, Listed, Unreported

LEMMA ReportStateInSync ==
  ASSUME TypeInv, BookInv, OwnInv, InSync, ReportState
  PROVE  InSync'
<1>1. /\ trade.client \in Client /\ trade.order \in OrderId
      /\ trade.client \in clients /\ owner[trade.order] = trade.client
      /\ xpc' = "forward"
      /\ UNCHANGED <<clients, clientOrders, state>>
  BY DEF ReportState, BrokerAt, OwnInv, OwnedWork, TypeInv, ThreadsOK, listVars, bookVars,
     fillVars
<1>2. \A e \in Client, p \in OrderId :
        told'[<<e, p>>] = IF e = trade.client /\ p = trade.order
                          THEN state[trade.order] ELSE told[<<e, p>>]
  BY DEF ReportState, TypeInv, TypeOK
<1>3. ASSUME NEW e \in Client, NEW p \in OrderId, p \in Listed(e)
      PROVE  told'[<<e, p>>] \in {Nothing, state[p]}
  <2>1. p = trade.order => e = trade.client
    BY <1>1, <1>3, ListedOwned
  <2> QED
    BY <1>2, <1>3, <2>1 DEF InSync, Unreported
<1>4. ASSUME NEW e \in Client, NEW p \in OrderId, e \notin clients
      PROVE  told'[<<e, p>>] = Nothing
  BY <1>1, <1>2, <1>4 DEF InSync
<1> QED
  BY <1>1, <1>3, <1>4 DEF InSync, Listed

LEMMA NextInSync ==
  TypeInv /\ BookInv /\ OwnInv /\ InSync /\ [Next]_vars => InSync'
<1> SUFFICES ASSUME TypeInv, BookInv, OwnInv, InSync, [Next]_vars
             PROVE  InSync'
  OBVIOUS
<1> USE DEF listVars, sessionVars, bookVars, orderVars, fillVars, brokerVars, sentVars
<1>1. ASSUME UNCHANGED <<clientOrders, state, told>>, clients \subseteq clients',
             xpc = "report" => UNCHANGED <<xpc, trade>>
      PROVE  InSync'
  BY <1>1 DEF InSync, Listed, Unreported
<1>2. ASSUME NEW c \in Client, CancelAtBroker(c)
      PROVE  InSync'
  <2>1. SlotOrder(c) \in OrderId
    BY <1>2, SlotOrderType DEF CancelAtBroker, At
  <2> QED
    BY <1>2, <2>1, ReportedInSync DEF CancelAtBroker, BrokerMutexFree, State
<1>3. CASE AcceptNext
  <2>1. CASE Waiting = {} /\ UNCHANGED <<state, told>>
    BY <1>1, <1>3, <2>1 DEF AcceptNext, BrokerAt
  <2>2. ASSUME NEW o \in Waiting, state' = [state EXCEPT ![o] = "submitted"],
               told' = Reported(o, "submitted")
        PROVE  InSync'
    <3>1. o \in OrderId
      BY DEF Waiting, TypeInv, TypeOK
    <3> QED
      BY <1>3, <2>2, <3>1, ReportedInSync DEF AcceptNext, BrokerAt, State
  <2> QED
    BY <1>3, <2>1, <2>2 DEF AcceptNext
<1>4. CASE UNCHANGED vars \/ Register \/ LockBroker \/ ForwardTrade \/ UnlockBroker
  BY <1>1, <1>4 DEF vars, Register, LockBroker, ForwardTrade, UnlockBroker, BrokerAt
<1>5. CASE \E o \in OrderId, lot \in Lot : Fill(o, lot)
  BY <1>1, <1>5 DEF Fill, BrokerAt
<1>6. CASE \E c \in Client : Accept(c)
  BY <1>1, <1>6 DEF Accept
<1>7. CASE \E c \in Client : Session(c)
  BY <1>1, <1>2, <1>7, AddOrderInSync
  DEF Session, GetIdentity, Disconnect, RefuseDuplicate, AckOrder, SubmitToBroker,
      FindForCancel, ConfirmCancel, CancelCrash
<1> QED
  BY <1>3, <1>4, <1>5, <1>6, <1>7, ApplyTradeInSync, ReportStateInSync DEF Next, Broker

(***************************************************************************)
(* The last report about a listed order is its state: reports of the       *)
(* broker's thread and of sessions that cancel do not overtake each other. *)
(***************************************************************************)
THEOREM ReportInSyncCorrect == Spec => []ReportInSync
<1>1. Init => InSync
  BY DEF Init, InSync, Listed, ToSet
<1>2. InSync => ReportInSync
  BY DEF InSync, ReportInSync, Listed, Unreported, BrokerMutexFree
<1>3. ReportInv => OwnInv
  BY DEF ReportInv
<1> QED
  BY <1>1, <1>2, <1>3, ReportsInvariant, NextInSync, PTL DEF Spec

-----------------------------------------------------------------------------
(* The quantities. Of a trade in the broker's hands the trade message is    *)
(* already sent; its quantity counts as executed when it has been applied,  *)
(* and as forwarded when the sink has it.                                   *)

Applying(o) == IF xpc = "apply" /\ trade.order = o THEN trade.quantity ELSE 0
Forwarding(o) ==
  IF xpc \in {"apply", "report", "forward"} /\ trade.order = o THEN trade.quantity ELSE 0

Ledger ==
  \A o \in OrderId : owner[o] \in Client =>
    /\ traded[<<owner[o], o>>] = executedQuantity[o] + Applying(o)
    /\ executedQuantity[o] + Applying(o) <= forwarded[o] + Forwarding(o)

LEMMA SameLedger ==
  ASSUME Ledger, \A o \in OrderId : owner'[o] = owner[o],
         UNCHANGED <<executedQuantity, xpc, trade, traded, forwarded>>
  PROVE  Ledger'
BY DEF Ledger, Applying, Forwarding

LEMMA AddOrderLedger ==
  ASSUME TypeInv, OwnInv, Ledger, NEW c \in Client, NEW id, NEW q, AddOrder(c, id, q)
  PROVE  Ledger'
<1>1. /\ gsId \in OrderId /\ owner[gsId] = NoClient /\ Untouched(gsId)
      /\ \A o \in OrderId : owner'[o] = IF o = gsId THEN c ELSE owner[o]
      /\ UNCHANGED <<executedQuantity, xpc, trade, traded, forwarded>>
  BY DEF AddOrder, OwnInv, OwnedOrders, OrderId, TypeInv, TypeOK, fillVars, brokerVars,
     sentVars
<1>2. xpc \in {"apply", "report", "forward"} => trade.order # gsId
  BY <1>1, NoClientAssumption DEF OwnInv, OwnedWork
<1>3. Applying(gsId) = 0 /\ Forwarding(gsId) = 0
  BY <1>2 DEF Applying, Forwarding
<1>4. \A o \in OrderId : Applying(o)' = Applying(o) /\ Forwarding(o)' = Forwarding(o)
  BY <1>1 DEF Applying, Forwarding
<1> QED
  BY <1>1, <1>3, <1>4 DEF Ledger, Untouched

LEMMA FillLedger ==
  ASSUME TypeInv, BookInv, OwnInv, Ledger, NEW o \in OrderId, NEW lot \in Lot, Fill(o, lot)
  PROVE  Ledger'
<1>1. /\ lot \in Nat /\ xpc = "fill"
      /\ UNCHANGED <<owner, executedQuantity, forwarded>>
      /\ trade'.order = o /\ trade'.quantity = lot
  BY FillEffect, QuantityAssumption DEF Fill, BrokerAt, orderVars, fillVars
<1>2. \A p \in OrderId : /\ Applying(p) = 0 /\ Forwarding(p) = 0
                         /\ executedQuantity[p] \in Nat /\ forwarded[p] \in Nat
  BY <1>1 DEF Applying, Forwarding, TypeInv, TypeOK
<1>3. CASE xpc' = "forward" /\ traded' = traded
  <2>1. \A p \in OrderId : /\ Applying(p)' = 0
                           /\ Forwarding(p)' \in {0, lot}
    BY <1>1, <1>3 DEF Applying, Forwarding
  <2> QED
    BY <1>1, <1>2, <1>3, <2>1 DEF Ledger
<1>4. CASE /\ xpc' = "apply" /\ trade'.client \in Holders(o)
           /\ \A e \in Client, p \in OrderId :
                traded'[<<e, p>>] = IF e = trade'.client /\ p = o
                                    THEN traded[<<e, p>>] + lot ELSE traded[<<e, p>>]
  <2>1. owner[o] = trade'.client
    BY <1>4, HoldersOwn
  <2>2. \A p \in OrderId : /\ Applying(p)' = IF p = o THEN lot ELSE 0
                           /\ Forwarding(p)' = IF p = o THEN lot ELSE 0
    BY <1>1, <1>4 DEF Applying, Forwarding
  <2>3. \A p \in OrderId : owner[p] \in Client =>
          traded'[<<owner[p], p>>]
            = IF p = o THEN traded[<<owner[p], p>>] + lot ELSE traded[<<owner[p], p>>]
    BY <1>4, <2>1
  <2> QED
    BY <1>1, <1>2, <2>2, <2>3 DEF Ledger
<1> QED
  BY <1>3, <1>4, FillEffect

LEMMA ApplyTradeLedger ==
  ASSUME TypeInv, Ledger, ApplyTrade
  PROVE  Ledger'
<1> DEFINE o == trade.order
           lot == trade.quantity
<1>1. /\ o \in OrderId /\ lot \in Nat /\ xpc = "apply" /\ xpc' = "report"
      /\ UNCHANGED <<owner, traded, forwarded, trade>>
  BY DEF ApplyTrade, BrokerAt, TypeInv, TypeOK, ThreadsOK, orderVars, sentVars
<1>2. \A p \in OrderId :
        executedQuantity'[p] = IF p = o THEN executedQuantity[p] + lot
                               ELSE executedQuantity[p]
  BY DEF ApplyTrade, NewExecuted, TypeInv, TypeOK
<1>3. \A p \in OrderId :
        /\ executedQuantity[p] \in Nat
        /\ Applying(p) = (IF p = o THEN lot ELSE 0) /\ Applying(p)' = 0
        /\ Forwarding(p)' = Forwarding(p)
  BY <1>1 DEF Applying, Forwarding, TypeInv, TypeOK
<1> QED
  BY <1>1, <1>2, <1>3 DEF Ledger

LEMMA ForwardTradeLedger ==
  ASSUME TypeInv, Ledger, ForwardTrade
  PROVE  Ledger'
<1> DEFINE o == trade.order
           lot == trade.quantity
<1>1. /\ o \in OrderId /\ lot \in Nat /\ xpc = "forward" /\ xpc' = "fill"
      /\ UNCHANGED <<owner, traded, executedQuantity, trade>>
  BY DEF ForwardTrade, BrokerAt, TypeInv, TypeOK, ThreadsOK, orderVars, fillVars
<1>2. \A p \in OrderId :
        forwarded'[p] = IF p = o THEN forwarded[p] + lot ELSE forwarded[p]
  BY DEF ForwardTrade, TypeInv, TypeOK
<1>3. \A p \in OrderId :
        /\ forwarded[p] \in Nat
        /\ Applying(p) = 0 /\ Applying(p)' = 0
        /\ Forwarding(p) = (IF p = o THEN lot ELSE 0) /\ Forwarding(p)' = 0
  BY <1>1 DEF Applying, Forwarding, TypeInv, TypeOK
<1> QED
  BY <1>1, <1>2, <1>3 DEF Ledger

LEMMA NextLedger ==
  TypeInv /\ BookInv /\ OwnInv /\ Ledger /\ [Next]_vars => Ledger'
<1> SUFFICES ASSUME TypeInv, BookInv, OwnInv, Ledger, [Next]_vars
             PROVE  Ledger'
  OBVIOUS
<1> USE DEF listVars, sessionVars, bookVars, orderVars, fillVars, brokerVars, sentVars
<1>1. ASSUME xpc \notin {"apply", "report", "forward"},
             xpc' \notin {"apply", "report", "forward"},
             UNCHANGED <<owner, executedQuantity, traded, forwarded>>
      PROVE  Ledger'
  BY <1>1 DEF Ledger, Applying, Forwarding
<1>2. CASE LockBroker \/ AcceptNext \/ UnlockBroker
  BY <1>1, <1>2 DEF LockBroker, AcceptNext, UnlockBroker, BrokerAt
<1>3. CASE UNCHANGED vars \/ Register \/ \E c \in Client : Accept(c)
  BY <1>3, SameLedger DEF vars, Register, Accept
<1>4. CASE \E c \in Client : Session(c)
  BY <1>4, SameLedger, AddOrderLedger
  DEF Session, GetIdentity, Disconnect, RefuseDuplicate, AckOrder, SubmitToBroker,
      FindForCancel, ConfirmCancel, CancelAtBroker, CancelCrash
<1>5. CASE ReportState
  <2>1. /\ xpc = "report" /\ xpc' = "forward"
        /\ UNCHANGED <<owner, executedQuantity, traded, forwarded, trade>>
    BY <1>5 DEF ReportState, BrokerAt
  <2> QED
    BY <2>1 DEF Ledger, Applying, Forwarding
<1> QED
  BY <1>2, <1>3, <1>4, <1>5, FillLedger, ApplyTradeLedger, ForwardTradeLedger DEF Next, Broker

(***************************************************************************)
(* What a client was sent in trades of its order is what the order counts  *)
(* as executed, and no more than the sink was given, whenever the broker   *)
(* is not at work.                                                         *)
(***************************************************************************)
THEOREM ReconciledCorrect == Spec => []Reconciled
<1>1. Init => Ledger
  BY DEF Init, Ledger, Applying, Forwarding
<1>2. ASSUME TypeInv, Ledger
      PROVE  Reconciled
  <2> SUFFICES ASSUME BrokerMutexFree, NEW o \in 1 .. gsId - 1, owner[o] \in Client
               PROVE  /\ traded[<<owner[o], o>>] = executedQuantity[o]
                      /\ executedQuantity[o] <= forwarded[o]
    BY DEF Reconciled
  <2>1. o \in OrderId
    BY <1>2, MaxOrdersAssumption DEF TypeInv, TypeOK, OrderId
  <2>2. Applying(o) = 0 /\ Forwarding(o) = 0
    BY DEF Applying, Forwarding, BrokerMutexFree
  <2>3. executedQuantity[o] \in Nat /\ forwarded[o] \in Nat
    BY <1>2, <2>1 DEF TypeInv, TypeOK
  <2> QED
    BY <1>2, <2>1, <2>2, <2>3 DEF Ledger
<1>3. ReportInv => OwnInv
  BY DEF ReportInv
<1> QED
  BY <1>1, <1>2, <1>3, ReportsInvariant, NextLedger, PTL DEF Spec

-----------------------------------------------------------------------------
(* Listed or retired. The trade that completes an order retires it in the   *)
(* same step; as the order was listed until then, no trade comes after.     *)

Exact ==
  \A o \in OrderId : owner[o] \in Client =>
    /\ quantity[o] # 0
    /\ o \in retiredOrders[owner[o]] <=> executedQuantity[o] = quantity[o]
    /\ o \in retiredOrders[owner[o]] \/ o \in Listed(owner[o])

LEMMA SameExact ==
  ASSUME Exact, \A o \in OrderId : owner'[o] = owner[o],
         UNCHANGED <<clientOrders, retiredOrders, quantity, executedQuantity>>
  PROVE  Exact'
BY DEF Exact, Listed

LEMMA AddOrderExact ==
  ASSUME TypeInv, BookInv, OwnInv, Exact,
         NEW c \in Client, NEW id, NEW q \in Quantity, AddOrder(c, id, q)
  PROVE  Exact'
<1>1. /\ gsId \in OrderId /\ owner[gsId] = NoClient /\ executedQuantity[gsId] = 0
      /\ \A o \in OrderId : owner'[o] = IF o = gsId THEN c ELSE owner[o]
      /\ \A o \in OrderId : quantity'[o] = IF o = gsId THEN q ELSE quantity[o]
      /\ UNCHANGED <<retiredOrders, executedQuantity>>
      /\ q # 0
  BY QuantityAssumption
  DEF AddOrder, OwnInv, OwnedOrders, Untouched, OrderId, TypeInv, TypeOK, fillVars
<1>2. gsId \notin retiredOrders[c]
  BY DEF BookInv, OlderThanNext, TypeInv, TypeOK
<1>3. \A e \in Client : Listed(e) \subseteq ToSet(clientOrders'[e])
  <2>1. \A e \in Client :
          ToSet(clientOrders'[e]) = IF e = c THEN Listed(c) \cup {gsId} ELSE Listed(e)
    BY AddOrderLists
  <2> QED
    BY <2>1
<1>4. gsId \in ToSet(clientOrders'[c])
  <2>1. ToSet(clientOrders'[c]) = IF c = c THEN Listed(c) \cup {gsId} ELSE Listed(c)
    BY AddOrderLists
  <2> QED
    BY <2>1
<1>5. ASSUME NEW o \in OrderId, owner'[o] \in Client
      PROVE  /\ quantity'[o] # 0
             /\ o \in retiredOrders[owner'[o]] <=> executedQuantity[o] = quantity'[o]
             /\ \/ o \in retiredOrders[owner'[o]]
                \/ o \in ToSet(clientOrders'[owner'[o]])
  <2>1. CASE o = gsId
    BY <1>1, <1>2, <1>4, <2>1
  <2>2. CASE o # gsId
    BY <1>1, <1>3, <1>5, <2>2 DEF Exact
  <2> QED
    BY <2>1, <2>2
<1> QED
  BY <1>1, <1>5 DEF Exact, Listed

LEMMA ApplyTradeExact ==
  ASSUME TypeInv, BookInv, OwnInv, Exact, ApplyTrade
  PROVE  Exact'
<1> DEFINE c == trade.client
           o == trade.order
           executed == NewExecuted(o, trade.quantity)
           s == StateAfterFill(o, executed)
<1>1. /\ c \in Client /\ o \in OrderId /\ o \in Listed(c)
      /\ UNCHANGED <<owner, quantity>>
      /\ executedQuantity' = [executedQuantity EXCEPT ![o] = executed]
  BY DEF ApplyTrade, BrokerAt, OwnInv, OwnedWork, TypeInv, ThreadsOK, orderVars
<1>2. owner[o] = c /\ o \notin retiredOrders[c]
  BY <1>1, ListedOwned
<1>3. \A p \in OrderId :
        executedQuantity'[p] = IF p = o THEN executed ELSE executedQuantity[p]
  BY <1>1 DEF TypeInv, TypeOK
<1>4. s = "executed" <=> executed = quantity[o]
  <2>1. executed \in Nat /\ quantity[o] \in Nat
    BY <1>1 DEF NewExecuted, TypeInv, TypeOK
  <2> HIDE DEF executed
  <2> QED
    BY <2>1 DEF StateAfterFill
<1>5. CASE executed = quantity[o]
  <2>1. Retire(c, o)
    BY <1>4, <1>5 DEF ApplyTrade
  <2>2. \A e \in Client :
          /\ ToSet(clientOrders'[e]) = IF e = c THEN Listed(c) \ {o} ELSE Listed(e)
          /\ retiredOrders'[e] = IF e = c /\ o \in Listed(c)
                                 THEN retiredOrders[c] \cup {o} ELSE retiredOrders[e]
    BY <1>1, <2>1, RetireLists
  <2> HIDE DEF c, o, executed, s
  <2>3. ASSUME NEW p \in OrderId, owner[p] \in Client
        PROVE  /\ quantity[p] # 0
               /\ p \in retiredOrders'[owner[p]] <=> executedQuantity'[p] = quantity[p]
               /\ \/ p \in retiredOrders'[owner[p]]
                  \/ p \in ToSet(clientOrders'[owner[p]])
    <3>1. CASE p = o
      BY <1>1, <1>2, <1>3, <1>5, <2>2, <3>1 DEF Exact
    <3>2. CASE p # o
      <4>1. /\ p \in retiredOrders'[owner[p]] <=> p \in retiredOrders[owner[p]]
            /\ p \in ToSet(clientOrders'[owner[p]]) <=> p \in Listed(owner[p])
        BY <2>2, <2>3, <3>2
      <4> QED
        BY <1>3, <2>3, <3>2, <4>1 DEF Exact
    <3> QED
      BY <3>1, <3>2
  <2> QED
    BY <1>1, <2>3 DEF Exact, Listed
<1>6. CASE executed # quantity[o]
  <2>1. UNCHANGED <<clientOrders, retiredOrders>>
    BY <1>4, <1>6 DEF ApplyTrade, bookVars
  <2> HIDE DEF c, o, executed, s
  <2>2. ASSUME NEW p \in OrderId, owner[p] \in Client
        PROVE  /\ quantity[p] # 0
               /\ p \in retiredOrders[owner[p]] <=> executedQuantity'[p] = quantity[p]
               /\ p \in retiredOrders[owner[p]] \/ p \in Listed(owner[p])
    BY <1>1, <1>2, <1>3, <1>6, <2>2 DEF Exact
  <2> QED
    BY <1>1, <2>1, <2>2 DEF Exact, Listed
<1> QED
  BY <1>5, <1>6

LEMMA NextExact ==
  TypeInv /\ BookInv /\ OwnInv /\ Exact /\ [Next]_vars => Exact'
<1> SUFFICES ASSUME TypeInv, BookInv, OwnInv, Exact, [Next]_vars
             PROVE  Exact'
  OBVIOUS
<1> USE DEF listVars, sessionVars, bookVars, orderVars, fillVars, brokerVars, sentVars
<1>1. CASE UNCHANGED vars \/ Register \/ \E c \in Client : Accept(c)
  BY <1>1, SameExact DEF vars, Register, Accept
<1>2. CASE \E c \in Client : Session(c)
  BY <1>2, SameExact, AddOrderExact
  DEF Session, GetIdentity, Disconnect, RefuseDuplicate, AckOrder, SubmitToBroker,
      FindForCancel, ConfirmCancel, CancelAtBroker, CancelCrash
<1>3. CASE LockBroker \/ AcceptNext \/ ReportState \/ ForwardTrade \/ UnlockBroker
  BY <1>3, SameExact DEF LockBroker, AcceptNext, ReportState, ForwardTrade, UnlockBroker
<1>4. CASE \E o \in OrderId, lot \in Lot : Fill(o, lot)
  BY <1>4, SameExact DEF Fill
<1> QED
  BY <1>1, <1>2, <1>3, <1>4, ApplyTradeExact DEF Next, Broker

(***************************************************************************)
(* An order is in the list of its session until its whole quantity was     *)
(* executed, and retired from then on.                                     *)
(***************************************************************************)
THEOREM RetiredExactlyCorrect == Spec => []RetiredExactly
<1>1. Init => Exact
  BY NoClientAssumption DEF Init, Exact
<1>2. ASSUME TypeInv, Exact
      PROVE  RetiredExactly
  <2>1. \A o \in 1 .. gsId - 1 : o \in OrderId
    BY <1>2, MaxOrdersAssumption DEF TypeInv, TypeOK, OrderId
  <2> QED
    BY <1>2, <2>1 DEF Exact, RetiredExactly, Listed
<1>3. ReportInv => OwnInv
  BY DEF ReportInv
<1> QED
  BY <1>1, <1>2, <1>3, ReportsInvariant, NextExact, PTL DEF Spec

-----------------------------------------------------------------------------
(* Cancellations. A session cancels only while the broker is not at work,   *)
(* so that the order of a trade in the broker's hands is still open.        *)

OpenUnderTrade ==
  xpc = "apply" => state[trade.order] \in {"submitted", "partially-executed"}

LEMMA NextOpen ==
  TypeInv /\ OpenUnderTrade /\ [Next]_vars => OpenUnderTrade'
<1> SUFFICES ASSUME TypeInv, OpenUnderTrade, [Next]_vars
             PROVE  OpenUnderTrade'
  OBVIOUS
<1> USE DEF listVars, sessionVars, bookVars, orderVars, fillVars, brokerVars, sentVars,
            OpenUnderTrade, BrokerAt
<1>1. CASE UNCHANGED <<state, xpc, trade>>
  BY <1>1
<1>2. CASE xpc' # "apply"
  BY <1>2
<1>3. ASSUME NEW o \in OrderId, NEW lot \in Lot, Fill(o, lot)
      PROVE  OpenUnderTrade'
  <2>1. state' = state /\ state[o] \in {"submitted", "partially-executed"}
    BY <1>3 DEF Fill, Fillable
  <2> QED
    BY <1>3, <2>1, FillEffect
<1>4. CASE \E c \in Client : CancelAtBroker(c)
  BY <1>2, <1>4 DEF CancelAtBroker, BrokerMutexFree
<1>5. CASE UNCHANGED vars \/ Register \/ \E c \in Client : Accept(c)
  BY <1>1, <1>5 DEF vars, Register, Accept
<1>6. CASE \E c \in Client : Session(c)
  BY <1>1, <1>4, <1>6
  DEF Session, GetIdentity, Disconnect, RefuseDuplicate, AddOrder, AckOrder,
      SubmitToBroker, FindForCancel, ConfirmCancel, CancelCrash
<1>7. CASE LockBroker \/ AcceptNext \/ ApplyTrade \/ ReportState \/ ForwardTrade \/ UnlockBroker
  BY <1>2, <1>7 DEF LockBroker, AcceptNext, ApplyTrade, ReportState, ForwardTrade, UnlockBroker
<1> QED
  BY <1>3, <1>5, <1>6, <1>7 DEF Next, Broker

(***************************************************************************)
(* A cancelled order stays cancelled and executes no further.              *)
(***************************************************************************)
THEOREM CancelledFinalCorrect == Spec => CancelledFinal
<1> USE DEF listVars, sessionVars, bookVars, orderVars, fillVars, brokerVars, sentVars,
            BrokerAt
<1>1. Init => OpenUnderTrade
  BY DEF Init, OpenUnderTrade
<1>2. ASSUME TypeInv, OpenUnderTrade, [Next]_vars,
             NEW o \in OrderId, state[o] = "cancelled"
      PROVE  state'[o] = "cancelled" /\ executedQuantity'[o] = executedQuantity[o]
  <2>1. CASE UNCHANGED fillVars
    BY <1>2, <2>1
  <2>2. CASE \E c \in Client : CancelAtBroker(c)
    BY <1>2, <2>2 DEF CancelAtBroker, TypeInv, TypeOK
  <2>3. CASE AcceptNext
    BY <1>2, <2>3 DEF AcceptNext, Waiting, TypeInv, TypeOK
  <2>4. CASE ApplyTrade
    <3>1. trade.order # o
      BY <1>2, <2>4 DEF ApplyTrade, OpenUnderTrade
    <3> QED
      BY <1>2, <2>4, <3>1 DEF ApplyTrade, TypeInv, TypeOK
  <2>5. CASE \E c \in Client : Accept(c) \/ Session(c)
    BY <2>1, <2>2, <2>5
    DEF Accept, Session, GetIdentity, Disconnect, RefuseDuplicate, AddOrder, AckOrder,
        SubmitToBroker, FindForCancel, ConfirmCancel, CancelCrash
  <2>6. CASE \/ UNCHANGED vars \/ Register
             \/ LockBroker \/ ReportState \/ ForwardTrade \/ UnlockBroker
             \/ \E p \in OrderId, lot \in Lot : Fill(p, lot)
    BY <2>1, <2>6 DEF vars, Register, LockBroker, Fill, ReportState, ForwardTrade, UnlockBroker
  <2> QED
    BY <1>2, <2>3, <2>4, <2>5, <2>6 DEF Next, Broker
<1>3. TypeInv /\ OpenUnderTrade /\ [Next]_vars =>
        [\A o \in OrderId : state[o] = "cancelled" =>
           state'[o] = "cancelled" /\ executedQuantity'[o] = executedQuantity[o]]_vars
  BY <1>2
<1> QED
  BY <1>1, <1>3, InitTypeInv, NextTypeInv, NextOpen, PTL DEF Spec, CancelledFinal

-----------------------------------------------------------------------------
(* The iterator of cancel-order. Orders are listed in the order they were   *)
(* created, and what is erased moves younger ones down: at its place and    *)
(* after it the list has no order older than the one that was found. When   *)
(* the place is destroyed, what is left in it was executed just then.       *)

ListedByAge(c) ==
  \A i, j \in DOMAIN clientOrders[c] : i < j => clientOrders[c][i] < clientOrders[c][j]

SlotByAge(c) ==
  pc[c] \in {"confirm", "cancel"} =>
    \A i \in DOMAIN clientOrders[c] : slot[c] <= i => current[c] <= clientOrders[c][i]

HuskByAge(c) ==
  husk[c] # NoOrder =>
    /\ pc[c] \in {"confirm", "cancel"}
    /\ husk[c] \in retiredOrders[c] /\ owner[husk[c]] = c /\ current[c] <= husk[c]

HuskInv == \A c \in Client : HuskByAge(c)

ByAge == \A c \in Client : ListedByAge(c) /\ SlotByAge(c)

LEMMA SameByAge ==
  ASSUME NEW c \in Client, ListedByAge(c), SlotByAge(c), clientOrders'[c] = clientOrders[c],
         pc'[c] \in {"confirm", "cancel"} =>
           /\ pc[c] \in {"confirm", "cancel"}
           /\ slot'[c] = slot[c] /\ current'[c] = current[c]
  PROVE  ListedByAge(c)' /\ SlotByAge(c)'
BY DEF ListedByAge, SlotByAge

LEMMA AddOrderByAge ==
  ASSUME TypeInv, BookInv, ByAge, NEW c \in Client, NEW id, NEW q, AddOrder(c, id, q)
  PROVE  ByAge'
<1> DEFINE old == clientOrders[c]
           new == Append(old, gsId)
<1>1. /\ clientOrders'[c] = new /\ pc'[c] = "acknowledge"
      /\ \A e \in Client \ {c} : /\ clientOrders'[e] = clientOrders[e] /\ pc'[e] = pc[e]
                                 /\ slot'[e] = slot[e] /\ current'[e] = current[e]
  BY DEF AddOrder, StepAfter, TypeInv, TypeOK
<1>2. /\ old \in Seq(OrderId) /\ DOMAIN old = 1 .. Len(old) /\ Len(old) \in Nat
      /\ gsId \in OrderId
  BY LenProperties DEF AddOrder, TypeInv, TypeOK
<1>3. /\ DOMAIN new = 1 .. Len(old) + 1
      /\ \A i \in 1 .. Len(old) : new[i] = old[i]
      /\ new[Len(old) + 1] = gsId
  BY <1>2, AppendProperties, LenProperties
<1>4. /\ \A i \in DOMAIN old : old[i] < gsId
      /\ \A i, j \in DOMAIN old : i < j => old[i] < old[j]
  BY DEF BookInv, OlderThanNext, ByAge, ListedByAge
<1> HIDE DEF old, new
<1>5. \A i, j \in DOMAIN new : i < j => new[i] < new[j]
  <2> SUFFICES ASSUME NEW i \in DOMAIN new, NEW j \in DOMAIN new, i < j
               PROVE  new[i] < new[j]
    OBVIOUS
  <2>1. i \in DOMAIN old /\ new[i] = old[i]
    BY <1>2, <1>3
  <2>2. CASE j \in DOMAIN old
    BY <1>2, <1>3, <1>4, <2>1, <2>2
  <2>3. CASE j = Len(old) + 1
    BY <1>3, <1>4, <2>1, <2>3
  <2> QED
    BY <1>2, <1>3, <2>2, <2>3
<1>6. ASSUME NEW e \in Client
      PROVE  ListedByAge(e)' /\ SlotByAge(e)'
  <2>1. CASE e = c
    BY <1>1, <1>5, <2>1 DEF ListedByAge, SlotByAge
  <2>2. CASE e # c
    BY <1>1, <2>2, SameByAge DEF ByAge
  <2> QED
    BY <2>1, <2>2
<1> QED
  BY <1>6 DEF ByAge

LEMMA RetireByAge ==
  ASSUME TypeInv, ByAge, NEW c \in Client, NEW o, Retire(c, o),
         UNCHANGED <<pc, slot, current>>
  PROVE  ByAge'
<1>1. CASE UNCHANGED bookVars
  BY <1>1, SameByAge DEF ByAge, bookVars
<1>2. ASSUME NEW i \in DOMAIN clientOrders[c],
             clientOrders' = [clientOrders EXCEPT ![c] = RemoveAt(@, i)]
      PROVE  ByAge'
  <2> DEFINE old == clientOrders[c]
             new == RemoveAt(old, i)
  <2>1. /\ clientOrders'[c] = new
        /\ \A e \in Client \ {c} : clientOrders'[e] = clientOrders[e]
    BY <1>2 DEF TypeInv, TypeOK
  <2>2. /\ old \in Seq(OrderId) /\ Len(old) \in Nat /\ DOMAIN old = 1 .. Len(old)
        /\ \A j \in DOMAIN old : old[j] \in Int
        /\ slot[c] \in Nat
    <3>1. TypeOK
      BY DEF TypeInv
    <3>2. old \in Seq(OrderId) /\ slot[c] \in Nat
      BY <3>1 DEF TypeOK
    <3>3. Len(old) \in Nat /\ DOMAIN old = 1 .. Len(old)
      BY <3>2, LenProperties
    <3>4. \A j \in DOMAIN old : old[j] \in OrderId
      BY <3>1, ListedType
    <3> QED
      BY <3>2, <3>3, <3>4 DEF OrderId
  <2>3. /\ new \in Seq(OrderId)
        /\ Len(new) = Len(old) - 1
        /\ \A j \in 1 .. Len(old) - 1 : new[j] = IF j < i THEN old[j] ELSE old[j + 1]
    BY <1>2, <2>2, RemoveAtShifts
  <2>4. DOMAIN new = 1 .. Len(old) - 1
    BY <2>3, LenProperties
  <2> HIDE DEF new
  <2>5. ASSUME NEW j \in DOMAIN new
        PROVE  \E k \in DOMAIN old : /\ new[j] = old[k] /\ j <= k
                                     /\ k = IF j < i THEN j ELSE j + 1
    <3>1. CASE j < i
      <4>1. j \in 1 .. Len(old) - 1 /\ j \in DOMAIN old /\ j <= j
        BY <2>2, <2>4
      <4>2. new[j] = old[j]
        BY <2>3, <3>1, <4>1
      <4> QED
        BY <3>1, <4>1, <4>2
    <3>2. CASE ~ (j < i)
      <4>1. j + 1 \in DOMAIN old /\ new[j] = old[j + 1] /\ j <= j + 1
        BY <1>2, <2>2, <2>3, <2>4, <3>2
      <4> QED
        BY <3>2, <4>1
    <3> QED
      BY <3>1, <3>2
  <2>6. /\ \A j, k \in DOMAIN old : j < k => old[j] < old[k]
        /\ pc[c] \in {"confirm", "cancel"} =>
             \A j \in DOMAIN old : slot[c] <= j => current[c] <= old[j]
    BY DEF ByAge, ListedByAge, SlotByAge
  <2> HIDE DEF old
  <2>7. \A j, k \in DOMAIN new : j < k => new[j] < new[k]
    <3> SUFFICES ASSUME NEW j \in DOMAIN new, NEW k \in DOMAIN new, j < k
                 PROVE  new[j] < new[k]
      OBVIOUS
    <3>1. PICK m \in DOMAIN old : new[j] = old[m] /\ m = IF j < i THEN j ELSE j + 1
      BY <2>5
    <3>2. PICK n \in DOMAIN old : new[k] = old[n] /\ n = IF k < i THEN k ELSE k + 1
      BY <2>5
    <3>3. m < n
      BY <1>2, <2>2, <2>4, <3>1, <3>2 DEF old
    <3> QED
      BY <2>6, <3>1, <3>2, <3>3
  <2>8. pc[c] \in {"confirm", "cancel"} =>
          \A j \in DOMAIN new : slot[c] <= j => current[c] <= new[j]
    <3> SUFFICES ASSUME pc[c] \in {"confirm", "cancel"}, NEW j \in DOMAIN new, slot[c] <= j
                 PROVE  current[c] <= new[j]
      OBVIOUS
    <3>1. PICK m \in DOMAIN old : new[j] = old[m] /\ j <= m
      BY <2>5
    <3>2. slot[c] <= m
      BY <2>2, <2>4, <3>1
    <3> QED
      BY <2>6, <3>1, <3>2
  <2>9. ASSUME NEW e \in Client
        PROVE  ListedByAge(e)' /\ SlotByAge(e)'
    <3>1. CASE e = c
      BY <2>1, <2>7, <2>8, <3>1 DEF ListedByAge, SlotByAge
    <3>2. CASE e # c
      BY <2>1, <3>2, SameByAge DEF ByAge
    <3> QED
      BY <3>1, <3>2
  <2> QED
    BY <2>9 DEF ByAge
<1> QED
  BY <1>1, <1>2 DEF Retire

LEMMA NextByAge == TypeInv /\ BookInv /\ ByAge /\ [Next]_vars => ByAge'
<1> SUFFICES ASSUME TypeInv, BookInv, ByAge, [Next]_vars
             PROVE  ByAge'
  OBVIOUS
<1> USE DEF listVars, sessionVars, bookVars, orderVars, fillVars, brokerVars, sentVars
<1>a. /\ pc \in [Client -> {"none", "read", "acknowledge", "submit", "confirm", "cancel",
                            "ended"}]
      /\ current \in [Client -> OrderId \cup {NoOrder}] /\ slot \in [Client -> Nat]
  BY DEF TypeInv, TypeOK
<1>1. ASSUME clientOrders' = clientOrders,
             \A e \in Client : pc'[e] \in {"confirm", "cancel"} =>
               /\ pc[e] \in {"confirm", "cancel"}
               /\ slot'[e] = slot[e] /\ current'[e] = current[e]
      PROVE  ByAge'
  BY <1>1, SameByAge DEF ByAge
<1>2. ASSUME NEW c \in Client, NEW i \in DOMAIN clientOrders[c], FindForCancel(c, i)
      PROVE  ByAge'
  <2>1. /\ clientOrders' = clientOrders
        /\ slot'[c] = i /\ current'[c] = clientOrders[c][i]
        /\ \A e \in Client \ {c} : pc'[e] = pc[e] /\ slot'[e] = slot[e] /\ current'[e] = current[e]
    BY <1>2, <1>a DEF FindForCancel
  <2>2. \A j \in DOMAIN clientOrders[c] : i <= j => clientOrders[c][i] <= clientOrders[c][j]
    <3> SUFFICES ASSUME NEW j \in DOMAIN clientOrders[c], i <= j
                 PROVE  clientOrders[c][i] <= clientOrders[c][j]
      OBVIOUS
    <3>1. /\ clientOrders[c][i] \in Int /\ clientOrders[c][j] \in Int
          /\ i \in Int /\ j \in Int
      BY ListedType DEF TypeInv, OrderId
    <3>2. i < j => clientOrders[c][i] < clientOrders[c][j]
      BY DEF ByAge, ListedByAge
    <3>3. CASE i = j
      BY <3>1, <3>3
    <3>4. CASE i < j
      BY <3>1, <3>2, <3>4
    <3> QED
      BY <3>1, <3>3, <3>4
  <2>3. ASSUME NEW e \in Client
        PROVE  ListedByAge(e)' /\ SlotByAge(e)'
    <3>1. CASE e = c
      BY <2>1, <2>2, <3>1 DEF ByAge, ListedByAge, SlotByAge
    <3>2. CASE e # c
      BY <2>1, <3>2, SameByAge DEF ByAge
    <3> QED
      BY <3>1, <3>2
  <2> QED
    BY <2>3 DEF ByAge
<1>3. ASSUME NEW c \in Client,
             \/ Accept(c) \/ GetIdentity(c) \/ Disconnect(c) \/ AckOrder(c)
             \/ SubmitToBroker(c) \/ ConfirmCancel(c) \/ CancelAtBroker(c) \/ CancelCrash(c)
             \/ \E id \in ClientOrderId : RefuseDuplicate(c, id)
      PROVE  ByAge'
  <2>1. UNCHANGED <<clientOrders, slot, current>>
    BY <1>3 DEF Accept, GetIdentity, Disconnect, AckOrder, SubmitToBroker, ConfirmCancel,
       CancelAtBroker, CancelCrash, RefuseDuplicate
  <2>2. \/ pc' = pc
        \/ \E step \in {"read", "ended", "submit"} : pc' = [pc EXCEPT ![c] = step]
        \/ pc[c] = "confirm" /\ pc' = [pc EXCEPT ![c] = "cancel"]
    BY <1>3 DEF Accept, GetIdentity, Disconnect, AckOrder, SubmitToBroker, ConfirmCancel,
       CancelAtBroker, CancelCrash, RefuseDuplicate, At, StepAfter
  <2>3. \A e \in Client : pc'[e] \in {"confirm", "cancel"} => pc[e] \in {"confirm", "cancel"}
    BY <1>a, <2>2
  <2> QED
    BY <1>1, <2>1, <2>3
<1>4. CASE ApplyTrade
  <2>1. UNCHANGED <<pc, slot, current>> /\ trade.client \in Client
    BY <1>4 DEF ApplyTrade, BrokerAt, TypeInv, ThreadsOK
  <2>2. CASE Retire(trade.client, trade.order)
    BY <2>1, <2>2, RetireByAge
  <2>3. CASE UNCHANGED bookVars
    BY <1>1, <2>1, <2>3
  <2> QED
    BY <1>4, <2>2, <2>3 DEF ApplyTrade
<1>5. CASE \/ UNCHANGED vars \/ Register
           \/ LockBroker \/ AcceptNext \/ ReportState \/ ForwardTrade \/ UnlockBroker
           \/ \E o \in OrderId, lot \in Lot : Fill(o, lot)
  BY <1>1, <1>5 DEF vars, Register, LockBroker, AcceptNext, Fill, ReportState, ForwardTrade,
     UnlockBroker
<1> QED
  BY <1>2, <1>3, <1>4, <1>5, AddOrderByAge DEF Next, Session, Broker

LEMMA SameHusk ==
  ASSUME HuskInv,
         \A c \in Client :
           /\ husk'[c] \in {husk[c], NoOrder}
           /\ husk'[c] # NoOrder =>
                /\ retiredOrders[c] \subseteq retiredOrders'[c]
                /\ owner[husk[c]] = c => owner'[husk[c]] = c
                /\ pc[c] \in {"confirm", "cancel"} => pc'[c] \in {"confirm", "cancel"}
                /\ current'[c] = current[c]
  PROVE  HuskInv'
BY DEF HuskInv, HuskByAge

LEMMA ApplyTradeHusk ==
  ASSUME TypeInv, BookInv, OwnInv, ByAge, HuskInv, ApplyTrade
  PROVE  HuskInv'
<1>1. /\ trade.client \in Client /\ trade.order \in OrderId
      /\ trade.order \in Listed(trade.client)
      /\ UNCHANGED <<pc, slot, current, owner>>
  BY DEF ApplyTrade, BrokerAt, OwnInv, OwnedWork, TypeInv, ThreadsOK, sessionVars, orderVars
<1>2. CASE UNCHANGED bookVars
  BY <1>1, <1>2, SameHusk DEF bookVars
<1>3. CASE Retire(trade.client, trade.order)
  <2>1. PICK c \in Client, o \in OrderId : c = trade.client /\ o = trade.order
    BY <1>1
  <2>2. owner[o] = c
    BY <1>1, <2>1, ListedOwned
  <2>3. \A e \in Client : retiredOrders'[e] = IF e = c /\ o \in Listed(c)
                             THEN retiredOrders[c] \cup {o} ELSE retiredOrders[e]
    BY <1>3, <2>1, RetireLists
  <2>4. ASSUME NEW e \in Client
        PROVE  HuskByAge(e)'
    <3>1. CASE husk'[e] = husk[e]
      BY <1>1, <2>3, <3>1 DEF HuskInv, HuskByAge
    <3>2. CASE husk'[e] # husk[e]
      <4>1. /\ e = c /\ pc[c] \in {"confirm", "cancel"} /\ husk'[c] \in {NoOrder, o}
            /\ husk'[c] # NoOrder =>
                 slot[c] \in DOMAIN clientOrders[c] /\ clientOrders[c][slot[c]] = o
        BY <1>3, <2>1, <3>2, RetireHusk
      <4>2. slot[c] \in Nat
        BY DEF TypeInv, TypeOK
      <4>3. husk'[c] # NoOrder => current[c] <= o
        BY <4>1, <4>2 DEF ByAge, SlotByAge
      <4>4. o \in retiredOrders'[c]
        BY <1>1, <2>1, <2>3
      <4> QED
        BY <1>1, <2>2, <4>1, <4>3, <4>4 DEF HuskByAge
    <3> QED
      BY <3>1, <3>2
  <2> QED
    BY <2>4 DEF HuskInv
<1> QED
  BY <1>2, <1>3 DEF ApplyTrade

LEMMA NextHusk ==
  TypeInv /\ BookInv /\ OwnInv /\ ByAge /\ HuskInv /\ [Next]_vars => HuskInv'
<1> SUFFICES ASSUME TypeInv, BookInv, OwnInv, ByAge, HuskInv, [Next]_vars
             PROVE  HuskInv'
  OBVIOUS
<1> USE DEF listVars, sessionVars, bookVars, orderVars, fillVars, brokerVars, sentVars
<1>a. /\ pc \in [Client -> {"none", "read", "acknowledge", "submit", "confirm", "cancel",
                            "ended"}]
      /\ current \in [Client -> OrderId \cup {NoOrder}]
      /\ husk \in [Client -> OrderId \cup {NoOrder}]
      /\ owner \in [OrderId -> Client \cup {NoClient}]
  BY DEF TypeInv, TypeOK
<1>b. \A e \in Client : husk[e] # NoOrder => pc[e] \in {"confirm", "cancel"}
  BY DEF HuskInv, HuskByAge
<1>1. ASSUME NEW c \in Client, NEW id, NEW q, AddOrder(c, id, q)
      PROVE  HuskInv'
  <2>1. /\ pc[c] = "read" /\ UNCHANGED <<husk, retiredOrders>>
        /\ \A e \in Client \ {c} : pc'[e] = pc[e] /\ current'[e] = current[e]
    BY <1>1, <1>a DEF AddOrder, At
  <2>2. husk[c] = NoOrder
    BY <1>b, <2>1
  <2>3. owner[gsId] = NoClient /\ owner' = [owner EXCEPT ![gsId] = c]
    BY <1>1 DEF AddOrder, OwnInv, OwnedOrders, OrderId
  <2>4. \A e \in Client : husk[e] # NoOrder /\ owner[husk[e]] = e => owner'[husk[e]] = e
    BY <1>a, <2>3, NoClientAssumption
  <2> QED
    BY <2>1, <2>2, <2>4, SameHusk
<1>2. ASSUME NEW c \in Client, NEW i \in DOMAIN clientOrders[c], FindForCancel(c, i)
      PROVE  HuskInv'
  <2>1. /\ pc[c] = "read" /\ UNCHANGED <<husk, retiredOrders, owner>>
        /\ \A e \in Client \ {c} : pc'[e] = pc[e] /\ current'[e] = current[e]
    BY <1>2, <1>a DEF FindForCancel, At
  <2>2. husk[c] = NoOrder
    BY <1>b, <2>1
  <2> QED
    BY <2>1, <2>2, SameHusk
<1>3. ASSUME NEW c \in Client, CancelAtBroker(c)
      PROVE  HuskInv'
  <2>1. /\ UNCHANGED <<retiredOrders, owner, current>>
        /\ husk'[c] = NoOrder
        /\ \A e \in Client \ {c} : husk'[e] = husk[e] /\ pc'[e] = pc[e]
    BY <1>3, <1>a DEF CancelAtBroker
  <2> QED
    BY <2>1, SameHusk
<1>4. ASSUME NEW c \in Client,
             \/ Accept(c) \/ GetIdentity(c) \/ Disconnect(c) \/ AckOrder(c)
             \/ SubmitToBroker(c) \/ ConfirmCancel(c) \/ CancelCrash(c)
             \/ \E id \in ClientOrderId : RefuseDuplicate(c, id)
      PROVE  HuskInv'
  <2>1. UNCHANGED <<retiredOrders, husk, owner, current>>
    BY <1>4 DEF Accept, GetIdentity, Disconnect, AckOrder, SubmitToBroker, ConfirmCancel,
       CancelCrash, RefuseDuplicate
  <2>2. \/ pc' = pc
        \/ pc[c] \in {"none", "read", "acknowledge", "submit"}
             /\ \A e \in Client \ {c} : pc'[e] = pc[e]
        \/ pc' = [pc EXCEPT ![c] = "cancel"]
    BY <1>4, <1>a DEF Accept, GetIdentity, Disconnect, AckOrder, SubmitToBroker, ConfirmCancel,
       CancelCrash, RefuseDuplicate, At
  <2>3. \A e \in Client : husk[e] # NoOrder => pc'[e] \in {"confirm", "cancel"}
    BY <1>a, <1>b, <2>2
  <2> QED
    BY <2>1, <2>3, SameHusk
<1>5. CASE \/ UNCHANGED vars \/ Register
           \/ LockBroker \/ AcceptNext \/ ReportState \/ ForwardTrade \/ UnlockBroker
           \/ \E o \in OrderId, lot \in Lot : Fill(o, lot)
  <2>1. UNCHANGED <<retiredOrders, husk, owner, current, pc>>
    BY <1>5 DEF vars, Register, LockBroker, AcceptNext, Fill, ReportState, ForwardTrade,
       UnlockBroker
  <2> QED
    BY <2>1, SameHusk
<1> QED
  BY <1>1, <1>2, <1>3, <1>4, <1>5, ApplyTradeHusk DEF Next, Session, Broker

(***************************************************************************)
(* A cancellation that misses its order hits a younger one of the same     *)
(* session, listed or executed, whatever was erased while the session      *)
(* waited for the broker.                                                  *)
(***************************************************************************)
THEOREM StrayCancelStaysHomeCorrect == Spec => StrayCancelStaysHome
<1> USE DEF listVars, sessionVars, bookVars, orderVars, fillVars, brokerVars, sentVars
<1>1. Init => ByAge /\ HuskInv
  BY DEF Init, ByAge, ListedByAge, SlotByAge, HuskInv, HuskByAge
<1>2. ASSUME TypeInv, BookInv, ByAge, HuskInv, [Next]_vars,
             NEW c \in Client, pc[c] = "cancel", pc'[c] = "read",
             NEW o \in OrderId, state'[o] # state[o], o # current[c]
      PROVE  /\ owner[o] = c /\ current[c] < o
             /\ o \in ToSet(clientOrders[c]) \cup retiredOrders[c]
  <2>a. pc \in [Client -> {"none", "read", "acknowledge", "submit", "confirm", "cancel",
                           "ended"}]
    BY <1>2 DEF TypeInv, TypeOK
  <2>1. CancelAtBroker(c)
    <3>1. ASSUME NEW e \in Client, Session(e), e # c
          PROVE  pc'[c] = pc[c]
      BY <2>a, <3>1 DEF Session, GetIdentity, Disconnect, RefuseDuplicate, AddOrder,
         AckOrder, SubmitToBroker, FindForCancel, ConfirmCancel, CancelAtBroker, CancelCrash
    <3>2. CASE Session(c)
      BY <1>2, <3>2 DEF Session, At, GetIdentity, Disconnect, RefuseDuplicate, AddOrder,
         AckOrder, SubmitToBroker, FindForCancel, ConfirmCancel, CancelCrash
    <3>3. ASSUME NEW e \in Client, Accept(e)
          PROVE  pc'[c] = pc[c]
      BY <1>2, <2>a, <3>3 DEF Accept, At
    <3>4. ASSUME UNCHANGED vars \/ Register \/ Broker
          PROVE  pc' = pc
      BY <3>4 DEF vars, Register, Broker, LockBroker, AcceptNext, Fill, ApplyTrade,
         ReportState, ForwardTrade, UnlockBroker
    <3> QED
      BY <1>2, <3>1, <3>2, <3>3, <3>4 DEF Next
  <2>2. o = SlotOrder(c)
    BY <1>2, <2>1 DEF CancelAtBroker, TypeInv, TypeOK
  <2>3. slot[c] \in Nat /\ o \in Int /\ current[c] \in Int
    BY <1>2 DEF TypeInv, TypeOK, ThreadsOK, OrderId
  <2>4. CASE Dangling(c)
    <3>1. o = husk[c] /\ o # NoOrder
      BY <2>1, <2>2, <2>4 DEF SlotOrder, CancelAtBroker
    <3> QED
      BY <1>2, <2>3, <3>1 DEF HuskInv, HuskByAge
  <2>5. CASE ~ Dangling(c)
    <3>1. slot[c] \in DOMAIN clientOrders[c] /\ o = clientOrders[c][slot[c]]
      BY <2>2, <2>5 DEF SlotOrder, Dangling
    <3>2. /\ o \in ToSet(clientOrders[c]) /\ owner[o] = c
          /\ slot[c] <= slot[c] => current[c] <= o
      BY <1>2, <3>1 DEF ToSet, BookInv, SessionBook, ByAge, SlotByAge
    <3> QED
      BY <1>2, <2>3, <3>2
  <2> QED
    BY <2>4, <2>5
<1>3. TypeInv /\ BookInv /\ ByAge /\ HuskInv /\ [Next]_vars =>
        [\A c \in Client : pc[c] = "cancel" /\ pc'[c] = "read" =>
           \A o \in OrderId : state'[o] # state[o] /\ o # current[c] =>
             /\ owner[o] = c /\ current[c] < o
             /\ o \in ToSet(clientOrders[c]) \cup retiredOrders[c]]_vars
  BY <1>2
<1>4. ReportInv => OwnInv
  BY DEF ReportInv
<1> QED
  BY <1>1, <1>3, <1>4, ReportsInvariant, NextByAge, NextHusk, PTL
  DEF Spec, StrayCancelStaysHome

-----------------------------------------------------------------------------
(* The server as OrderView: an order is placed when it is acknowledged. Who *)
(* moves an order through its states reports that to the session that owns  *)
(* the order, if this lists it and is listed itself: in the same step, or,  *)
(* when the order was filled, in the step after the order was retired.      *)

PlacedBy == [o \in OrderId |-> IF acked[o] THEN owner[o] ELSE NoClient]
KnownState ==
  [r \in Client \X OrderId |-> IF told[r] = Nothing THEN "unsubmitted" ELSE told[r]]

NoneRejected == \A o \in OrderId : state[o] # "rejected"

LEMMA NextNoneRejected == TypeInv /\ NoneRejected /\ [Next]_vars => NoneRejected'
<1> SUFFICES ASSUME TypeInv, NoneRejected, [Next]_vars
             PROVE  NoneRejected'
  OBVIOUS
<1> USE DEF listVars, sessionVars, bookVars, orderVars, fillVars, brokerVars, sentVars
<1>1. ASSUME NEW o \in OrderId, NEW s, state' = [state EXCEPT ![o] = s], s # "rejected"
      PROVE  NoneRejected'
  BY <1>1 DEF NoneRejected, TypeInv, TypeOK
<1>2. state' = state => NoneRejected'
  BY DEF NoneRejected
<1>3. ASSUME NEW c \in Client, CancelAtBroker(c)
      PROVE  NoneRejected'
  <2>1. SlotOrder(c) \in OrderId
    BY <1>3, SlotOrderType DEF CancelAtBroker, At
  <2>2. state' = [state EXCEPT ![SlotOrder(c)] = "cancelled"]
    BY <1>3 DEF CancelAtBroker
  <2> QED
    BY <1>1, <2>1, <2>2
<1>4. CASE AcceptNext
  <2>1. ASSUME NEW o \in Waiting, state' = [state EXCEPT ![o] = "submitted"]
        PROVE  NoneRejected'
    <3>1. o \in OrderId
      BY DEF Waiting, TypeInv, TypeOK
    <3> QED
      BY <1>1, <2>1, <3>1
  <2> QED
    BY <1>2, <1>4, <2>1 DEF AcceptNext
<1>5. CASE ApplyTrade
  <2>1. PICK o \in OrderId : o = trade.order
    BY <1>5 DEF ApplyTrade, BrokerAt, TypeInv, ThreadsOK
  <2>2. PICK s : s = StateAfterFill(o, NewExecuted(o, trade.quantity))
    OBVIOUS
  <2>3. s # "rejected"
    BY <2>2 DEF StateAfterFill
  <2>4. state' = [state EXCEPT ![o] = s]
    BY <1>5, <2>1, <2>2 DEF ApplyTrade
  <2> QED
    BY <1>1, <2>3, <2>4
<1>6. CASE \E c \in Client : Accept(c) \/ Session(c)
  BY <1>2, <1>3, <1>6
  DEF Accept, Session, GetIdentity, Disconnect, RefuseDuplicate, AddOrder, AckOrder,
      SubmitToBroker, FindForCancel, ConfirmCancel, CancelCrash
<1>7. CASE \/ UNCHANGED vars \/ Register
           \/ LockBroker \/ ReportState \/ ForwardTrade \/ UnlockBroker
           \/ \E p \in OrderId, lot \in Lot : Fill(p, lot)
  BY <1>2, <1>7 DEF vars, Register, LockBroker, Fill, ReportState, ForwardTrade, UnlockBroker
<1> QED
  BY <1>4, <1>5, <1>6, <1>7 DEF Next, Broker

(* An acknowledged order is placed with the session that owns it. *)
LEMMA KnownByOwner ==
  ASSUME TypeInv, OwnInv, NEW x \in OrderId, acked[x]
  PROVE  /\ owner[x] \in Client /\ PlacedBy[x] = owner[x]
         /\ <<owner[x], x>> \in Client \X OrderId
<1>1. owner[x] # NoClient
  BY DEF OwnInv, OwnedOrders, Untouched
<1> QED
  BY <1>1 DEF PlacedBy, TypeInv, TypeOK

LEMMA KnownReported ==
  ASSUME TypeInv, BookInv, OwnInv, NEW x \in OrderId, acked[x], NEW s \in State,
         told' = Reported(x, s)
  PROVE  KnownState' \in {KnownState, [KnownState EXCEPT ![<<owner[x], x>>] = s]}
<1>1. owner[x] \in Client
  BY KnownByOwner
<1>2. ASSUME NEW r \in Client \X OrderId
      PROVE  KnownState'[r] = IF owner[x] \in Holders(x) /\ r = <<owner[x], x>>
                              THEN s ELSE KnownState[r]
  <2>1. told'[r] = IF r[2] = x /\ r[1] \in Holders(x) THEN s ELSE told[r]
    BY DEF Reported
  <2>2. r[1] \in Holders(x) => r[1] = owner[x]
    BY HoldersOwn
  <2>3. r[2] = x /\ r[1] \in Holders(x) <=> owner[x] \in Holders(x) /\ r = <<owner[x], x>>
    BY <2>2
  <2>4. s # Nothing
    BY DEF State, Nothing
  <2> QED
    BY <2>1, <2>3, <2>4 DEF KnownState
<1>3. CASE owner[x] \in Holders(x)
  <2>1. KnownState' = [KnownState EXCEPT ![<<owner[x], x>>] = s]
    <3>1. \A r \in Client \X OrderId :
            KnownState'[r] = [KnownState EXCEPT ![<<owner[x], x>>] = s][r]
      BY <1>2, <1>3 DEF KnownState
    <3> QED
      BY <3>1 DEF KnownState
  <2> QED
    BY <2>1
<1>4. CASE owner[x] \notin Holders(x)
  <2>1. \A r \in Client \X OrderId : KnownState'[r] = KnownState[r]
    BY <1>2, <1>4
  <2>2. KnownState' = KnownState
    BY <2>1 DEF KnownState
  <2> QED
    BY <2>2
<1> QED
  BY <1>3, <1>4

(* Moving an order forward, and telling its session or not, is Advance. *)
LEMMA AdvanceStep ==
  ASSUME TypeInv, OwnInv, NEW x \in OrderId, acked[x],
         NEW s \in State, s \in StatesAfter(state[x]),
         state' = [state EXCEPT ![x] = s],
         KnownState' \in {KnownState, [KnownState EXCEPT ![<<owner[x], x>>] = s]},
         PlacedBy' = PlacedBy
  PROVE  View!Advance(x)
<1>1. owner[x] \in Client /\ PlacedBy[x] = owner[x]
  BY KnownByOwner
<1>2. <<state[x], s>> \in {p \in State \X State : p[2] \in StatesAfter(p[1])}
  BY DEF TypeInv, TypeOK
<1>3. KnownState' \in {KnownState, View!Informed(x, s)}
  BY <1>1 DEF View!Informed, PlacedBy, KnownState
<1> QED
  BY <1>1, <1>2, <1>3 DEF View!Advance, PlacedBy, KnownState

(* Telling the session of the state an order is in is Learn, if it was told *)
(* nothing before or of an earlier state, and changes nothing otherwise.    *)
LEMMA LearnStep ==
  ASSUME TypeInv, OwnInv, NEW x \in OrderId, acked[x], state[x] # "unsubmitted",
         state[x] # "rejected",
         \/ told[<<owner[x], x>>] \in {Nothing, state[x]}
         \/ state[x] \in StatesAfter(told[<<owner[x], x>>]),
         KnownState' \in {KnownState, [KnownState EXCEPT ![<<owner[x], x>>] = state[x]]},
         PlacedBy' = PlacedBy, state' = state
  PROVE  View!Learn(x) \/ UNCHANGED View!viewVars
<1>1. /\ owner[x] \in Client /\ PlacedBy[x] = owner[x]
      /\ <<owner[x], x>> \in Client \X OrderId
  BY KnownByOwner
<1>2. CASE KnownState' = KnownState
  BY <1>2 DEF View!viewVars, PlacedBy, KnownState
<1>3. CASE KnownState' = [KnownState EXCEPT ![<<owner[x], x>>] = state[x]]
  <2>1. CASE told[<<owner[x], x>>] = Nothing
    <3>1. KnownState[<<owner[x], x>>] = "unsubmitted"
      BY <1>1, <2>1 DEF KnownState
    <3>2. state[x] \in State /\ state[x] \in StatesAfter("unsubmitted")
      BY DEF TypeInv, TypeOK, State, StatesAfter
    <3>3. <<KnownState[<<PlacedBy[x], x>>], state[x]>>
            \in {p \in State \X State : p[2] \in StatesAfter(p[1])}
      BY <1>1, <3>1, <3>2 DEF State
    <3>4. KnownState' = View!Informed(x, state[x])
      BY <1>1, <1>3 DEF View!Informed, PlacedBy, KnownState
    <3> QED
      BY <1>1, <3>2, <3>3, <3>4 DEF View!Learn, PlacedBy, KnownState
  <2>2. CASE told[<<owner[x], x>>] = state[x]
    <3>1. KnownState[<<owner[x], x>>] = state[x]
      <4>1. state[x] # Nothing
        BY DEF TypeInv, TypeOK, State, Nothing
      <4> QED
        BY <1>1, <2>2, <4>1 DEF KnownState
    <3>2. KnownState' = KnownState
      BY <1>3, <3>1 DEF KnownState
    <3> QED
      BY <1>2, <3>2
  <2>3. CASE state[x] \in StatesAfter(told[<<owner[x], x>>])
    <3>1. told[<<owner[x], x>>] \in State
      BY <1>1, <2>3 DEF TypeInv, TypeOK, StatesAfter, Nothing
    <3>2. KnownState[<<owner[x], x>>] = told[<<owner[x], x>>]
      <4>1. told[<<owner[x], x>>] # Nothing
        BY <3>1 DEF State, Nothing
      <4> QED
        BY <1>1, <4>1 DEF KnownState
    <3>3. state[x] \in State
      BY DEF TypeInv, TypeOK
    <3>4. <<KnownState[<<PlacedBy[x], x>>], state[x]>>
            \in {p \in State \X State : p[2] \in StatesAfter(p[1])}
      BY <1>1, <2>3, <3>1, <3>2, <3>3
    <3>5. KnownState' = View!Informed(x, state[x])
      BY <1>1, <1>3 DEF View!Informed, PlacedBy, KnownState
    <3> QED
      BY <1>1, <3>3, <3>4, <3>5 DEF View!Learn, PlacedBy, KnownState
  <2> QED
    BY <2>1, <2>2, <2>3
<1> QED
  BY <1>2, <1>3

(* What a fill leaves to be reported is the state of an order that is done  *)
(* or partially filled, and not behind what its session was told.           *)
ReportBehind ==
  xpc = "report" =>
    /\ state[trade.order] \in {"executed", "partially-executed", "error"}
    /\ \/ told[<<trade.client, trade.order>>] \in {Nothing, state[trade.order]}
       \/ state[trade.order] \in StatesAfter(told[<<trade.client, trade.order>>])

(* The trade in the broker's hands, before and after it is applied. *)
LEMMA TradeApplied ==
  ASSUME TypeInv, BookInv, OwnInv, AckWork, InSync, OpenUnderTrade, ApplyTrade
  PROVE  \E c \in Client, o \in OrderId, s \in {"executed", "partially-executed", "error"} :
           /\ c = trade.client /\ o = trade.order
           /\ acked[o] /\ owner[o] = c
           /\ state[o] \in {"submitted", "partially-executed"}
           /\ told[<<c, o>>] \in {Nothing, state[o]}
           /\ state' = [state EXCEPT ![o] = s]
           /\ UNCHANGED <<owner, acked, told, trade>>
<1>a. /\ trade.client \in Client /\ trade.order \in OrderId
      /\ trade.order \in Listed(trade.client) /\ acked[trade.order]
      /\ state[trade.order] \in {"submitted", "partially-executed"}
      /\ xpc = "apply"
      /\ UNCHANGED <<owner, acked, told, trade>>
  BY DEF ApplyTrade, BrokerAt, OwnInv, OwnedWork, AckWork, OpenUnderTrade, TypeInv, ThreadsOK,
     orderVars, sentVars
<1>b. PICK c \in Client, o \in OrderId : c = trade.client /\ o = trade.order
  BY <1>a
<1>c. PICK s : s = StateAfterFill(o, NewExecuted(o, trade.quantity))
  OBVIOUS
<1>1. state' = [state EXCEPT ![o] = s]
  BY <1>b, <1>c DEF ApplyTrade
<1>2. owner[o] = c
  BY <1>a, <1>b, ListedOwned
<1>3. s \in {"executed", "partially-executed", "error"}
  BY <1>c DEF StateAfterFill
<1>4. told[<<c, o>>] \in {Nothing, state[o]}
  BY <1>a, <1>b DEF InSync, Unreported
<1> QED
  BY <1>a, <1>b, <1>1, <1>2, <1>3, <1>4

LEMMA NextBehind ==
  ASSUME TypeInv, BookInv, OwnInv, AckWork, InSync, OpenUnderTrade, ReportBehind, [Next]_vars
  PROVE  ReportBehind'
<1> USE DEF listVars, sessionVars, bookVars, orderVars, fillVars, brokerVars, sentVars,
            ReportBehind, BrokerAt
<1>1. CASE UNCHANGED <<state, told, xpc, trade>>
  BY <1>1
<1>2. CASE xpc' # "report"
  BY <1>2
<1>3. CASE ApplyTrade
  <2>1. PICK c \in Client, o \in OrderId, s \in {"executed", "partially-executed", "error"} :
           /\ c = trade.client /\ o = trade.order
           /\ acked[o] /\ owner[o] = c
           /\ state[o] \in {"submitted", "partially-executed"}
           /\ told[<<c, o>>] \in {Nothing, state[o]}
           /\ state' = [state EXCEPT ![o] = s]
           /\ UNCHANGED <<owner, acked, told, trade>>
    BY <1>3, TradeApplied
  <2>2. state'[o] = s
    BY <2>1 DEF TypeInv, TypeOK
  <2>3. told[<<c, o>>] \in {Nothing, s} \/ s \in StatesAfter(told[<<c, o>>])
    BY <2>1 DEF StatesAfter
  <2> QED
    BY <2>1, <2>2, <2>3
<1>4. CASE \E c \in Client : CancelAtBroker(c)
  BY <1>2, <1>4 DEF CancelAtBroker, BrokerMutexFree
<1>5. CASE UNCHANGED vars \/ Register \/ \E c \in Client : Accept(c)
  BY <1>1, <1>5 DEF vars, Register, Accept
<1>6. CASE \E c \in Client : Session(c)
  BY <1>1, <1>4, <1>6
  DEF Session, GetIdentity, Disconnect, RefuseDuplicate, AddOrder, AckOrder,
      SubmitToBroker, FindForCancel, ConfirmCancel, CancelCrash
<1>7. CASE \E o \in OrderId, lot \in Lot : Fill(o, lot)
  BY <1>2, <1>7 DEF Fill
<1>8. CASE LockBroker \/ AcceptNext \/ ReportState \/ ForwardTrade \/ UnlockBroker
  BY <1>2, <1>8 DEF LockBroker, AcceptNext, ReportState, ForwardTrade, UnlockBroker
<1> QED
  BY <1>3, <1>5, <1>6, <1>7, <1>8 DEF Next, Broker

LEMMA ApplyTradeView ==
  ASSUME TypeInv, BookInv, OwnInv, AckWork, InSync, OpenUnderTrade, ApplyTrade
  PROVE  [View!Next]_(View!viewVars)
<1>1. PICK c \in Client, o \in OrderId, s \in {"executed", "partially-executed", "error"} :
           /\ c = trade.client /\ o = trade.order
           /\ acked[o] /\ owner[o] = c
           /\ state[o] \in {"submitted", "partially-executed"}
           /\ told[<<c, o>>] \in {Nothing, state[o]}
           /\ state' = [state EXCEPT ![o] = s]
           /\ UNCHANGED <<owner, acked, told, trade>>
  BY TradeApplied
<1>2. PlacedBy' = PlacedBy
  BY <1>1 DEF PlacedBy
<1>3. KnownState' = KnownState
  BY <1>1 DEF KnownState
<1>4. CASE s = state[o]
  <2>1. state' = state
    BY <1>1, <1>4 DEF TypeInv, TypeOK
  <2> QED
    BY <1>2, <1>3, <2>1 DEF View!viewVars, PlacedBy, KnownState
<1>5. CASE s # state[o]
  <2>1. s \in State /\ s \in StatesAfter(state[o])
    BY <1>1, <1>5 DEF State, StatesAfter
  <2>2. View!Advance(o)
    BY <1>1, <1>2, <1>3, <2>1, AdvanceStep
  <2> QED
    BY <2>2 DEF View!Next
<1> QED
  BY <1>4, <1>5

LEMMA ReportStateView ==
  ASSUME TypeInv, BookInv, OwnInv, AckWork, ReportBehind, ReportState
  PROVE  [View!Next]_(View!viewVars)
<1>a. /\ trade.client \in Client /\ trade.order \in OrderId
      /\ owner[trade.order] = trade.client /\ acked[trade.order]
      /\ xpc = "report"
      /\ told' = [told EXCEPT ![<<trade.client, trade.order>>] = state[trade.order]]
      /\ UNCHANGED <<owner, acked, state>>
  BY DEF ReportState, BrokerAt, OwnInv, OwnedWork, AckWork, TypeInv, ThreadsOK,
     orderVars, fillVars
<1>b. PICK c \in Client, o \in OrderId : c = trade.client /\ o = trade.order
  BY <1>a
<1>1. /\ state[o] \in {"executed", "partially-executed", "error"}
      /\ told[<<c, o>>] \in {Nothing, state[o]} \/ state[o] \in StatesAfter(told[<<c, o>>])
  BY <1>a, <1>b DEF ReportBehind
<1>2. PlacedBy' = PlacedBy
  BY <1>a DEF PlacedBy
<1>3. KnownState' = [KnownState EXCEPT ![<<c, o>>] = state[o]]
  <2>1. state[o] # Nothing
    BY <1>1 DEF Nothing
  <2>2. \A r \in Client \X OrderId : told'[r] = IF r = <<c, o>> THEN state[o] ELSE told[r]
    BY <1>a, <1>b DEF TypeInv, TypeOK
  <2>3. \A r \in Client \X OrderId :
          KnownState'[r] = [KnownState EXCEPT ![<<c, o>>] = state[o]][r]
    BY <2>1, <2>2 DEF KnownState
  <2> QED
    BY <2>3 DEF KnownState
<1>4. /\ acked[o] /\ owner[o] = c /\ state' = state
      /\ state[o] # "unsubmitted" /\ state[o] # "rejected"
  BY <1>a, <1>b, <1>1
<1>5. View!Learn(o) \/ UNCHANGED View!viewVars
  BY <1>1, <1>2, <1>3, <1>4, LearnStep
<1> QED
  BY <1>5 DEF View!Next

LEMMA CancelView ==
  ASSUME TypeInv, BookInv, OwnInv, AckWork, InSync, NoneRejected,
         NEW c \in Client, CancelAtBroker(c)
  PROVE  [View!Next]_(View!viewVars)
<1>a. SlotOrder(c) \in OrderId /\ acked[SlotOrder(c)]
  BY SlotOrderType, SlotOrderAcked DEF CancelAtBroker, At
<1>b. PICK o \in OrderId : o = SlotOrder(c)
  BY <1>a
<1>1. /\ o \in OrderId /\ acked[o]
      /\ state' = [state EXCEPT ![o] = "cancelled"]
      /\ told' = Reported(o, "cancelled")
      /\ UNCHANGED <<owner, acked>>
  BY <1>a, <1>b DEF CancelAtBroker, orderVars
<1>2. PlacedBy' = PlacedBy
  BY <1>1 DEF PlacedBy
<1>3. "cancelled" \in State
  BY DEF State
<1>4. KnownState' \in {KnownState, [KnownState EXCEPT ![<<owner[o], o>>] = "cancelled"]}
  BY <1>1, <1>3, KnownReported
<1>5. CASE state[o] # "cancelled"
  <2>1. "cancelled" \in StatesAfter(state[o])
    BY <1>1, <1>5 DEF NoneRejected, TypeInv, TypeOK, State, StatesAfter
  <2>2. View!Advance(o)
    BY <1>1, <1>2, <1>3, <1>4, <2>1, AdvanceStep
  <2> QED
    BY <1>1, <2>2 DEF View!Next
<1>6. CASE state[o] = "cancelled"
  <2>1. state' = state
    BY <1>1, <1>6 DEF TypeInv, TypeOK
  <2>2. CASE owner[o] \in Holders(o)
    <3>1. owner[o] \in Client /\ o \in Listed(owner[o])
      BY <2>2, HoldersOwn
    <3>2. ~ Unreported(o)
      BY DEF CancelAtBroker, BrokerMutexFree, Unreported
    <3>3. told[<<owner[o], o>>] \in {Nothing, state[o]}
      BY <1>1, <3>1, <3>2 DEF InSync
    <3>4. View!Learn(o) \/ UNCHANGED View!viewVars
      BY <1>1, <1>2, <1>4, <1>6, <2>1, <3>3, LearnStep
    <3> QED
      BY <1>1, <3>4 DEF View!Next
  <2>3. CASE owner[o] \notin Holders(o)
    <3>1. \A r \in Client \X OrderId : told'[r] = told[r]
      <4>1. \A e \in Holders(o) : e = owner[o]
        BY HoldersOwn
      <4> QED
        BY <1>1, <2>3, <4>1 DEF Reported
    <3>2. KnownState' = KnownState
      BY <3>1 DEF KnownState
    <3> QED
      BY <1>2, <2>1, <3>2 DEF View!viewVars, PlacedBy, KnownState
  <2> QED
    BY <2>2, <2>3
<1> QED
  BY <1>5, <1>6

LEMMA ViewStep ==
  ASSUME TypeInv, BookInv, OwnInv, AckWork, InSync, OpenUnderTrade, ReportBehind, NoneRejected,
         [Next]_vars
  PROVE  [View!Next]_(View!viewVars)
<1> USE DEF listVars, sessionVars, bookVars, orderVars, fillVars, brokerVars, sentVars
<1>1. ASSUME PlacedBy' = PlacedBy, UNCHANGED <<state, told>>
      PROVE  UNCHANGED View!viewVars
  BY <1>1 DEF View!viewVars, PlacedBy, KnownState
<1>2. ASSUME NEW c \in Client, AckOrder(c)
      PROVE  [View!Next]_(View!viewVars)
  <2>a. current[c] \in OrderId
    BY <1>2 DEF AckOrder, At, TypeInv, ThreadsOK
  <2>b. PICK o \in OrderId : o = current[c]
    BY <2>a
  <2>1. /\ owner[o] = c
        /\ acked' = [acked EXCEPT ![o] = TRUE]
        /\ UNCHANGED <<owner, state, told>>
    BY <1>2, <2>b DEF AckOrder, At, OwnInv, OwnedWork
  <2>2. \A p \in OrderId : PlacedBy'[p] = IF p = o THEN c ELSE PlacedBy[p]
    BY <2>1 DEF PlacedBy, TypeInv, TypeOK
  <2>3. CASE acked[o]
    <3>1. \A p \in OrderId : PlacedBy'[p] = PlacedBy[p]
      BY <2>1, <2>2, <2>3 DEF PlacedBy
    <3>2. PlacedBy' = PlacedBy
      BY <3>1 DEF PlacedBy
    <3> QED
      BY <1>1, <2>1, <3>2
  <2>4. CASE ~ acked[o]
    <3>1. PlacedBy[o] = NoClient
      BY <2>1, <2>4 DEF PlacedBy
    <3>2. PlacedBy' = [PlacedBy EXCEPT ![o] = c]
      <4>1. \A p \in OrderId : PlacedBy'[p] = [PlacedBy EXCEPT ![o] = c][p]
        BY <2>2 DEF PlacedBy
      <4> QED
        BY <4>1 DEF PlacedBy
    <3>3. View!Place(o)
      BY <2>1, <3>1, <3>2 DEF View!Place, PlacedBy
    <3> QED
      BY <2>1, <3>3 DEF View!Next
  <2> QED
    BY <2>3, <2>4
<1>3. ASSUME NEW c \in Client, NEW id, NEW q, AddOrder(c, id, q)
      PROVE  UNCHANGED View!viewVars
  <2>1. /\ gsId \in OrderId /\ ~ acked[gsId]
        /\ owner' = [owner EXCEPT ![gsId] = c] /\ UNCHANGED <<acked, state, told>>
    BY <1>3 DEF AddOrder, OwnInv, OwnedOrders, Untouched, OrderId
  <2>2. \A o \in OrderId : PlacedBy'[o] = PlacedBy[o]
    BY <2>1 DEF PlacedBy, TypeInv, TypeOK
  <2>3. PlacedBy' = PlacedBy
    BY <2>2 DEF PlacedBy
  <2> QED
    BY <1>1, <2>1, <2>3
<1>4. CASE AcceptNext
  <2>1. PlacedBy' = PlacedBy
    BY <1>4 DEF AcceptNext, PlacedBy
  <2>2. CASE Waiting = {} /\ UNCHANGED <<state, told>>
    BY <1>1, <2>1, <2>2
  <2>3. ASSUME NEW o \in Waiting, state' = [state EXCEPT ![o] = "submitted"],
               told' = Reported(o, "submitted")
        PROVE  [View!Next]_(View!viewVars)
    <3>1. /\ o \in OrderId /\ acked[o] /\ state[o] = "unsubmitted"
          /\ "submitted" \in State /\ "submitted" \in StatesAfter(state[o])
      BY DEF Waiting, AckWork, TypeInv, TypeOK, State, StatesAfter
    <3>2. KnownState' \in {KnownState, [KnownState EXCEPT ![<<owner[o], o>>] = "submitted"]}
      BY <2>3, <3>1, KnownReported
    <3>3. View!Advance(o)
      BY <2>1, <2>3, <3>1, <3>2, AdvanceStep
    <3> QED
      BY <3>1, <3>3 DEF View!Next
  <2> QED
    BY <1>4, <2>2, <2>3 DEF AcceptNext
<1>5. ASSUME UNCHANGED <<owner, acked, state, told>>
      PROVE  UNCHANGED View!viewVars
  <2>1. PlacedBy' = PlacedBy
    BY <1>5 DEF PlacedBy
  <2> QED
    BY <1>1, <1>5, <2>1
<1>6. CASE \E c \in Client : Accept(c) \/ Session(c)
  BY <1>2, <1>3, <1>5, <1>6, CancelView
  DEF Accept, Session, GetIdentity, Disconnect, RefuseDuplicate, SubmitToBroker,
      FindForCancel, ConfirmCancel, CancelCrash
<1>7. CASE \/ UNCHANGED vars \/ Register
           \/ LockBroker \/ ForwardTrade \/ UnlockBroker
           \/ \E p \in OrderId, lot \in Lot : Fill(p, lot)
  BY <1>5, <1>7 DEF vars, Register, LockBroker, Fill, ForwardTrade, UnlockBroker
<1> QED
  BY <1>4, <1>6, <1>7, ApplyTradeView, ReportStateView DEF Next, Broker

(***************************************************************************)
(* The server implements OrderView: whatever the sessions submit and       *)
(* cancel and the broker fills, an order goes forward only, and so does    *)
(* what its session, and no other, is told of it.                          *)
(***************************************************************************)
THEOREM ImplementsView == Spec => ViewSpec
<1>1. Init => InSync /\ OpenUnderTrade /\ ReportBehind /\ NoneRejected
  BY DEF Init, InSync, Listed, ToSet, OpenUnderTrade, ReportBehind, NoneRejected
<1>2. Init => View!Init
  BY DEF Init, View!Init
<1>3. ReportInv => OwnInv /\ AckWork
  BY DEF ReportInv
<1> QED
  BY <1>1, <1>2, <1>3, ReportsInvariant, NextInSync, NextOpen, NextBehind, NextNoneRejected,
     ViewStep, PTL
  DEF Spec, ViewSpec, View!Spec

=============================================================================
