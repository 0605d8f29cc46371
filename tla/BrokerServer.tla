---------------------------- MODULE BrokerServer ----------------------------
(***************************************************************************)
(* The order server of libgoldmine, broker/brokerserver.cpp, run as        *)
(* test-misc/broker-server.cpp runs it: one thread accepts connections,    *)
(* each connection has a session (Impl::Client) with a thread that reads   *)
(* requests, and the broker behind the server has a thread that accepts    *)
(* and fills orders and calls the server back.                             *)
(*                                                                         *)
(* What is sent to a client is kept as what the client has been told:      *)
(* whether an order was acknowledged, the last state reported for it, and  *)
(* the quantity reported in its trades. The text of the messages, prices,  *)
(* accounts and securities are left out.                                   *)
(*                                                                         *)
(* The broker takes its mutex in submitOrder, cancelOrder and              *)
(* processOrders and holds it across the callbacks; the fills it produces  *)
(* may also be partial or exceed the order, as in the unit tests.          *)
(***************************************************************************)
EXTENDS Integers, FiniteSets, SequencesExt

CONSTANTS
  Client,         \* sessions: one Impl::Client object for each connection
  NoClient,       \* no session
  ClientOrderId,  \* ids that clients give to their orders
  Quantity,       \* quantities that clients order
  Lot,            \* quantities the broker fills at a time
  MaxOrders       \* bound: how many Order objects the process creates

ASSUME NoClientAssumption == NoClient \notin Client
ASSUME ClientOrderIdAssumption == ClientOrderId \subseteq Int
ASSUME QuantityAssumption == Quantity \subseteq Nat \ {0} /\ Lot \subseteq Nat \ {0}
ASSUME MaxOrdersAssumption == MaxOrders \in Nat

OrderId == 1 .. MaxOrders
NoOrder == 0

State == {"unsubmitted", "submitted", "partially-executed", "executed",
          "cancelled", "rejected", "error"}
Nothing == "nothing"   \* no report was sent yet

VARIABLES
  accepting,        \* the session that eventLoop has started and not yet listed
  clients,          \* Impl::clients, the sessions the callbacks go through
  pc,               \* where each session's thread is
  identity,         \* whether Client::identity is set
  current,          \* the order the session's thread is working on
  slot,             \* the position of cancel-order's iterator
  husk,             \* what the memory of that position holds, once erase destroyed it
  clientOrders,     \* Client::clientOrders
  retiredOrders,    \* Client::retiredOrders, only ever added to
  gsId,             \* gs_id, the next localId
  owner,            \* the session whose request created the order
  clientAssignedId,
  quantity,
  executedQuantity,
  state,
  allOrders,        \* the broker's m_allOrders
  xpc,              \* where the broker's thread is in processOrders
  trade,            \* the trade it is reporting
  acked,            \* orders whose "success" response was sent
  told,             \* the last state sent to each session of each order
  traded,           \* the quantity sent to each session in trades of each order
  forwarded,        \* the quantity of each order given to the trade sink
  crashed           \* the process died on a dangling iterator

listVars    == <<accepting, clients>>
sessionVars == <<pc, identity, current, slot>>
bookVars    == <<clientOrders, retiredOrders, husk>>
orderVars   == <<gsId, owner, clientAssignedId, quantity>>
fillVars    == <<executedQuantity, state>>
brokerVars  == <<allOrders, xpc, trade>>
sentVars    == <<acked, told, traded, forwarded>>
vars == <<listVars, sessionVars, bookVars, orderVars, fillVars, brokerVars,
          sentVars, crashed>>

Init ==
  /\ accepting = NoClient
  /\ clients = {}
  /\ pc = [c \in Client |-> "none"]
  /\ identity = [c \in Client |-> FALSE]
  /\ current = [c \in Client |-> NoOrder]
  /\ slot = [c \in Client |-> 0]
  /\ clientOrders = [c \in Client |-> << >>]
  /\ retiredOrders = [c \in Client |-> {}]
  /\ husk = [c \in Client |-> NoOrder]
  /\ gsId = 1
  /\ owner = [o \in OrderId |-> NoClient]
  /\ clientAssignedId = [o \in OrderId |-> 0]
  /\ quantity = [o \in OrderId |-> 0]
  /\ executedQuantity = [o \in OrderId |-> 0]
  /\ state = [o \in OrderId |-> "unsubmitted"]
  /\ allOrders = {}
  /\ xpc = "idle"
  /\ trade = [client |-> NoClient, order |-> NoOrder, quantity |-> 0]
  /\ acked = [o \in OrderId |-> FALSE]
  /\ told = [r \in Client \X OrderId |-> Nothing]
  /\ traded = [r \in Client \X OrderId |-> 0]
  /\ forwarded = [o \in OrderId |-> 0]
  /\ crashed = FALSE

At(c, step) == pc[c] = step /\ ~ crashed
BrokerAt(step) == xpc = step /\ ~ crashed

(***************************************************************************)
(* The callbacks go through the listed sessions and ask each of them,      *)
(* under its orderListMutex, for an order with the given localId.          *)
(***************************************************************************)
HoldersByAssignedId(o) ==   \* fault: match on the id the client chose
  {c \in clients : \E p \in ToSet(clientOrders[c]) :
                      clientAssignedId[p] = clientAssignedId[o]}

Holders(o) == {c \in clients : o \in ToSet(clientOrders[c])}

NotReported(o, s) == told   \* fault: cancelOrder does not notify

Reported(o, s) ==   \* Impl::orderCallback, o being in state s
  [r \in Client \X OrderId |->
      IF r[2] = o /\ r[1] \in Holders(o) THEN s ELSE told[r]]

(***************************************************************************)
(* Impl::eventLoop: the thread of a session runs before the session is     *)
(* listed in clients.                                                      *)
(***************************************************************************)
Accept(c) ==
  /\ accepting = NoClient /\ At(c, "none")
  /\ accepting' = c
  /\ pc' = [pc EXCEPT ![c] = "read"]
  /\ UNCHANGED <<clients, identity, current, slot, bookVars, orderVars, fillVars,
                 brokerVars, sentVars, crashed>>

Register ==
  /\ accepting # NoClient /\ ~ crashed
  /\ clients' = clients \cup {accepting}
  /\ accepting' = NoClient
  /\ UNCHANGED <<sessionVars, bookVars, orderVars, fillVars, brokerVars, sentVars,
                 crashed>>

(***************************************************************************)
(* Client::eventLoop and handleMessage. A request that ends in an error    *)
(* response, or in none, changes nothing but, for a duplicate id, gs_id.   *)
(***************************************************************************)
GetIdentity(c) ==
  /\ At(c, "read")
  /\ identity' = [identity EXCEPT ![c] = TRUE]
  /\ UNCHANGED <<listVars, pc, current, slot, bookVars, orderVars, fillVars,
                 brokerVars, sentVars, crashed>>

Disconnect(c) ==   \* the line is closed; the session stays in clients
  /\ At(c, "read")
  /\ pc' = [pc EXCEPT ![c] = "ended"]
  /\ UNCHANGED <<listVars, identity, current, slot, bookVars, orderVars, fillVars,
                 brokerVars, sentVars, crashed>>

(***************************************************************************)
(* A new order is listed, then acknowledged, then given to the broker.     *)
(***************************************************************************)
SubmitFirst ==    \* fault: the response is sent after submitOrder
  [read |-> "submit", submit |-> "acknowledge", acknowledge |-> "read"]
NeverSubmit ==    \* fault: the order does not reach the broker
  [read |-> "acknowledge", acknowledge |-> "read", submit |-> "read"]

StepAfter == [read |-> "acknowledge", acknowledge |-> "submit", submit |-> "read"]

AnyId(c, id) == FALSE   \* fault: the check for a duplicate is missing

IdInUse(c, id) ==
  \E o \in ToSet(clientOrders[c]) : clientAssignedId[o] = id

RefuseDuplicate(c, id) ==   \* the Order was created, and is dropped
  /\ At(c, "read") /\ identity[c] /\ gsId \in OrderId
  /\ IdInUse(c, id)
  /\ gsId' = gsId + 1
  /\ UNCHANGED <<listVars, sessionVars, bookVars, owner, clientAssignedId, quantity,
                 fillVars, brokerVars, sentVars, crashed>>

AddOrder(c, id, q) ==
  /\ At(c, "read") /\ identity[c] /\ gsId \in OrderId
  /\ ~ IdInUse(c, id)
  /\ gsId' = gsId + 1
  /\ owner' = [owner EXCEPT ![gsId] = c]
  /\ clientAssignedId' = [clientAssignedId EXCEPT ![gsId] = id]
  /\ quantity' = [quantity EXCEPT ![gsId] = q]
  /\ clientOrders' = [clientOrders EXCEPT ![c] = Append(@, gsId)]
  /\ current' = [current EXCEPT ![c] = gsId]
  /\ pc' = [pc EXCEPT ![c] = StepAfter.read]
  /\ UNCHANGED <<listVars, identity, slot, retiredOrders, husk, fillVars, brokerVars,
                 sentVars, crashed>>

AckOrder(c) ==
  /\ At(c, "acknowledge")
  /\ acked' = [acked EXCEPT ![current[c]] = TRUE]
  /\ pc' = [pc EXCEPT ![c] = StepAfter.acknowledge]
  /\ UNCHANGED <<listVars, identity, current, slot, bookVars, orderVars, fillVars,
                 brokerVars, told, traded, forwarded, crashed>>

BrokerMutexFree == xpc = "idle"

SubmitToBroker(c) ==
  /\ At(c, "submit") /\ BrokerMutexFree
  /\ allOrders' = allOrders \cup {current[c]}
  /\ pc' = [pc EXCEPT ![c] = StepAfter.submit]
  /\ UNCHANGED <<listVars, identity, current, slot, bookVars, orderVars, fillVars,
                 xpc, trade, sentVars, crashed>>

(***************************************************************************)
(* cancel-order finds the order under the mutex, and uses the iterator     *)
(* after it has released the mutex and sent the response. The broker reads *)
(* the slot through a reference once it has its own mutex.                 *)
(***************************************************************************)
FindForCancel(c, i) ==
  /\ At(c, "read") /\ identity[c]
  /\ i \in DOMAIN clientOrders[c]
  /\ slot' = [slot EXCEPT ![c] = i]
  /\ current' = [current EXCEPT ![c] = clientOrders[c][i]]
  /\ pc' = [pc EXCEPT ![c] = "confirm"]
  /\ UNCHANGED <<listVars, identity, bookVars, orderVars, fillVars, brokerVars,
                 sentVars, crashed>>

ConfirmCancel(c) ==
  /\ At(c, "confirm")
  /\ pc' = [pc EXCEPT ![c] = "cancel"]
  /\ UNCHANGED <<listVars, identity, current, slot, bookVars, orderVars, fillVars,
                 brokerVars, sentVars, crashed>>

(***************************************************************************)
(* What the slot refers to: the order that is there now, if any. Otherwise *)
(* erase has destroyed the slot, and its memory holds what was in it last. *)
(***************************************************************************)
Dangling(c) == slot[c] \notin DOMAIN clientOrders[c]

FirstListed(c) ==   \* fault: the iterator is begin()
  IF Dangling(c) THEN husk[c] ELSE clientOrders[c][1]

SlotOrder(c) == IF Dangling(c) THEN husk[c] ELSE clientOrders[c][slot[c]]

CancelAtBroker(c) ==
  /\ At(c, "cancel") /\ BrokerMutexFree
  /\ SlotOrder(c) # NoOrder
  /\ state' = [state EXCEPT ![SlotOrder(c)] = "cancelled"]
  /\ told' = Reported(SlotOrder(c), "cancelled")
  /\ pc' = [pc EXCEPT ![c] = "read"]
  /\ husk' = [husk EXCEPT ![c] = NoOrder]   \* the iterator is gone
  /\ UNCHANGED <<listVars, identity, current, slot, clientOrders, retiredOrders, orderVars,
                 executedQuantity, brokerVars, acked, traded, forwarded, crashed>>

CancelCrash(c) ==
  /\ At(c, "cancel") /\ Dangling(c)
  /\ crashed' = TRUE
  /\ UNCHANGED <<listVars, sessionVars, bookVars, orderVars, fillVars, brokerVars,
                 sentVars>>

(***************************************************************************)
(* The broker's thread: TestBroker::processOrders, under its mutex.        *)
(***************************************************************************)
LockBroker ==
  /\ BrokerAt("idle")
  /\ xpc' = "accept"
  /\ UNCHANGED <<listVars, sessionVars, bookVars, orderVars, fillVars, allOrders,
                 trade, sentVars, crashed>>

AllWaiting == allOrders   \* fault: the state is not looked at

Waiting == {o \in allOrders : state[o] = "unsubmitted"}

AcceptNext ==   \* the first order that is waiting, if there is one
  /\ BrokerAt("accept")
  /\ xpc' = "fill"
  /\ \/ \E o \in Waiting :
          /\ \A p \in Waiting : o <= p
          /\ state' = [state EXCEPT ![o] = "submitted"]
          /\ told' = Reported(o, "submitted")
     \/ Waiting = {} /\ UNCHANGED <<state, told>>
  /\ UNCHANGED <<listVars, sessionVars, bookVars, orderVars, executedQuantity,
                 allOrders, trade, acked, traded, forwarded, crashed>>

FillableInAnyState(o) == o \in allOrders   \* fault: the state is not looked at

Fillable(o) ==
  /\ o \in allOrders
  /\ state[o] \in {"submitted", "partially-executed"}

Fill(o, lot) ==   \* and the start of tradeCallback, to the trade message
  /\ BrokerAt("fill") /\ Fillable(o)
  /\ allOrders' = IF forwarded[o] + lot >= quantity[o]
                  THEN allOrders \ {o} ELSE allOrders
  /\ \/ \E c \in Holders(o) :
          /\ trade' = [client |-> c, order |-> o, quantity |-> lot]
          /\ traded' = [traded EXCEPT ![<<c, o>>] = @ + lot]
          /\ xpc' = "apply"
     \/ /\ Holders(o) = {}
        /\ trade' = [client |-> NoClient, order |-> o, quantity |-> lot]
        /\ xpc' = "forward"
        /\ UNCHANGED traded
  /\ UNCHANGED <<listVars, sessionVars, bookVars, orderVars, fillVars, acked, told,
                 forwarded, crashed>>

(***************************************************************************)
(* Client::tradeNotification after the trade message was sent.             *)
(***************************************************************************)
ReplaceExecuted(o, lot) == lot   \* fault: the trade replaces the sum
DecreaseExecuted(o, lot) == executedQuantity[o] - lot   \* fault: the wrong sign

NewExecuted(o, lot) == executedQuantity[o] + lot

StateAfterFill(o, executed) ==
  CASE executed = quantity[o] -> "executed"
    [] executed < quantity[o] -> "partially-executed"
    [] OTHER -> "error"

NoRetire(c, o) == UNCHANGED bookVars   \* fault: the order stays in clientOrders

(***************************************************************************)
(* erase moves the orders behind the place down by one, and destroys the   *)
(* last place. A pointer that was moved from is null; one that was         *)
(* destroyed where it was still points to the order, which retiredOrders   *)
(* keeps alive.                                                            *)
(***************************************************************************)
Left(c, i) ==   \* in the place that cancel-order looks at, if it is destroyed
  IF pc[c] \in {"confirm", "cancel"} /\ slot[c] = Len(clientOrders[c])
  THEN [husk EXCEPT ![c] = IF i = slot[c] THEN clientOrders[c][i] ELSE NoOrder]
  ELSE husk

Retire(c, o) ==
  \/ \E i \in DOMAIN clientOrders[c] :
       /\ clientOrders[c][i] = o
       /\ clientOrders' = [clientOrders EXCEPT ![c] = RemoveAt(@, i)]
       /\ retiredOrders' = [retiredOrders EXCEPT ![c] = @ \cup {o}]
       /\ husk' = Left(c, i)
  \/ o \notin ToSet(clientOrders[c]) /\ UNCHANGED bookVars

ApplyTrade ==
  LET c == trade.client
      o == trade.order
      executed == NewExecuted(o, trade.quantity)
      s == StateAfterFill(o, executed)
  IN  /\ BrokerAt("apply")
      /\ executedQuantity' = [executedQuantity EXCEPT ![o] = executed]
      /\ state' = [state EXCEPT ![o] = s]
      /\ IF s = "executed" THEN Retire(c, o) ELSE UNCHANGED bookVars
      /\ xpc' = "report"
      /\ UNCHANGED <<listVars, sessionVars, orderVars, allOrders, trade, sentVars, crashed>>

ReportState ==   \* orderStateChanged, after the mutex was released
  /\ BrokerAt("report")
  /\ told' = [told EXCEPT ![<<trade.client, trade.order>>] = state[trade.order]]
  /\ xpc' = "forward"
  /\ UNCHANGED <<listVars, sessionVars, bookVars, orderVars, fillVars, allOrders, trade,
                 acked, traded, forwarded, crashed>>

ForwardTrade ==   \* sendTradeToSink, the end of tradeCallback
  /\ BrokerAt("forward")
  /\ forwarded' = [forwarded EXCEPT ![trade.order] = @ + trade.quantity]
  /\ xpc' = "fill"
  /\ UNCHANGED <<listVars, sessionVars, bookVars, orderVars, fillVars, allOrders,
                 trade, acked, told, traded, crashed>>

UnlockBroker ==
  /\ BrokerAt("fill")
  /\ xpc' = "idle"
  /\ UNCHANGED <<listVars, sessionVars, bookVars, orderVars, fillVars, allOrders,
                 trade, sentVars, crashed>>

-----------------------------------------------------------------------------
Session(c) ==
  \/ GetIdentity(c)
  \/ Disconnect(c)
  \/ \E id \in ClientOrderId : RefuseDuplicate(c, id)
  \/ \E id \in ClientOrderId, q \in Quantity : AddOrder(c, id, q)
  \/ AckOrder(c)
  \/ SubmitToBroker(c)
  \/ \E i \in DOMAIN clientOrders[c] : FindForCancel(c, i)
  \/ ConfirmCancel(c)
  \/ CancelAtBroker(c)
  \/ CancelCrash(c)

Broker ==
  \/ LockBroker
  \/ AcceptNext
  \/ \E o \in OrderId, lot \in Lot : Fill(o, lot)
  \/ ApplyTrade
  \/ ReportState
  \/ ForwardTrade
  \/ UnlockBroker

Next ==
  \/ \E c \in Client : Accept(c) \/ Session(c)
  \/ Register
  \/ Broker
  \/ crashed /\ UNCHANGED vars   \* the process is gone

Spec == Init /\ [][Next]_vars

(***************************************************************************)
(* A thread that can run does run. A session waits for the broker's mutex, *)
(* which the broker's thread keeps taking and giving back, sleeping for a  *)
(* millisecond in between: a session that waits finds it free again and    *)
(* again, and gets it at some time. Hence strong fairness.                 *)
(***************************************************************************)
Fairness ==
  /\ \A c \in Client :
       /\ WF_vars(AckOrder(c))
       /\ SF_vars(SubmitToBroker(c))
  /\ WF_vars(LockBroker)
  /\ WF_vars(AcceptNext)
  /\ WF_vars(ApplyTrade)
  /\ WF_vars(ReportState)
  /\ WF_vars(ForwardTrade)
  /\ WF_vars(UnlockBroker)

FairSpec == Spec /\ Fairness
-----------------------------------------------------------------------------
(***************************************************************************)
(* Every variable has its type.                                            *)
(***************************************************************************)
TypeOK ==
  /\ accepting \in Client \cup {NoClient}
  /\ clients \subseteq Client
  /\ pc \in [Client -> {"none", "read", "acknowledge", "submit", "confirm",
                        "cancel", "ended"}]
  /\ identity \in [Client -> BOOLEAN]
  /\ current \in [Client -> OrderId \cup {NoOrder}]
  /\ slot \in [Client -> Nat]
  /\ clientOrders \in [Client -> Seq(OrderId)]
  /\ retiredOrders \in [Client -> SUBSET OrderId]
  /\ husk \in [Client -> OrderId \cup {NoOrder}]
  /\ gsId \in 1 .. MaxOrders + 1
  /\ owner \in [OrderId -> Client \cup {NoClient}]
  /\ clientAssignedId \in [OrderId -> Int]
  /\ quantity \in [OrderId -> Nat]
  /\ executedQuantity \in [OrderId -> Nat]
  /\ state \in [OrderId -> State]
  /\ allOrders \subseteq OrderId
  /\ xpc \in {"idle", "accept", "fill", "apply", "report", "forward"}
  /\ trade \in [client : Client \cup {NoClient}, order : OrderId \cup {NoOrder},
                quantity : Nat]
  /\ acked \in [OrderId -> BOOLEAN]
  /\ told \in [Client \X OrderId -> State \cup {Nothing}]
  /\ traded \in [Client \X OrderId -> Nat]
  /\ forwarded \in [OrderId -> Nat]
  /\ crashed \in BOOLEAN

(***************************************************************************)
(* The orders a session lists are its own, no two with the same id of the  *)
(* client, and none of them retired: a trade or a cancellation that names  *)
(* an order can mean one order only, whatever was refused, filled and      *)
(* erased before.                                                          *)
(***************************************************************************)
SessionBook ==
  \A c \in Client :
    /\ \A i \in DOMAIN clientOrders[c] :
         /\ owner[clientOrders[c][i]] = c
         /\ clientOrders[c][i] \notin retiredOrders[c]
    /\ \A i, j \in DOMAIN clientOrders[c] :
         clientAssignedId[clientOrders[c][i]] = clientAssignedId[clientOrders[c][j]]
           => i = j

(***************************************************************************)
(* A client hears of a state or a trade of an order only after the         *)
(* "success" response to the request that created it, though the response  *)
(* is sent by the session's thread and the reports by the broker's.        *)
(***************************************************************************)
AckBeforeReport ==
  \A r \in Client \X OrderId :
    told[r] # Nothing \/ traded[r] > 0 => acked[r[2]]

(***************************************************************************)
(* No session is told of an order that another session created, also when  *)
(* both clients gave their orders the same id.                             *)
(***************************************************************************)
NoCrossTalk ==
  \A r \in Client \X OrderId :
    told[r] # Nothing \/ traded[r] > 0 => owner[r[2]] = r[1]

(***************************************************************************)
(* Whenever the broker is not inside processOrders, the trades a client    *)
(* was sent for an order add up to the quantity the order counts as        *)
(* executed, and to no more than the trade sink was given.                 *)
(***************************************************************************)
Reconciled ==
  BrokerMutexFree =>
    \A o \in 1 .. gsId - 1 : owner[o] \in Client =>
      /\ traded[<<owner[o], o>>] = executedQuantity[o]
      /\ executedQuantity[o] <= forwarded[o]

(***************************************************************************)
(* Between two runs of processOrders a session has retired exactly those   *)
(* of its orders whose whole quantity was executed: an order is neither    *)
(* lost from clientOrders nor kept when it is done.                        *)
(***************************************************************************)
RetiredExactly ==
  BrokerMutexFree =>
    \A o \in 1 .. gsId - 1 : owner[o] \in Client =>
      /\ o \in retiredOrders[owner[o]] <=> executedQuantity[o] = quantity[o]
      /\ o \in retiredOrders[owner[o]] \/ o \in ToSet(clientOrders[owner[o]])

(***************************************************************************)
(* What a client was last told of an order it may still cancel is the      *)
(* order's state, unless it was told nothing yet: reports made by the      *)
(* broker's thread and by sessions that cancel do not overtake each other. *)
(***************************************************************************)
ReportInSync ==
  BrokerMutexFree =>
    \A c \in Client, o \in OrderId :
      o \in ToSet(clientOrders[c]) => told[<<c, o>>] \in {Nothing, state[o]}

(***************************************************************************)
(* An order that was cancelled stays cancelled and executes no further,    *)
(* although the broker goes on to process the orders around it.            *)
(***************************************************************************)
CancelledFinal ==
  [][\A o \in OrderId : state[o] = "cancelled" =>
       state'[o] = "cancelled" /\ executedQuantity'[o] = executedQuantity[o]]_vars

(***************************************************************************)
(* Every order a session has listed reaches the broker and is accepted or  *)
(* cancelled, however many other orders and cancellations compete for the  *)
(* broker's mutex, unless the process dies.                                *)
(***************************************************************************)
EveryOrderTakenUp ==
  \A o \in OrderId :
    owner[o] # NoClient ~> state[o] # "unsubmitted" \/ crashed

(***************************************************************************)
(* doc/goldmine-protocol.md:189: a cancel-order request cancels the order  *)
(* with the id it names. The code uses the iterator it found after it has  *)
(* released the mutex, when a trade may have erased and shifted the list.  *)
(***************************************************************************)
CancelHitsRequested ==
  [][\A c \in Client : pc[c] = "cancel" /\ pc'[c] = "read" =>
       \A o \in OrderId : state'[o] # state[o] => o = current[c]]_vars

(***************************************************************************)
(* Two of a session's orders can be confused by that, never those of two   *)
(* sessions: what a cancellation hits instead is an order of the same      *)
(* session, younger than the one it names, and listed or just executed.    *)
(***************************************************************************)
StrayCancelStaysHome ==
  [][\A c \in Client : pc[c] = "cancel" /\ pc'[c] = "read" =>
       \A o \in OrderId : state'[o] # state[o] /\ o # current[c] =>
         /\ owner[o] = c /\ current[c] < o
         /\ o \in ToSet(clientOrders[c]) \cup retiredOrders[c]]_vars

StatesAfter(s) ==
  CASE s = "unsubmitted" ->
         {"submitted", "partially-executed", "executed", "error", "cancelled"}
    [] s = "submitted" -> {"partially-executed", "executed", "error", "cancelled"}
    [] s = "partially-executed" -> {"executed", "error", "cancelled"}
    [] s \in {"executed", "error"} -> {"cancelled"}
    [] OTHER -> {}

(***************************************************************************)
(* Towards its clients the server does what OrderView promises. An order   *)
(* is placed when the "success" response is sent; from then on it goes     *)
(* forward through its states, whichever thread moves it, and what its     *)
(* session is told goes forward with it, past the stray cancellations too. *)
(***************************************************************************)
View == INSTANCE OrderView WITH
  Order <- OrderId, Party <- Client, NoParty <- NoClient,
  Stage <- State, First <- "unsubmitted",
  Later <- {p \in State \X State : p[2] \in StatesAfter(p[1])},
  placed <- [o \in OrderId |-> IF acked[o] THEN owner[o] ELSE NoClient],
  current <- state,
  known <- [r \in Client \X OrderId |->
              IF told[r] = Nothing THEN "unsubmitted" ELSE told[r]]

ViewSpec == View!Spec
=============================================================================
