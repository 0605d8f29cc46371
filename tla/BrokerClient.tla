---------------------------- MODULE BrokerClient ----------------------------
(***************************************************************************)
(* The order client of libgoldmine, broker/brokerclient.cpp: an event      *)
(* thread that connects, asks for an identity and then reads reports, and  *)
(* an application thread that submits and cancels orders, each with an id  *)
(* of its own as in test-misc/broker-client.cpp. The two share the line    *)
(* and the list of orders.                                                 *)
(*                                                                         *)
(* The other end is an order server that behaves as brokerserver.cpp does  *)
(* towards one client: a session for each line, which answers get-identity,*)
(* refuses orders before that, and reports the states of an order in turn. *)
(* The n-th state it reports for an order is the number n; what the states *)
(* are called does not matter to the client. Its responses, which the      *)
(* client ignores, and trades, which change nothing in the client, are     *)
(* messages of kind "other".                                               *)
(***************************************************************************)
EXTENDS Integers, FiniteSets, SequencesExt

CONSTANTS
  MaxRequests, \* bound: orders, cancellations and the stop of the application
  MaxLines,    \* bound: connection attempts that succeed
  MaxReports   \* bound: states the server reports for an order

ASSUME BoundsAssumption ==
  MaxRequests \in Nat /\ MaxLines \in Nat /\ MaxReports \in Nat

Order == 1 .. MaxRequests
Line  == 1 .. MaxLines   \* IoLine objects, in the order they are created
NoLine == 0
NoOrder == 0

Request == [kind : {"get-identity", "order", "cancel-order"}, order : Order \cup {NoOrder}]
Message == [kind : {"identity", "other", "report"}, order : Order \cup {NoOrder},
            state : 0 .. MaxReports]
GetIdentity == [kind |-> "get-identity", order |-> NoOrder]
Identity == [kind |-> "identity", order |-> NoOrder, state |-> 0]
Other    == [kind |-> "other", order |-> NoOrder, state |-> 0]

VARIABLES
  run,         \* Impl::run
  stops,       \* how often the application has called stop
  identity,    \* whether Impl::id is set
  epc,         \* where the event thread is
  line,        \* Impl::line
  lines,       \* how many lines were created
  orders,      \* Impl::orders
  state,       \* the state of each Order object
  report,      \* the report in handleMessage
  endAt,       \* and how many orders there were when endIt was taken for it
  stale,       \* whether orders was reallocated under the iterators in use
  apc,         \* where the application thread is
  request,     \* the request it sends, get-identity when there is none
  target,      \* the line it sends on: line.get(), read once
  created,     \* how many orders it has submitted
  cancels,     \* how many cancellations it has asked for
  status,      \* each line: none, up, broken, or destroyed by the client
  toServer,    \* messages on each line, towards the server
  toClient,    \* and towards the client
  identified,  \* whether the session at the other end has an identity
  placed,      \* the line on which the server accepted each order
  arrivals,    \* how often each order has reached the server
  reported,    \* how many states the server has reported for each order
  early,       \* orders of which a report was read before they were listed
  crashed      \* the process died

eventVars  == <<run, identity, epc, report, endAt, early>>
orderVars  == <<orders, state, stale>>
appVars    == <<apc, request, target, created, cancels, stops>>
wireVars   == <<status, toServer, toClient>>
serverVars == <<identified, placed, arrivals, reported>>
vars == <<eventVars, line, lines, orderVars, appVars, wireVars, serverVars, crashed>>

Init ==
  /\ run = FALSE /\ identity = FALSE /\ epc = "begin"
  /\ line = NoLine /\ lines = 0
  /\ orders = << >> /\ state = [o \in Order |-> 0]
  /\ report = Other /\ endAt = 0 /\ stale = FALSE
  /\ apc = "idle" /\ request = GetIdentity /\ target = NoLine
  /\ created = 0 /\ cancels = 0 /\ stops = 0
  /\ status = [l \in Line |-> "none"]
  /\ toServer = [l \in Line |-> << >>] /\ toClient = [l \in Line |-> << >>]
  /\ identified = [l \in Line |-> FALSE] /\ placed = [o \in Order |-> NoLine]
  /\ arrivals = [o \in Order |-> 0] /\ reported = [o \in Order |-> 0]
  /\ early = {} /\ crashed = FALSE

EventAt(step) == epc = step /\ ~ crashed
AppAt(step) == apc = step /\ ~ crashed
Is(l, s) == l # NoLine /\ status[l] = s
Up(l) == Is(l, "up")

(***************************************************************************)
(* The event thread, created by start, sets run itself, and looks at it    *)
(* before it connects and before it reads.                                 *)
(***************************************************************************)
Begin ==
  /\ EventAt("begin")
  /\ run' = TRUE /\ epc' = "connect"
  /\ UNCHANGED <<identity, report, endAt, early, line, lines, orderVars, appVars, wireVars,
                 serverVars, crashed>>

End ==
  /\ EventAt("connect") /\ ~ run
  /\ epc' = "ended"
  /\ UNCHANGED <<run, identity, report, endAt, early, line, lines, orderVars, appVars,
                 wireVars, serverVars, crashed>>

(***************************************************************************)
(* A new line takes the place of the old one, which is destroyed; with the *)
(* identity set it is not read at all.                                     *)
(***************************************************************************)
Connect ==
  /\ EventAt("connect") /\ run
  /\ \/ /\ lines < MaxLines
        /\ lines' = lines + 1 /\ line' = lines'
        /\ status' = [l \in Line |-> CASE l = lines' -> "up"
                                       [] l = line  -> "destroyed"
                                       [] OTHER     -> status[l]]
        /\ epc' = IF identity THEN "sleep" ELSE "ask"
     \/ /\ line' = NoLine   \* createClient failed
        /\ status' = [l \in Line |-> IF l = line THEN "destroyed" ELSE status[l]]
        /\ epc' = "sleep"
        /\ UNCHANGED lines
  /\ toClient' = [l \in Line |-> IF l = line THEN << >> ELSE toClient[l]]
  /\ UNCHANGED <<run, identity, report, endAt, early, orderVars, appVars, toServer,
                 serverVars, crashed>>

Ask ==   \* whether the message could be sent is not looked at
  /\ EventAt("ask")
  /\ toServer' = IF Up(line) THEN [toServer EXCEPT ![line] = Append(@, GetIdentity)]
                             ELSE toServer
  /\ epc' = "answer"
  /\ UNCHANGED <<run, identity, report, endAt, early, line, lines, orderVars, appVars, status,
                 toClient, serverVars, crashed>>

(***************************************************************************)
(* Whatever comes first is taken for the answer; a message without an      *)
(* identity leaves id empty. Without any message in 100 ms, or on a broken *)
(* line, the thread starts over.                                           *)
(***************************************************************************)
ReadAnswer ==
  /\ EventAt("answer")
  /\ \/ /\ toClient[line] # << >>
        /\ identity' = (Head(toClient[line]).kind = "identity")
        /\ toClient' = [toClient EXCEPT ![line] = Tail(@)]
        /\ epc' = "check"
     \/ /\ toClient[line] = << >>
        /\ epc' = "sleep"
        /\ UNCHANGED <<identity, toClient>>
  /\ UNCHANGED <<run, report, endAt, early, line, lines, orderVars, appVars, status, toServer,
                 serverVars, crashed>>

ReadsLast == Len(toClient[line])   \* fault: the newest message first

Reads == 1   \* where on the line: the oldest message first

Leave == "sleep"    \* fault: a timeout ends the loop

GiveUp == "gone"    \* fault: a timeout ends the thread

AfterTimeout == "check"

GoesOnForever == TRUE   \* fault: the loop does not look at run

GoesOn == run

(***************************************************************************)
(* The loop on an identified line. orders.end() is taken for a report      *)
(* before ordersMutex is.                                                  *)
(***************************************************************************)
Check ==
  /\ EventAt("check")
  /\ epc' = IF GoesOn THEN "read" ELSE "sleep"
  /\ UNCHANGED <<run, identity, report, endAt, early, line, lines, orderVars, appVars, wireVars,
                 serverVars, crashed>>

Read ==
  /\ EventAt("read")
  /\ \/ /\ toClient[line] # << >>
        /\ toClient' = [toClient EXCEPT ![line] = RemoveAt(@, Reads)]
        /\ LET message == toClient[line][Reads]
           IN  IF message.kind = "report"
               THEN /\ epc' = "find" /\ report' = message /\ endAt' = Len(orders)
                    /\ early' = early \cup ({message.order} \ ToSet(orders))
               ELSE epc' = "check" /\ UNCHANGED <<report, endAt, early>>
     \/ /\ toClient[line] = << >>
        /\ epc' = IF Up(line) THEN AfterTimeout ELSE "sleep"
        /\ UNCHANGED <<report, endAt, early, toClient>>
  /\ UNCHANGED <<run, identity, line, lines, orderVars, appVars, status, toServer, serverVars,
                 crashed>>

Position(o) == SelectInSeq(orders, LAMBDA p : p = o)

FoundBelowLast(o) == Position(o) \in 1 .. endAt - 1   \* fault: the end is off by one

(***************************************************************************)
(* The search, under ordersMutex. An order that was pushed after endIt was *)
(* taken is where endIt points, unless the vector was reallocated, and is  *)
(* then held for not found. (Were the order missing in spite of a push,    *)
(* the end would be dereferenced; orders are pushed by one thread, so that *)
(* the push was of this order.)                                            *)
(***************************************************************************)
Found(o) == Position(o) # 0 /\ (stale \/ Position(o) # endAt + 1)

Find ==
  /\ EventAt("find")
  /\ \/ Found(report.order) /\ epc' = "apply" /\ UNCHANGED report
     \/ ~ Found(report.order) /\ epc' = "check" /\ report' = Other
  /\ stale' = FALSE /\ endAt' = 0
  /\ UNCHANGED <<run, identity, early, line, lines, orders, state, appVars, wireVars,
                 serverVars, crashed>>

(***************************************************************************)
(* updateState and the callbacks go through the iterator without the lock. *)
(* If the vector was reallocated since, the freed slot may still hold the  *)
(* pointer, or the process dies.                                           *)
(***************************************************************************)
Apply ==
  /\ EventAt("apply")
  /\ \/ /\ state' = [state EXCEPT ![report.order] = report.state]
        /\ epc' = "check" /\ stale' = FALSE /\ report' = Other
        /\ UNCHANGED crashed
     \/ /\ stale
        /\ crashed' = TRUE
        /\ UNCHANGED <<epc, report, state, stale>>
  /\ UNCHANGED <<run, identity, endAt, early, line, lines, orders, appVars, wireVars,
                 serverVars>>

Sleep ==   \* five seconds
  /\ EventAt("sleep")
  /\ epc' = "connect"
  /\ UNCHANGED <<run, identity, report, endAt, early, line, lines, orderVars, appVars, wireVars,
                 serverVars, crashed>>

(***************************************************************************)
(* The application. submitOrder and cancelOrder read the pointer to the    *)
(* line once.                                                              *)
(***************************************************************************)
SubmitOrder ==
  /\ AppAt("idle") /\ created + cancels + stops < MaxRequests
  /\ created' = created + 1
  /\ request' = [kind |-> "order", order |-> created']
  /\ target' = line /\ apc' = "send"
  /\ UNCHANGED <<eventVars, line, lines, orderVars, cancels, stops, wireVars, serverVars,
                 crashed>>

CancelOrder(o) ==
  /\ AppAt("idle") /\ o <= created /\ created + cancels + stops < MaxRequests
  /\ cancels' = cancels + 1
  /\ request' = [kind |-> "cancel-order", order |-> o]
  /\ target' = line /\ apc' = "send"
  /\ UNCHANGED <<eventVars, line, lines, orderVars, created, stops, wireVars, serverVars,
                 crashed>>

Stop ==   \* it clears run and joins the event thread
  /\ AppAt("idle") /\ stops = 0 /\ created + cancels < MaxRequests
  /\ stops' = 1 /\ run' = FALSE /\ apc' = "join"
  /\ UNCHANGED <<identity, epc, report, endAt, early, line, lines, orderVars, request,
                 target, created, cancels, wireVars, serverVars, crashed>>

Join ==
  /\ AppAt("join") /\ epc = "ended"
  /\ apc' = "idle"
  /\ UNCHANGED <<eventVars, line, lines, orderVars, request, target, created, cancels,
                 stops, wireVars, serverVars, crashed>>

SendAgain == "send"   \* fault: the loop goes on after a success

AfterSuccess == IF request.kind = "order" THEN "push" ELSE "idle"

AfterFailure == IF request.kind = "order" THEN "send" ELSE "idle"

(***************************************************************************)
(* proto.sendMessage. On a line that broke the call may still succeed, and *)
(* the message is gone. A line that was destroyed is used after it was     *)
(* freed: the call fails, or the process dies as with a null pointer, or   *)
(* the memory holds a line that was created after the destruction.         *)
(***************************************************************************)
Reused(l) == Is(l, "destroyed") /\ line > l + 1

Send ==
  /\ AppAt("send")
  /\ \/ \E l \in Line :
          /\ Up(l) /\ (l = target \/ (l = line /\ Reused(target)))
          /\ toServer' = [toServer EXCEPT ![l] = Append(@, request)]
          /\ apc' = AfterSuccess
          /\ UNCHANGED crashed
     \/ /\ Is(target, "broken")
        /\ apc' \in {AfterSuccess, AfterFailure}
        /\ UNCHANGED <<toServer, crashed>>
     \/ /\ Is(target, "destroyed")
        /\ apc' = AfterFailure
        /\ UNCHANGED <<toServer, crashed>>
     \/ /\ target # NoLine => Is(target, "destroyed")
        /\ crashed' = TRUE
        /\ UNCHANGED <<toServer, apc>>
  /\ request' = IF apc' = "idle" THEN GetIdentity ELSE request
  /\ target' = IF apc' = "send" THEN target ELSE NoLine
  /\ UNCHANGED <<eventVars, line, lines, orderVars, created, cancels, stops, status, toClient,
                 serverVars>>

(***************************************************************************)
(* The order is listed when it has been sent. The first push allocates the *)
(* vector; whether a later one moves it is up to the library.              *)
(***************************************************************************)
PushOrder ==
  /\ AppAt("push")
  /\ orders' = Append(orders, request.order)
  /\ stale' \in IF epc \notin {"find", "apply"} THEN {FALSE}
                ELSE IF orders = << >> THEN {TRUE} ELSE {stale, TRUE}
  /\ apc' = "idle" /\ request' = GetIdentity
  /\ UNCHANGED <<eventVars, line, lines, state, target, created, cancels, stops, wireVars,
                 serverVars, crashed>>

(***************************************************************************)
(* The order server and the line.                                          *)
(***************************************************************************)
Answers(l) == IF Head(toServer[l]).kind = "get-identity" THEN Identity ELSE Other

Respond(l) ==   \* an order is refused unless the session has an identity
  /\ status[l] = "up" /\ toServer[l] # << >> /\ ~ crashed
  /\ LET r == Head(toServer[l]) IN
       /\ identified' = [identified EXCEPT ![l] = @ \/ r.kind = "get-identity"]
       /\ IF r.kind = "order"
          THEN /\ placed' = [placed EXCEPT ![r.order] = IF identified[l] THEN l ELSE @]
               /\ arrivals' = [arrivals EXCEPT ![r.order] = @ + 1]
          ELSE UNCHANGED <<placed, arrivals>>
  /\ toServer' = [toServer EXCEPT ![l] = Tail(@)]
  /\ toClient' = [toClient EXCEPT ![l] = Append(@, Answers(l))]
  /\ UNCHANGED <<eventVars, line, lines, orderVars, appVars, status, reported, crashed>>

Report(o) ==
  /\ Up(placed[o]) /\ reported[o] < MaxReports /\ ~ crashed
  /\ reported' = [reported EXCEPT ![o] = @ + 1]
  /\ toClient' = [toClient EXCEPT ![placed[o]] =
                    Append(@, [kind |-> "report", order |-> o, state |-> reported'[o]])]
  /\ UNCHANGED <<eventVars, line, lines, orderVars, appVars, status, toServer, identified,
                 placed, arrivals, crashed>>

Break(l) ==   \* what has arrived may still be read
  /\ status[l] = "up" /\ ~ crashed
  /\ status' = [status EXCEPT ![l] = "broken"]
  /\ toServer' = [toServer EXCEPT ![l] = << >>]
  /\ toClient' \in {toClient, [toClient EXCEPT ![l] = << >>]}
  /\ UNCHANGED <<eventVars, line, lines, orderVars, appVars, serverVars, crashed>>

EventLoop ==
  Begin \/ End \/ Connect \/ Ask \/ ReadAnswer \/ Check \/ Read \/ Find \/ Apply \/ Sleep
Application ==
  SubmitOrder \/ (\E o \in Order : CancelOrder(o)) \/ Send \/ PushOrder \/ Stop \/ Join
Server == (\E l \in Line : Respond(l) \/ Break(l)) \/ (\E o \in Order : Report(o))

Over == (crashed \/ epc = "ended") /\ UNCHANGED vars

Next == EventLoop \/ Application \/ Server \/ Over

Spec == Init /\ [][Next]_vars

(***************************************************************************)
(* The event thread goes on, the server answers, a message is sent if its  *)
(* line is up, and without a line the process dies in the first send. What *)
(* a send on a broken or destroyed line comes to is left open, for it may  *)
(* fail again and again, and a retry changes nothing. Nobody has to        *)
(* submit, to cancel or to report, and no line has to break.               *)
(***************************************************************************)
FairSpec ==
  /\ Spec
  /\ WF_vars(EventLoop)
  /\ WF_vars((Up(target) \/ target = NoLine) /\ Send) /\ WF_vars(PushOrder) /\ WF_vars(Join)
  /\ \A l \in Line : WF_vars(Respond(l))
-----------------------------------------------------------------------------
(***************************************************************************)
(* Every variable has its type.                                            *)
(***************************************************************************)
TypeOK ==
  /\ identity \in BOOLEAN /\ stale \in BOOLEAN /\ crashed \in BOOLEAN
  /\ run \in BOOLEAN /\ stops \in 0 .. 1
  /\ epc \in {"begin", "connect", "ask", "answer", "check", "read", "find", "apply",
              "sleep", "ended"}
  /\ line \in Line \cup {NoLine} /\ lines \in 0 .. MaxLines
  /\ orders \in Seq(Order) /\ state \in [Order -> 0 .. MaxReports]
  /\ report \in Message /\ endAt \in 0 .. MaxRequests
  /\ apc \in {"idle", "send", "push", "join"} /\ request \in Request
  /\ target \in Line \cup {NoLine}
  /\ created \in 0 .. MaxRequests /\ cancels \in 0 .. MaxRequests
  /\ status \in [Line -> {"none", "up", "broken", "destroyed"}]
  /\ toServer \in [Line -> Seq(Request)] /\ toClient \in [Line -> Seq(Message)]
  /\ identified \in [Line -> BOOLEAN] /\ placed \in [Order -> Line \cup {NoLine}]
  /\ arrivals \in [Order -> Nat] /\ reported \in [Order -> 0 .. MaxReports]
  /\ early \subseteq Order

Reading(l) == l = line /\ l # NoLine /\ epc \in {"check", "read", "find", "apply"}

ReportsUnderway(o) ==   \* on the line or in handleMessage
  \/ \E i \in DOMAIN toClient[placed[o]] : toClient[placed[o]][i].order = o
  \/ epc \in {"find", "apply"} /\ report.order = o

Copies(o) ==   \* of the order, on the way to the server
  UNION {{l} \X {i \in DOMAIN toServer[l] :
                    toServer[l][i] = [kind |-> "order", order |-> o]} : l \in Line}

(***************************************************************************)
(* submitOrder sends until it succeeds, over whatever connections there    *)
(* are: the server must not get an order twice.                            *)
(***************************************************************************)
SubmittedOnce == \A o \in Order : Cardinality(Copies(o)) + arrivals[o] <= 1

(***************************************************************************)
(* An order is in a state the server has reported for it, and does not go  *)
(* back to an earlier one, whatever was lost, dropped, or read through a   *)
(* stale iterator.                                                         *)
(***************************************************************************)
StatesAdvance ==
  [][\A o \in Order : state[o] <= state'[o] /\ state'[o] <= reported'[o]]_vars

(***************************************************************************)
(* What the server promises of orders (OrderView) still holds for those of *)
(* the application: an order is placed once, on the connection on which    *)
(* the server accepts it, and what the client knows of it comes from that  *)
(* connection and goes forward, whatever connections follow.               *)
(***************************************************************************)
View == INSTANCE OrderView WITH
  Party <- Line, NoParty <- NoLine,
  Stage <- 0 .. MaxReports, First <- 0,
  Later <- {p \in (0 .. MaxReports) \X (0 .. MaxReports) : p[1] < p[2]},
  current <- reported,
  known <- [v \in Line \X Order |-> IF v[1] = placed[v[2]] THEN state[v[2]] ELSE 0]

ViewSpec == View!Spec

(***************************************************************************)
(* While the client reads a line, every order the server accepted on it is *)
(* in the last state reported, apart from reports that are underway and    *)
(* orders whose report was read before they were listed. In particular no  *)
(* report is taken for the identity, and none about a listed order is      *)
(* dropped for the end iterator having moved.                              *)
(***************************************************************************)
InStep ==
  \A o \in Order \ early :
     Reading(placed[o]) /\ Up(placed[o]) /\ ~ ReportsUnderway(o) => state[o] = reported[o]

Finished == stops > 0 \/ crashed

UpToDate(o) == state[o] = reported[o] \/ o \in early \/ Finished

(***************************************************************************)
(* Once the client has begun to read the line an order was accepted on,    *)
(* every report about it is taken up, unless the line breaks or the client *)
(* is stopped: it does not leave the line by itself, however long nothing  *)
(* is reported.                                                            *)
(* Reports are bounded, so that being up to date again and again is to     *)
(* have taken up all of them.                                              *)
(***************************************************************************)
ReportsTakenUp ==
  \A o \in Order, l \in Line :
     <>(placed[o] = l /\ Reading(l)) => <>(status[l] = "broken") \/ []<>UpToDate(o)

(***************************************************************************)
(* As the comment in submitOrder says, it waits for the event thread to    *)
(* reconnect: a submission whose line has broken goes through, or fails    *)
(* for good, once the event thread has a line that stays up.               *)
(***************************************************************************)
SubmissionResumes ==
  \A l \in Line :
     <>[](line = l /\ Up(l)) =>
       (apc = "send" /\ Is(target, "broken") ~> apc # "send" \/ crashed)

(***************************************************************************)
(* stop returns, wherever the event thread was: it looks at run again      *)
(* after each message, timeout and failed connection. (A stop that comes   *)
(* before the thread has set run is undone by it, and waits for ever.)     *)
(***************************************************************************)
StopReturns == apc = "join" ~> apc # "join" \/ run \/ crashed
=============================================================================
