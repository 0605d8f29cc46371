# libgoldmine in TLA+

libgoldmine is a C++ library for trading programs. One side of it distributes
quotes (`quotesource/`): an application produces ticks and connected clients
receive them. The other side carries orders (`broker/`): clients send orders
and cancellations to a server, a broker behind the server executes them, and
state changes and trades go back to the clients and to a stats server. Both
speak the protocol of `doc/goldmine-protocol.md` over lines of the cppio
library, which is not part of the repository.

The program is small but almost every line of it runs in a thread that shares
state with other threads, and most of the sharing is guarded by convention
rather than by one lock. That is what these modules are about.

## Components

| Component | Code | State | Operations |
|---|---|---|---|
| Order server: sessions and orders | `broker/brokerserver.cpp`, `broker/broker.{h,cpp}` | `Impl::clients`; per session `identity`, `clientOrders`, `retiredOrders`, `orderListMutex`; per order `localId`, `clientAssignedId`, `quantity`, `executedQuantity`, `state`; `gs_id` | accept, get-identity, order, cancel-order, disconnect; callbacks `orderCallback`, `tradeCallback` |
| Test broker | `test-misc/broker-server.cpp` | `m_allOrders`, `m_mutex` | `submitOrder`, `cancelOrder`, `processOrders` |
| Order server: trade sink | `broker/brokerserver.cpp` `tradeSink`, `sendTradeToSink` | `tradeQueue`, `tradeQueueMutex`, the line to the stats server | push; connect, heartbeat, send, pop |
| Quote source | `quotesource/quotesource.cpp` | `clients`, `clientMutex`; per client `m_tickers`, `m_allTickers`, `m_manualMode`, `m_tickQueue`, `m_nextTickMessages`, `m_run`, the sender thread | accept, start-stream, NextTick, disconnect; `incomingTick`; `sendStreamThread` |
| Order client | `broker/brokerclient.cpp` | `orders`, `id`, `line`, `run` | `start`, `submitOrder`, `cancelOrder`, `stop`; event thread with reconnection, dispatch of reports |
| Quote source client | `quotesource/quotesourceclient.cpp` | `run`, `streamThread`, the line, `sinks`, `boostSinks`, `rawSinks` | `startStream`, `stop`; event thread with reconnection, dispatch of ticks |
| Start and stop | all four classes | `run` flags, threads to join, the vectors of clients and brokers | `start`, `stop`, destructors, `unregisterBroker` |
| Wire data | `goldmine/data.h` | none | `decimal_fixed`, `Tick`, codecs of orders and trades |
| Python bindings | `python/wrappers.cpp` | the GIL | callbacks into Python, `stop` |

How they interact:

- A session's thread calls the broker (`submitOrder`, `cancelOrder`); the
  broker's thread calls the server back (`orderCallback`, `tradeCallback`). The
  callbacks go through `clients` and ask each session for the order by
  `localId`; they change the order and the session's lists, and send messages
  on the line the session's thread also sends on.
- `tradeCallback` ends in `sendTradeToSink`, which feeds the trade sink through
  a queue.
- The application calls `incomingTick`, which calls every client under
  `clientMutex`; a client in manual mode hands the tick to its sender thread
  through a bounded queue.
- Client and server classes meet on a line only: framed messages, in order,
  until the line breaks.

What is hard in each:

- *Sessions and orders.* The broker's thread erases from the vector in which
  the session's thread holds an iterator; the response to an order and the
  reports about it come from two threads; the session is at work before it is
  listed; ids are the clients' and are used again.
- *Trade sink.* A trade is sent, then popped, and only the next heartbeat tells
  whether the line still worked; the pop is made without the mutex.
- *Quote source.* The request is handled while ticks are produced; a second
  request starts a second sender on the same queue and counter, and the queue is
  made for one; the mode is set while a tick is underway; the wait of the sender
  can miss a notification; the client is destroyed under its sender.
- *Clients.* Reports race with the registration of the order they are about;
  a line may break at any point of an exchange; the next message is taken for
  the response, whatever it is.
- *Start and stop.* `run` is set by the started thread, so that a stop that
  comes early is undone; sessions appear while they are being stopped, in a
  vector that is being gone through; a sink or a broker may be in a call; from
  Python, a lock is held meanwhile.

What makes them correct is stated at each module below; every hazard, with its
line and the properties that cover it, is in `PROJECT.json` under `hazards`.

## Modules

### BrokerServer

The order server with the test broker behind it: a thread that accepts
(`Accept`, `Register`), a thread for each session (`Session(c)`) and the
broker's thread (`Broker`).

| Code | Model |
|---|---|
| `Impl::eventLoop`: start the session, then list it | `Accept`, `Register`; `accepting` is the session in between |
| `Client::eventLoop`, `handleMessage` | `pc[c]`: "read" between two requests |
| get-identity | `GetIdentity` |
| order: `deserializeOrder`, duplicate check, list, respond, submit | `AddOrder` (or `RefuseDuplicate`), `AckOrder`, `SubmitToBroker` |
| cancel-order: look up under the mutex, respond, cancel through the iterator | `FindForCancel`, `ConfirmCancel`, `CancelAtBroker` (or `CancelCrash`) |
| `TestBroker::processOrders`, under `m_mutex` | `LockBroker`, `AcceptNext`, `Fill`, `ApplyTrade`, `ReportState`, `ForwardTrade`, `UnlockBroker`; `xpc` is "idle" when the mutex is free |
| `orderCallback` | `Reported` |
| `tradeNotification`: send, add, set the state, erase and retire, send | `Fill` up to the trade message, `ApplyTrade` to the erase under `orderListMutex`, `ReportState` for the message after it |
| `gs_id`, `Order` fields | `gsId`, functions on `OrderId` |
| messages to a client | `acked`, `told`, `traded`: what the client knows |

Steps are split where another thread can see or change something in between: the
listing, the response and the submission of an order; the look-up, the response
and the use of the iterator; the trade message, the change of the order, the
report of its state and the hand-over to the sink. A step that only touches what
the thread's lock protects is one action.

The iterator of cancel-order is a position, `slot`. After an erase the position
holds the order that moved there (`SlotOrder`). If the vector got shorter than
the position, the slot was destroyed, and its memory (`husk`) is what the erase
left there (`Left`). An erase in front of it moved its order away and left null,
and the process dies (`CancelCrash`). An erase of the last position moves
nothing: the destroyed pointer still points to the order that was in it last,
which is retired, and need not be the one that was looked up, as an earlier
erase may have moved another order there. The code then cancels that one, or
dies. These are the outcomes a build of the code has.

Fills are the ones the repository's broker and unit tests make: whole orders
(`test-misc/broker-server.cpp`), parts of an order, and, as
`tradeNotification` has a branch for it, more than the order.

### OrderView

What the order service promises of an order, at either end: it is placed once,
by one session; it goes through its stages forward only; its session, and no
other, comes to know of stages, in their order, may miss some, and knows of
none ahead of the order. `BrokerServer` and `BrokerClient` are both shown to
implement it (`ViewSpec`), with these mappings:

| OrderView | `BrokerServer` | `BrokerClient` |
|---|---|---|
| `placed` | the owner, once the order is acknowledged | `placed`, the line on which it was accepted |
| `current` | `state` | `reported`, how many states were reported |
| `known` | `told`, what was sent to each session | `state` of the client's order, for the line it was placed on |
| `Later` | `StatesAfter`: the states the code can move an order to | less than |

At the server the theorem says that a stray cancellation, a late callback or an
order that is cancelled after it was executed does not take an order, or what
its session believes, back. At the client it says that no reconnection, retry,
lost or stale report places an order a second time or makes it go back. The two
meet in what the client's environment is: an order placed once on a line, with
states that go forward.

### TradeSink and TradeFeed

`TradeSink` has the queue, the sink's thread, the pushing thread, the line and
the stats server. `sendTradeToSink` takes two steps, so that the unlocked
`pop_front` can race with `push_back`; the race may lose the pop. Other
outcomes of that race (a damaged deque) are not modelled. `TradeFeed` is what
the stats server may rely on: an ordered sequence, with gaps and immediate
repetitions. `TradeSink` is shown to implement it (`FeedSpec`) with `given` and
`received` mapped to themselves.

### QuoteSource and TickStream

`QuoteSource` has the accepting thread, the clients' threads (`EventLoop`), the
sender threads (`SenderStep`, `SendTick`; one for each manual start-stream
request) and the application inside `incomingTick` (`IncomingTick`).

| Code | Model |
|---|---|
| `start-stream`: set the mode, subscribe to one ticker after another, start a sender, respond | `StartStream`, `SubscribeNext`, `StartSender`, `ReplyOk` |
| NextTick | `NextTick` |
| `QuoteSource::incomingTick`: every client in turn, under `clientMutex` | `ProduceTick`, `DeliveredToAll`; `visiting` |
| `Client::incomingTick`: read `m_manualMode`, then look up and send, or push and notify | `EnterClient`, then `SendDirect` or `PushTick`; `way[c]` is the branch taken |
| `sendStreamThread`: check, wait, pop, send, decrement | `CheckQueue`, `WaitForTick`, `LoadIndex`, `CopyTick`, `StoreIndex`, `SendTick`, `SpendCredit` |
| `m_tickQueueCondition` | `rest[s]`: a sender that is on its way into the wait ("going") is not notified, one that waits is (`NotifyOne`, `NotifyAll`), and a wait ends by itself (`TimesOut`) |
| `m_tickQueue`, a ring with a read index | `pushed[c]`, all that was ever pushed, and `readAt[c]`, how much of it lies behind the index |

The mode and the tickers have no lock in common with `incomingTick`, so that a
start-stream request may set manual mode when a tick has already passed the
check and is about to be sent directly. It is sent all the same, though no
NextTick message asked for it: `early[c]` counts such ticks. Between the look-up
of the ticker and the send nothing can change the outcome, since tickers are
only added.

The queue is boost's `spsc_queue`, made for one consumer. Its `pop` loads the
read index, copies and destroys the element, and stores the next index; these
are three steps here, because a second start-stream request makes a second
consumer. The one that is late copies what was destroyed or replaced meanwhile
(`Place` gives the position of `pushed` that lies at an index of the ring; reading
a destroyed element may end the process), and the index it stores may be behind
or far ahead of where the ring is: ticks come back, or are skipped.

Nothing waits for the senders when a client is destroyed. Such a sender goes on
with freed memory (`Orphaned`): it may find `m_run` false there and end; stay in a
wait or a send for good; die with the process; or find another client in the
memory and work for it. After the last two the model stops, with `crashed` set:
what a sender does to a client it does not belong to cannot be told from the
source, and the process may do anything from then on.

The accepting thread has begun when the model does; it may accept once more
after it was told to stop. `QuoteSource::stop` (`Stop`, `StopClient`, `Stopped`)
goes through `clients` without `clientMutex`. If the vector was changed under
its loop (`shaken`), it may pass a client over, or the process dies. A client
sets `m_run` itself (`Begin`) and looks at it after each message or timeout
(`AfterMessage`, `NoMessage`).

`TickStream` is what a client that asks for one stream gets: ticks in order,
none twice, and in manual mode no more than the NextTick messages it sent, but
for one tick that was underway while the mode was set, which comes first. The
mapping is `produced <- Len(log)`, `paced <- manualMode`; the other variables
have the same names.

### BrokerClient

The order client towards a server that behaves as the order server does: a
session for each line, which refuses orders until it was asked for an identity
and reports the states of an order one after another.

| Code | Model |
|---|---|
| `Impl::eventLoop`: connect, ask, first message, loop | `Begin`, `Connect`, `Ask`, `ReadAnswer`, `Check`, `Read`, `Sleep`, `End`; `epc` |
| `stop`: clear `run`, join | `Stop`, `Join` |
| `handleMessage`: `orders.end()`, search under `ordersMutex`, `updateState` and callbacks without it | `Read`, `Find`, `Apply` |
| `submitOrder`: take `line.get()`, send until it succeeds, list | `SubmitOrder`, `Send`, `PushOrder`; `apc` |
| `cancelOrder`: the same without retry and list | `CancelOrder`, `Send` |
| a line that is replaced | `status[l] = "destroyed"`; a send on it fails, ends the process, or reaches a newer line in the same memory |
| `orders` reallocated under iterators | `stale` |
| session of the server, the line | `Respond`, `Report`, `Break` |

`id` is kept as whether it is set. The first message on a line is taken for the
answer to get-identity; one without an identity (the refusal of an order that
was submitted at once) leaves `id` empty, and the loop begins all the same. With
the identity set a new line is not read: this is what the code does, and
nothing in the repository says what it ought to do. Nobody calls `setIdentity`.

A state is the number of the report that announced it. The client's list has
one writer, as in `test-misc/broker-client.cpp`, hence a search that misses
after a push cannot happen. What handles a message or a request is set back
when it is done (`report`, `endAt`, `request`, `target`), which keeps states
apart only where they differ.

### QuoteSourceClient

The quote source client towards a quote source that behaves as `QuoteSource`
does to a client without manual mode: subscribed first, then answered, and sent
every wanted tick from the subscription on.

| Code | Model |
|---|---|
| `startStream`, `stop` | `StartStream`, `Stop`, `Join`; `joinable` is `streamThread`'s |
| `eventLoop`: set `run`, connect, start-stream, response, inner loop | `Begin`, `Connect`, `Ask`, `ReadResponse`, `Check`, `Read`, `Sleep`, `End`; `epc` |
| the loops over `sinks`, `boostSinks`, `rawSinks` | `Dispatch(s)` for one sink after another, `Dispatched` |
| the session of the quote source, the line | `Subscribe`, `Respond`, `ProduceTick`, `Break` |

The client does not look at the message it takes for the response, so that
success and error are one message. What a sink gets over all connections is
shown to be a `TickStream` (`SinkSpec`), the same abstraction that `QuoteSource`
implements at the other end: `sent <- seen`, never paced, none early. Sinks are
registered before the stream starts; nothing guards the lists if they are not.

### PyBindings

`PyBindings` extends `QuoteSourceClient` with Python's interpreter lock, `gil`:
a method of the program holds it to its end, the wrapper of a sink takes it for
the time of the call (`Ensure`, `PyDispatch`), and between its calls the program
gives it up now and then. `Deadlocked` (in `QuoteSourceClientProofs`, next to the
theorem about it) is the state in which both wait.

### BrokerServerThreads

The threads of the order server in the large: the main thread that accepts and
lists, the sessions, the sink, brokers that call back, and the application that
starts the server, unregisters a broker and stops the server. The messages are
those of `BrokerServer` and `TradeSink` and left to them; here a request is one
that goes through `brokers` or one that does not.

| Code | Model |
|---|---|
| `Impl::eventLoop` | `Begin`, `StartSink`, `CheckMain`, `NoConnection`, `Accept(s)`, `List` |
| `Client::eventLoop`, the loop over `brokers` in `submitOrder`, `cancelOrder` | `BeginSession`, `CheckSession`, `Read`, `AskBroker` |
| `orderCallback`, `tradeCallback` | `CallBack(b)`, `Visit(b)` |
| `eventLoop` when the endpoint cannot be bound | `StartSink` ends the process: nobody catches what it throws |
| `tradeSink`: connect and send a heartbeat, read the answer, wait for a trade and send it | `CheckSink`, `Answered`, `TakeTrade`; `kpc` |
| `stop`: `run`, `Client::stop` for each, `Client::join` for each, `brokers.clear`, join | `Stop`, `Tell`, `AllTold`, `JoinSession`, `AllJoined`, `ClearBrokers`, `JoinMain` |

A loop over a vector goes on to the end it had. A change of the vector meanwhile
(`torn` for `clients`, `unsure` for `brokers`) leaves it with memory that may
still hold what was there, or the process dies.

### MC modules

`MCBrokerServer`, `MCBrokerServerThreads`, `MCBrokerClient`, `MCTradeSink`,
`MCQuoteSource` and `MCQuoteSourceClient` extend the specifications and define
the small sets that the configurations assign to the constants. `PyBindings` is
checked as it is.

Operators marked `\* fault:` are the bugs a change of the code might bring in;
no action uses them. Each property below is violated when its fault takes the
place of the definition it stands next to (`mutants` in `PROJECT.json`).

## Runs

| Run | Configuration | Shows |
|---|---|---|
| `broker_book` | 1 session, 3 orders, ids {1, 2}, quantities and fills {1, 2} | `SessionBook`, `Reconciled`, `RetiredExactly`, `ReportInSync`, `CancelledFinal`, `StrayCancelStaysHome`, `ViewSpec` |
| `broker_sessions` | 2 sessions, 2 orders of quantity 2, one id | `TypeOK`, `AckBeforeReport`, `NoCrossTalk`, `EveryOrderTakenUp` |
| `broker_cancel` | 1 session, 2 orders | violates `CancelHitsRequested` |
| `server_threads` | 2 sessions, 1 broker | `TypeOK`, `AtMostOneLeft`, `StopReturns`, `SinkEnds` |
| `trade_sink` | 4 trades, 3 broken lines | `TypeOK`, `AtMostOneLostPerBreak`, `RepeatedOnlyByRace`, `FeedSpec`, `EveryTradeLeavesTheQueue` |
| `quote_streams` | 1 client, 2 streams, queue of 1, 3 ticks, lists `*` and `A ?` (refused half-way) | `TypeOK`, `NothingMissedAfterOk`, `AheadBounded` |
| `quote_feed` | 1 client, 1 stream, queue of 2, 3 ticks, lists `A` and `B ? A`, with `stop` | `StreamSpec`, `NextTickServed`, `SendersEnd` |
| `quote_pace` | 1 client, 2 streams | violates `PacedByNextTick` |
| `client_reports` | 2 requests (orders, cancellations, a stop), 3 connections, 2 reports for each order | `TypeOK`, `SubmittedOnce`, `InStep`, `StatesAdvance`, `ViewSpec`, `ReportsTakenUp`, `StopReturns` |
| `client_resume` | 1 order, 2 connections | violates `SubmissionResumes` |
| `quote_client` | 2 sinks, 3 ticks, 2 connections, 2 starts | `TypeOK`, `OnlyFirstTickLost`, `SinkSpec`, `QuietAfterStop`, `StreamResumes`, `TicksTakenUp`, `StopReturns` |
| `py_stop` | 1 sink, 2 ticks, 1 connection | violates `PyStopReturns` |

Why the bounds are enough:

- *Orders.* Two orders let one move into the slot of the other; a third lets an
  id be used again after its order was retired, while another is listed. With
  quantities and fills of 1 and 2 an order is filled at once, in two parts, or
  beyond its quantity.
- *Sessions.* Sessions meet in the broker's mutex and in the callbacks' search
  through `clients`; two of them that use one id show both.
- *Order client.* Two orders let a report of one meet the push of the other,
  with and without a reallocation; two reports of one order let one be dropped
  and the next taken up; the third connection is the first that can lie in the
  memory of a destroyed one, and comes after one with and one without an
  identity.
- *Trades and breaks.* A trade is lost or repeated against its neighbour in the
  queue; four trades and three breaks allow every trade but one its own break.
- *Ticks and streams.* Two senders, a full queue and a refused list all occur
  with two streams and a queue of one; with the third tick a sender that is late
  in its pop finds a ring that has gone round. In `quote_feed` one tick may go
  out early, and two wait. Clients share only the application's loop over them,
  with `clientMutex` held, and the accepting thread: none changes what another
  is sent. Hence one client in these runs; the theorems hold for any number.
- *Quote source client.* With three ticks one may be taken for the response, one
  be in a sink's hands and one on the line; the second connection shows what a
  reconnection repeats or skips, the second start what the first has left
  behind; two sinks can be told apart by what they missed.
- *Threads of the server.* One session is in the vector while the other is
  accepted, so that a loop over one element is torn by the second; one broker is
  the one that calls back and the one that is unregistered. `AtMostOneLeft` is
  proved for any number of either.

`Next` has a stutter step for the ends that are intended (the process died, all
clients left, the bound is reached and the sink waits, stop has returned), so
that deadlock is checked in every run but `py_stop`. There the deadlock is the
finding, and the run states it as `stop` not returning.

### Findings

The runs that end in a violation show what the code does against what the
protocol's document, a comment or a test says:

1. `broker_cancel` (`brokerserver.cpp:217`): cancel-order uses its iterator
   after it gave up the lock. A trade that erases an order in between makes it
   cancel an order the client did not name.
2. `quote_pace` (`quotesource.cpp:134`): a second start-stream request in manual
   mode adds a sender to the one that runs, and both send against one NextTick.
3. `client_resume` (`brokerclient.cpp:130`): `submitOrder` goes on trying the
   line it started with. In the trace the call takes a line that has broken, the
   event thread replaces it by one that stays up, and the call never returns: a
   send on a line that is gone fails again and again, which changes nothing.
4. `py_stop` (`wrappers.cpp:259`): `stop` joins the stream's thread with the
   interpreter lock held, and a sink that is about to be called waits for that
   lock.

`CancelledFinal` and `ReportInSync` hold in spite of 1: an order that is
cancelled by mistake stays cancelled, and its client is told if it is listed.
Two senders, as in 2, do more harm than overrun the pace: as they share a queue
made for one consumer, ticks may be skipped or sent again, so that
`NothingMissedAfterOk` and `StreamSpec` are about a client with one sender. How
far the first two findings, and the last, go is proved:

- What a stray cancellation hits is an order of the same session that was
  submitted after the one it names and is listed, or was retired while the
  cancellation was underway (`StrayCancelStaysHome`): never an order of another
  session, and never an older one.
- The senders of a client are ahead of its NextTick messages by less than
  their number (`AheadBounded`), however long they run: the overrun does not add
  up. One sender alone keeps the pace exactly.
- The deadlock of `py_stop` does not resolve (`DeadlockIsFinal`): the program
  does not get to give the lock up, and neither further ticks nor the end of
  the connection free the thread.

Other behaviour that a reader may not expect follows from the models and is
exempted, by name, where a property would otherwise be about it: an order client
drops a report that it reads before it has listed the order (`early` in
`InStep`); a tick that was underway while manual mode was set is sent without
being asked for (`early` in `TickStream`); a tick that finds the queue full is
dropped (`dropped` in `NothingMissedAfterOk`); a session starts before it is
listed, and is not told of a change in between (`ReportInSync` compares with
what it was told); in manual mode a client gets ticks of every ticker; an order
client that has connected again does not read its new line; a `stop` that comes
before the started thread has set `run` is undone, and a session that is
accepted during `stop` goes on (`StopReturns`, `Reversed`).

Where the document and the code use other names, the model follows the code:
the document calls the quantity of an order `amount`, and describes a stop of
the stream and a heartbeat request that `quotesource.cpp` does not handle.

## Fairness

- *Order server.* `AckOrder` and the broker's steps are steps of running
  threads: weak fairness. `SubmitToBroker` waits for the broker's mutex, which
  the broker's thread takes again and again, but with a sleep of a millisecond
  without it (`test-misc/broker-server.cpp:238-242`): a waiting session finds it
  free infinitely often, hence strong fairness. Clients need not send requests
  and the broker need not fill: no fairness for those. A death of the process
  ends the obligation.
- *Order client.* Weak fairness for the event thread, for a send on a line that
  is up, or without any line (which ends the process), for the push after it,
  for the join in `stop`, and for the server's answers. What a send on a broken
  or destroyed line comes to is left open; a retry that fails changes nothing.
  Connection attempts need not succeed, lines need not break.
- *Trade sink.* Weak fairness for the pushing thread, the sink and the stats
  server; connection attempts succeed at last; the line need not break.
- *Quote source client.* Weak fairness for the event thread, the join and the
  quote source's answers, strong fairness for a connection attempt that succeeds
  (as long as `MaxLines` allows one): a source that is never reachable sends
  nothing. No tick need be produced.
- *Python.* The same; moreover the lock is handed to a waiting thread if the
  program gives it up again and again, as the interpreter does. The violation
  does not depend on it: the program never gives the lock up.
- *Threads of the server.* Weak fairness for the main thread, each session, the
  sink and the steps of `stop`: their waits have timeouts, and brokers return.
  The exception is the sink's wait for the answer to a heartbeat (`Answered`,
  `brokerserver.cpp:414`): its line gets no `ReceiveTimeout`, and a stats server
  that stays connected and silent holds it for ever. `SinkEnds` says that
  nothing else does. Nobody need connect, call back or call `stop`.
- *Quote source.* Weak fairness for the senders' steps but the send
  (`SenderStep`): they take no lock, and their wait ends by itself after 40 ms,
  which is why a missed notification does no harm. A send (`SendTick`) ends only
  if the client reads what it is sent, or leaves: no fairness, and
  `NextTickServed` and `SendersEnd` except a sender that is held up in one for
  ever. None either for the sender of a destroyed client.

## Proofs

`BrokerServerProofs` proves, for every set of sessions and ids, all quantities
and any bound on orders, from the assumptions `BrokerServer` states about its
constants:

- `TypeCorrect`: `Spec => []TypeOK`. `TypeOK` is not inductive by itself: an
  order that a thread works on must exist for the step to be well typed. The
  inductive invariant is `TypeInv`, `TypeOK` with `ThreadsOK` (a session in the
  middle of a request holds an order; the broker in the middle of a report
  holds a trade of an existing order).
- `SessionBookCorrect`: `Spec => []SessionBook`. The inductive invariant is
  `BookInv`, relative to `TypeInv`: `SessionBook` with `OlderThanNext` (listed
  and retired orders have a `localId` below `gs_id`, so that a new one is in no
  list). Two actions matter. `AddOrder` appends an order that is new to every
  list, with an id that is not in use; `ApplyTrade` erases one from the middle,
  where `RemoveAtShifts` says what a list looks like afterwards, and the
  distinctness of the entries says that the retired order is gone from it. All
  other actions leave the books alone (`SameBooks`).

`BrokerReportProofs` goes on from there:

- `NoCrossTalkCorrect`. The invariant is `OwnInv`: an order that does not exist
  yet has no owner and nothing was done to it, and the orders that threads work
  on have one (`OwnedOrders`, `OwnedWork`). Callbacks go to the sessions that
  hold an order (`HoldersOwn`), hence to its owner.
- `AckBeforeReportCorrect`. The invariant is `AckWork`: an order that the broker
  has, or that a thread works on past the response, was acknowledged, and a
  listed one was, unless its session is about to. The step that matters is
  `AckOrder` before `SubmitToBroker`.

`BrokerLedgerProofs` has the properties that relate what was sent with the
orders, between two runs of `processOrders`. The invariants also say what holds
in the middle of one:

- `ReportInSyncCorrect`, by `InSync`: for every session that lists the order the
  report falls into the step that changes the state or, after a fill, into the
  broker's next step (`Unreported`), and a session that is not in `clients` yet
  was told nothing.
- `ReconciledCorrect`, by `Ledger`: the sums of what was sent, applied and
  forwarded, with the lot that is being applied or forwarded (`Applying`,
  `Forwarding`) accounted for.
- `RetiredExactlyCorrect`, by `Exact`: an order is retired if and only if it
  is executed in full, and otherwise listed.
- `CancelledFinalCorrect`, by `OpenUnderTrade`: while the broker reports a trade
  of an order, holding its mutex, the order is submitted or filled in part, and
  no session can cancel it.
- `StrayCancelStaysHomeCorrect`, by `ByAge`: a session's list is in the order of
  `localId` (`ListedByAge`), and the position a session holds for a cancellation
  has the order it looked up, or a later one that moved there
  (`SlotByAge`). Erasing moves orders to the front and appending does not
  move any. If the position was destroyed, what is left in it is null or the
  order that was executed when it was destroyed: a retired order of the session,
  no older than the one looked up (`HuskByAge`).
- `ImplementsView`: `Spec => ViewSpec`. Besides `OwnInv`, `AckWork`, `InSync` and
  `OpenUnderTrade` it takes `NoneRejected` (nothing in the code rejects an order)
  and `ReportBehind` (a fill that is applied and not yet reported has not been
  overtaken by a report).
  `AdvanceStep` and `LearnStep` say when a change of an order and a report of it
  are a step of OrderView; the response to an order is `Place`, an acceptance
  or a cancellation `Advance`; the fill of a trade is `Advance` unless the state
  stays "partially-executed", and its report `Learn` unless it is no news.

`TradeSinkProofs` proves of the trade sink, for any number of trades and broken
lines:

- `TypeCorrect`, by `TypeInv`, which adds that between the copy of a trade and
  its pop the trade is still the first in the queue.
- `ImplementsFeed`: `Spec => FeedSpec`. The inductive invariant is `Pipeline`:
  what was received, what is on the wire and what is in the queue follow one
  another in ascending order, none of it later than what was given. With it,
  what the stats server receives next is later than what it received before, or
  the same trade again.

- `AtMostOneLostPerBreakCorrect`. The invariant is `LossBound`: the trades lost,
  and one that may yet be lost on a line that broke (`AtRisk`), are no more than
  the breaks. `WireOK` says what is on the wire and which answers are due in
  each step of the sink.
- `RepeatedOnlyByRaceCorrect`, by `RepeatBound`: the repetitions received, with
  the ones that are bound to come because a trade is on the wire a second time
  (`WillRepeat`) or is still at the front of the queue after it was sent
  (`WillResend`), are no more than the pops lost.

`BrokerServerThreadsProofs` is about any number of sessions and brokers:

- `TypeCorrect`: `TypeOK` is inductive by itself.
- `AtMostOneLeftCorrect`. `Listed` says that a session that works is in
  `clients`, or was just started and is about to be; `OneLate` that one session
  at most is listed after `stop` has cleared `run`; `Awaited` that of the
  others the ones `stop` has passed in its second loop have ended.

`QuoteSourceProofs` is about any sets of clients and tickers, any capacity and
any number of streams:

- `TypeCorrect`, by `TypeInv`: `TypeOK` with `HandOK` (what a sender is about to
  send is a tick, and the read index it has loaded lies within what was pushed)
  and `ClientsOK` (`incomingTick` delivers a tick that exists, to a client it
  visits, and a client in the middle of a request has a stream). That a queue
  holds no more than its capacity is part of it, also when two senders set its
  index back: `Place` names the last position that shares one of the ring.
- `NothingMissedAfterOkCorrect`, by `Delivered`: a sender that is alone pops
  what lies at the read index, which nobody else moves (`SolePops`); a sender
  that was not asked for does not exist (`SendersFresh`), so that a new one
  overwrites nothing; and a ticker that was confirmed is still wanted when the
  tick comes (`ConfirmedWanted`). With two senders the statement is false.
- `ImplementsStream`: with `MaxStreams = 1`, `Spec => StreamSpec`. The invariant
  is `OneStreamEach`: a client has asked for nothing yet, or gets its ticks
  directly, or from its one sender (`Settled`); what was sent, what the sender
  holds and what waits follow one another (`InOrder`); and in manual mode what
  was sent, the counter and the NextTick messages balance, with the early tick
  and the one that is yet to be deducted (`Paced`). A tick underway when the
  mode is set finds nothing sent and nothing queued (`Underway`): it is the
  first, and there is one at most. With a second stream the statement is false,
  which is what `quote_pace` shows.
- `AheadBoundedCorrect`, for any `MaxStreams`. The invariant is `WorkCovered`:
  the senders between their check of `m_nextTickMessages` and the decrement
  (`Working`) exceed the counter by none, or by less than the senders started.
  The check finds the counter positive, so that with this one all but one may be
  beyond it; a decrement takes one from both sides.

`QuoteSourceClientProofs` is about any number of sinks, ticks, lines and streams:

- `TypeCorrect`, by `TypeInv`: `TypeOK` with `ThreadOK` (past `Connect`
  there is a line, and without a joinable thread there is no running one) and
  `LinesOK` (the last line is the only one that may be up).
- `QuietAfterStopCorrect`: without a joinable thread no sink is called.
- `ImplementsStream`: `Spec => SinkSpec`. By `Pipeline`, what a sink has seen is
  behind the tick the thread holds, and that behind what waits on the line,
  which ascends.
- `OnlyFirstTickLostCorrect`, by `Kept`: until the client has read a first
  message from a line, all that was sent on it waits there, and the message
  is the response or the first tick (`AllWaiting`); as no tick is sent twice
  (`SentAscends`), no other is lost with it.
- `PythonClient`: `PySpec => Spec`. A step of `PyBindings` is a step of the client
  or changes the interpreter lock only, hence `PythonSinks`: what is proved of
  sinks holds in Python.
- `DeadlockIsFinal`: `PySpec => [](Deadlocked => []Deadlocked)`. It is a statement
  of safety, that no step leaves the state; that the state is reached is what
  `py_stop` shows.

`BrokerClientProofs` is about any number of requests, lines and states that the
server reports:

- `TypeInv`: the types, with what they need. A line in use is one that was
  created, a thread that sends has a request to send, and a report on a line is
  about an order (`Sound`).
- `Once`: an order is on its way on at most one line and there at most once
  (`OneCopy`), has reached the server only when it is not on its way (`Arrived`),
  and neither while the application has yet to send it (`NotYet`). A failed send
  leaves it there, a successful one leaves that step for good: that is why
  `submitOrder` may try again on any line. `SubmittedOnce` follows.
- `Advancing`: an order is accepted on one line at most and reported only there
  (`Placing`); the states reported for it that wait on the line lie between the
  state the order has and the last one reported (`Between`), in the order they
  were reported (`Ordered`); one in the hand of `handleMessage` comes before
  all that wait (`InHand`). `StatesAdvance` follows for every step, also when the
  step goes through an iterator that dangles.

- `Catching`: a line that is not created yet is empty (`Fresh`); what comes first
  on a line that still waits for its answer is no report (`Answering`), because
  the server accepts orders only after it has answered; an order that was listed
  when its report was read lies before the end that was taken for the search
  (`Searching`), so that the search finds it (`FirstPosition`) wherever the
  end iterator points by then; and the last state reported for an order is taken
  up, in hand or on the line (`Caught`). `InStep` follows.
- `ImplementsView`: `Spec => ViewSpec`, from `Once` and `Advancing`. The server's
  acceptance is `Place`, because an order that is on its way has not arrived
  before (`RespondView`); a report it sends is `Advance`; and a report the client
  applies is `Learn` or, when it is no news, no step (`ApplyView`).

Only model-checked are the liveness properties: those and `ENABLED` are out of
the prover's reach.

## Not modelled

- *Wire data.* `decimal_fixed` compares and adds values that its constructor
  derives with floating-point arithmetic, which neither TLC nor the provers
  have; a model of the integer part alone would say nothing of the conversion.
  The encodings are field by field and have no state. What they lose (a trade's
  volume currency, the precision of its time) is seen by reading them.
- *Several brokers* in `BrokerServer`: an order whose account is known to two
  brokers is submitted to both, and their threads add to `executedQuantity`
  without a lock. The test broker, the only one in the repository, is used alone.
- *Composition of the order client and the order server.* `BrokerClient` has the
  session of the server as its environment. Both are proved to implement OrderView,
  the one with what the server tells its sessions, the other with what the client
  takes up. With `BrokerServer` in its place the
  instance that would show anything new (two orders with one id, a reconnection)
  is beyond exhaustive checking.
- *A second start* of the servers and of the order client after `stop`. The quote
  source client is started again.
- *Registering sinks, reactors or brokers while threads run.* The lists have no
  lock; the repository's programs register everything first.
- *What never ends.* Sessions whose line closed stay in `clients`, and the queue of
  trades grows without a stats server: the bounds of the models stand for neither.
- *Memory.* The outcomes of races on `std::vector`, `std::deque` and
  `std::unordered_set` beyond those named above, and frames of two threads mixed
  on one line, which cppio decides.
- The text of messages, prices, accounts and securities; reactors, which only
  observe; the remaining attributes of the Python bindings; exceptions, modelled
  where they are caught; the drivers in `test-misc` other than the broker; the unit
  tests; vendored code.
