----------------------------- MODULE QuoteSource -----------------------------
(***************************************************************************)
(* The quote source, quotesource/quotesource.cpp: the application calls    *)
(* incomingTick, which hands the tick to every client under clientMutex;   *)
(* each client has a thread that reads its requests and, once it has asked *)
(* for a stream in manual mode, a sender thread that sends queued ticks    *)
(* against NextTick messages.                                              *)
(*                                                                         *)
(* Ticks are numbered in the order they are produced; of a tick only the   *)
(* ticker is kept, of a request the list of tickers. Requests that change  *)
(* nothing (request-capabilities, heartbeats, malformed messages) and the  *)
(* reactors of the application are left out.                               *)
(***************************************************************************)
EXTENDS Integers, FiniteSets, SequencesExt

CONSTANTS
  Client,       \* connections
  Ticker,
  All,          \* "t:*" in a request
  Invalid,      \* anything in a request that does not start with "t:"
  Requests,     \* the lists of tickers that clients ask for
  Capacity,     \* of m_tickQueue
  MaxTicks,     \* bound: ticks produced
  MaxNexts,     \* bound: NextTick messages of each client
  MaxStreams,   \* bound: start-stream requests of each client
  MayStop       \* bound: whether the application may call stop

ASSUME RequestsAssumption ==
  /\ All \notin Ticker /\ Invalid \notin Ticker
  /\ Requests \subseteq Seq(Ticker \cup {All, Invalid})
ASSUME BoundsAssumption ==
  /\ Capacity \in Nat /\ MaxTicks \in Nat /\ MaxNexts \in Nat /\ MaxStreams \in Nat
  /\ MayStop \in BOOLEAN

Tick == 1 .. MaxTicks
Sender == Client \X (1 .. MaxStreams)   \* a thread for each manual stream
NoTick == 0

VARIABLES
  log,         \* the tickers of the ticks produced so far
  delivering,  \* the application is inside incomingTick, with clientMutex
  visiting,    \* the clients it has yet to hand the tick to
  way,         \* where it is in the incomingTick of each client
  clients,     \* Impl::clients
  accepting,   \* whether the accept thread goes on
  stopping,    \* where the application is in stop
  untold,      \* the clients it has yet to stop
  shaken,      \* whether clients was changed under its loop
  pc,          \* where each client's eventLoop is
  request,     \* the tickers of its request it has yet to subscribe to
  streams,     \* how many start-stream requests it has handled
  run,         \* m_run
  manualMode, tickers, allTickers,   \* m_manualMode, m_tickers, m_allTickers
  pushed,      \* the ticks pushed to m_tickQueue, in order
  readAt,      \* its read index: so many of them lie behind it
  copied,      \* the places in pushed that were copied and destroyed
  credits,     \* m_nextTickMessages
  spc,         \* where each sender thread is
  rest,        \* how far it is into waiting for m_tickQueueCondition
  at,          \* the read index it has loaded, while it pops
  hand,        \* the tick it has copied and not yet sent
  sent,        \* the ticks sent to each client, in order
  dropped,     \* the ticks that found m_tickQueue full
  nexts,       \* NextTick messages of each client
  confirmed,   \* the tickers it was subscribed to at a "success" response
  owed,        \* the ticks of those that were handed to it since
  early,       \* how many ticks it was sent directly, though its mode was manual
  crashed      \* the process died on something destroyed, or uses it: all may happen

tickVars    == <<log, delivering, visiting, way>>
stopVars    == <<accepting, stopping, untold, shaken>>
requestVars == <<pc, request, streams, run>>
modeVars    == <<manualMode, tickers, allTickers>>
queueVars   == <<pushed, readAt, copied>>
senderVars  == <<spc, rest, at, hand>>
promiseVars == <<confirmed, owed, early>>
vars == <<tickVars, clients, stopVars, requestVars, modeVars, queueVars, credits, senderVars,
          sent, dropped, nexts, promiseVars, crashed>>

Init ==
  /\ log = << >> /\ delivering = FALSE /\ visiting = {}
  /\ way = [c \in Client |-> "out"]
  /\ clients = {}
  /\ accepting = TRUE /\ stopping = "no" /\ untold = {} /\ shaken = FALSE
  /\ pc = [c \in Client |-> "none"]
  /\ request = [c \in Client |-> << >>]
  /\ streams = [c \in Client |-> 0]
  /\ run = [c \in Client |-> FALSE]
  /\ manualMode = [c \in Client |-> FALSE]
  /\ tickers = [c \in Client |-> {}]
  /\ allTickers = [c \in Client |-> FALSE]
  /\ pushed = [c \in Client |-> << >>]
  /\ readAt = [c \in Client |-> 0]
  /\ copied = [c \in Client |-> {}]
  /\ credits = [c \in Client |-> 0]
  /\ spc = [s \in Sender |-> "none"]
  /\ rest = [s \in Sender |-> "no"]
  /\ at = [s \in Sender |-> 0]
  /\ hand = [s \in Sender |-> NoTick]
  /\ sent = [c \in Client |-> << >>]
  /\ dropped = [c \in Client |-> {}]
  /\ nexts = [c \in Client |-> 0]
  /\ confirmed = [c \in Client |-> {}]
  /\ owed = [c \in Client |-> {}]
  /\ early = [c \in Client |-> 0]
  /\ crashed = FALSE

At(c, step) == pc[c] = step /\ ~ crashed
MutexFree == ~ delivering /\ ~ crashed

(***************************************************************************)
(* m_tickQueueCondition: only a sender that waits already is notified.     *)
(***************************************************************************)
Resting(c) == {s \in Sender : s[1] = c /\ rest[s] = "waiting"}

NotifyOne(c) ==
  \/ \E s \in Resting(c) : rest' = [rest EXCEPT ![s] = "no"]
  \/ Resting(c) = {} /\ UNCHANGED rest

NotifyAll(c) == rest' = [s \in Sender |-> IF s \in Resting(c) THEN "no" ELSE rest[s]]

(***************************************************************************)
(* QuoteSource::eventLoop lists and starts a client under clientMutex. It  *)
(* may do so once more after stop has cleared run.                         *)
(***************************************************************************)
Accept(c) ==
  /\ accepting /\ At(c, "none") /\ MutexFree
  /\ clients' = clients \cup {c}
  /\ pc' = [pc EXCEPT ![c] = "begin"]
  /\ accepting' = (stopping = "no")
  /\ shaken' = (shaken \/ stopping = "clients")
  /\ UNCHANGED <<tickVars, stopping, untold, request, streams, run, modeVars, queueVars,
                 credits, senderVars, sent, dropped, nexts, promiseVars, crashed>>

AcceptNoMore ==
  /\ accepting /\ stopping # "no" /\ ~ crashed
  /\ accepting' = FALSE
  /\ UNCHANGED <<tickVars, clients, stopping, untold, shaken, requestVars, modeVars,
                 queueVars, credits, senderVars, sent, dropped, nexts, promiseVars, crashed>>

(***************************************************************************)
(* stop goes through the clients without clientMutex, and waits for none   *)
(* longer than 200 ms. If a client was added or has removed itself since   *)
(* the loop began, a client may be passed over, or the process die.        *)
(***************************************************************************)
Stop ==
  /\ MayStop /\ stopping = "no" /\ ~ crashed
  /\ stopping' = "clients" /\ untold' = clients
  /\ UNCHANGED <<tickVars, clients, accepting, shaken, requestVars, modeVars, queueVars,
                 credits, senderVars, sent, dropped, nexts, promiseVars, crashed>>

StopClient(c) ==
  /\ stopping = "clients" /\ c \in untold /\ ~ crashed
  /\ \/ /\ NotifyAll(c)
        /\ run' = [run EXCEPT ![c] = FALSE]
        /\ UNCHANGED crashed
     \/ /\ shaken
        /\ crashed' \in BOOLEAN
        /\ UNCHANGED <<run, rest>>
  /\ untold' = untold \ {c}
  /\ UNCHANGED <<tickVars, clients, accepting, stopping, shaken, pc, request, streams,
                 modeVars, queueVars, credits, spc, at, hand, sent, dropped, nexts,
                 promiseVars>>

Stopped ==
  /\ stopping = "clients" /\ untold = {} /\ ~ crashed
  /\ stopping' = "returned"
  /\ crashed' \in {FALSE, shaken}
  /\ UNCHANGED <<tickVars, clients, accepting, untold, shaken, requestVars, modeVars,
                 queueVars, credits, senderVars, sent, dropped, nexts, promiseVars>>

(***************************************************************************)
(* Client::eventLoop sets m_run itself, and looks at it before each read:  *)
(* a client that was stopped handles the message it is at, and one more    *)
(* if that comes within 100 ms.                                            *)
(***************************************************************************)
Begin(c) ==
  /\ At(c, "begin")
  /\ run' = [run EXCEPT ![c] = TRUE]
  /\ pc' = [pc EXCEPT ![c] = "read"]
  /\ UNCHANGED <<tickVars, clients, stopVars, request, streams, modeVars, queueVars, credits,
                 senderVars, sent, dropped, nexts, promiseVars, crashed>>

AfterMessage(c) == IF run[c] THEN "read" ELSE "remove"

(***************************************************************************)
(* Client::eventLoop. A start-stream request sets the mode, subscribes to  *)
(* one ticker after another, starts a sender if the mode is manual, and is *)
(* answered. What it has set when a ticker is refused remains.             *)
(***************************************************************************)
StartStream(c, manual, list) ==
  /\ At(c, "read") /\ streams[c] < MaxStreams
  /\ streams' = [streams EXCEPT ![c] = @ + 1]
  /\ manualMode' = [manualMode EXCEPT ![c] = manual]
  /\ request' = [request EXCEPT ![c] = list]
  /\ pc' = [pc EXCEPT ![c] = "subscribe"]
  /\ UNCHANGED <<tickVars, clients, stopVars, run, tickers, allTickers, queueVars, credits,
                 senderVars, sent, dropped, nexts, promiseVars, crashed>>

SubscribeNext(c) ==
  /\ At(c, "subscribe") /\ request[c] # << >>
  /\ LET ticker == Head(request[c])
     IN  \/ /\ ticker \in Ticker
            /\ tickers' = [tickers EXCEPT ![c] = @ \cup {ticker}]
            /\ request' = [request EXCEPT ![c] = Tail(@)]
            /\ UNCHANGED <<allTickers, pc>>
         \/ /\ ticker = All
            /\ allTickers' = [allTickers EXCEPT ![c] = TRUE]
            /\ request' = [request EXCEPT ![c] = << >>]
            /\ UNCHANGED <<tickers, pc>>
         \/ /\ ticker = Invalid   \* the error response
            /\ request' = [request EXCEPT ![c] = << >>]
            /\ pc' = [pc EXCEPT ![c] = AfterMessage(c)]
            /\ UNCHANGED <<tickers, allTickers>>
  /\ UNCHANGED <<tickVars, clients, stopVars, streams, run, manualMode, queueVars, credits,
                 senderVars, sent, dropped, nexts, promiseVars, crashed>>

StartSender(c) ==   \* replacing m_senderThread detaches the one before
  /\ At(c, "subscribe") /\ request[c] = << >>
  /\ IF manualMode[c]
     THEN spc' = [spc EXCEPT ![<<c, streams[c]>>] = "check"]
     ELSE UNCHANGED spc
  /\ pc' = [pc EXCEPT ![c] = "reply"]
  /\ UNCHANGED <<tickVars, clients, stopVars, request, streams, run, modeVars, queueVars,
                 credits, rest, at, hand, sent, dropped, nexts, promiseVars, crashed>>

ReplyOk(c) ==
  /\ At(c, "reply")
  /\ confirmed' = [confirmed EXCEPT ![c] = IF allTickers[c] THEN Ticker ELSE tickers[c]]
  /\ pc' = [pc EXCEPT ![c] = AfterMessage(c)]
  /\ UNCHANGED <<tickVars, clients, stopVars, request, streams, run, modeVars, queueVars,
                 credits, senderVars, sent, dropped, nexts, owed, early, crashed>>

NextTick(c) ==
  /\ At(c, "read") /\ nexts[c] < MaxNexts
  /\ nexts' = [nexts EXCEPT ![c] = @ + 1]
  /\ credits' = [credits EXCEPT ![c] = @ + 1]
  /\ NotifyOne(c)
  /\ pc' = [pc EXCEPT ![c] = AfterMessage(c)]
  /\ UNCHANGED <<tickVars, clients, stopVars, request, streams, run, modeVars, queueVars,
                 spc, at, hand, sent, dropped, promiseVars, crashed>>

NoMessage(c) ==   \* within 100 ms
  /\ At(c, "read") /\ ~ run[c]
  /\ pc' = [pc EXCEPT ![c] = AfterMessage(c)]
  /\ UNCHANGED <<tickVars, clients, stopVars, request, streams, run, modeVars, queueVars,
                 credits, senderVars, sent, dropped, nexts, promiseVars, crashed>>

Disconnect(c) ==
  /\ At(c, "read")
  /\ run' = [run EXCEPT ![c] = FALSE]
  /\ pc' = [pc EXCEPT ![c] = "remove"]
  /\ UNCHANGED <<tickVars, clients, stopVars, request, streams, modeVars, queueVars, credits,
                 senderVars, sent, dropped, nexts, promiseVars, crashed>>

RemoveClient(c) ==   \* and destroy it, under clientMutex
  /\ At(c, "remove") /\ MutexFree
  /\ clients' = clients \ {c}
  /\ pc' = [pc EXCEPT ![c] = "destroyed"]
  /\ shaken' = (shaken \/ stopping = "clients")
  /\ UNCHANGED <<tickVars, accepting, stopping, untold, request, streams, run, modeVars,
                 queueVars, credits, senderVars, sent, dropped, nexts, promiseVars, crashed>>

(***************************************************************************)
(* QuoteSource::incomingTick and Client::incomingTick.                     *)
(***************************************************************************)
ProduceTick(ticker) ==
  /\ MutexFree /\ Len(log) < MaxTicks
  /\ log' = Append(log, ticker)
  /\ delivering' = TRUE
  /\ visiting' = clients
  /\ UNCHANGED <<way, clients, stopVars, requestVars, modeVars, queueVars, credits,
                 senderVars, sent, dropped, nexts, promiseVars, crashed>>

WantedByName(c, ticker) == ticker \in tickers[c]   \* fault: "t:*" is forgotten

Wanted(c, ticker) == ticker \in tickers[c] \/ allTickers[c]

NeverFull(c) == FALSE   \* fault: the queue is taken to be unbounded

Full(c) == Len(pushed[c]) - readAt[c] >= Capacity

EnterClient(c) ==   \* the mode is read, which a start-stream request may then change
  /\ delivering /\ c \in visiting /\ ~ crashed
  /\ \A d \in Client : way[d] = "out"
  /\ way' = [way EXCEPT ![c] = IF manualMode[c] THEN "push" ELSE "send"]
  /\ UNCHANGED <<log, delivering, visiting, clients, stopVars, requestVars, modeVars,
                 queueVars, credits, senderVars, sent, dropped, nexts, promiseVars, crashed>>

Handed(c) ==   \* the tick is
  /\ visiting' = visiting \ {c}
  /\ way' = [way EXCEPT ![c] = "out"]
  /\ owed' = IF log[Len(log)] \in confirmed[c]
             THEN [owed EXCEPT ![c] = @ \cup {Len(log)}] ELSE owed

SendDirect(c) ==   \* tickers are only added: nothing can come between look-up and send
  /\ way[c] = "send" /\ ~ crashed
  /\ Handed(c)
  /\ \/ /\ Wanted(c, log[Len(log)])
        /\ sent' = [sent EXCEPT ![c] = Append(@, Len(log))]
        /\ early' = [early EXCEPT ![c] = @ + (IF manualMode[c] THEN 1 ELSE 0)]
     \/ ~ Wanted(c, log[Len(log)]) /\ UNCHANGED <<sent, early>>
  /\ UNCHANGED <<log, delivering, clients, stopVars, requestVars, modeVars, queueVars,
                 credits, senderVars, dropped, nexts, confirmed, crashed>>

PushTick(c) ==
  /\ way[c] = "push" /\ ~ crashed
  /\ Handed(c) /\ NotifyOne(c)
  /\ \/ /\ ~ Full(c)
        /\ pushed' = [pushed EXCEPT ![c] = Append(@, Len(log))]
        /\ UNCHANGED dropped
     \/ /\ Full(c)
        /\ dropped' = [dropped EXCEPT ![c] = @ \cup {Len(log)}]
        /\ UNCHANGED pushed
  /\ UNCHANGED <<log, delivering, clients, stopVars, requestVars, modeVars, readAt, copied,
                 credits, spc, at, hand, sent, nexts, confirmed, early, crashed>>

DeliveredToAll ==
  /\ delivering /\ visiting = {} /\ ~ crashed
  /\ delivering' = FALSE
  /\ UNCHANGED <<log, visiting, way, clients, stopVars, requestVars, modeVars, queueVars,
                 credits, senderVars, sent, dropped, nexts, promiseVars, crashed>>

(***************************************************************************)
(* sendStreamThread. If there is nothing to send it waits, and is not      *)
(* notified of what happens between its look and its wait; but a wait ends *)
(* after 40 milliseconds.                                                  *)
(***************************************************************************)
SenderAt(s, step) == spc[s] = step /\ ~ crashed /\ pc[s[1]] # "destroyed"

Waiting(c) == {pushed[c][i] : i \in readAt[c] + 1 .. Len(pushed[c])}

ReadyUnpaced(c) == Waiting(c) # {}   \* fault: credits are not looked at

Ready(c) == Waiting(c) # {} /\ credits[c] > 0

LeavesDrained(c) == ~ run[c] /\ Waiting(c) = {}   \* fault: sends the rest first

Leaves(c) == ~ run[c]

CheckQueue(s) ==
  /\ SenderAt(s, "check") /\ rest[s] = "no"
  /\ \/ Leaves(s[1]) /\ spc' = [spc EXCEPT ![s] = "ended"] /\ UNCHANGED rest
     \/ run[s[1]] /\ Ready(s[1]) /\ spc' = [spc EXCEPT ![s] = "load"] /\ UNCHANGED rest
     \/ run[s[1]] /\ ~ Ready(s[1]) /\ rest' = [rest EXCEPT ![s] = "going"] /\ UNCHANGED spc
  /\ UNCHANGED <<tickVars, clients, stopVars, requestVars, modeVars, queueVars, credits, at,
                 hand, sent, dropped, nexts, promiseVars, crashed>>

NoTimeout(s) == FALSE   \* fault: wait, in the place of wait_for

TimesOut(s) == TRUE

WaitForTick(s) ==
  /\ SenderAt(s, "check")
  /\ \/ rest[s] = "going" /\ rest' = [rest EXCEPT ![s] = "waiting"]
     \/ rest[s] = "waiting" /\ TimesOut(s) /\ rest' = [rest EXCEPT ![s] = "no"]
  /\ UNCHANGED <<tickVars, clients, stopVars, requestVars, modeVars, queueVars, credits, spc,
                 at, hand, sent, dropped, nexts, promiseVars, crashed>>

(***************************************************************************)
(* spsc_queue::pop loads the read index, copies the tick there, destroys   *)
(* it, and stores the index after it. The queue is a ring, made for one    *)
(* consumer. Of two, the one that is late may copy what the other has      *)
(* destroyed, or what was pushed to the same place since, and the index it *)
(* stores may be one that the ring has gone past: the ticks up to the      *)
(* place it stands for now are skipped, or those behind it come back.      *)
(***************************************************************************)
Place(c, i) ==   \* the last place in pushed that shares one of the ring with i
  IF i + Capacity >= Len(pushed[c]) THEN i
  ELSE Len(pushed[c]) - ((Len(pushed[c]) - i) % (Capacity + 1))

LoadIndex(s) ==
  LET c == s[1]
  IN  /\ SenderAt(s, "load")
      /\ IF Waiting(c) = {}
         THEN spc' = [spc EXCEPT ![s] = "check"] /\ UNCHANGED at
         ELSE spc' = [spc EXCEPT ![s] = "copy"] /\ at' = [at EXCEPT ![s] = readAt[c]]
      /\ UNCHANGED <<tickVars, clients, stopVars, requestVars, modeVars, queueVars, credits,
                     rest, hand, sent, dropped, nexts, promiseVars, crashed>>

CopyTick(s) ==
  LET c == s[1]
      i == Place(c, at[s] + 1)
  IN  /\ SenderAt(s, "copy")
      /\ hand' = [hand EXCEPT ![s] = pushed[c][i]]
      /\ copied' = [copied EXCEPT ![c] = @ \cup {i}]
      /\ UNCHANGED crashed \/ (i \in copied[c] /\ crashed' = TRUE)
      /\ spc' = [spc EXCEPT ![s] = "store"]
      /\ UNCHANGED <<tickVars, clients, stopVars, requestVars, modeVars, pushed, readAt,
                     credits, rest, at, sent, dropped, nexts, promiseVars>>

StoreIndex(s) ==
  LET c == s[1]
  IN  /\ SenderAt(s, "store")
      /\ readAt' = [readAt EXCEPT ![c] = Place(c, at[s] + 1)]
      /\ at' = [at EXCEPT ![s] = 0]
      /\ spc' = [spc EXCEPT ![s] = "send"]
      /\ UNCHANGED <<tickVars, clients, stopVars, requestVars, modeVars, pushed, copied,
                     credits, rest, hand, sent, dropped, nexts, promiseVars, crashed>>

SendTick(s) ==
  /\ SenderAt(s, "send")
  /\ sent' = [sent EXCEPT ![s[1]] = Append(@, hand[s])]
  /\ hand' = [hand EXCEPT ![s] = NoTick]
  /\ spc' = [spc EXCEPT ![s] = "spend"]
  /\ UNCHANGED <<tickVars, clients, stopVars, requestVars, modeVars, queueVars, credits,
                 rest, at, dropped, nexts, promiseVars, crashed>>

AfterSending == "check"

SpendCredit(s) ==
  /\ SenderAt(s, "spend")
  /\ credits' = [credits EXCEPT ![s[1]] = @ - 1]
  /\ spc' = [spc EXCEPT ![s] = AfterSending]
  /\ UNCHANGED <<tickVars, clients, stopVars, requestVars, modeVars, queueVars, rest, at,
                 hand, sent, dropped, nexts, promiseVars, crashed>>

(***************************************************************************)
(* Nothing waits for the sender before its client is destroyed. It goes on *)
(* with freed memory: it may still find m_run false there and end, or stay *)
(* in a wait or a send for good, or die with the process, or find another  *)
(* client there and work for it. The last two are crashed.                 *)
(***************************************************************************)
Orphaned(s) ==
  /\ pc[s[1]] = "destroyed" /\ ~ crashed
  /\ spc[s] \notin {"none", "ended"}
  /\ \/ spc' = [spc EXCEPT ![s] = "ended"] /\ UNCHANGED crashed
     \/ crashed' = TRUE /\ UNCHANGED spc
  /\ UNCHANGED <<tickVars, clients, stopVars, requestVars, modeVars, queueVars, credits,
                 rest, at, hand, sent, dropped, nexts, promiseVars>>

-----------------------------------------------------------------------------
EventLoop(c) ==
  \/ \E manual \in BOOLEAN, list \in Requests : StartStream(c, manual, list)
  \/ SubscribeNext(c) \/ StartSender(c) \/ ReplyOk(c)
  \/ Begin(c) \/ NextTick(c) \/ NoMessage(c)
  \/ Disconnect(c) \/ RemoveClient(c)

SenderStep(s) ==
  \/ CheckQueue(s) \/ WaitForTick(s)
  \/ LoadIndex(s) \/ CopyTick(s) \/ StoreIndex(s)
  \/ SpendCredit(s)

IncomingTick ==
  \/ \E ticker \in Ticker : ProduceTick(ticker)
  \/ \E c \in Client : EnterClient(c) \/ SendDirect(c) \/ PushTick(c)
  \/ DeliveredToAll

Finished ==   \* every client has left, the source was stopped, or the process has died
  /\ crashed \/ (\A c \in Client : pc[c] = "destroyed") \/ stopping = "returned"
  /\ UNCHANGED vars

Next ==
  \/ \E c \in Client : Accept(c) \/ EventLoop(c)
  \/ AcceptNoMore
  \/ Stop \/ (\E c \in Client : StopClient(c)) \/ Stopped
  \/ IncomingTick
  \/ \E s \in Sender : SenderStep(s) \/ SendTick(s) \/ Orphaned(s)
  \/ Finished

Spec == Init /\ [][Next]_vars

(***************************************************************************)
(* A sender that has something to do does it: it needs no lock, and its    *)
(* wait ends by itself. A send ends only if the client reads what it is    *)
(* sent, or leaves, and an orphaned sender may do as it likes.             *)
(***************************************************************************)
FairSpec == Spec /\ \A s \in Sender : WF_vars(SenderStep(s))
-----------------------------------------------------------------------------
(***************************************************************************)
(* Every variable has its type, and no queue holds more than its capacity. *)
(***************************************************************************)
TypeOK ==
  /\ log \in Seq(Ticker) /\ Len(log) <= MaxTicks
  /\ delivering \in BOOLEAN
  /\ visiting \subseteq clients /\ clients \subseteq Client
  /\ way \in [Client -> {"out", "send", "push"}]
  /\ accepting \in BOOLEAN /\ stopping \in {"no", "clients", "returned"}
  /\ untold \subseteq Client /\ shaken \in BOOLEAN
  /\ pc \in [Client -> {"none", "begin", "read", "subscribe", "reply", "remove",
                        "destroyed"}]
  /\ request \in [Client -> Seq(Ticker \cup {All, Invalid})]
  /\ streams \in [Client -> 0 .. MaxStreams]
  /\ run \in [Client -> BOOLEAN]
  /\ manualMode \in [Client -> BOOLEAN]
  /\ tickers \in [Client -> SUBSET Ticker]
  /\ allTickers \in [Client -> BOOLEAN]
  /\ pushed \in [Client -> Seq(Tick)]
  /\ readAt \in [Client -> Nat]
  /\ \A c \in Client : Len(pushed[c]) \in readAt[c] .. readAt[c] + Capacity
  /\ copied \in [Client -> SUBSET (Nat \ {0})]
  /\ credits \in [Client -> Int]
  /\ spc \in [Sender -> {"none", "check", "load", "copy", "store", "send", "spend", "ended"}]
  /\ rest \in [Sender -> {"no", "going", "waiting"}]
  /\ at \in [Sender -> Nat]
  /\ hand \in [Sender -> Tick \cup {NoTick}]
  /\ sent \in [Client -> Seq(Tick)]
  /\ dropped \in [Client -> SUBSET Tick]
  /\ nexts \in [Client -> Nat]
  /\ confirmed \in [Client -> SUBSET Ticker]
  /\ owed \in [Client -> SUBSET Tick]
  /\ early \in [Client -> Nat]
  /\ crashed \in BOOLEAN

Started(c) == {s \in Sender : s[1] = c /\ spc[s] # "none"}

InHand(c) == {hand[s] : s \in {r \in Started(c) : spc[r] \in {"store", "send"}}}

Accounted(c) == ToSet(sent[c]) \cup Waiting(c) \cup InHand(c) \cup dropped[c]

(***************************************************************************)
(* Once the client was sent "success" for a ticker, it misses none of its  *)
(* ticks: each is sent, or waits in the queue or in the sender's hand, or  *)
(* found the queue full, also when the client changes mode or is refused   *)
(* another request. That is, unless it has asked for a second stream in    *)
(* manual mode: two senders may skip ticks in the queue they share.        *)
(***************************************************************************)
NothingMissedAfterOk ==
  \A c \in Client :
    pc[c] # "destroyed" /\ (\A r, s \in Started(c) : r = s) => owed[c] \subseteq Accounted(c)

(***************************************************************************)
(* A client that asks for one stream gets what TickStream promises.        *)
(***************************************************************************)
Stream == INSTANCE TickStream WITH produced <- Len(log), paced <- manualMode
StreamSpec == Stream!Spec

(***************************************************************************)
(* A tick that waits is sent once it is asked for, unless a sender is held *)
(* up by a send that does not end, or by the end of its client.            *)
(***************************************************************************)
HeldUp(c) == \E s \in Sender : s[1] = c /\ [](spc[s] = "send")

NextTickServed ==
  \A c \in Client :
    confirmed[c] # {} /\ manualMode[c] /\ Waiting(c) # {} /\ credits[c] > 0
      ~> Waiting(c) = {} \/ credits[c] = 0 \/ ~ run[c] \/ crashed \/ HeldUp(c)

(***************************************************************************)
(* Once its client is told to stop, or has left, a sender ends, although   *)
(* the NextTick message it waits for may never come and nobody joins it:   *)
(* unless its client is destroyed first, or its send does not end.         *)
(***************************************************************************)
SendersEnd ==
  \A s \in Sender :
    ~ run[s[1]] /\ pc[s[1]] \notin {"none", "begin"} ~>
      \/ spc[s] \in {"none", "ended"} \/ run[s[1]]
      \/ crashed \/ pc[s[1]] = "destroyed" \/ [](spc[s] = "send")

(***************************************************************************)
(* doc/goldmine-protocol.md:65-66: in manual mode every packet is sent     *)
(* only after the service message that asks for it. m_nextTickMessages is  *)
(* what was asked for less what the senders have sent; a second            *)
(* start-stream request starts a second sender on the same counter.        *)
(***************************************************************************)
PacedByNextTick == \A c \in Client : credits[c] >= 0

Ahead(c) ==   \* the ticks sent that no NextTick message asked for
  Cardinality({s \in Started(c) : spc[s] = "spend"}) - credits[c]

(***************************************************************************)
(* How far that goes: each sender but one can be a tick ahead, at any one  *)
(* time and over the life of the client, however they overtake each other  *)
(* between the check of m_nextTickMessages and its decrement. One sender   *)
(* alone keeps to what was asked for.                                      *)
(***************************************************************************)
AheadBounded ==
  \A c \in Client : Ahead(c) <= 0 \/ Ahead(c) < Cardinality(Started(c))
=============================================================================
