-------------------------- MODULE QuoteSourceClient --------------------------
(***************************************************************************)
(* The quote source client, quotesource/quotesourceclient.cpp: a thread    *)
(* that connects, asks for a stream and hands the ticks it reads to the    *)
(* registered sinks, and an application that starts and stops it.          *)
(*                                                                         *)
(* The other end of a line is a quote source that behaves as               *)
(* quotesource.cpp does towards a client that does not ask for manual      *)
(* mode: it subscribes the client to the tickers of the request, answers,  *)
(* and sends each wanted tick, in order (QuoteSource, StreamSpec). Ticks   *)
(* are numbered as they are produced. Both responses, success and error,   *)
(* are the message Response, since the client looks at neither; its        *)
(* heartbeats, which the server ignores, are left out.                     *)
(*                                                                         *)
(* Sinks are registered before the stream is started, and startStream is   *)
(* not called while a stream runs.                                         *)
(***************************************************************************)
EXTENDS Integers, FiniteSets, SequencesExt

CONSTANTS
  Sinks,      \* how many sinks there are: those of sinks, boostSinks, rawSinks in turn
  MaxTicks,   \* bound: ticks the quote source produces
  MaxLines,   \* bound: connection attempts that succeed
  MaxStarts   \* bound: calls of startStream

ASSUME SinksAssumption == Sinks \in Nat \ {0}
ASSUME BoundsAssumption ==
  MaxTicks \in Nat /\ MaxLines \in Nat /\ MaxStarts \in Nat

Tick == 1 .. MaxTicks
Line == 1 .. MaxLines   \* IoLine objects, in the order they are created
Sink == 1 .. Sinks
NoLine == 0
NoTick == 0
Response == 0
Message == Tick \cup {Response}

VARIABLES
  apc,       \* where the application is
  starts,    \* how often it has called startStream
  joinable,  \* whether streamThread is
  stream,    \* whether the stream it asked for names a ticker of the quote source
  run,       \* Impl::run
  epc,       \* where eventLoop is
  line,      \* Impl::line
  lines,     \* how many lines were created
  hand,      \* the tick in the loops over the sinks
  visited,   \* the sinks it was given to
  seen,      \* the ticks each sink was given, in order
  status,    \* each line: none, up, broken, or destroyed by the client
  toClient,  \* the messages on it
  session,   \* what the quote source has done about its request
  wanted,    \* the lines whose request names a ticker of the quote source
  ticks,     \* how many ticks were produced
  sent       \* the ticks sent on each line, in order

appVars    == <<apc, starts, joinable, stream>>
threadVars == <<epc, line, lines>>
sinkVars   == <<hand, visited, seen>>
wireVars   == <<status, toClient>>
serverVars == <<session, wanted, ticks, sent>>
vars == <<appVars, run, threadVars, sinkVars, wireVars, serverVars>>

Init ==
  /\ apc = "idle" /\ starts = 0 /\ joinable = FALSE /\ stream = FALSE
  /\ run = FALSE
  /\ epc = "none" /\ line = NoLine /\ lines = 0
  /\ hand = NoTick /\ visited = 0 /\ seen = [s \in Sink |-> << >>]
  /\ status = [l \in Line |-> "none"] /\ toClient = [l \in Line |-> << >>]
  /\ session = [l \in Line |-> "none"] /\ wanted = {}
  /\ ticks = 0 /\ sent = [l \in Line |-> << >>]

Is(l, s) == l # NoLine /\ status[l] = s
Up(l) == Is(l, "up")

(***************************************************************************)
(* The application.                                                        *)
(***************************************************************************)
StartStream(s) ==
  /\ apc = "idle" /\ ~ joinable /\ starts < MaxStarts
  /\ starts' = starts + 1
  /\ joinable' = TRUE /\ stream' = s
  /\ epc' = "started"
  /\ UNCHANGED <<apc, run, line, lines, sinkVars, wireVars, serverVars>>

Stop ==
  /\ apc = "idle"
  /\ run' = FALSE
  /\ apc' = IF joinable THEN "join" ELSE "idle"
  /\ UNCHANGED <<starts, joinable, stream, threadVars, sinkVars, wireVars, serverVars>>

AtOnce == TRUE   \* fault: stop does not wait for the thread

Joined == epc = "ended"

Join ==
  /\ apc = "join" /\ Joined
  /\ apc' = "idle" /\ joinable' = FALSE
  /\ UNCHANGED <<starts, stream, run, threadVars, sinkVars, wireVars, serverVars>>

(***************************************************************************)
(* eventLoop, in the thread that startStream created. It is the thread     *)
(* that sets run, also when stop has cleared it before.                    *)
(***************************************************************************)
Begin ==
  /\ epc = "started"
  /\ run' = TRUE
  /\ epc' = "loop"
  /\ UNCHANGED <<appVars, line, lines, sinkVars, wireVars, serverVars>>

Connect ==   \* the line there was is destroyed in any case
  /\ epc = "loop" /\ run
  /\ \/ /\ lines < MaxLines
        /\ lines' = lines + 1 /\ line' = lines'
        /\ epc' = "ask"
     \/ /\ lines' = lines /\ line' = NoLine   \* createClient failed
        /\ epc' = "sleep"
  /\ status' = [l \in Line |-> CASE l = line' -> "up"
                                 [] l = line  -> "destroyed"
                                 [] OTHER     -> status[l]]
  /\ toClient' = [l \in Line |-> << >>]
  /\ UNCHANGED <<appVars, run, sinkVars, serverVars>>

Sleep ==   \* five seconds
  /\ epc = "sleep"
  /\ epc' = "loop"
  /\ UNCHANGED <<appVars, run, line, lines, sinkVars, wireVars, serverVars>>

Ask ==   \* whether the message could be sent is not looked at
  /\ epc = "ask"
  /\ IF Up(line)
     THEN /\ session' = [session EXCEPT ![line] = "asked"]
          /\ wanted' = IF stream THEN wanted \cup {line} ELSE wanted
     ELSE UNCHANGED <<session, wanted>>
  /\ epc' = "response"
  /\ UNCHANGED <<appVars, run, line, lines, sinkVars, wireVars, ticks, sent>>

Flushed(l) == << >>   \* fault: all that has arrived is discarded

AfterResponse(l) == Tail(toClient[l])

(***************************************************************************)
(* Whatever comes first is taken for the response, and no message within   *)
(* two seconds, or a line that broke, is as good.                          *)
(***************************************************************************)
ReadResponse ==
  /\ epc = "response"
  /\ toClient' = IF toClient[line] = << >> THEN toClient
                 ELSE [toClient EXCEPT ![line] = AfterResponse(line)]
  /\ epc' = "check"
  /\ UNCHANGED <<appVars, run, line, lines, sinkVars, status, serverVars>>

EndlessLoop == epc = "check"   \* fault: the inner loop does not look at run

Goes == epc = "check" /\ run

Check ==   \* the inner loop looks at run
  /\ Goes
  /\ epc' = "read"
  /\ UNCHANGED <<appVars, run, line, lines, sinkVars, wireVars, serverVars>>

End ==     \* both loops have seen that run is false
  /\ epc \in {"loop", "check"} /\ ~ run
  /\ epc' = "ended"
  /\ UNCHANGED <<appVars, run, line, lines, sinkVars, wireVars, serverVars>>

AsTimeout == "check"   \* fault: a broken line is taken for a timeout

AfterError == "loop"

Read ==
  /\ epc = "read"
  /\ IF toClient[line] = << >>
     THEN /\ epc' = IF Up(line) THEN "check" ELSE AfterError
          /\ UNCHANGED <<toClient, hand>>
     ELSE LET m == Head(toClient[line])
          IN  /\ toClient' = [toClient EXCEPT ![line] = Tail(@)]
              /\ IF m = Response
                 THEN epc' = "check" /\ UNCHANGED hand
                 ELSE epc' = "dispatch" /\ hand' = m
  /\ UNCHANGED <<appVars, run, line, lines, visited, seen, status, serverVars>>

AllButLast == Sinks - 1   \* fault: the sinks of the last list are forgotten

LastSink == Sinks

AlwaysFirst(s) == s = 1   \* fault: every loop walks the first list

Turn(s) == visited + 1 = s

Dispatch(s) ==   \* one list of sinks after the other
  /\ epc = "dispatch" /\ Turn(s) /\ s <= LastSink
  /\ seen' = [seen EXCEPT ![s] = Append(@, hand)]
  /\ visited' = visited + 1
  /\ UNCHANGED <<appVars, run, threadVars, hand, wireVars, serverVars>>

Dispatched ==
  /\ epc = "dispatch" /\ visited = LastSink
  /\ visited' = 0 /\ hand' = NoTick
  /\ epc' = "check"
  /\ UNCHANGED <<appVars, run, line, lines, seen, wireVars, serverVars>>

(***************************************************************************)
(* The quote source and the line.                                          *)
(***************************************************************************)
Subscribe(l) ==
  /\ Up(l) /\ session[l] = "asked"
  /\ session' = [session EXCEPT ![l] = "subscribed"]
  /\ UNCHANGED <<appVars, run, threadVars, sinkVars, wireVars, wanted, ticks, sent>>

Respond(l) ==
  /\ Up(l) /\ session[l] = "subscribed"
  /\ session' = [session EXCEPT ![l] = "answered"]
  /\ toClient' = [toClient EXCEPT ![l] = Append(@, Response)]
  /\ UNCHANGED <<appVars, run, threadVars, sinkVars, status, wanted, ticks, sent>>

Receives(l) == Up(l) /\ session[l] \in {"subscribed", "answered"} /\ l \in wanted

ProduceTick ==
  /\ ticks < MaxTicks
  /\ ticks' = ticks + 1
  /\ toClient' = [l \in Line |-> IF Receives(l) THEN Append(toClient[l], ticks')
                                                ELSE toClient[l]]
  /\ sent' = [l \in Line |-> IF Receives(l) THEN Append(sent[l], ticks') ELSE sent[l]]
  /\ UNCHANGED <<appVars, run, threadVars, sinkVars, status, session, wanted>>

Break(l) ==   \* some of what was underway arrives, in order
  /\ Up(l)
  /\ status' = [status EXCEPT ![l] = "broken"]
  /\ \E n \in 0 .. Len(toClient[l]) :
       toClient' = [toClient EXCEPT ![l] = SubSeq(@, 1, n)]
  /\ UNCHANGED <<appVars, run, threadVars, sinkVars, serverVars>>

-----------------------------------------------------------------------------
Application == (\E s \in BOOLEAN : StartStream(s)) \/ Stop \/ Join
EventLoop ==
  \/ Begin \/ Connect \/ Sleep \/ Ask \/ ReadResponse \/ Check \/ End \/ Read
  \/ (\E s \in Sink : Dispatch(s)) \/ Dispatched
Server == (\E l \in Line : Subscribe(l) \/ Respond(l) \/ Break(l)) \/ ProduceTick

Next == Application \/ EventLoop \/ Server

Spec == Init /\ [][Next]_vars

(***************************************************************************)
(* The thread goes on, and a sink returns; a connection attempt succeeds   *)
(* in the end; the quote source handles a request; join notices the end of *)
(* the thread. No tick has to be produced and no line has to break, and    *)
(* nobody has to call stop.                                                *)
(***************************************************************************)
FairSpec ==
  /\ Spec
  /\ WF_vars(EventLoop) /\ SF_vars(Connect /\ lines' # lines)
  /\ \A l \in Line : WF_vars(Subscribe(l)) /\ WF_vars(Respond(l))
  /\ WF_vars(Join)
-----------------------------------------------------------------------------
(***************************************************************************)
(* Every variable has its type.                                            *)
(***************************************************************************)
TypeOK ==
  /\ apc \in {"idle", "join"} /\ starts \in 0 .. MaxStarts
  /\ joinable \in BOOLEAN /\ stream \in BOOLEAN /\ run \in BOOLEAN
  /\ epc \in {"none", "started", "loop", "sleep", "ask", "response", "check", "read",
              "dispatch", "ended"}
  /\ line \in Line \cup {NoLine} /\ lines \in 0 .. MaxLines
  /\ hand \in Tick \cup {NoTick} /\ visited \in 0 .. Sinks
  /\ seen \in [Sink -> Seq(Tick)]
  /\ status \in [Line -> {"none", "up", "broken", "destroyed"}]
  /\ toClient \in [Line -> Seq(Message)]
  /\ session \in [Line -> {"none", "asked", "subscribed", "answered"}]
  /\ wanted \subseteq Line /\ ticks \in 0 .. MaxTicks
  /\ sent \in [Line -> Seq(Tick)]

(***************************************************************************)
(* While a line is up, no tick that was sent on it is lost to any sink but *)
(* the first, which the client may have taken for the response.            *)
(***************************************************************************)
Underway(s) ==
  ToSet(toClient[line]) \cup (IF epc = "dispatch" /\ s > visited THEN {hand} ELSE {})

OnlyFirstTickLost ==
  Up(line) =>
    \A s \in Sink, i \in DOMAIN sent[line] :
       i > 1 => sent[line][i] \in ToSet(seen[s]) \cup Underway(s)

(***************************************************************************)
(* What a sink is given over all connections is what a quote source        *)
(* promises of one stream (TickStream): ticks in the order they were       *)
(* produced, none twice.                                                   *)
(***************************************************************************)
SinkStream == INSTANCE TickStream
  WITH Client <- Sink, produced <- ticks, paced <- [s \in Sink |-> FALSE],
       nexts <- [s \in Sink |-> 0], sent <- seen, early <- [s \in Sink |-> 0]
SinkSpec == SinkStream!Spec

(***************************************************************************)
(* Outside of the time between startStream and the return of stop, no sink *)
(* is called: an application may destroy its sinks then.                   *)
(***************************************************************************)
QuietAfterStop == [][~ joinable => UNCHANGED seen]_vars

Running == run /\ epc # "ended"
Streaming == Up(line) /\ session[line] = "answered"
OutOfLines == lines = MaxLines /\ ~ Up(line)

(***************************************************************************)
(* A client whose line breaks, at any point of the exchange, connects and  *)
(* asks again until it has its stream, or is stopped.                      *)
(***************************************************************************)
StreamResumes == Running ~> Streaming \/ ~ Running \/ OutOfLines

(***************************************************************************)
(* A tick that waits on the line while the client reads it gets to every   *)
(* sink, unless the line breaks or the client is stopped.                  *)
(***************************************************************************)
TicksTakenUp ==
  \A t \in Tick, s \in Sink :
     Up(line) /\ epc \in {"check", "read", "dispatch"} /\ t \in Underway(s)
       ~> t \in ToSet(seen[s]) \/ ~ Up(line) \/ ~ Running

(***************************************************************************)
(* stop returns, whatever the thread is doing, unless the thread sets run  *)
(* after stop has cleared it.                                              *)
(***************************************************************************)
StopReturns == apc = "join" ~> apc # "join" \/ run
=============================================================================
