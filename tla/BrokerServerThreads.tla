------------------------- MODULE BrokerServerThreads -------------------------
(***************************************************************************)
(* The threads of the order server, broker/brokerserver.cpp: the main      *)
(* thread accepts connections, each session has a thread, the trade sink   *)
(* has one, brokers call back from threads of their own, and the           *)
(* application starts and stops the server. They share, without a lock,    *)
(* the run flags and the vectors clients and brokers.                      *)
(*                                                                         *)
(* What is said about orders meanwhile is left to BrokerServer, and what   *)
(* the sink sends to TradeSink. Brokers are registered before the server   *)
(* is started, and the server is started and stopped once.                 *)
(*                                                                         *)
(* A loop over a vector goes on to the end it had when the loop began. If  *)
(* the vector was changed since, the loop may still find in freed memory   *)
(* what was there, or the process dies.                                    *)
(***************************************************************************)
EXTENDS Integers, FiniteSets, SequencesExt

CONSTANTS
  Session,   \* connections
  Broker,    \* brokers, each with a thread
  App        \* the application's thread

ASSUME SessionAssumption == Session # {}
ASSUME AppAssumption == App \notin Broker
ASSUME BrokerAssumption == IsFiniteSet(Broker)

Walker == Broker \cup {App}   \* those who loop over clients

VARIABLES
  apc,       \* where the application is
  run,       \* Impl::run
  mpc,       \* where the main thread is
  fresh,     \* the session it has started last
  clients,   \* Impl::clients
  spc,       \* where each session's thread is
  srun,      \* Client::run
  brokers,   \* Impl::brokers
  asking,    \* the brokers a session has yet to ask in submitOrder or cancelOrder
  unsure,    \* sessions whose loop over brokers is on a vector that was changed
  todo,      \* the sessions each walker has yet to come to
  torn,      \* walkers whose loop over clients is on memory that was freed
  kpc,       \* where the trade sink's thread is
  late,      \* sessions that were listed after stop was called
  crashed    \* the process died

mainVars    == <<mpc, fresh, clients, late>>
sessionVars == <<spc, srun, asking>>
walkVars    == <<todo, torn>>
vars == <<apc, run, mainVars, sessionVars, brokers, unsure, walkVars, kpc, crashed>>

Init ==
  /\ apc = "new" /\ run = FALSE
  /\ mpc = "none" /\ clients = << >> /\ late = {}
  /\ fresh = CHOOSE s \in Session : TRUE
  /\ spc = [s \in Session |-> "none"] /\ srun = [s \in Session |-> FALSE]
  /\ brokers = SetToSeq(Broker)
  /\ asking = [s \in Session |-> << >>] /\ unsure = {}
  /\ todo = [w \in Walker |-> << >>] /\ torn = {}
  /\ kpc = "none" /\ crashed = FALSE

Stopping == apc \in {"tell", "join", "clear", "join main"}
StopCalled == Stopping \/ apc = "returned"

(***************************************************************************)
(* The main thread. It is the one that sets run, and only it creates the   *)
(* sink's thread.                                                          *)
(***************************************************************************)
Begin ==
  /\ mpc = "started" /\ ~ crashed
  /\ run' = TRUE /\ mpc' = "bind"
  /\ UNCHANGED <<apc, fresh, clients, late, sessionVars, brokers, unsure, walkVars, kpc,
                 crashed>>

StartSink ==   \* if the endpoint can be bound: nobody catches what is thrown otherwise
  /\ mpc = "bind" /\ ~ crashed
  /\ \/ kpc' = "check" /\ mpc' = "check" /\ UNCHANGED crashed
     \/ crashed' = TRUE /\ UNCHANGED <<kpc, mpc>>
  /\ UNCHANGED <<apc, run, fresh, clients, late, sessionVars, brokers, unsure, walkVars>>

CheckMain ==
  /\ mpc = "check" /\ ~ crashed
  /\ mpc' = IF run THEN "wait" ELSE "ended"
  /\ UNCHANGED <<apc, run, fresh, clients, late, sessionVars, brokers, unsure, walkVars,
                 kpc, crashed>>

Leave == "gone"   \* fault: a timeout ends the thread

AfterTimeout == "check"

NoConnection ==   \* within 100 ms
  /\ mpc = "wait" /\ ~ crashed
  /\ mpc' = AfterTimeout
  /\ UNCHANGED <<apc, run, fresh, clients, late, sessionVars, brokers, unsure, walkVars,
                 kpc, crashed>>

Accept(s) ==   \* and start the session's thread
  /\ mpc = "wait" /\ spc[s] = "none" /\ ~ crashed
  /\ fresh' = s /\ mpc' = "list"
  /\ spc' = [spc EXCEPT ![s] = "started"]
  /\ UNCHANGED <<apc, run, clients, late, srun, asking, brokers, unsure, walkVars, kpc,
                 crashed>>

List ==   \* whether the vector moves is up to the library
  /\ mpc = "list" /\ ~ crashed
  /\ clients' = Append(clients, fresh)
  /\ mpc' = "check"
  /\ late' = IF StopCalled THEN late \cup {fresh} ELSE late
  /\ torn' \in {torn, torn \cup {w \in Walker : todo[w] # << >>}}
  /\ UNCHANGED <<apc, run, fresh, sessionVars, brokers, unsure, todo, kpc, crashed>>

(***************************************************************************)
(* The thread of a session, which sets its own run. A message may be an    *)
(* order or a cancellation, which goes through the brokers, or one that    *)
(* does not, or there is none.                                             *)
(***************************************************************************)
BeginSession(s) ==
  /\ spc[s] = "started" /\ ~ crashed
  /\ srun' = [srun EXCEPT ![s] = TRUE]
  /\ spc' = [spc EXCEPT ![s] = "check"]
  /\ UNCHANGED <<apc, run, mainVars, asking, brokers, unsure, walkVars, kpc, crashed>>

GoesOnForever(s) == TRUE   \* fault: the session does not look at its run

GoesOn(s) == srun[s]

CheckSession(s) ==
  /\ spc[s] = "check" /\ ~ crashed
  /\ spc' = [spc EXCEPT ![s] = IF GoesOn(s) THEN "read" ELSE "ended"]
  /\ UNCHANGED <<apc, run, mainVars, srun, asking, brokers, unsure, walkVars, kpc, crashed>>

Read(s) ==
  /\ spc[s] = "read" /\ ~ crashed
  /\ \/ spc' = [spc EXCEPT ![s] = "check"] /\ UNCHANGED <<srun, asking>>
     \/ /\ spc' = [spc EXCEPT ![s] = "check"]   \* the line was closed
        /\ srun' = [srun EXCEPT ![s] = FALSE]
        /\ UNCHANGED asking
     \/ /\ spc' = [spc EXCEPT ![s] = "ask"]
        /\ asking' = [asking EXCEPT ![s] = brokers]
        /\ UNCHANGED srun
  /\ UNCHANGED <<apc, run, mainVars, brokers, unsure, walkVars, kpc, crashed>>

AskBroker(s) ==
  /\ spc[s] = "ask" /\ ~ crashed
  /\ IF asking[s] = << >>
     THEN /\ spc' = [spc EXCEPT ![s] = "check"]
          /\ unsure' = unsure \ {s}
          /\ UNCHANGED <<asking, crashed>>
     ELSE \/ /\ asking' = [asking EXCEPT ![s] = Tail(@)]
             /\ UNCHANGED <<spc, unsure, crashed>>
          \/ /\ s \in unsure
             /\ crashed' = TRUE
             /\ UNCHANGED <<spc, asking, unsure>>
  /\ UNCHANGED <<apc, run, mainVars, srun, brokers, walkVars, kpc>>

(***************************************************************************)
(* orderCallback and tradeCallback, from the thread of a broker: it may    *)
(* call at any time, also when the server has forgotten it.                *)
(***************************************************************************)
CallBack(b) ==
  /\ todo[b] = << >> /\ clients # << >> /\ ~ crashed
  /\ todo' = [todo EXCEPT ![b] = clients]
  /\ UNCHANGED <<apc, run, mainVars, sessionVars, brokers, unsure, torn, kpc, crashed>>

Visit(b) ==
  /\ todo[b] # << >> /\ ~ crashed
  /\ \/ /\ todo' = [todo EXCEPT ![b] = Tail(@)]
        /\ torn' = IF todo'[b] = << >> THEN torn \ {b} ELSE torn
        /\ UNCHANGED crashed
     \/ /\ b \in torn
        /\ crashed' = TRUE
        /\ UNCHANGED walkVars
  /\ UNCHANGED <<apc, run, mainVars, sessionVars, brokers, unsure, kpc>>

(***************************************************************************)
(* The trade sink. It connects and sends a heartbeat, and tries again      *)
(* later if it cannot. Its line has no timeout, so that it waits for the   *)
(* answer until the stats server sends one or the line breaks. Then it     *)
(* waits for a trade, looking at run each second, and sends it.            *)
(***************************************************************************)
SinksForever == TRUE   \* fault: the sink does not look at run

Sinks == run

CheckSink ==
  /\ kpc = "check" /\ ~ crashed
  /\ kpc' \in IF Sinks THEN {"check", "answer"} ELSE {"ended"}
  /\ UNCHANGED <<apc, run, mainVars, sessionVars, brokers, unsure, walkVars, crashed>>

Answered ==
  /\ kpc = "answer" /\ ~ crashed
  /\ kpc' \in {"trade", "check"}
  /\ UNCHANGED <<apc, run, mainVars, sessionVars, brokers, unsure, walkVars, crashed>>

TakeTrade ==
  /\ kpc = "trade" /\ ~ crashed
  /\ kpc' \in IF Sinks THEN {"trade", "check"} ELSE {"ended"}
  /\ UNCHANGED <<apc, run, mainVars, sessionVars, brokers, unsure, walkVars, crashed>>

(***************************************************************************)
(* The application: start, unregisterBroker, and stop with its two loops   *)
(* over clients.                                                           *)
(***************************************************************************)
Start ==
  /\ apc = "new"
  /\ apc' = "running" /\ mpc' = "started"
  /\ UNCHANGED <<run, fresh, clients, late, sessionVars, brokers, unsure, walkVars, kpc,
                 crashed>>

Changed == unsure \cup {s \in Session : asking[s] # << >>}

UnregisterBroker(b) ==
  /\ apc = "running" /\ ~ crashed
  /\ \E i \in DOMAIN brokers : brokers[i] = b /\ brokers' = RemoveAt(brokers, i)
  /\ unsure' = Changed
  /\ UNCHANGED <<apc, run, mainVars, sessionVars, walkVars, kpc, crashed>>

Stop ==
  /\ apc = "running" /\ ~ crashed
  /\ run' = FALSE
  /\ todo' = [todo EXCEPT ![App] = clients]
  /\ apc' = "tell"
  /\ UNCHANGED <<mainVars, sessionVars, brokers, unsure, torn, kpc, crashed>>

Tell ==
  /\ apc = "tell" /\ todo[App] # << >> /\ ~ crashed
  /\ \/ /\ srun' = [srun EXCEPT ![Head(todo[App])] = FALSE]
        /\ todo' = [todo EXCEPT ![App] = Tail(@)]
        /\ UNCHANGED crashed
     \/ /\ App \in torn
        /\ crashed' = TRUE
        /\ UNCHANGED <<srun, todo>>
  /\ UNCHANGED <<apc, run, mainVars, spc, asking, brokers, unsure, torn, kpc>>

AllTold ==
  /\ apc = "tell" /\ todo[App] = << >> /\ ~ crashed
  /\ todo' = [todo EXCEPT ![App] = clients]
  /\ torn' = torn \ {App}
  /\ apc' = "join"
  /\ UNCHANGED <<run, mainVars, sessionVars, brokers, unsure, kpc, crashed>>

DoesNotWait(s) == TRUE   \* fault: stop does not wait for the sessions

HasEnded(s) == spc[s] = "ended"

JoinSession ==
  /\ apc = "join" /\ todo[App] # << >> /\ ~ crashed
  /\ \/ /\ HasEnded(Head(todo[App]))
        /\ todo' = [todo EXCEPT ![App] = Tail(@)]
        /\ UNCHANGED crashed
     \/ /\ App \in torn
        /\ crashed' = TRUE
        /\ UNCHANGED todo
  /\ UNCHANGED <<apc, run, mainVars, sessionVars, brokers, unsure, torn, kpc>>

AllJoined ==
  /\ apc = "join" /\ todo[App] = << >> /\ ~ crashed
  /\ torn' = torn \ {App}
  /\ apc' = "clear"
  /\ UNCHANGED <<run, mainVars, sessionVars, brokers, unsure, todo, kpc, crashed>>

ClearBrokers ==
  /\ apc = "clear" /\ ~ crashed
  /\ brokers' = << >>
  /\ unsure' = Changed
  /\ apc' = "join main"
  /\ UNCHANGED <<run, mainVars, sessionVars, walkVars, kpc, crashed>>

JoinMain ==
  /\ apc = "join main" /\ mpc = "ended" /\ ~ crashed
  /\ apc' = "returned"
  /\ UNCHANGED <<run, mainVars, sessionVars, brokers, unsure, walkVars, kpc, crashed>>
-----------------------------------------------------------------------------
Main == Begin \/ StartSink \/ CheckMain \/ NoConnection \/ (\E s \in Session : Accept(s)) \/ List
SessionStep(s) == BeginSession(s) \/ CheckSession(s) \/ Read(s) \/ AskBroker(s)
SinkStep == CheckSink \/ TakeTrade
StopStep == Tell \/ AllTold \/ JoinSession \/ AllJoined \/ ClearBrokers \/ JoinMain
Finished == (crashed \/ apc = "returned") /\ UNCHANGED vars

Next ==
  \/ Main
  \/ \E s \in Session : SessionStep(s)
  \/ \E b \in Broker : CallBack(b) \/ Visit(b)
  \/ SinkStep \/ Answered
  \/ Start \/ (\E b \in Broker : UnregisterBroker(b)) \/ Stop \/ StopStep
  \/ Finished

Spec == Init /\ [][Next]_vars

(***************************************************************************)
(* Every thread goes on, as each wait in it has a timeout and a broker     *)
(* returns; but for the sink's wait for the stats server, which may never  *)
(* answer. Nobody has to connect, to leave, to call back or to call stop.  *)
(***************************************************************************)
FairSpec ==
  /\ Spec
  /\ WF_vars(Main) /\ WF_vars(SinkStep) /\ WF_vars(StopStep)
  /\ \A s \in Session : WF_vars(SessionStep(s))
-----------------------------------------------------------------------------
(***************************************************************************)
(* Every variable has its type.                                            *)
(***************************************************************************)
TypeOK ==
  /\ apc \in {"new", "running", "tell", "join", "clear", "join main", "returned"}
  /\ run \in BOOLEAN
  /\ mpc \in {"none", "started", "bind", "check", "wait", "list", "ended"}
  /\ fresh \in Session /\ clients \in Seq(Session) /\ late \subseteq Session
  /\ spc \in [Session -> {"none", "started", "check", "read", "ask", "ended"}]
  /\ srun \in [Session -> BOOLEAN]
  /\ brokers \in Seq(Broker) /\ asking \in [Session -> Seq(Broker)]
  /\ unsure \subseteq Session
  /\ todo \in [Walker -> Seq(Session)] /\ torn \subseteq Walker
  /\ kpc \in {"none", "check", "answer", "trade", "ended"} /\ crashed \in BOOLEAN

Working(s) == spc[s] \notin {"none", "ended"}

(***************************************************************************)
(* Once stop has joined the sessions it lists, at most one session still   *)
(* works, the one that was accepted meanwhile, unless the main thread set  *)
(* run after stop had cleared it.                                          *)
(***************************************************************************)
AtMostOneLeft ==
  apc \in {"clear", "join main", "returned"} /\ ~ run =>
    \A s, t \in Session : Working(s) /\ Working(t) => s = t

(***************************************************************************)
(* stop returns, whatever the threads are doing, unless a flag it has      *)
(* cleared is set again by a thread that had not begun, or a session that  *)
(* it did not tell goes on.                                                *)
(***************************************************************************)
Reversed ==
  Stopping /\ (run \/ (apc = "join" /\ \E s \in ToSet(todo[App]) : srun[s]))
StopReturns == Stopping ~> apc = "returned" \/ Reversed \/ crashed

(***************************************************************************)
(* The sink's thread, which nobody joins, ends all the same, unless it     *)
(* waits for ever for a stats server that does not answer.                 *)
(***************************************************************************)
SinkEnds ==
  apc = "returned" ~> kpc \in {"none", "ended"} \/ crashed \/ [](kpc = "answer")
=============================================================================
