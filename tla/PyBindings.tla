------------------------------ MODULE PyBindings ------------------------------
(***************************************************************************)
(* The quote source client as python/wrappers.cpp exposes it: the          *)
(* application is a Python program, and so are the sinks. A method is      *)
(* called with Python's global interpreter lock held, and keeps it until   *)
(* it returns; the wrapper of a sink takes the lock for the time of the    *)
(* call. Between its calls the program gives the lock up now and then.     *)
(***************************************************************************)
EXTENDS QuoteSourceClient

VARIABLE gil   \* who holds the interpreter lock: nobody, the program, or eventLoop

pyVars == <<vars, gil>>

PyInit == Init /\ gil = "app"

ProgramTakes ==
  /\ apc = "idle" /\ gil = "none"
  /\ gil' = "app"
  /\ UNCHANGED vars

ProgramYields ==
  /\ apc = "idle" /\ gil = "app"
  /\ gil' = "none"
  /\ UNCHANGED vars

PyApplication == gil = "app" /\ Application /\ UNCHANGED gil

Ensure ==   \* the constructor of GIL, in SinkWrap::incomingTick
  /\ epc = "dispatch" /\ visited < LastSink /\ gil = "none"
  /\ gil' = "thread"
  /\ UNCHANGED vars

PyDispatch(s) ==   \* the override, and the destructor of GIL
  /\ gil = "thread"
  /\ Dispatch(s)
  /\ gil' = "none"

LibraryStep ==
  \/ Begin \/ Connect \/ Sleep \/ Ask \/ ReadResponse \/ Check \/ End \/ Read \/ Dispatched

PyEventLoop ==
  \/ LibraryStep /\ UNCHANGED gil
  \/ Ensure
  \/ \E s \in Sink : PyDispatch(s)

PyNext ==
  \/ ProgramTakes \/ ProgramYields \/ PyApplication
  \/ PyEventLoop
  \/ Server /\ UNCHANGED gil

PySpec == PyInit /\ [][PyNext]_pyVars

(***************************************************************************)
(* The fairness of QuoteSourceClient; moreover the interpreter lets a      *)
(* thread that waits for the lock have it, if the program gives it up      *)
(* again and again.                                                        *)
(***************************************************************************)
PyFairSpec ==
  /\ PySpec
  /\ WF_pyVars(PyEventLoop) /\ SF_pyVars(Ensure)
  /\ SF_pyVars(Connect /\ lines' # lines /\ UNCHANGED gil)
  /\ \A l \in Line : WF_pyVars((Subscribe(l) \/ Respond(l)) /\ UNCHANGED gil)
  /\ WF_pyVars(gil = "app" /\ Join /\ UNCHANGED gil)
-----------------------------------------------------------------------------
(***************************************************************************)
(* stop returns while ticks arrive, as tests/libgoldmine/                  *)
(* quotesourceclient_test.cpp:49-54 takes for granted. In Python stop      *)
(* keeps the interpreter lock while it waits for eventLoop, which may be   *)
(* about to call a sink and waits for the lock.                            *)
(***************************************************************************)
PyStopReturns == StopReturns
=============================================================================
