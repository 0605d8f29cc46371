---------------------- MODULE BrokerServerThreadsProofs ----------------------
(***************************************************************************)
(* Proofs about BrokerServerThreads, for any number of sessions and        *)
(* brokers: the types, and that stop leaves one session at most.           *)
(***************************************************************************)
EXTENDS BrokerServerThreads, FiniteSetTheorems, SequenceTheorems, TLAPS

-----------------------------------------------------------------------------
(* Sequences and the sets of their elements. *)

LEMMA AppendSet ==
  ASSUME NEW S, NEW s \in Seq(S), NEW e \in S
  PROVE  Append(s, e) \in Seq(S) /\ ToSet(Append(s, e)) = ToSet(s) \cup {e}
<1>1. /\ Append(s, e) \in Seq(S) /\ Len(Append(s, e)) = Len(s) + 1
      /\ \A i \in 1 .. Len(s) : Append(s, e)[i] = s[i]
      /\ Append(s, e)[Len(s) + 1] = e
  BY AppendProperties
<1>2. DOMAIN Append(s, e) = 1 .. Len(s) + 1 /\ DOMAIN s = 1 .. Len(s) /\ Len(s) \in Nat
  BY <1>1, LenProperties
<1>3. \A x : x \in ToSet(Append(s, e)) => x \in ToSet(s) \cup {e}
  BY <1>1, <1>2 DEF ToSet
<1>4. \A x : x \in ToSet(s) \cup {e} => x \in ToSet(Append(s, e))
  BY <1>1, <1>2 DEF ToSet
<1> QED
  BY <1>1, <1>3, <1>4

LEMMA TailSet ==
  ASSUME NEW S, NEW s \in Seq(S), s # << >>
  PROVE  /\ Tail(s) \in Seq(S) /\ Head(s) \in S
         /\ ToSet(s) = ToSet(Tail(s)) \cup {Head(s)}
<1>1. /\ Tail(s) \in Seq(S) /\ Len(Tail(s)) = Len(s) - 1
      /\ \A i \in 1 .. Len(Tail(s)) : Tail(s)[i] = s[i + 1]
      /\ Head(s) \in S
  BY HeadTailProperties
<1>2. /\ Len(s) \in Nat /\ Len(s) # 0 /\ DOMAIN s = 1 .. Len(s)
      /\ DOMAIN Tail(s) = 1 .. Len(Tail(s)) /\ Head(s) = s[1]
  BY <1>1, LenProperties, EmptySeq
<1>3. \A x : x \in ToSet(s) => x \in ToSet(Tail(s)) \cup {Head(s)}
  <2> SUFFICES ASSUME NEW i \in DOMAIN s
               PROVE  s[i] \in ToSet(Tail(s)) \cup {Head(s)}
    BY DEF ToSet
  <2>1. CASE i = 1
    BY <1>2, <2>1
  <2>2. CASE i # 1
    <3>1. i - 1 \in DOMAIN Tail(s) /\ Tail(s)[i - 1] = s[i]
      BY <1>1, <1>2, <2>2
    <3> QED
      BY <3>1 DEF ToSet
  <2> QED
    BY <2>1, <2>2
<1>4. \A x : x \in ToSet(Tail(s)) \cup {Head(s)} => x \in ToSet(s)
  BY <1>1, <1>2 DEF ToSet
<1> QED
  BY <1>1, <1>3, <1>4

LEMMA RemovedType ==
  ASSUME NEW S, NEW s \in Seq(S), NEW i \in DOMAIN s
  PROVE  RemoveAt(s, i) \in Seq(S)
<1>1. Len(s) \in Nat /\ i \in 1 .. Len(s) /\ (\A j \in 1 .. Len(s) : s[j] \in S)
  BY LenProperties, ElementOfSeq
<1>2. SubSeq(s, 1, i - 1) \in Seq(S)
  <2>1. \A j \in 1 .. i - 1 : s[j] \in S
    BY <1>1
  <2> QED
    BY <1>1, <2>1, SubSeqProperties
<1>3. SubSeq(s, i + 1, Len(s)) \in Seq(S)
  <2>1. \A j \in i + 1 .. Len(s) : s[j] \in S
    BY <1>1
  <2> QED
    BY <1>1, <2>1, SubSeqProperties
<1> QED
  BY <1>2, <1>3, ConcatProperties DEF RemoveAt

LEMMA SetToSeqType ==
  ASSUME NEW S, IsFiniteSet(S)
  PROVE  SetToSeq(S) \in Seq(S)
<1>1. PICK f \in [1 .. Cardinality(S) -> S] : IsInjective(f)
  <2>1. Cardinality(S) \in Nat /\ ExistsBijection(1 .. Cardinality(S), S)
    BY FS_CardinalityType
  <2> QED
    BY <2>1 DEF ExistsBijection, Bijection, Injection, IsInjective
<1>2. SetToSeq(S) \in [1 .. Cardinality(S) -> S]
  BY <1>1 DEF SetToSeq
<1> QED
  BY <1>2, FS_CardinalityType

-----------------------------------------------------------------------------
(* Types. *)

LEMMA InitType == Init => TypeOK
<1> SUFFICES ASSUME Init
             PROVE  TypeOK
  OBVIOUS
<1>1. fresh \in Session
  BY SessionAssumption DEF Init
<1>2. brokers \in Seq(Broker)
  BY BrokerAssumption, SetToSeqType DEF Init
<1>3. << >> \in Seq(Session) /\ << >> \in Seq(Broker)
  OBVIOUS
<1> QED
  BY <1>1, <1>2, <1>3 DEF Init, TypeOK

LEMMA NoBrokersType == << >> \in Seq(Broker)
OBVIOUS

LEMMA NextType == TypeOK /\ [Next]_vars => TypeOK'
<1> SUFFICES ASSUME TypeOK, [Next]_vars
             PROVE  TypeOK'
  OBVIOUS
<1> USE DEF TypeOK, mainVars, sessionVars, walkVars
<1>1. CASE Main
  <2>1. CASE Begin
    BY <2>1 DEF Begin
  <2>2. CASE StartSink
    BY <2>2 DEF StartSink
  <2>3. CASE CheckMain
    BY <2>3 DEF CheckMain
  <2>4. CASE NoConnection
    BY <2>4 DEF NoConnection, AfterTimeout
  <2>5. ASSUME NEW s \in Session, Accept(s)
        PROVE  TypeOK'
    BY <2>5 DEF Accept
  <2>6. CASE List
    <3>1. clients' \in Seq(Session)
      BY <2>6, AppendSet DEF List
    <3> QED
      BY <2>6, <3>1 DEF List
  <2> QED
    BY <1>1, <2>1, <2>2, <2>3, <2>4, <2>5, <2>6 DEF Main
<1>2. ASSUME NEW s \in Session, SessionStep(s)
      PROVE  TypeOK'
  <2>1. CASE BeginSession(s)
    BY <2>1 DEF BeginSession
  <2>2. CASE CheckSession(s)
    BY <2>2 DEF CheckSession
  <2>3. CASE Read(s)
    <3>1. /\ spc' \in [Session -> {"none", "started", "check", "read", "ask", "ended"}]
          /\ srun' \in [Session -> BOOLEAN]
      BY <2>3 DEF Read
    <3>2. asking' \in [Session -> Seq(Broker)]
      BY <2>3 DEF Read
    <3> QED
      BY <2>3, <3>1, <3>2 DEF Read
  <2>4. CASE AskBroker(s)
    <3>1. asking[s] # << >> => Tail(asking[s]) \in Seq(Broker)
      BY TailSet
    <3> QED
      BY <2>4, <3>1 DEF AskBroker
  <2> QED
    BY <1>2, <2>1, <2>2, <2>3, <2>4 DEF SessionStep
<1>3. ASSUME NEW b \in Broker, CallBack(b) \/ Visit(b)
      PROVE  TypeOK'
  <2>1. todo[b] # << >> => Tail(todo[b]) \in Seq(Session)
    BY TailSet DEF Walker
  <2>2. todo' \in [Walker -> Seq(Session)] /\ torn' \subseteq Walker
    BY <1>3, <2>1 DEF CallBack, Visit, Walker
  <2>3. UNCHANGED <<apc, run, mpc, fresh, clients, late, spc, srun, asking, brokers, unsure,
                    kpc>>
    BY <1>3 DEF CallBack, Visit
  <2>4. crashed' \in BOOLEAN
    BY <1>3 DEF CallBack, Visit
  <2> QED
    BY <2>2, <2>3, <2>4
<1>4. CASE SinkStep \/ Answered
  BY <1>4 DEF SinkStep, CheckSink, TakeTrade, Answered
<1>5. CASE Start
  BY <1>5 DEF Start
<1>6. ASSUME NEW b \in Broker, UnregisterBroker(b)
      PROVE  TypeOK'
  <2>1. brokers' \in Seq(Broker)
    BY <1>6, RemovedType DEF UnregisterBroker
  <2> QED
    BY <1>6, <2>1 DEF UnregisterBroker, Changed
<1>7. CASE Stop
  BY <1>7 DEF Stop
<1>8. CASE StopStep
  <2>1. todo[App] # << >> =>
          Tail(todo[App]) \in Seq(Session) /\ Head(todo[App]) \in Session
    BY TailSet DEF Walker
  <2>2. CASE Tell
    BY <2>1, <2>2 DEF Tell
  <2>3. CASE AllTold
    BY <2>3 DEF AllTold
  <2>4. CASE JoinSession
    BY <2>1, <2>4 DEF JoinSession
  <2>5. CASE AllJoined
    BY <2>5 DEF AllJoined
  <2>6. CASE ClearBrokers
    <3>1. << >> \in Seq(Broker)
      BY NoBrokersType
    <3>2. Changed \subseteq Session
      BY DEF Changed
    <3> QED
      BY <2>6, <3>1, <3>2 DEF ClearBrokers
  <2>7. CASE JoinMain
    BY <2>7 DEF JoinMain
  <2> QED
    BY <1>8, <2>2, <2>3, <2>4, <2>5, <2>6, <2>7 DEF StopStep
<1>9. CASE Finished \/ UNCHANGED vars
  <2>1. UNCHANGED <<apc, run, mpc, fresh, clients, late, spc, srun, asking, brokers, unsure,
                    todo, torn, kpc, crashed>>
    BY <1>9 DEF Finished, vars
  <2> QED
    BY <2>1
<1> QED
  BY <1>1, <1>2, <1>3, <1>4, <1>5, <1>6, <1>7, <1>8, <1>9 DEF Next

(***************************************************************************)
(* The variables keep their types.                                         *)
(***************************************************************************)
THEOREM TypeCorrect == Spec => []TypeOK
BY InitType, NextType, PTL DEF Spec

-----------------------------------------------------------------------------
(* Which sessions stop knows of. A session that works is listed, unless it  *)
(* is the one that was just started; the main thread lists no more than one *)
(* after stop, as it sees that run is false before it accepts another.      *)

Listed ==
  /\ apc = "new" => mpc = "none"
  /\ \A s \in Session :
       spc[s] # "none" => s \in ToSet(clients) \/ (mpc = "list" /\ s = fresh)

OneLate ==
  /\ ~ StopCalled => late = {}
  /\ StopCalled /\ ~ run /\ late # {} => mpc \in {"check", "ended"}
  /\ StopCalled /\ ~ run => \A s, t \in late : s = t

(* What stop has waited for: in its second loop, the sessions it has passed. *)

Done(s) == spc[s] = "ended" \/ s \in late

Awaited ==
  /\ apc = "join" => \A s \in ToSet(clients) : Done(s) \/ s \in ToSet(todo[App])
  /\ apc \in {"clear", "join main", "returned"} => \A s \in ToSet(clients) : Done(s)

SessionsInv == Listed /\ OneLate /\ Awaited

LEMMA InitSessions == Init => SessionsInv
<1> SUFFICES ASSUME Init
             PROVE  SessionsInv
  OBVIOUS
<1>1. Listed
  BY DEF Init, Listed
<1>2. OneLate
  BY DEF Init, OneLate, StopCalled, Stopping
<1>3. Awaited
  BY DEF Init, Awaited
<1> QED
  BY <1>1, <1>2, <1>3 DEF SessionsInv

LEMMA ListedSet ==
  ASSUME TypeOK, List
  PROVE  ToSet(clients') = ToSet(clients) \cup {fresh}
<1>1. clients \in Seq(Session) /\ fresh \in Session
  BY DEF TypeOK
<1>2. clients' = Append(clients, fresh)
  BY DEF List
<1> QED
  BY <1>1, <1>2, AppendSet

LEMMA ElementsIn ==
  ASSUME NEW S, NEW s \in Seq(S)
  PROVE  ToSet(s) \subseteq S
BY ElementOfSeq, LenProperties DEF ToSet

LEMMA NextListed == TypeOK /\ Listed /\ [Next]_vars => Listed'
<1> SUFFICES ASSUME TypeOK, Listed, [Next]_vars
             PROVE  Listed'
  OBVIOUS
<1> USE DEF mainVars, sessionVars, walkVars
<1>1. CASE List
  <2>1. ToSet(clients') = ToSet(clients) \cup {fresh}
    BY <1>1, ListedSet
  <2> QED
    BY <1>1, <2>1 DEF List, Listed
<1>2. ASSUME NEW s \in Session, Accept(s)
      PROVE  Listed'
  <2>1. \A t \in Session : spc'[t] # "none" => spc[t] # "none" \/ t = s
    BY <1>2 DEF Accept, TypeOK
  <2> QED
    BY <1>2, <2>1 DEF Accept, Listed
<1>3. ASSUME NEW s \in Session, SessionStep(s)
      PROVE  Listed'
  <2>1. \A t \in Session : spc'[t] # "none" => spc[t] # "none"
    BY <1>3 DEF SessionStep, BeginSession, CheckSession, Read, AskBroker, TypeOK
  <2>2. UNCHANGED <<clients, mpc, fresh>>
    BY <1>3 DEF SessionStep, BeginSession, CheckSession, Read, AskBroker
  <2>3. spc[s] # "none" /\ UNCHANGED apc
    BY <1>3 DEF SessionStep, BeginSession, CheckSession, Read, AskBroker
  <2> QED
    BY <2>1, <2>2, <2>3 DEF Listed
<1>4. CASE \/ Begin \/ StartSink \/ CheckMain \/ NoConnection
  <2>1. UNCHANGED <<apc, clients, spc>> /\ mpc \notin {"list", "none"}
    BY <1>4 DEF Begin, StartSink, CheckMain, NoConnection
  <2> QED
    BY <2>1 DEF Listed
<1>5. CASE Start
  BY <1>5 DEF Start, Listed
<1>6. CASE UNCHANGED <<clients, spc, mpc, fresh>> /\ (apc' = "new" => apc = "new")
  BY <1>6 DEF Listed
<1>7. CASE \/ (\E b \in Broker : CallBack(b) \/ Visit(b) \/ UnregisterBroker(b))
           \/ SinkStep \/ Answered \/ Stop \/ StopStep \/ Finished \/ UNCHANGED vars
  BY <1>6, <1>7 DEF CallBack, Visit, UnregisterBroker, SinkStep, CheckSink, TakeTrade, Answered,
     Stop, StopStep, Tell, AllTold,
     JoinSession, AllJoined, ClearBrokers, JoinMain, Finished, vars
<1> QED
  BY <1>1, <1>2, <1>3, <1>4, <1>5, <1>7 DEF Next, Main

LEMMA NextOneLate == TypeOK /\ OneLate /\ [Next]_vars => OneLate'
<1> SUFFICES ASSUME TypeOK, OneLate, [Next]_vars
             PROVE  OneLate'
  OBVIOUS
<1> USE DEF mainVars, sessionVars, walkVars, OneLate, StopCalled, Stopping
<1>1. CASE List
  BY <1>1 DEF List
<1>2. CASE Begin
  BY <1>2 DEF Begin
<1>7. CASE StartSink \/ NoConnection \/ \E s \in Session : Accept(s)
  <2>1. UNCHANGED <<apc, run, late>> /\ mpc \in {"bind", "wait"}
    BY <1>7 DEF StartSink, NoConnection, Accept
  <2> QED
    BY <2>1
<1>8. CASE CheckMain
  BY <1>8 DEF CheckMain
<1>3. CASE Start \/ Stop
  BY <1>3 DEF Start, Stop
<1>4. CASE StopStep
  BY <1>4 DEF StopStep, Tell, AllTold, JoinSession, AllJoined, ClearBrokers, JoinMain
<1>5. CASE UNCHANGED <<apc, run, mpc, late>>
  BY <1>5
<1>6. CASE \/ \E s \in Session : SessionStep(s)
           \/ \E b \in Broker : CallBack(b) \/ Visit(b) \/ UnregisterBroker(b)
           \/ SinkStep \/ Answered \/ Finished \/ UNCHANGED vars
  BY <1>5, <1>6 DEF SessionStep, BeginSession, CheckSession, Read, AskBroker, CallBack, Visit,
     UnregisterBroker, SinkStep, CheckSink, TakeTrade, Answered,
     Finished, vars
<1> QED
  BY <1>1, <1>2, <1>3, <1>4, <1>6, <1>7, <1>8 DEF Next, Main

LEMMA DoneStays ==
  ASSUME TypeOK, [Next]_vars, NEW s \in Session, Done(s)
  PROVE  Done(s)'
<1> USE DEF Done, mainVars, sessionVars, walkVars, TypeOK
<1>1. CASE Main
  BY <1>1 DEF Main, Begin, StartSink, CheckMain, NoConnection, Accept, List
<1>2. ASSUME NEW t \in Session, SessionStep(t)
      PROVE  Done(s)'
  BY <1>2 DEF SessionStep, BeginSession, CheckSession, Read, AskBroker
<1>3. CASE UNCHANGED <<spc, late>>
  BY <1>3
<1>4. CASE \/ \E b \in Broker : CallBack(b) \/ Visit(b) \/ UnregisterBroker(b)
           \/ SinkStep \/ Answered \/ Start \/ Stop \/ StopStep \/ Finished \/ UNCHANGED vars
  BY <1>3, <1>4 DEF CallBack, Visit, UnregisterBroker, SinkStep, CheckSink, TakeTrade, Answered,
     Start, Stop, StopStep, Tell,
     AllTold, JoinSession, AllJoined, ClearBrokers, JoinMain, Finished, vars
<1> QED
  BY <1>1, <1>2, <1>4 DEF Next

LEMMA NextAwaited == TypeOK /\ Awaited /\ [Next]_vars => Awaited'
<1> SUFFICES ASSUME TypeOK, Awaited, [Next]_vars
             PROVE  Awaited'
  OBVIOUS
<1> USE DEF mainVars, sessionVars, walkVars
<1>0. ToSet(clients) \subseteq Session /\ ToSet(clients') \subseteq Session
  <2>1. clients \in Seq(Session) /\ clients' \in Seq(Session)
    BY NextType DEF TypeOK
  <2> QED
    BY <2>1, ElementsIn
<1>1. CASE List
  <2>1. ToSet(clients') = ToSet(clients) \cup {fresh} /\ UNCHANGED <<apc, todo>>
    BY <1>1, ListedSet DEF List
  <2>2. apc \in {"join", "clear", "join main", "returned"} => fresh \in late'
    BY <1>1 DEF List, StopCalled, Stopping
  <2> QED
    BY <1>0, <2>1, <2>2, DoneStays DEF Awaited, Done
<1>2. CASE AllTold
  <2>1. todo'[App] = clients /\ UNCHANGED clients /\ apc' = "join"
    BY <1>2 DEF AllTold, TypeOK, Walker
  <2> QED
    BY <2>1 DEF Awaited
<1>3. CASE JoinSession
  <2>1. CASE /\ HasEnded(Head(todo[App])) /\ todo[App] # << >>
             /\ todo' = [todo EXCEPT ![App] = Tail(@)]
    <3>1. todo'[App] = Tail(todo[App])
      BY <2>1 DEF TypeOK, Walker
    <3>2. ToSet(todo[App]) = ToSet(todo'[App]) \cup {Head(todo[App])}
      BY <2>1, <3>1, TailSet DEF TypeOK, Walker
    <3>3. apc = "join" /\ UNCHANGED <<apc, clients, spc, late>>
      BY <1>3 DEF JoinSession
    <3> QED
      BY <2>1, <3>2, <3>3 DEF Awaited, Done, HasEnded
  <2>2. CASE UNCHANGED todo
    BY <1>3, <2>2 DEF JoinSession, Awaited, Done
  <2> QED
    BY <1>3, <2>1, <2>2 DEF JoinSession
<1>4. CASE AllJoined
  <2>1. /\ todo[App] = << >> /\ apc = "join" /\ apc' = "clear"
        /\ UNCHANGED <<clients, spc, late>>
    BY <1>4 DEF AllJoined
  <2>2. ToSet(todo[App]) = {}
    BY <2>1 DEF ToSet
  <2> QED
    BY <2>1, <2>2 DEF Awaited, Done
<1>5. ASSUME UNCHANGED clients, todo'[App] = todo[App],
             \/ UNCHANGED apc
             \/ apc' \notin {"join", "clear", "join main", "returned"}
             \/ apc \in {"clear", "join main"} /\ apc' \in {"join main", "returned"}
      PROVE  Awaited'
  BY <1>0, <1>5, DoneStays DEF Awaited
<1>6. CASE \/ Begin \/ StartSink \/ CheckMain \/ NoConnection \/ \E s \in Session : Accept(s)
  BY <1>5, <1>6 DEF Begin, StartSink, CheckMain, NoConnection, Accept
<1>7. ASSUME NEW s \in Session, SessionStep(s)
      PROVE  Awaited'
  BY <1>5, <1>7 DEF SessionStep, BeginSession, CheckSession, Read, AskBroker
<1>8. ASSUME NEW b \in Broker, CallBack(b) \/ Visit(b) \/ UnregisterBroker(b)
      PROVE  Awaited'
  <2>1. b # App
    BY AppAssumption
  <2>2. UNCHANGED <<apc, clients>> /\ todo'[App] = todo[App]
    BY <1>8, <2>1 DEF CallBack, Visit, UnregisterBroker, TypeOK, Walker
  <2> QED
    BY <1>5, <2>2
<1>9. CASE SinkStep \/ Answered \/ Start \/ ClearBrokers \/ JoinMain \/ Finished \/ UNCHANGED vars
  BY <1>5, <1>9 DEF SinkStep, CheckSink, TakeTrade, Answered, Start, ClearBrokers, JoinMain, Finished, vars
<1>10. CASE Stop \/ Tell
  BY <1>10 DEF Stop, Tell, Awaited
<1> QED
  BY <1>1, <1>2, <1>3, <1>4, <1>6, <1>7, <1>8, <1>9, <1>10 DEF Next, Main, StopStep

(***************************************************************************)
(* When stop has joined the sessions it knows of, one that was accepted    *)
(* meanwhile is all that may be left, for any number of sessions.          *)
(***************************************************************************)
THEOREM AtMostOneLeftCorrect == Spec => []AtMostOneLeft
<1>1. TypeOK /\ SessionsInv => AtMostOneLeft
  <2> SUFFICES ASSUME SessionsInv, apc \in {"clear", "join main", "returned"}, ~ run,
                      NEW s \in Session, NEW t \in Session, Working(s), Working(t)
               PROVE  s = t
    BY DEF AtMostOneLeft
  <2>1. StopCalled
    BY DEF StopCalled, Stopping
  <2>2. CASE mpc = "list"
    <3>1. late = {}
      BY <2>1, <2>2 DEF SessionsInv, OneLate
    <3> QED
      BY <2>2, <3>1 DEF SessionsInv, Listed, Awaited, Done, Working
  <2>3. CASE mpc # "list"
    <3>1. s \in late /\ t \in late
      BY <2>3 DEF SessionsInv, Listed, Awaited, Done, Working
    <3> QED
      BY <2>1, <3>1 DEF SessionsInv, OneLate
  <2> QED
    BY <2>2, <2>3
<1>2. TypeOK /\ SessionsInv /\ [Next]_vars => SessionsInv'
  BY NextListed, NextOneLate, NextAwaited DEF SessionsInv
<1> QED
  BY <1>1, <1>2, InitType, NextType, InitSessions, PTL DEF Spec
=============================================================================
