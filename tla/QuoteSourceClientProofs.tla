----------------------- MODULE QuoteSourceClientProofs -----------------------
(***************************************************************************)
(* Proofs about QuoteSourceClient, for any number of sinks, ticks, lines   *)
(* and starts: the types, that sinks are quiet after stop, that they are   *)
(* given a stream as TickStream promises it, and what they may miss.       *)
(***************************************************************************)
EXTENDS PyBindings, SequenceTheorems, TLAPS

-----------------------------------------------------------------------------
(* Sequences. *)

LEMMA Elements ==
  ASSUME NEW S, NEW s \in Seq(S)
  PROVE  /\ Len(s) \in Nat /\ DOMAIN s = 1 .. Len(s)
         /\ \A i \in DOMAIN s : i \in Nat /\ s[i] \in S
         /\ s # << >> => 1 \in DOMAIN s /\ Head(s) = s[1] /\ Len(s) \in DOMAIN s
BY ElementOfSeq, LenProperties, EmptySeq

LEMMA AppendElements ==
  ASSUME NEW S, NEW s \in Seq(S), NEW e \in S
  PROVE  /\ Append(s, e) \in Seq(S) /\ Append(s, e) # << >>
         /\ Len(Append(s, e)) = Len(s) + 1 /\ Append(s, e)[Len(s) + 1] = e
         /\ \A i \in DOMAIN Append(s, e) :
              \/ i \in DOMAIN s /\ i <= Len(s) /\ Append(s, e)[i] = s[i]
              \/ i = Len(s) + 1 /\ Append(s, e)[i] = e
         /\ ToSet(Append(s, e)) = ToSet(s) \cup {e}
<1>1. /\ Append(s, e) \in Seq(S) /\ Append(s, e) # << >>
      /\ Len(Append(s, e)) = Len(s) + 1
      /\ \A i \in 1 .. Len(s) : Append(s, e)[i] = s[i]
      /\ Append(s, e)[Len(s) + 1] = e
  BY AppendProperties
<1>2. DOMAIN Append(s, e) = 1 .. Len(s) + 1 /\ DOMAIN s = 1 .. Len(s) /\ Len(s) \in Nat
  BY <1>1, LenProperties
<1>3. \A x : x \in ToSet(Append(s, e)) => x \in ToSet(s) \cup {e}
  BY <1>1, <1>2 DEF ToSet
<1>4. \A x : x \in ToSet(s) \cup {e} => x \in ToSet(Append(s, e))
  BY <1>1, <1>2 DEF ToSet
<1>5. ToSet(Append(s, e)) = ToSet(s) \cup {e}
  BY <1>3, <1>4
<1> QED
  BY <1>1, <1>2, <1>5

LEMMA AppendFirst ==
  ASSUME NEW S, NEW s \in Seq(S), NEW e, s # << >>
  PROVE  Append(s, e)[1] = s[1]
<1>1. Len(s) \in Nat /\ Len(s) # 0
  BY LenProperties, EmptySeq
<1> QED
  BY <1>1

LEMMA TailElements ==
  ASSUME NEW S, NEW s \in Seq(S), s # << >>
  PROVE  /\ Tail(s) \in Seq(S) /\ Head(s) \in S /\ Head(s) = s[1]
         /\ \A i \in DOMAIN Tail(s) : i \in Nat /\ i + 1 \in DOMAIN s /\ Tail(s)[i] = s[i + 1]
         /\ \A i \in DOMAIN Tail(s) : i + 1 > 1
         /\ ToSet(s) = ToSet(Tail(s)) \cup {Head(s)}
<1>1. /\ Tail(s) \in Seq(S) /\ Len(Tail(s)) = Len(s) - 1
      /\ \A i \in 1 .. Len(Tail(s)) : Tail(s)[i] = s[i + 1]
      /\ Head(s) \in S
  BY HeadTailProperties
<1>2. /\ Len(s) \in Nat /\ Len(s) # 0 /\ DOMAIN s = 1 .. Len(s)
      /\ DOMAIN Tail(s) = 1 .. Len(Tail(s)) /\ Head(s) = s[1]
  BY <1>1, LenProperties, EmptySeq
<1>3. \A x : x \in ToSet(s) => x \in ToSet(Tail(s)) \cup {Head(s)}
  <2> SUFFICES ASSUME NEW i \in DOMAIN s
               PROVE  s[i] \in ToSet(Tail(s)) \cup {Head(s)}
    BY DEF ToSet
  <2>1. CASE i = 1
    BY <1>2, <2>1
  <2>2. CASE i # 1
    <3>1. i - 1 \in DOMAIN Tail(s) /\ Tail(s)[i - 1] = s[i]
      BY <1>1, <1>2, <2>2
    <3> QED
      BY <3>1 DEF ToSet
  <2> QED
    BY <2>1, <2>2
<1>4. \A x : x \in ToSet(Tail(s)) \cup {Head(s)} => x \in ToSet(s)
  BY <1>1, <1>2 DEF ToSet
<1>5. ToSet(s) = ToSet(Tail(s)) \cup {Head(s)}
  BY <1>3, <1>4
<1> QED
  BY <1>1, <1>2, <1>5

LEMMA PrefixElements ==
  ASSUME NEW S, NEW s \in Seq(S), NEW n \in 0 .. Len(s)
  PROVE  /\ SubSeq(s, 1, n) \in Seq(S)
         /\ \A i \in DOMAIN SubSeq(s, 1, n) : i \in DOMAIN s /\ SubSeq(s, 1, n)[i] = s[i]
<1>1. /\ Len(s) \in Nat /\ n \in Nat /\ n <= Len(s) /\ DOMAIN s = 1 .. Len(s)
      /\ \A j \in 1 .. n : s[j] \in S
  BY LenProperties, ElementOfSeq
<1>2. /\ SubSeq(s, 1, n) \in Seq(S) /\ Len(SubSeq(s, 1, n)) = IF 1 <= n THEN n - 1 + 1 ELSE 0
      /\ \A i \in 1 .. n - 1 + 1 : SubSeq(s, 1, n)[i] = s[1 + i - 1]
  BY <1>1, SubSeqProperties
<1>3. DOMAIN SubSeq(s, 1, n) = 1 .. n
  BY <1>1, <1>2, LenProperties
<1> QED
  BY <1>1, <1>2, <1>3

-----------------------------------------------------------------------------
(* Types, and what the thread holds. *)

ThreadOK ==
  /\ epc \in {"ask", "response", "check", "read", "dispatch"} => line \in Line
  /\ epc = "dispatch" => hand \in Tick
  /\ epc # "dispatch" => visited = 0
  /\ ~ joinable => epc \in {"none", "ended"}

(* The last line is the only one that may be up; later ones do not exist yet. *)

LinesOK ==
  /\ line # NoLine => line <= lines
  /\ \A l \in Line : status[l] = "up" => l = line
  /\ \A l \in Line : l > lines => status[l] = "none" /\ session[l] = "none" /\ sent[l] = << >>

TypeInv == TypeOK /\ ThreadOK /\ LinesOK

LEMMA InitTypeInv == Init => TypeInv
<1> SUFFICES ASSUME Init
             PROVE  TypeInv
  OBVIOUS
<1>1. << >> \in Seq(Tick) /\ << >> \in Seq(Message)
  OBVIOUS
<1>2. 0 \in 0 .. MaxStarts /\ 0 \in 0 .. MaxLines /\ 0 \in 0 .. MaxTicks /\ 0 \in 0 .. Sinks
  BY BoundsAssumption, SinksAssumption
<1>3. TypeOK
  BY <1>1, <1>2 DEF Init, TypeOK
<1>4. ThreadOK
  BY DEF Init, ThreadOK
<1>5. LinesOK
  BY DEF Init, LinesOK
<1> QED
  BY <1>3, <1>4, <1>5 DEF TypeInv

LEMMA NextTypeInv == TypeInv /\ [Next]_vars => TypeInv'
<1> SUFFICES ASSUME TypeInv, [Next]_vars
             PROVE  TypeInv'
  OBVIOUS
<1> USE DEF appVars, threadVars, sinkVars, wireVars, serverVars
<1>a. TypeOK /\ ThreadOK /\ LinesOK
  BY DEF TypeInv
<1>b. << >> \in Seq(Message)
  BY DEF Message
<1>1. ASSUME NEW b \in BOOLEAN, StartStream(b)
      PROVE  TypeInv'
  <2>1. TypeOK'
    BY <1>1, <1>a, BoundsAssumption DEF TypeOK, StartStream
  <2>2. ThreadOK'
    BY <1>1, <1>a DEF TypeOK, ThreadOK, StartStream
  <2>3. LinesOK'
    BY <1>1, <1>a DEF TypeOK, LinesOK, StartStream
  <2> QED
    BY <2>1, <2>2, <2>3 DEF TypeInv
<1>2. ASSUME Stop
      PROVE  TypeInv'
  <2>1. TypeOK'
    BY <1>2, <1>a DEF TypeOK, ThreadOK, Stop
  <2>2. ThreadOK'
    BY <1>2, <1>a DEF TypeOK, ThreadOK, Stop
  <2>3. LinesOK'
    BY <1>2, <1>a DEF TypeOK, LinesOK, Stop
  <2> QED
    BY <2>1, <2>2, <2>3 DEF TypeInv
<1>3. ASSUME Join
      PROVE  TypeInv'
  <2>1. TypeOK'
    BY <1>3, <1>a DEF TypeOK, ThreadOK, Join, Joined
  <2>2. ThreadOK'
    BY <1>3, <1>a DEF TypeOK, ThreadOK, Join, Joined
  <2>3. LinesOK'
    BY <1>3, <1>a DEF TypeOK, LinesOK, Join, Joined
  <2> QED
    BY <2>1, <2>2, <2>3 DEF TypeInv
<1>4. ASSUME Begin
      PROVE  TypeInv'
  <2>1. TypeOK'
    BY <1>4, <1>a DEF TypeOK, ThreadOK, Begin
  <2>2. ThreadOK'
    BY <1>4, <1>a DEF TypeOK, ThreadOK, Begin
  <2>3. LinesOK'
    BY <1>4, <1>a DEF TypeOK, LinesOK, Begin
  <2> QED
    BY <2>1, <2>2, <2>3 DEF TypeInv
<1>5. ASSUME Sleep
      PROVE  TypeInv'
  <2>1. TypeOK'
    BY <1>5, <1>a DEF TypeOK, ThreadOK, Sleep
  <2>2. ThreadOK'
    BY <1>5, <1>a DEF TypeOK, ThreadOK, Sleep
  <2>3. LinesOK'
    BY <1>5, <1>a DEF TypeOK, LinesOK, Sleep
  <2> QED
    BY <2>1, <2>2, <2>3 DEF TypeInv
<1>6. ASSUME Ask
      PROVE  TypeInv'
  <2>1. TypeOK'
    BY <1>6, <1>a DEF TypeOK, ThreadOK, Ask, Up, Is
  <2>2. ThreadOK'
    BY <1>6, <1>a DEF TypeOK, ThreadOK, Ask, Up, Is
  <2>3. LinesOK'
    BY <1>6, <1>a DEF TypeOK, LinesOK, Ask, Up, Is
  <2> QED
    BY <2>1, <2>2, <2>3 DEF TypeInv
<1>7. ASSUME ReadResponse
      PROVE  TypeInv'
  <2>1. TypeOK'
    BY <1>7, <1>a DEF TypeOK, ThreadOK, ReadResponse, AfterResponse
  <2>2. ThreadOK'
    BY <1>7, <1>a DEF TypeOK, ThreadOK, ReadResponse, AfterResponse
  <2>3. LinesOK'
    BY <1>7, <1>a DEF TypeOK, LinesOK, ReadResponse, AfterResponse
  <2> QED
    BY <2>1, <2>2, <2>3 DEF TypeInv
<1>8. ASSUME Check
      PROVE  TypeInv'
  <2>1. TypeOK'
    BY <1>8, <1>a DEF TypeOK, ThreadOK, Check, Goes
  <2>2. ThreadOK'
    BY <1>8, <1>a DEF TypeOK, ThreadOK, Check, Goes
  <2>3. LinesOK'
    BY <1>8, <1>a DEF TypeOK, LinesOK, Check, Goes
  <2> QED
    BY <2>1, <2>2, <2>3 DEF TypeInv
<1>9. ASSUME End
      PROVE  TypeInv'
  <2>1. TypeOK'
    BY <1>9, <1>a DEF TypeOK, ThreadOK, End
  <2>2. ThreadOK'
    BY <1>9, <1>a DEF TypeOK, ThreadOK, End
  <2>3. LinesOK'
    BY <1>9, <1>a DEF TypeOK, LinesOK, End
  <2> QED
    BY <2>1, <2>2, <2>3 DEF TypeInv
<1>10. ASSUME Read
      PROVE  TypeInv'
  <2>a. line \in Line /\ toClient[line] \in Seq(Message)
    BY <1>10, <1>a DEF Read, TypeOK, ThreadOK
  <2>b. toClient[line] # << >> =>
          /\ Head(toClient[line]) \in Message /\ Tail(toClient[line]) \in Seq(Message)
          /\ Head(toClient[line]) # Response => Head(toClient[line]) \in Tick
    <3>1. toClient[line] # << >> =>
            Head(toClient[line]) \in Message /\ Tail(toClient[line]) \in Seq(Message)
      BY <2>a, TailElements
    <3> QED
      BY <3>1 DEF Message
  <2>c. /\ epc' \in {"check", "loop", "dispatch"}
        /\ hand' \in Tick \cup {NoTick} /\ (epc' = "dispatch" => hand' \in Tick)
    BY <1>10, <1>a, <2>b DEF Read, TypeOK, AfterError
  <2>d. toClient' \in [Line -> Seq(Message)]
    BY <1>10, <1>a, <2>a, <2>b DEF Read, TypeOK
  <2>1. TypeOK'
    BY <1>10, <1>a, <2>c, <2>d DEF TypeOK, Read
  <2>2. ThreadOK'
    BY <1>10, <1>a, <2>a, <2>c DEF TypeOK, ThreadOK, Read
  <2>3. LinesOK'
    BY <1>10, <1>a DEF TypeOK, LinesOK, Read, Up, Is, AfterError
  <2> QED
    BY <2>1, <2>2, <2>3 DEF TypeInv
<1>11. ASSUME NEW s \in Sink, Dispatch(s)
      PROVE  TypeInv'
  <2>1. TypeOK'
    BY <1>11, <1>a DEF TypeOK, ThreadOK, Dispatch, Turn, LastSink
  <2>2. ThreadOK'
    BY <1>11, <1>a DEF TypeOK, ThreadOK, Dispatch, Turn, LastSink
  <2>3. LinesOK'
    BY <1>11, <1>a DEF TypeOK, LinesOK, Dispatch, Turn, LastSink
  <2> QED
    BY <2>1, <2>2, <2>3 DEF TypeInv
<1>12. ASSUME Dispatched
      PROVE  TypeInv'
  <2>1. TypeOK'
    BY <1>12, <1>a DEF TypeOK, ThreadOK, Dispatched, LastSink
  <2>2. ThreadOK'
    BY <1>12, <1>a DEF TypeOK, ThreadOK, Dispatched, LastSink
  <2>3. LinesOK'
    BY <1>12, <1>a DEF TypeOK, LinesOK, Dispatched, LastSink
  <2> QED
    BY <2>1, <2>2, <2>3 DEF TypeInv
<1>13. ASSUME NEW l \in Line, Subscribe(l)
      PROVE  TypeInv'
  <2>1. TypeOK'
    BY <1>13, <1>a DEF TypeOK, ThreadOK, Subscribe, Up, Is
  <2>2. ThreadOK'
    BY <1>13, <1>a DEF TypeOK, ThreadOK, Subscribe, Up, Is
  <2>3. LinesOK'
    BY <1>13, <1>a DEF TypeOK, LinesOK, Subscribe, Up, Is
  <2> QED
    BY <2>1, <2>2, <2>3 DEF TypeInv
<1>14. ASSUME NEW l \in Line, Respond(l)
      PROVE  TypeInv'
  <2>1. TypeOK'
    <3>1. Response \in Message /\ toClient[l] \in Seq(Message)
      BY <1>14, <1>a DEF Message, TypeOK
    <3>2. Append(toClient[l], Response) \in Seq(Message)
      BY <3>1, AppendElements
    <3> QED
      BY <1>14, <1>a, <3>2 DEF TypeOK, Respond
  <2>2. ThreadOK'
    BY <1>14, <1>a DEF TypeOK, ThreadOK, Respond, Up, Is
  <2>3. LinesOK'
    BY <1>14, <1>a DEF TypeOK, LinesOK, Respond, Up, Is
  <2> QED
    BY <2>1, <2>2, <2>3 DEF TypeInv
<1>15. ASSUME ProduceTick
      PROVE  TypeInv'
  <2>1. TypeOK'
    <3>1. ticks' \in Tick /\ ticks' \in Message /\ ticks' \in 0 .. MaxTicks
      BY <1>15, <1>a, BoundsAssumption DEF ProduceTick, TypeOK, Tick, Message
    <3>2. \A l \in Line :
            /\ Append(toClient[l], ticks') \in Seq(Message) /\ toClient[l] \in Seq(Message)
            /\ Append(sent[l], ticks') \in Seq(Tick) /\ sent[l] \in Seq(Tick)
      BY <1>a, <3>1, AppendElements DEF TypeOK
    <3>3. toClient' \in [Line -> Seq(Message)] /\ sent' \in [Line -> Seq(Tick)]
      BY <1>15, <3>2 DEF ProduceTick
    <3> QED
      BY <1>15, <1>a, <3>1, <3>3 DEF TypeOK, ProduceTick
  <2>2. ThreadOK'
    BY <1>15, <1>a DEF TypeOK, ThreadOK, ProduceTick, Receives, Up, Is
  <2>3. LinesOK'
    BY <1>15, <1>a DEF TypeOK, LinesOK, ProduceTick, Receives, Up, Is
  <2> QED
    BY <2>1, <2>2, <2>3 DEF TypeInv
<1>16. ASSUME NEW l \in Line, Break(l)
      PROVE  TypeInv'
  <2>1. TypeOK'
    BY <1>16, <1>a DEF TypeOK, ThreadOK, Break, Up, Is
  <2>2. ThreadOK'
    BY <1>16, <1>a DEF TypeOK, ThreadOK, Break, Up, Is
  <2>3. LinesOK'
    BY <1>16, <1>a DEF TypeOK, LinesOK, Break, Up, Is
  <2> QED
    BY <2>1, <2>2, <2>3 DEF TypeInv
<1>17. ASSUME Connect
      PROVE  TypeInv'
  <2>a. /\ lines' \in 0 .. MaxLines /\ lines <= lines' /\ lines \in 0 .. MaxLines
        /\ \/ line' = NoLine /\ lines' = lines
           \/ line' \in Line /\ line' = lines' /\ lines' = lines + 1
    BY <1>17, <1>a, BoundsAssumption DEF Connect, TypeOK, Line
  <2>b. epc' \in {"ask", "sleep"} /\ (epc' = "ask" => line' \in Line)
    BY <1>17, <2>a DEF Connect
  <2>c. \A l \in Line : status'[l] = (CASE l = line' -> "up" [] l = line -> "destroyed"
                                       [] OTHER -> status[l])
    BY <1>17 DEF Connect
  <2>d. /\ status' \in [Line -> {"none", "up", "broken", "destroyed"}]
        /\ toClient' \in [Line -> Seq(Message)]
    BY <1>17, <1>a, <1>b DEF Connect, TypeOK
  <2>1. TypeOK'
    BY <1>17, <1>a, <2>a, <2>b, <2>d DEF TypeOK, Connect
  <2>2. ThreadOK'
    BY <1>17, <1>a, <2>b DEF ThreadOK, Connect
  <2>3. LinesOK'
    <3>1. line' # NoLine => line' <= lines'
      BY <2>a DEF Line
    <3>2. \A l \in Line : status'[l] = "up" => l = line'
      BY <1>a, <2>c DEF LinesOK
    <3>3. \A l \in Line : l > lines' => l > lines /\ l # line' /\ l # line
      BY <1>a, <2>a DEF LinesOK, TypeOK, Line, NoLine
    <3>4. \A l \in Line : l > lines' => status'[l] = "none" /\ session'[l] = "none"
                                                         /\ sent'[l] = << >>
      BY <1>17, <1>a, <2>c, <3>3 DEF LinesOK, Connect, serverVars
    <3> QED
      BY <3>1, <3>2, <3>4 DEF LinesOK
  <2> QED
    BY <2>1, <2>2, <2>3 DEF TypeInv
<1>18. ASSUME UNCHANGED vars
      PROVE  TypeInv'
  BY <1>18, <1>a DEF vars, TypeInv, TypeOK, ThreadOK, LinesOK
<1> QED
  BY <1>1, <1>2, <1>3, <1>4, <1>5, <1>6, <1>7, <1>8, <1>9, <1>10, <1>11, <1>12,
     <1>13, <1>14, <1>15, <1>16, <1>17, <1>18 DEF Next, Application, EventLoop, Server

(***************************************************************************)
(* The variables keep their types.                                         *)
(***************************************************************************)
THEOREM TypeCorrect == Spec => []TypeOK
<1>1. TypeInv => TypeOK
  BY DEF TypeInv
<1> QED
  BY <1>1, InitTypeInv, NextTypeInv, PTL DEF Spec

(***************************************************************************)
(* Outside of the time between startStream and the return of stop no sink  *)
(* is called: the thread has ended then.                                   *)
(***************************************************************************)
THEOREM QuietAfterStopCorrect == Spec => QuietAfterStop
<1>1. TypeInv /\ [Next]_vars => [~ joinable => UNCHANGED seen]_vars
  <2> SUFFICES ASSUME TypeInv, Next, ~ joinable
               PROVE  UNCHANGED seen
    OBVIOUS
  <2>1. epc \in {"none", "ended"}
    BY DEF TypeInv, ThreadOK
  <2>2. \A s \in Sink : ~ Dispatch(s)
    BY <2>1 DEF Dispatch
  <2> QED
    BY <2>2 DEF Next, Application, EventLoop, Server, StartStream, Stop, Join, Begin, Connect,
       Sleep, Ask, ReadResponse, Check, End, Read, Dispatched, Subscribe, Respond, ProduceTick,
       Break, sinkVars
<1> QED
  BY <1>1, InitTypeInv, NextTypeInv, PTL DEF Spec, QuietAfterStop

-----------------------------------------------------------------------------
(***************************************************************************)
(* What a sink was given, what the thread holds and what is on the wire    *)
(* follow one another in ascending order.                                  *)
(***************************************************************************)
Wire == IF line = NoLine THEN << >> ELSE toClient[line]
LastSeen(s) == IF seen[s] = << >> THEN 0 ELSE seen[s][Len(seen[s])]

Behind(t) == \A i \in DOMAIN Wire : Wire[i] # Response => t < Wire[i]

WireAscends ==
  /\ \A i \in DOMAIN Wire : Wire[i] <= ticks
  /\ \A i, j \in DOMAIN Wire : i < j /\ Wire[j] # Response => Wire[i] < Wire[j]

SeenBehind == \A s \in Sink : LastSeen(s) <= ticks /\ Behind(LastSeen(s))

HandBehind ==
  epc = "dispatch" =>
    hand <= ticks /\ Behind(hand) /\ \A s \in Sink : s > visited => LastSeen(s) < hand

Pipeline == WireAscends /\ SeenBehind /\ HandBehind

LEMMA WireType == ASSUME TypeOK PROVE Wire \in Seq(Message)
<1>1. << >> \in Seq(Message)
  BY DEF Message
<1> QED
  BY <1>1 DEF TypeOK, Wire, Line, NoLine

LEMMA WireNumbers == ASSUME TypeOK PROVE \A i \in DOMAIN Wire : i \in Nat /\ Wire[i] \in Nat
<1>1. \A i \in DOMAIN Wire : i \in Nat /\ Wire[i] \in Message
  BY WireType, Elements
<1> QED
  BY <1>1, BoundsAssumption DEF Message, Tick, Response

LEMMA LastSeenType == ASSUME TypeOK PROVE \A s \in Sink : LastSeen(s) \in Nat
<1> SUFFICES ASSUME NEW s \in Sink
             PROVE  LastSeen(s) \in Nat
  OBVIOUS
<1>1. seen[s] \in Seq(Tick)
  BY DEF TypeOK
<1>2. seen[s] # << >> => seen[s][Len(seen[s])] \in Tick
  BY <1>1, Elements
<1> QED
  BY <1>2, BoundsAssumption DEF LastSeen, Tick

LEMMA InitPipeline == Init => Pipeline
BY DEF Init, Pipeline, WireAscends, SeenBehind, HandBehind, Behind, Wire, LastSeen, NoLine

(* The wire keeps its order if it stays, loses its end or its beginning, or is emptied. *)

LEMMA WireShrinks ==
  ASSUME TypeOK, Pipeline, TypeOK', ticks' = ticks, seen' = seen,
         \/ Wire' = Wire
         \/ Wire' = << >>
         \/ Wire # << >> /\ Wire' = Tail(Wire)
         \/ \E n \in 0 .. Len(Wire) : Wire' = SubSeq(Wire, 1, n)
  PROVE  WireAscends' /\ SeenBehind' /\ \A t : Behind(t) => Behind(t)'
<1> DEFINE Moved(k) == \A i \in DOMAIN Wire' : i + k \in DOMAIN Wire /\ Wire'[i] = Wire[i + k]
<1>1. Wire \in Seq(Message)
  BY WireType
<1>2. Moved(0) \/ Moved(1)
  <2>1. CASE Wire' = Wire
    BY <2>1, WireNumbers
  <2>2. CASE Wire' = << >>
    BY <2>2
  <2>3. CASE Wire # << >> /\ Wire' = Tail(Wire)
    BY <2>3, <1>1, TailElements
  <2>4. CASE \E n \in 0 .. Len(Wire) : Wire' = SubSeq(Wire, 1, n)
    <3>1. PICK n \in 0 .. Len(Wire) : Wire' = SubSeq(Wire, 1, n)
      BY <2>4
    <3>2. \A i \in DOMAIN Wire' : i \in DOMAIN Wire /\ Wire'[i] = Wire[i]
      BY <3>1, <1>1, PrefixElements
    <3>3. \A i \in DOMAIN Wire' : i + 0 = i
      BY <3>2, WireNumbers
    <3> QED
      BY <3>2, <3>3
  <2> QED
    BY <2>1, <2>2, <2>3, <2>4
<1>3. PICK k \in {0, 1} : Moved(k)
  BY <1>2
<1>4. \A i \in DOMAIN Wire' : i \in Nat
  <2>1. Wire' \in Seq(Message)
    <3>1. << >> \in Seq(Message)
      BY DEF Message
    <3> QED
      BY <3>1 DEF TypeOK, Wire, Line, NoLine
  <2> QED
    BY <2>1, Elements
<1> HIDE DEF Moved
<1>5. WireAscends'
  <2>1. \A i \in DOMAIN Wire' : Wire'[i] <= ticks'
    BY <1>3 DEF Moved, Pipeline, WireAscends
  <2>2. \A i, j \in DOMAIN Wire' : i < j /\ Wire'[j] # Response => Wire'[i] < Wire'[j]
    <3> SUFFICES ASSUME NEW i \in DOMAIN Wire', NEW j \in DOMAIN Wire', i < j,
                        Wire'[j] # Response
                 PROVE  Wire'[i] < Wire'[j]
      OBVIOUS
    <3>1. /\ i + k \in DOMAIN Wire /\ Wire'[i] = Wire[i + k]
          /\ j + k \in DOMAIN Wire /\ Wire'[j] = Wire[j + k]
      BY <1>3 DEF Moved
    <3>2. i + k < j + k
      BY <1>4
    <3> QED
      BY <3>1, <3>2 DEF Pipeline, WireAscends
  <2> QED
    BY <2>1, <2>2 DEF WireAscends
<1>6. ASSUME NEW t, Behind(t)
      PROVE  Behind(t)'
  BY <1>3, <1>6 DEF Moved, Behind
<1>7. SeenBehind'
  BY <1>6 DEF Pipeline, SeenBehind, LastSeen
<1> QED
  BY <1>5, <1>6, <1>7

LEMMA NextPipeline == TypeInv /\ TypeInv' /\ Pipeline /\ [Next]_vars => Pipeline'
<1> SUFFICES ASSUME TypeInv, TypeInv', Pipeline, [Next]_vars
             PROVE  Pipeline'
  OBVIOUS
<1>a. TypeOK /\ TypeOK' /\ ThreadOK /\ ThreadOK' /\ LinesOK
  BY DEF TypeInv
<1>b. WireAscends /\ SeenBehind /\ HandBehind
  BY DEF Pipeline
<1>c. Wire \in Seq(Message) /\ (line # NoLine => Wire = toClient[line] /\ line \in Line)
  BY <1>a, WireType DEF Wire, TypeOK
<1>1. ASSUME Wire' = Wire, UNCHANGED <<ticks, seen>>,
             epc' # "dispatch" \/ UNCHANGED <<epc, hand, visited>>
      PROVE  Pipeline'
  <2>1. WireAscends' /\ SeenBehind' /\ \A t : Behind(t) => Behind(t)'
    BY <1>1, <1>a, WireShrinks
  <2>2. HandBehind'
    BY <1>1, <1>b, <2>1 DEF HandBehind, LastSeen
  <2> QED
    BY <2>1, <2>2 DEF Pipeline
<1>2. ASSUME \/ \E b \in BOOLEAN : StartStream(b)
             \/ Stop \/ Join \/ Begin \/ Sleep \/ Ask \/ Check \/ End \/ Dispatched
             \/ \E l \in Line : Subscribe(l)
      PROVE  Pipeline'
  <2>1. UNCHANGED <<line, toClient, ticks, seen>>
    BY <1>2 DEF StartStream, Stop, Join, Begin, Sleep, Ask, Check, End, Dispatched, Subscribe,
       threadVars, sinkVars, wireVars, serverVars
  <2>2. epc' # "dispatch" \/ UNCHANGED <<epc, hand, visited>>
    BY <1>2 DEF StartStream, Stop, Join, Begin, Sleep, Ask, Check, End, Dispatched, Subscribe,
       threadVars, sinkVars
  <2> QED
    BY <2>1, <2>2, <1>1 DEF Wire
<1>3. ASSUME ReadResponse
      PROVE  Pipeline'
  <2>1. Wire = toClient[line] /\ line' = line /\ line \in Line
    BY <1>3, <1>a, <1>c DEF ReadResponse, ThreadOK, threadVars, NoLine, Line
  <2>2. Wire' = Wire \/ (Wire # << >> /\ Wire' = Tail(Wire))
    BY <1>3, <1>a, <2>1 DEF ReadResponse, AfterResponse, TypeOK, Wire
  <2>3. UNCHANGED <<ticks, seen>> /\ epc' # "dispatch"
    BY <1>3 DEF ReadResponse, sinkVars, serverVars
  <2>4. WireAscends' /\ SeenBehind'
    BY <1>a, <2>2, <2>3, WireShrinks
  <2> QED
    BY <2>3, <2>4 DEF Pipeline, HandBehind
<1>4. ASSUME Read
      PROVE  Pipeline'
  <2>1. Wire = toClient[line] /\ line' = line /\ line \in Line
    BY <1>4, <1>a, <1>c DEF Read, ThreadOK, NoLine, Line
  <2>2. UNCHANGED <<ticks, seen>>
    BY <1>4 DEF Read, serverVars
  <2>3. CASE Wire = << >>
    <3>1. Wire' = Wire /\ epc' # "dispatch"
      BY <1>4, <2>1, <2>3 DEF Read, Wire, AfterError
    <3> QED
      BY <3>1, <2>2, <1>1
  <2>4. CASE Wire # << >>
    <3>1. Wire' = Tail(Wire) /\ (epc' = "dispatch" => hand' = Head(Wire) /\ hand' # Response)
      BY <1>4, <1>a, <2>1, <2>4 DEF Read, Wire, TypeOK
    <3>2. WireAscends' /\ SeenBehind'
      BY <1>a, <2>2, <2>4, <3>1, WireShrinks
    <3>3. 1 \in DOMAIN Wire /\ Head(Wire) = Wire[1]
      BY <1>c, <2>4, Elements
    <3>4. ASSUME epc' = "dispatch"
          PROVE  /\ hand' <= ticks' /\ \A s \in Sink : LastSeen(s)' < hand'
                 /\ Behind(hand)'
      <4>1. hand' <= ticks'
        BY <1>b, <2>2, <3>1, <3>3, <3>4 DEF WireAscends
      <4>2. \A s \in Sink : LastSeen(s)' < hand'
        BY <1>b, <2>2, <3>1, <3>3, <3>4 DEF SeenBehind, Behind, LastSeen
      <4>3. \A i \in DOMAIN Tail(Wire) :
              i + 1 \in DOMAIN Wire /\ Tail(Wire)[i] = Wire[i + 1] /\ i + 1 > 1
        BY <1>c, <2>4, TailElements
      <4>4. \A i \in DOMAIN Tail(Wire) : Tail(Wire)[i] # Response => Wire[1] < Tail(Wire)[i]
        BY <1>b, <3>3, <4>3 DEF WireAscends
      <4> QED
        BY <4>1, <4>2, <4>4, <3>1, <3>3, <3>4 DEF Behind
    <3> QED
      BY <3>2, <3>4 DEF Pipeline, HandBehind
  <2> QED
    BY <2>3, <2>4
<1>5. ASSUME NEW s \in Sink, Dispatch(s)
      PROVE  Pipeline'
  <2>1. /\ epc = "dispatch" /\ visited + 1 = s /\ visited' = s
        /\ UNCHANGED <<epc, hand, line, toClient, ticks>>
        /\ seen' = [seen EXCEPT ![s] = Append(@, hand)]
    BY <1>5 DEF Dispatch, Turn, threadVars, wireVars, serverVars
  <2>2. Wire' = Wire
    BY <2>1 DEF Wire
  <2>3. hand \in Tick /\ seen[s] \in Seq(Tick) /\ visited \in Nat /\ s \in Nat
    BY <1>a, <2>1, SinksAssumption DEF ThreadOK, TypeOK, Sink
  <2>4. LastSeen(s)' = hand
    <3>1. /\ Append(seen[s], hand) # << >> /\ Len(Append(seen[s], hand)) = Len(seen[s]) + 1
          /\ Append(seen[s], hand)[Len(seen[s]) + 1] = hand
      BY <2>3, AppendElements
    <3>2. seen'[s] = Append(seen[s], hand)
      BY <1>a, <2>1 DEF TypeOK
    <3> QED
      BY <3>1, <3>2 DEF LastSeen
  <2>5. \A r \in Sink : r # s => LastSeen(r)' = LastSeen(r)
    BY <1>a, <2>1 DEF LastSeen, TypeOK
  <2>6. hand <= ticks /\ Behind(hand) /\ \A r \in Sink : r > visited => LastSeen(r) < hand
    BY <1>b, <2>1 DEF HandBehind
  <2>7. \A t : Behind(t) => Behind(t)'
    BY <2>2 DEF Behind
  <2>8. WireAscends'
    BY <1>b, <2>1, <2>2 DEF WireAscends
  <2>9. SeenBehind'
    <3> SUFFICES ASSUME NEW r \in Sink
                 PROVE  LastSeen(r)' <= ticks' /\ Behind(LastSeen(r))'
      BY DEF SeenBehind
    <3>1. CASE r = s
      BY <3>1, <2>1, <2>2, <2>4, <2>6 DEF Behind
    <3>2. CASE r # s
      <4>1. LastSeen(r) <= ticks /\ Behind(LastSeen(r))
        BY <1>b DEF SeenBehind
      <4> QED
        BY <4>1, <3>2, <2>1, <2>2, <2>5 DEF Behind
    <3> QED
      BY <3>1, <3>2
  <2>10. HandBehind'
    <3>1. \A r \in Sink : r > visited' => r > visited /\ r # s
      BY <2>1, <2>3 DEF Sink
    <3>2. \A r \in Sink : r > visited' => LastSeen(r)' < hand'
      BY <2>1, <2>5, <2>6, <3>1
    <3> QED
      BY <2>1, <2>6, <2>7, <3>2 DEF HandBehind, Behind
  <2> QED
    BY <2>8, <2>9, <2>10 DEF Pipeline
<1>6. ASSUME NEW l \in Line, Respond(l)
      PROVE  Pipeline'
  <2>1. l = line /\ Wire = toClient[line] /\ line \in Line
    BY <1>6, <1>a, <1>c DEF Respond, Up, Is, LinesOK
  <2>2. /\ Wire' = Append(Wire, Response) /\ UNCHANGED <<ticks, seen, epc, hand, visited>>
    <3>1. toClient'[line] = Append(toClient[line], Response) /\ line # NoLine
      BY <1>6, <1>a, <2>1 DEF Respond, TypeOK, Line, NoLine
    <3>2. UNCHANGED <<line, ticks, seen, epc, hand, visited>>
      BY <1>6 DEF Respond, threadVars, sinkVars
    <3> QED
      BY <2>1, <3>1, <3>2 DEF Wire
  <2>3. \A i \in DOMAIN Append(Wire, Response) :
          \/ i \in DOMAIN Wire /\ i <= Len(Wire) /\ Append(Wire, Response)[i] = Wire[i]
          \/ i = Len(Wire) + 1 /\ Append(Wire, Response)[i] = Response
    <3>1. Response \in Message
      BY DEF Message
    <3> QED
      BY <3>1, <1>c, AppendElements
  <2>4. \A t : Behind(t) => Behind(t)'
    BY <2>2, <2>3 DEF Behind
  <2>5. WireAscends'
    <3>1. \A i \in DOMAIN Wire' : Wire'[i] <= ticks'
      <4>1. 0 <= ticks
        BY <1>a, BoundsAssumption DEF TypeOK
      <4> QED
        BY <4>1, <1>b, <2>2, <2>3 DEF WireAscends, Response
    <3>2. \A i, j \in DOMAIN Wire' : i < j /\ Wire'[j] # Response => Wire'[i] < Wire'[j]
      <4> SUFFICES ASSUME NEW i \in DOMAIN Wire', NEW j \in DOMAIN Wire', i < j,
                          Wire'[j] # Response
                   PROVE  Wire'[i] < Wire'[j]
        OBVIOUS
      <4>1. j \in DOMAIN Wire /\ j <= Len(Wire) /\ Wire'[j] = Wire[j]
        BY <2>2, <2>3
      <4>2. i \in DOMAIN Wire /\ Wire'[i] = Wire[i]
        <5>1. Len(Wire) \in Nat /\ j \in Nat
          BY <1>c, <4>1, Elements
        <5> QED
          BY <4>1, <5>1, <2>2, <2>3
      <4> QED
        BY <4>1, <4>2, <1>b DEF WireAscends
    <3> QED
      BY <3>1, <3>2 DEF WireAscends
  <2>6. SeenBehind'
    BY <1>b, <2>2, <2>4 DEF SeenBehind, LastSeen
  <2>7. HandBehind'
    BY <1>b, <2>2, <2>4 DEF HandBehind, LastSeen
  <2> QED
    BY <2>5, <2>6, <2>7 DEF Pipeline
<1>7. ASSUME ProduceTick
      PROVE  Pipeline'
  <2>1. /\ ticks' = ticks + 1 /\ ticks \in Nat /\ ticks' \in Tick
        /\ UNCHANGED <<line, seen, epc, hand, visited>>
    BY <1>7, <1>a, BoundsAssumption DEF ProduceTick, TypeOK, Tick, threadVars, sinkVars
  <2>2. Wire' = Wire \/ Wire' = Append(Wire, ticks')
    BY <1>7, <2>1, <1>c DEF ProduceTick, Wire
  <2>3. \A i \in DOMAIN Wire' :
          \/ i \in DOMAIN Wire /\ Wire'[i] = Wire[i] /\ Wire[i] <= ticks
             /\ i <= Len(Wire)
          \/ i = Len(Wire) + 1 /\ Wire'[i] = ticks'
    <3>1. ticks' \in Message
      BY <2>1 DEF Message
    <3>2. DOMAIN Wire = 1 .. Len(Wire)
      BY <1>c, Elements
    <3>3. \A i \in DOMAIN Append(Wire, ticks') :
            \/ i \in DOMAIN Wire /\ i <= Len(Wire) /\ Append(Wire, ticks')[i] = Wire[i]
            \/ i = Len(Wire) + 1 /\ Append(Wire, ticks')[i] = ticks'
      BY <3>1, <1>c, AppendElements
    <3> QED
      BY <2>2, <3>2, <3>3, <1>b DEF WireAscends
  <2>4. Len(Wire) \in Nat /\ \A i \in DOMAIN Wire : i \in Nat /\ Wire[i] \in Nat
    BY <1>a, <1>c, Elements, WireNumbers
  <2>5. ASSUME NEW t \in Nat, t <= ticks, Behind(t)
        PROVE  Behind(t)'
    BY <2>1, <2>3, <2>5 DEF Behind
  <2>6. WireAscends'
    <3>1. \A i \in DOMAIN Wire' : Wire'[i] <= ticks'
      BY <2>1, <2>3, <2>4
    <3>2. \A i, j \in DOMAIN Wire' : i < j /\ Wire'[j] # Response => Wire'[i] < Wire'[j]
      <4> SUFFICES ASSUME NEW i \in DOMAIN Wire', NEW j \in DOMAIN Wire', i < j,
                          Wire'[j] # Response
                   PROVE  Wire'[i] < Wire'[j]
        OBVIOUS
      <4>1. i \in DOMAIN Wire /\ Wire'[i] = Wire[i] /\ Wire[i] <= ticks
        BY <2>3, <2>4
      <4>2. CASE j \in DOMAIN Wire /\ Wire'[j] = Wire[j]
        BY <4>1, <4>2, <1>b DEF WireAscends
      <4>3. CASE Wire'[j] = ticks'
        BY <4>1, <4>3, <2>1, <2>4
      <4> QED
        BY <4>2, <4>3, <2>3
    <3> QED
      BY <3>1, <3>2 DEF WireAscends
  <2>7. SeenBehind'
    <3> SUFFICES ASSUME NEW s \in Sink
                 PROVE  LastSeen(s)' <= ticks' /\ Behind(LastSeen(s))'
      BY DEF SeenBehind
    <3>1. LastSeen(s)' = LastSeen(s) /\ LastSeen(s) \in Nat /\ LastSeen(s) <= ticks
          /\ Behind(LastSeen(s))
      BY <1>a, <1>b, <2>1, LastSeenType DEF SeenBehind, LastSeen
    <3>2. Behind(LastSeen(s))'
      BY <2>1, <2>3, <3>1 DEF Behind
    <3> QED
      BY <3>1, <3>2, <2>1
  <2>8. HandBehind'
    <3> SUFFICES ASSUME epc = "dispatch"
                 PROVE  /\ hand <= ticks' /\ Behind(hand)'
                        /\ \A s \in Sink : s > visited => LastSeen(s)' < hand
      BY <2>1 DEF HandBehind
    <3>1. hand \in Nat /\ hand <= ticks /\ Behind(hand)
      BY <1>a, <1>b, BoundsAssumption DEF HandBehind, ThreadOK, Tick
    <3>2. Behind(hand)'
      BY <2>1, <2>3, <3>1 DEF Behind
    <3>3. \A s \in Sink : s > visited => LastSeen(s)' < hand
      BY <1>b, <2>1 DEF HandBehind, LastSeen
    <3> QED
      BY <3>1, <3>2, <3>3, <2>1
  <2> QED
    BY <2>6, <2>7, <2>8 DEF Pipeline
<1>8. ASSUME NEW l \in Line, Break(l)
      PROVE  Pipeline'
  <2>1. l = line /\ Wire = toClient[line] /\ line \in Line
    BY <1>8, <1>a, <1>c DEF Break, Up, Is, LinesOK
  <2>2. /\ \E n \in 0 .. Len(Wire) : Wire' = SubSeq(Wire, 1, n)
        /\ UNCHANGED <<ticks, seen, epc, hand, visited>>
    BY <1>8, <1>a, <2>1 DEF Break, Wire, TypeOK, threadVars, sinkVars, serverVars
  <2>3. WireAscends' /\ SeenBehind' /\ \A t : Behind(t) => Behind(t)'
    BY <1>a, <2>2, WireShrinks
  <2>4. HandBehind'
    BY <1>b, <2>2, <2>3 DEF HandBehind, LastSeen
  <2> QED
    BY <2>3, <2>4 DEF Pipeline
<1>9. ASSUME Connect
      PROVE  Pipeline'
  <2>1. UNCHANGED <<ticks, seen>> /\ epc' # "dispatch"
    BY <1>9 DEF Connect, sinkVars, serverVars
  <2>2. Wire' = << >>
    BY <1>9, <1>a DEF Connect, Wire, TypeOK, NoLine, Line
  <2>3. WireAscends' /\ SeenBehind'
    BY <1>a, <2>1, <2>2, WireShrinks
  <2> QED
    BY <2>1, <2>3 DEF Pipeline, HandBehind
<1>10. ASSUME UNCHANGED vars
       PROVE  Pipeline'
  BY <1>10, <1>1 DEF vars, threadVars, sinkVars, wireVars, serverVars, Wire
<1> QED
  BY <1>2, <1>3, <1>4, <1>5, <1>6, <1>7, <1>8, <1>9, <1>10 DEF Next, Application, EventLoop,
     Server

(***************************************************************************)
(* The client implements TickStream towards each of its sinks: over all    *)
(* connections a sink is given ticks in the order they were produced, and  *)
(* none twice.                                                             *)
(***************************************************************************)
THEOREM ImplementsStream == Spec => SinkSpec
<1>1. Init => SinkStream!Init
  BY DEF Init, SinkStream!Init
<1>2. TypeInv /\ Pipeline /\ [Next]_vars => [SinkStream!Next]_(SinkStream!streamVars)
  <2> SUFFICES ASSUME TypeInv, Pipeline, [Next]_vars
               PROVE  \/ SinkStream!Produce
                      \/ \E s \in Sink : SinkStream!Send(s)
                      \/ UNCHANGED <<ticks, seen>>
    BY DEF SinkStream!Next, SinkStream!streamVars
  <2>1. CASE ProduceTick
    BY <2>1 DEF ProduceTick, sinkVars, SinkStream!Produce
  <2>2. CASE \E s \in Sink : Dispatch(s)
    <3>1. PICK s \in Sink : Dispatch(s)
      BY <2>2
    <3>2. /\ epc = "dispatch" /\ visited + 1 = s /\ UNCHANGED ticks
          /\ seen' = [seen EXCEPT ![s] = Append(@, hand)]
      BY <3>1 DEF Dispatch, Turn, serverVars
    <3>3. /\ hand \in Tick /\ hand \in Nat /\ visited \in Nat /\ ticks \in Nat
          /\ LastSeen(s) \in Nat
      BY <3>2, LastSeenType, BoundsAssumption, SinksAssumption
         DEF TypeInv, TypeOK, ThreadOK, Tick
    <3>4. LastSeen(s) < hand /\ hand <= ticks
      BY <3>2, <3>3 DEF Pipeline, HandBehind
    <3>5. hand \in SinkStream!LastSent(s) + 1 .. ticks
      BY <3>3, <3>4 DEF SinkStream!LastSent, LastSeen
    <3> QED
      BY <3>2, <3>5 DEF SinkStream!Send, SinkStream!SendNew
  <2>3. CASE UNCHANGED vars
    BY <2>3 DEF vars, sinkVars, serverVars
  <2>4. CASE Next /\ ~ ProduceTick /\ ~ \E s \in Sink : Dispatch(s)
    BY <2>4 DEF Next, Application, EventLoop, Server, StartStream, Stop, Join, Begin, Connect,
       Sleep, Ask, ReadResponse, Check, End, Read, Dispatched, Subscribe, Respond, Break,
       sinkVars, serverVars
  <2> QED
    BY <2>1, <2>2, <2>3, <2>4
<1> QED
  BY <1>1, <1>2, InitTypeInv, NextTypeInv, InitPipeline, NextPipeline, PTL
     DEF Spec, SinkSpec, SinkStream!Spec

-----------------------------------------------------------------------------
(***************************************************************************)
(* Until a message was taken for the response, all that was sent on a line *)
(* that is up waits on it, its first tick behind a response at most.       *)
(***************************************************************************)
Asking == epc \in {"ask", "response"}

AllWaiting ==
  Up(line) /\ Asking =>
    /\ \A i \in DOMAIN sent[line] : sent[line][i] \in ToSet(toClient[line])
    /\ toClient[line] # << >> /\ toClient[line][1] # Response
          => sent[line] # << >> /\ toClient[line][1] = sent[line][1]

SentAscends ==
  \A l \in Line :
    /\ \A i \in DOMAIN sent[l] : sent[l][i] <= ticks
    /\ \A i, j \in DOMAIN sent[l] : i < j => sent[l][i] < sent[l][j]

Kept == AllWaiting /\ SentAscends /\ OnlyFirstTickLost

LEMMA InitKept == Init => Kept
<1> SUFFICES ASSUME Init
             PROVE  Kept
  OBVIOUS
<1>1. ~ Up(line)
  BY DEF Init, Up, Is
<1>2. SentAscends
  BY DEF Init, SentAscends
<1> QED
  BY <1>1, <1>2 DEF Kept, AllWaiting, OnlyFirstTickLost

(* Nothing is lost to a sink as long as what was underway is underway or was seen. *)

LEMMA NothingNewLost ==
  ASSUME OnlyFirstTickLost, UNCHANGED <<line, sent>>, Up(line)' => Up(line),
         \A s \in Sink :
            ToSet(seen[s]) \cup Underway(s) \subseteq ToSet(seen'[s]) \cup Underway(s)'
  PROVE  OnlyFirstTickLost'
BY DEF OnlyFirstTickLost

LEMMA NextSentAscends == TypeInv /\ SentAscends /\ [Next]_vars => SentAscends'
<1> SUFFICES ASSUME TypeInv, SentAscends, [Next]_vars
             PROVE  SentAscends'
  OBVIOUS
<1>1. CASE ProduceTick
  <2>1. ticks' = ticks + 1 /\ ticks \in Nat /\ ticks' \in Tick
    BY <1>1, BoundsAssumption DEF ProduceTick, TypeInv, TypeOK, Tick
  <2> SUFFICES ASSUME NEW l \in Line
               PROVE  /\ \A i \in DOMAIN sent'[l] : sent'[l][i] <= ticks'
                      /\ \A i, j \in DOMAIN sent'[l] : i < j => sent'[l][i] < sent'[l][j]
    BY DEF SentAscends
  <2>2. sent'[l] = sent[l] \/ sent'[l] = Append(sent[l], ticks')
    BY <1>1 DEF ProduceTick
  <2>3. sent[l] \in Seq(Tick)
    BY DEF TypeInv, TypeOK
  <2>4. DOMAIN sent[l] = 1 .. Len(sent[l]) /\ Len(sent[l]) \in Nat
    BY <2>3, Elements
  <2>5. \A i \in DOMAIN sent[l] : sent[l][i] \in Nat /\ sent[l][i] <= ticks
    BY <2>3, Elements, BoundsAssumption DEF SentAscends, Tick
  <2>6. \A i \in DOMAIN sent'[l] :
          \/ i \in DOMAIN sent[l] /\ i <= Len(sent[l]) /\ sent'[l][i] = sent[l][i]
          \/ i = Len(sent[l]) + 1 /\ sent'[l][i] = ticks'
    <3>1. \A i \in DOMAIN Append(sent[l], ticks') :
            \/ i \in DOMAIN sent[l] /\ i <= Len(sent[l])
               /\ Append(sent[l], ticks')[i] = sent[l][i]
            \/ i = Len(sent[l]) + 1 /\ Append(sent[l], ticks')[i] = ticks'
      BY <2>1, <2>3, AppendElements
    <3> QED
      BY <2>2, <2>4, <3>1
  <2>7. \A i \in DOMAIN sent'[l] : sent'[l][i] <= ticks'
    BY <2>1, <2>5, <2>6
  <2>8. ASSUME NEW i \in DOMAIN sent'[l], NEW j \in DOMAIN sent'[l], i < j
        PROVE  sent'[l][i] < sent'[l][j]
    <3>1. i \in DOMAIN sent[l] /\ sent'[l][i] = sent[l][i]
      BY <2>4, <2>6, <2>8
    <3>2. CASE j \in DOMAIN sent[l] /\ sent'[l][j] = sent[l][j]
      BY <2>8, <3>1, <3>2 DEF SentAscends
    <3>3. CASE sent'[l][j] = ticks'
      BY <2>1, <2>5, <3>1, <3>3
    <3> QED
      BY <2>6, <3>2, <3>3
  <2> QED
    BY <2>7, <2>8
<1>2. CASE ~ ProduceTick
  <2>1. UNCHANGED <<ticks, sent>>
    BY <1>2 DEF Next, vars, Application, EventLoop, Server, StartStream, Stop, Join, Begin,
       Connect, Sleep, Ask, ReadResponse, Check, End, Read, Dispatch, Dispatched, Subscribe,
       Respond, Break, serverVars
  <2> QED
    BY <2>1 DEF SentAscends
<1> QED
  BY <1>1, <1>2

LEMMA NextKept == TypeInv /\ TypeInv' /\ Kept /\ [Next]_vars => Kept'
<1> SUFFICES ASSUME TypeInv, TypeInv', Kept, [Next]_vars
             PROVE  Kept'
  OBVIOUS
<1>a. TypeOK /\ TypeOK' /\ ThreadOK /\ ThreadOK' /\ LinesOK /\ LinesOK'
  BY DEF TypeInv
<1>b. AllWaiting /\ SentAscends /\ OnlyFirstTickLost
  BY DEF Kept
<1>c. SentAscends'
  BY <1>b, NextSentAscends
<1>d. Up(line) => line \in Line /\ toClient[line] \in Seq(Message) /\ sent[line] \in Seq(Tick)
  BY <1>a DEF Up, Is, TypeOK
<1>e. ASSUME AllWaiting', OnlyFirstTickLost'
      PROVE  Kept'
  BY <1>c, <1>e DEF Kept
(* Steps that touch neither the line nor what was seen. *)
<1>1. ASSUME \/ \E b \in BOOLEAN : StartStream(b)
             \/ Stop \/ Join \/ Begin \/ Sleep \/ Ask \/ Check \/ End \/ Dispatched
             \/ \E l \in Line : Subscribe(l)
             \/ UNCHANGED vars
      PROVE  Kept'
  <2>1. UNCHANGED <<line, toClient, status, seen, sent>>
    BY <1>1 DEF StartStream, Stop, Join, Begin, Sleep, Ask, Check, End, Dispatched, Subscribe,
       vars, threadVars, sinkVars, wireVars, serverVars
  <2>2. (Up(line)' <=> Up(line)) /\ (Asking' => Asking)
    <3>1. Up(line)' <=> Up(line)
      BY <2>1 DEF Up, Is
    <3>2. Asking' => Asking
      BY <1>1 DEF StartStream, Stop, Join, Begin, Sleep, Ask, Check, End, Dispatched, Subscribe,
         vars, threadVars, Asking
    <3> QED
      BY <3>1, <3>2
  <2>3. AllWaiting'
    BY <1>b, <2>1, <2>2 DEF AllWaiting
  <2>4. \A s \in Sink : Underway(s) \subseteq Underway(s)'
    <3> SUFFICES ASSUME NEW s \in Sink
                 PROVE  Underway(s) \subseteq Underway(s)'
      OBVIOUS
    <3>1. epc = "dispatch" /\ s > visited =>
            epc' = "dispatch" /\ hand' = hand /\ visited' = visited
      <4>1. CASE Dispatched
        <5>1. visited = Sinks
          BY <4>1 DEF Dispatched, LastSink
        <5> QED
          BY <5>1, SinksAssumption DEF Sink
      <4>2. CASE \E b \in BOOLEAN : StartStream(b)
        BY <4>2, <1>a DEF StartStream, ThreadOK
      <4>3. CASE ~ Dispatched /\ ~ \E b \in BOOLEAN : StartStream(b)
        BY <1>1, <4>3 DEF Stop, Join, Begin, Sleep, Ask, Check, Goes, End, Subscribe, Joined,
           vars, threadVars, sinkVars
      <4> QED
        BY <4>1, <4>2, <4>3
    <3> QED
      BY <2>1, <3>1 DEF Underway
  <2>5. OnlyFirstTickLost'
    BY <1>b, <2>1, <2>2, <2>4, NothingNewLost
  <2> QED
    BY <2>3, <2>5, <1>e
<1>2. ASSUME ReadResponse
      PROVE  Kept'
  <2>1. epc = "response" /\ epc' = "check" /\ UNCHANGED <<line, status, seen, sent>>
    BY <1>2 DEF ReadResponse, threadVars, sinkVars, serverVars
  <2>2. AllWaiting'
    BY <2>1 DEF AllWaiting, Asking
  <2>3. OnlyFirstTickLost'
    <3> SUFFICES ASSUME Up(line), NEW i \in DOMAIN sent[line], i > 1
                 PROVE  sent[line][i] \in ToSet(toClient'[line])
      BY <2>1 DEF OnlyFirstTickLost, Underway, Up, Is
    <3>1. sent[line][i] \in ToSet(toClient[line])
      BY <1>b, <2>1 DEF AllWaiting, Asking
    <3>2. toClient[line] # << >>
      BY <3>1 DEF ToSet
    <3>3. toClient'[line] = Tail(toClient[line])
      BY <1>2, <1>a, <1>d, <3>2 DEF ReadResponse, AfterResponse, TypeOK
    <3>4. /\ ToSet(toClient[line]) = ToSet(Tail(toClient[line])) \cup {Head(toClient[line])}
          /\ Head(toClient[line]) = toClient[line][1]
      BY <1>d, <3>2, TailElements
    <3>5. sent[line][i] # Head(toClient[line])
      <4>1. CASE Head(toClient[line]) = Response
        <5>1. sent[line][i] \in Tick
          BY <1>d, Elements
        <5> QED
          BY <4>1, <5>1, BoundsAssumption DEF Response, Tick
      <4>2. CASE Head(toClient[line]) # Response
        <5>1. sent[line] # << >> /\ Head(toClient[line]) = sent[line][1]
          BY <1>b, <2>1, <3>2, <3>4, <4>2 DEF AllWaiting, Asking
        <5>2. 1 \in DOMAIN sent[line]
          BY <1>d, <5>1, Elements
        <5>3. sent[line][1] < sent[line][i]
          BY <1>b, <1>d, <5>2 DEF SentAscends
        <5>4. sent[line][1] \in Nat /\ sent[line][i] \in Nat
          BY <1>d, <5>2, Elements, BoundsAssumption DEF Tick
        <5> QED
          BY <5>1, <5>3, <5>4
      <4> QED
        BY <4>1, <4>2
    <3> QED
      BY <3>1, <3>3, <3>4, <3>5
  <2> QED
    BY <2>2, <2>3, <1>e
<1>3. ASSUME Read
      PROVE  Kept'
  <2>1. epc = "read" /\ ~ Asking' /\ UNCHANGED <<line, status, seen, sent, visited>>
    BY <1>3 DEF Read, AfterError, serverVars, Asking
  <2>2. AllWaiting'
    BY <2>1 DEF AllWaiting
  <2>3. line \in Line /\ toClient[line] \in Seq(Message) /\ visited = 0
    BY <1>a, <2>1 DEF ThreadOK, TypeOK
  <2>4. \A s \in Sink : ToSet(seen[s]) \cup Underway(s) \subseteq ToSet(seen'[s]) \cup Underway(s)'
                        \cup {Response}
    <3> SUFFICES ASSUME NEW s \in Sink
                 PROVE  Underway(s) \subseteq Underway(s)' \cup {Response}
      BY <2>1
    <3>0. Underway(s) = ToSet(toClient[line])
      BY <2>1 DEF Underway
    <3>1. CASE toClient[line] = << >>
      BY <1>3, <3>0, <3>1, <2>1 DEF Read, Underway
    <3>2. CASE toClient[line] # << >>
      <4>1. ToSet(toClient[line]) = ToSet(Tail(toClient[line])) \cup {Head(toClient[line])}
        BY <2>3, <3>2, TailElements
      <4>2. toClient'[line] = Tail(toClient[line])
        BY <1>3, <1>a, <2>3, <3>2 DEF Read, TypeOK
      <4>3. Head(toClient[line]) # Response =>
              epc' = "dispatch" /\ hand' = Head(toClient[line])
        BY <1>3, <3>2 DEF Read
      <4>4. s > visited'
        BY <2>1, <2>3, SinksAssumption DEF Sink
      <4> QED
        BY <3>0, <4>1, <4>2, <4>3, <4>4, <2>1 DEF Underway
    <3> QED
      BY <3>1, <3>2
  <2>5. Up(line) => \A i \in DOMAIN sent[line] : sent[line][i] # Response
    <3>1. Up(line) => \A i \in DOMAIN sent[line] : sent[line][i] \in Tick
      BY <1>d, Elements
    <3> QED
      BY <3>1, BoundsAssumption DEF Tick, Response
  <2>6. OnlyFirstTickLost'
    BY <1>b, <2>1, <2>4, <2>5 DEF OnlyFirstTickLost, Up, Is
  <2> QED
    BY <2>2, <2>6, <1>e
<1>4. ASSUME NEW r \in Sink, Dispatch(r)
      PROVE  Kept'
  <2>1. /\ epc = "dispatch" /\ visited + 1 = r /\ visited' = visited + 1
        /\ UNCHANGED <<epc, hand, line, status, toClient, sent>>
        /\ seen' = [seen EXCEPT ![r] = Append(@, hand)]
    BY <1>4 DEF Dispatch, Turn, threadVars, wireVars, serverVars
  <2>2. AllWaiting'
    BY <2>1 DEF AllWaiting, Asking
  <2>3. ASSUME NEW s \in Sink
        PROVE  ToSet(seen[s]) \cup Underway(s) \subseteq ToSet(seen'[s]) \cup Underway(s)'
    <3>0. hand \in Tick /\ seen[s] \in Seq(Tick) /\ visited \in Nat /\ s \in Nat
      BY <1>a, <2>1, SinksAssumption DEF ThreadOK, TypeOK, Sink
    <3>1. CASE s = r
      <4>1. seen'[s] = Append(seen[s], hand)
        BY <1>a, <2>1, <3>1 DEF TypeOK
      <4>2. ToSet(seen'[s]) = ToSet(seen[s]) \cup {hand}
        BY <3>0, <4>1, AppendElements
      <4> QED
        BY <2>1, <4>2 DEF Underway
    <3>2. CASE s # r
      <4>1. seen'[s] = seen[s]
        BY <1>a, <2>1, <3>2 DEF TypeOK
      <4>2. s > visited => s > visited'
        BY <2>1, <3>0, <3>2
      <4> QED
        BY <2>1, <4>1, <4>2 DEF Underway
    <3> QED
      BY <3>1, <3>2
  <2>4. OnlyFirstTickLost'
    BY <1>b, <2>1, <2>3, NothingNewLost DEF Up, Is
  <2> QED
    BY <2>2, <2>4, <1>e
<1>5. ASSUME NEW l \in Line, Respond(l)
      PROVE  Kept'
  <2>1. /\ l = line /\ line \in Line /\ Up(line)
        /\ UNCHANGED <<line, epc, hand, visited, seen, status, sent>>
    BY <1>5, <1>a DEF Respond, Up, Is, LinesOK, threadVars, sinkVars
  <2>2. toClient'[line] = Append(toClient[line], Response)
    BY <1>5, <1>a, <2>1 DEF Respond, TypeOK
  <2>3. /\ ToSet(toClient'[line]) = ToSet(toClient[line]) \cup {Response}
        /\ \A i \in DOMAIN toClient'[line] :
              \/ i \in DOMAIN toClient[line] /\ toClient'[line][i] = toClient[line][i]
              \/ toClient'[line][i] = Response
        /\ toClient'[line] # << >> /\ toClient'[line] \in Seq(Message)
    <3>1. Response \in Message
      BY DEF Message
    <3> QED
      BY <1>d, <2>1, <2>2, <3>1, AppendElements
  <2>4. AllWaiting'
    <3>1. 1 \in DOMAIN toClient'[line]
      BY <2>3, Elements
    <3>2. 1 \in DOMAIN toClient[line] => toClient[line] # << >>
      OBVIOUS
    <3> QED
      BY <1>b, <2>1, <2>3, <3>1, <3>2 DEF AllWaiting, Asking
  <2>5. \A s \in Sink : Underway(s) \subseteq Underway(s)'
    BY <2>1, <2>3 DEF Underway
  <2>6. OnlyFirstTickLost'
    BY <1>b, <2>1, <2>5, NothingNewLost DEF Up, Is
  <2> QED
    BY <2>4, <2>6, <1>e
<1>6. ASSUME ProduceTick
      PROVE  Kept'
  <2>1. /\ ticks' \in Tick /\ UNCHANGED <<line, epc, hand, visited, seen, status>>
    BY <1>6, <1>a, BoundsAssumption DEF ProduceTick, TypeOK, Tick, threadVars, sinkVars
  <2>2. Up(line) =>
          \/ toClient'[line] = toClient[line] /\ sent'[line] = sent[line]
          \/ /\ toClient'[line] = Append(toClient[line], ticks')
             /\ sent'[line] = Append(sent[line], ticks')
    BY <1>6, <1>d DEF ProduceTick
  <2>3. Up(line)' <=> Up(line)
    BY <2>1 DEF Up, Is
  <2>4. CASE ~ Up(line)
    BY <2>3, <2>4, <1>e DEF AllWaiting, OnlyFirstTickLost
  <2>5. CASE Up(line) /\ toClient'[line] = toClient[line] /\ sent'[line] = sent[line]
    <3>1. AllWaiting'
      BY <1>b, <2>1, <2>5 DEF AllWaiting, Asking
    <3>2. OnlyFirstTickLost'
      BY <1>b, <2>1, <2>5 DEF OnlyFirstTickLost, Underway
    <3> QED
      BY <3>1, <3>2, <1>e
  <2>6. CASE /\ Up(line) /\ toClient'[line] = Append(toClient[line], ticks')
             /\ sent'[line] = Append(sent[line], ticks')
    <3>1. /\ ToSet(toClient'[line]) = ToSet(toClient[line]) \cup {ticks'}
          /\ \A i \in DOMAIN toClient'[line] :
                \/ i \in DOMAIN toClient[line] /\ toClient'[line][i] = toClient[line][i]
                \/ i = Len(toClient[line]) + 1 /\ toClient'[line][i] = ticks'
          /\ toClient'[line] # << >>
      <4>1. ticks' \in Message
        BY <2>1 DEF Message
      <4> QED
        BY <1>d, <2>6, <4>1, AppendElements
    <3>2. /\ \A i \in DOMAIN sent'[line] :
                \/ i \in DOMAIN sent[line] /\ sent'[line][i] = sent[line][i]
                \/ sent'[line][i] = ticks'
          /\ sent'[line] # << >>
          /\ sent'[line][Len(sent[line]) + 1] = ticks'
      BY <1>d, <2>1, <2>6, AppendElements
    <3>3. AllWaiting'
      <4> SUFFICES ASSUME Asking
                   PROVE  /\ \A i \in DOMAIN sent'[line] : sent'[line][i] \in ToSet(toClient'[line])
                          /\ toClient'[line][1] # Response
                                => sent'[line] # << >> /\ toClient'[line][1] = sent'[line][1]
        BY <2>1 DEF AllWaiting, Asking
      <4>1. \A i \in DOMAIN sent[line] : sent[line][i] \in ToSet(toClient[line])
        BY <1>b, <2>6 DEF AllWaiting
      <4>2. \A i \in DOMAIN sent'[line] : sent'[line][i] \in ToSet(toClient'[line])
        BY <3>1, <3>2, <4>1
      <4>3. CASE toClient[line] = << >>
        <5>1. sent[line] = << >>
          <6>1. \A i \in DOMAIN sent[line] : FALSE
            BY <4>1, <4>3 DEF ToSet
          <6> QED
            BY <1>d, <2>6, <6>1, Elements
        <5>2. sent'[line][1] = ticks' /\ toClient'[line][1] = ticks'
          BY <2>6, <4>3, <5>1
        <5> QED
          BY <3>2, <4>2, <5>2
      <4>4. CASE toClient[line] # << >>
        <5>1. toClient'[line][1] = toClient[line][1]
          BY <1>d, <2>6, <4>4, AppendFirst
        <5>2. sent[line] # << >> => sent'[line][1] = sent[line][1]
          BY <1>d, <2>1, <2>6, AppendFirst
        <5>3. toClient[line][1] # Response =>
                sent[line] # << >> /\ toClient[line][1] = sent[line][1]
          BY <1>b, <2>6, <4>4 DEF AllWaiting
        <5> QED
          BY <3>2, <4>2, <5>1, <5>2, <5>3
      <4> QED
        BY <4>3, <4>4
    <3>4. OnlyFirstTickLost'
      BY <1>b, <2>1, <2>6, <3>1, <3>2 DEF OnlyFirstTickLost, Underway
    <3> QED
      BY <3>3, <3>4, <1>e
  <2> QED
    BY <2>2, <2>4, <2>5, <2>6
<1>7. ASSUME NEW l \in Line, Break(l)
      PROVE  Kept'
  <2>1. ~ Up(line)'
    BY <1>7, <1>a DEF Break, Up, Is, LinesOK, TypeOK, threadVars
  <2> QED
    BY <2>1, <1>e DEF AllWaiting, OnlyFirstTickLost
<1>8. ASSUME Connect
      PROVE  Kept'
  <2>1. Up(line)' => line' \in Line /\ line' = lines + 1 /\ lines \in Nat
    BY <1>8, <1>a, BoundsAssumption DEF Connect, Up, Is, TypeOK, Line, NoLine
  <2>2. Up(line)' => sent'[line'] = << >> /\ toClient'[line'] = << >>
    <3>1. sent' = sent /\ toClient' = [l \in Line |-> << >>]
      BY <1>8 DEF Connect, serverVars
    <3>2. Up(line)' => sent[line'] = << >>
      BY <1>a, <2>1 DEF LinesOK
    <3> QED
      BY <2>1, <3>1, <3>2
  <2> QED
    BY <2>2, <1>e DEF AllWaiting, OnlyFirstTickLost
<1> QED
  BY <1>1, <1>2, <1>3, <1>4, <1>5, <1>6, <1>7, <1>8 DEF Next, Application, EventLoop, Server

(***************************************************************************)
(* While a line is up, no sink misses a tick but the first that was sent   *)
(* on it, however the request, the response and the ticks interleave.      *)
(***************************************************************************)
THEOREM OnlyFirstTickLostCorrect == Spec => []OnlyFirstTickLost
<1>1. Kept => OnlyFirstTickLost
  BY DEF Kept
<1> QED
  BY <1>1, InitTypeInv, NextTypeInv, InitKept, NextKept, PTL DEF Spec

-----------------------------------------------------------------------------
(* The Python bindings. Every step is a step of the client, or changes     *)
(* nothing but the interpreter lock.                                       *)

LEMMA PyStep == [PyNext]_pyVars => [Next]_vars
<1> SUFFICES ASSUME [PyNext]_pyVars
             PROVE  [Next]_vars
  OBVIOUS
<1>1. CASE ProgramTakes \/ ProgramYields \/ Ensure \/ UNCHANGED pyVars
  <2>1. UNCHANGED vars
    BY <1>1 DEF ProgramTakes, ProgramYields, Ensure, pyVars
  <2> QED
    BY <2>1
<1>2. CASE PyApplication
  BY <1>2 DEF PyApplication, Next
<1>3. CASE LibraryStep \/ \E s \in Sink : PyDispatch(s)
  BY <1>3 DEF LibraryStep, PyDispatch, Next, EventLoop
<1>4. CASE Server
  BY <1>4 DEF Next
<1> QED
  BY <1>1, <1>2, <1>3, <1>4 DEF PyNext, PyEventLoop

(***************************************************************************)
(* The client behaves in Python as it does in C++: the interpreter lock    *)
(* takes behaviours away and adds none, so that what is proved of the      *)
(* client holds of its binding.                                            *)
(***************************************************************************)
THEOREM PythonClient == PySpec => Spec
<1>1. PyInit => Init
  BY DEF PyInit
<1> QED
  BY <1>1, PyStep, PTL DEF PySpec, Spec

(***************************************************************************)
(* In Python too, outside of the time between startStream and the return   *)
(* of stop no sink is called, and what a sink is given are ticks in order, *)
(* none twice, and all but the first of a line.                            *)
(***************************************************************************)
THEOREM PythonSinks == PySpec => QuietAfterStop /\ SinkSpec /\ []OnlyFirstTickLost
BY PythonClient, QuietAfterStopCorrect, ImplementsStream, OnlyFirstTickLostCorrect

(***************************************************************************)
(* stop waits for the thread with the interpreter lock held, and the       *)
(* thread waits for the lock with a sink to call (python/wrappers.cpp, the *)
(* constructor of GIL in SinkWrap::incomingTick).                          *)
(***************************************************************************)
Deadlocked ==
  /\ apc = "join" /\ gil = "app" /\ ~ run
  /\ epc = "dispatch" /\ visited < LastSink

(***************************************************************************)
(* Nothing ends that state: neither ticks, nor a break of the line, nor    *)
(* the interpreter, since the program does not get to give the lock up.    *)
(***************************************************************************)
THEOREM DeadlockIsFinal == PySpec => [](Deadlocked => []Deadlocked)
<1>1. Deadlocked /\ [PyNext]_pyVars => Deadlocked'
  <2> SUFFICES ASSUME Deadlocked, [PyNext]_pyVars
               PROVE  Deadlocked'
    OBVIOUS
  <2> USE DEF Deadlocked, LastSink
  <2>1. ~ ProgramTakes /\ ~ ProgramYields /\ ~ Ensure
    BY DEF ProgramTakes, ProgramYields, Ensure
  <2>2. ~ PyApplication
    BY DEF PyApplication, Application, StartStream, Stop, Join, Joined
  <2>3. ~ LibraryStep
    <3>1. visited # LastSink
      BY SinksAssumption
    <3> QED
      BY <3>1 DEF LibraryStep, Begin, Connect, Sleep, Ask, ReadResponse, Check, Goes, End, Read,
         Dispatched
  <2>4. \A s \in Sink : ~ PyDispatch(s)
    BY DEF PyDispatch
  <2>5. CASE Server /\ UNCHANGED gil
    BY <2>5 DEF Server, Subscribe, Respond, Break, ProduceTick, appVars, threadVars, sinkVars
  <2>6. CASE UNCHANGED pyVars
    BY <2>6 DEF pyVars, vars, appVars, threadVars, sinkVars
  <2> QED
    BY <2>1, <2>2, <2>3, <2>4, <2>5, <2>6 DEF PyNext, PyEventLoop
<1> QED
  BY <1>1, PTL DEF PySpec
=============================================================================
