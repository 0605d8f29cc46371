-------------------------- MODULE BrokerClientProofs --------------------------
(***************************************************************************)
(* Proofs about BrokerClient, for any number of orders, cancellations,     *)
(* lines and reports: the types, that no order reaches the server twice,   *)
(* that the states of an order advance, and that a client that reads is in *)
(* step with the server.                                                   *)
(***************************************************************************)
EXTENDS BrokerClient, FiniteSetTheorems, SequenceTheorems, WellFoundedInduction, TLAPS

-----------------------------------------------------------------------------
(* Sequences and functions. *)

LEMMA Elements ==
  ASSUME NEW S, NEW s \in Seq(S)
  PROVE  /\ Len(s) \in Nat /\ DOMAIN s = 1 .. Len(s)
         /\ \A i \in DOMAIN s : i \in Nat /\ s[i] \in S
         /\ s # << >> => 1 \in DOMAIN s /\ Head(s) = s[1] /\ Len(s) \in DOMAIN s
BY ElementOfSeq, LenProperties, EmptySeq

LEMMA AppendElements ==
  ASSUME NEW S, NEW s \in Seq(S), NEW e \in S
  PROVE  /\ Append(s, e) \in Seq(S) /\ Append(s, e) # << >>
         /\ Len(Append(s, e)) = Len(s) + 1
         /\ \A i \in DOMAIN Append(s, e) :
              \/ i \in DOMAIN s /\ i <= Len(s) /\ Append(s, e)[i] = s[i]
              \/ i = Len(s) + 1 /\ Append(s, e)[i] = e
<1>1. /\ Append(s, e) \in Seq(S) /\ Append(s, e) # << >>
      /\ Len(Append(s, e)) = Len(s) + 1
      /\ \A i \in 1 .. Len(s) : Append(s, e)[i] = s[i]
      /\ Append(s, e)[Len(s) + 1] = e
  BY AppendProperties
<1>2. DOMAIN Append(s, e) = 1 .. Len(s) + 1 /\ DOMAIN s = 1 .. Len(s) /\ Len(s) \in Nat
  BY <1>1, LenProperties
<1> QED
  BY <1>1, <1>2

LEMMA TailElements ==
  ASSUME NEW S, NEW s \in Seq(S), s # << >>
  PROVE  /\ Tail(s) \in Seq(S) /\ Head(s) \in S /\ Head(s) = s[1]
         /\ \A i \in DOMAIN Tail(s) : i \in Nat /\ i + 1 \in DOMAIN s /\ Tail(s)[i] = s[i + 1]
         /\ \A i \in DOMAIN Tail(s) : i + 1 # 1
<1>1. /\ Tail(s) \in Seq(S) /\ Len(Tail(s)) = Len(s) - 1
      /\ \A i \in 1 .. Len(Tail(s)) : Tail(s)[i] = s[i + 1]
      /\ Head(s) \in S
  BY HeadTailProperties
<1>2. /\ Len(s) \in Nat /\ Len(s) # 0 /\ DOMAIN s = 1 .. Len(s)
      /\ DOMAIN Tail(s) = 1 .. Len(Tail(s)) /\ Head(s) = s[1]
  BY <1>1, LenProperties, EmptySeq
<1> QED
  BY <1>1, <1>2

LEMMA WithoutFirst ==
  ASSUME NEW S, NEW s \in Seq(S), s # << >>
  PROVE  RemoveAt(s, 1) = Tail(s)
<1>1. Len(s) \in Nat /\ Len(s) >= 1
  BY Elements
<1>2. SubSeq(s, 1, 0) = << >>
  BY SubSeqEmpty
<1>3. s = SubSeq(s, 1, Len(s))
  BY SubSeqFull
<1>4. Tail(SubSeq(s, 1, Len(s))) = SubSeq(s, 2, Len(s))
  BY <1>1, HeadTailOfSubSeq
<1>5. Tail(s) \in Seq(S) /\ SubSeq(s, 2, Len(s)) = Tail(s)
  BY <1>3, <1>4, TailElements
<1> QED
  BY <1>2, <1>5, ConcatEmptySeq DEF RemoveAt

LEMMA Updated ==
  ASSUME NEW D, NEW R, NEW f \in [D -> R], NEW c, NEW v, c \in D => v \in R
  PROVE  [f EXCEPT ![c] = v] \in [D -> R]
OBVIOUS

-----------------------------------------------------------------------------
(* Types; the line in use exists, the application sends its newest order,  *)
(* and lists it afterwards.                                                *)

LineOK ==
  epc \in {"ask", "answer", "check", "read", "find", "apply"} => line \in Line

Sending == apc \in {"send", "push"} /\ request.kind = "order"

RequestOK ==
  /\ apc \notin {"send", "push"} => request = GetIdentity
  /\ apc \in {"send", "push"} => request.order \in Order
  /\ apc = "push" => request.kind = "order"
  /\ request.kind = "order" => request.order = created
  /\ Len(orders) + (IF Sending THEN 1 ELSE 0) <= created

ThreadTypes ==
  /\ identity \in BOOLEAN /\ stale \in BOOLEAN /\ crashed \in BOOLEAN
  /\ run \in BOOLEAN /\ stops \in 0 .. 1
  /\ epc \in {"begin", "connect", "ask", "answer", "check", "read", "find", "apply",
              "sleep", "ended"}
  /\ line \in Line \cup {NoLine} /\ lines \in 0 .. MaxLines
  /\ orders \in Seq(Order) /\ state \in [Order -> 0 .. MaxReports]
  /\ report \in Message /\ endAt \in 0 .. MaxRequests
  /\ apc \in {"idle", "send", "push", "join"} /\ request \in Request
  /\ target \in Line \cup {NoLine}
  /\ created \in 0 .. MaxRequests /\ cancels \in 0 .. MaxRequests
  /\ early \subseteq Order

WireTypes ==
  /\ status \in [Line -> {"none", "up", "broken", "destroyed"}]
  /\ toServer \in [Line -> Seq(Request)] /\ toClient \in [Line -> Seq(Message)]
  /\ identified \in [Line -> BOOLEAN] /\ placed \in [Order -> Line \cup {NoLine}]
  /\ arrivals \in [Order -> Nat] /\ reported \in [Order -> 0 .. MaxReports]

Sound == {m \in Message : m.kind = "report" => m.order \in Order}
ReportsOK == toClient \in [Line -> Seq(Sound)]

TypeInv == TypeOK /\ LineOK /\ RequestOK /\ ReportsOK

LEMMA OtherType == Other \in Sound /\ Identity \in Sound /\ Other \in Message
BY BoundsAssumption DEF Other, Identity, Message, Sound

LEMMA SoundMessages == ASSUME NEW f \in [Line -> Seq(Sound)] PROVE f \in [Line -> Seq(Message)]
<1>1. Seq(Sound) \subseteq Seq(Message)
  BY SeqMonotonic DEF Sound
<1> QED
  BY <1>1

LEMMA InitTypeInv == Init => TypeInv
<1> SUFFICES ASSUME Init
             PROVE  TypeInv
  OBVIOUS
<1>1. /\ << >> \in Seq(Order) /\ << >> \in Seq(Request) /\ << >> \in Seq(Sound)
      /\ Len(<< >>) = 0
  OBVIOUS
<1>2. 0 \in 0 .. MaxRequests /\ 0 \in 0 .. MaxLines /\ 0 \in 0 .. MaxReports
  BY BoundsAssumption
<1>3. GetIdentity \in Request
  BY DEF GetIdentity, Request
<1>4. ReportsOK
  BY <1>1 DEF Init, ReportsOK
<1>5. TypeOK
  <2>1. /\ identity \in BOOLEAN /\ stale \in BOOLEAN /\ crashed \in BOOLEAN /\ run \in BOOLEAN
        /\ epc = "begin" /\ apc = "idle"
    BY DEF Init
  <2>2. /\ stops \in 0 .. 1 /\ line \in Line \cup {NoLine} /\ target \in Line \cup {NoLine}
        /\ lines \in 0 .. MaxLines /\ endAt \in 0 .. MaxRequests
        /\ created \in 0 .. MaxRequests /\ cancels \in 0 .. MaxRequests
    BY <1>2 DEF Init
  <2>3. orders \in Seq(Order) /\ early \subseteq Order
    BY <1>1 DEF Init
  <2>4. report \in Message /\ request \in Request
    BY <1>3, OtherType DEF Init
  <2>5. /\ status \in [Line -> {"none", "up", "broken", "destroyed"}]
        /\ identified \in [Line -> BOOLEAN]
    BY DEF Init
  <2>6. toServer \in [Line -> Seq(Request)]
    BY <1>1 DEF Init
  <2>7. toClient \in [Line -> Seq(Message)]
    BY <1>4, SoundMessages DEF ReportsOK
  <2>8. /\ placed \in [Order -> Line \cup {NoLine}] /\ arrivals \in [Order -> Nat]
        /\ reported \in [Order -> 0 .. MaxReports] /\ state \in [Order -> 0 .. MaxReports]
    BY <1>2 DEF Init
  <2> QED
    BY <2>1, <2>2, <2>3, <2>4, <2>5, <2>6, <2>7, <2>8 DEF TypeOK
<1>6. LineOK /\ RequestOK
  BY <1>1 DEF Init, LineOK, RequestOK, Sending, GetIdentity
<1> QED
  BY <1>4, <1>5, <1>6 DEF TypeInv

LEMMA Room == ASSUME TypeInv PROVE Len(orders) \in 0 .. MaxRequests /\ Len(orders) <= created
<1>1. Len(orders) \in Nat /\ created \in 0 .. MaxRequests
  <2>1. orders \in Seq(Order) /\ created \in 0 .. MaxRequests
    BY DEF TypeInv, TypeOK
  <2> QED
    BY <2>1, Elements
<1>2. CASE Sending
  BY <1>1, <1>2, BoundsAssumption DEF TypeInv, RequestOK
<1>3. CASE ~ Sending
  BY <1>1, <1>3, BoundsAssumption DEF TypeInv, RequestOK
<1> QED
  BY <1>2, <1>3

LEMMA NextTypeInv == TypeInv /\ [Next]_vars => TypeInv'
<1> SUFFICES ASSUME TypeInv, [Next]_vars
             PROVE  TypeInv'
  OBVIOUS
<1> USE DEF eventVars, orderVars, appVars, wireVars, serverVars, EventAt, AppAt
<1>a. TypeOK /\ LineOK /\ RequestOK /\ ReportsOK
  BY DEF TypeInv
<1>t. TypeOK
  BY <1>a
<1>1. ASSUME Begin
      PROVE  TypeInv'
  <2>1. UNCHANGED <<identity, line, lines, orders, state, report, endAt, stale,
                   apc, request, target, created, cancels, stops, status,
                   toServer, toClient, identified, placed, arrivals, reported,
                   early, crashed>>
    BY <1>1 DEF Begin
  <2>2. run' \in BOOLEAN /\ epc' = "connect"
    BY <1>1 DEF Begin
  <2>3. TypeOK'
    BY <1>t, <2>1, <2>2 DEF TypeOK
  <2>4. LineOK'
    BY <1>a, <1>1, <2>1, <2>2 DEF LineOK, TypeOK, Begin
  <2>5. RequestOK'
    BY <1>a, <2>1, <2>2 DEF RequestOK, Sending
  <2>6. ReportsOK'
    BY <1>a, <2>1 DEF ReportsOK
  <2> QED
    BY <2>3, <2>4, <2>5, <2>6 DEF TypeInv
<1>2. ASSUME End
      PROVE  TypeInv'
  <2>1. UNCHANGED <<run, identity, line, lines, orders, state, report, endAt,
                   stale, apc, request, target, created, cancels, stops,
                   status, toServer, toClient, identified, placed, arrivals,
                   reported, early, crashed>>
    BY <1>2 DEF End
  <2>2. epc' = "ended"
    BY <1>2 DEF End
  <2>3. TypeOK'
    BY <1>t, <2>1, <2>2 DEF TypeOK
  <2>4. LineOK'
    BY <1>a, <1>2, <2>1, <2>2 DEF LineOK, TypeOK, End
  <2>5. RequestOK'
    BY <1>a, <2>1, <2>2 DEF RequestOK, Sending
  <2>6. ReportsOK'
    BY <1>a, <2>1 DEF ReportsOK
  <2> QED
    BY <2>3, <2>4, <2>5, <2>6 DEF TypeInv
<1>3. ASSUME Connect
      PROVE  TypeInv'
  <2>1. UNCHANGED <<run, identity, orders, state, report, endAt, stale, apc,
                   request, target, created, cancels, stops, toServer,
                   identified, placed, arrivals, reported, early, crashed>>
    BY <1>3 DEF Connect
  <2>2. lines \in 0 .. MaxLines /\ MaxLines \in Nat
    BY <1>a, BoundsAssumption DEF TypeOK
  <2>3. \/ lines < MaxLines /\ lines' = lines + 1 /\ line' = lines'
           /\ epc' = IF identity THEN "sleep" ELSE "ask"
        \/ lines' = lines /\ line' = NoLine /\ epc' = "sleep"
    BY <1>3 DEF Connect
  <2>4. lines' \in 0 .. MaxLines /\ line' \in Line \cup {NoLine}
    BY <2>2, <2>3 DEF Line
  <2>5. status' \in [Line -> {"none", "up", "broken", "destroyed"}]
    <3>1. status \in [Line -> {"none", "up", "broken", "destroyed"}]
      BY <1>a DEF TypeOK
    <3>2. \/ status' = [l \in Line |-> CASE l = lines' -> "up"
                                         [] l = line  -> "destroyed"
                                         [] OTHER     -> status[l]]
          \/ status' = [l \in Line |-> IF l = line THEN "destroyed" ELSE status[l]]
      BY <1>3 DEF Connect
    <3>3. CASE status' = [l \in Line |-> IF l = line THEN "destroyed" ELSE status[l]]
      BY <3>1, <3>3
    <3>4. CASE status' = [l \in Line |-> CASE l = lines' -> "up"
                                            [] l = line  -> "destroyed"
                                            [] OTHER     -> status[l]]
      <4> DEFINE new(l) == CASE l = lines' -> "up"
                             [] l = line  -> "destroyed"
                             [] OTHER     -> status[l]
      <4>1. \A l \in Line : new(l) \in {"none", "up", "broken", "destroyed"}
        BY <3>1
      <4>2. status' = [l \in Line |-> new(l)]
        BY <3>4
      <4> HIDE DEF new
      <4> QED
        BY <4>1, <4>2
    <3> QED
      BY <3>2, <3>3, <3>4
  <2>6. toClient' \in [Line -> Seq(Sound)]
    <3>1. << >> \in Seq(Sound)
      OBVIOUS
    <3>2. toClient \in [Line -> Seq(Sound)]
      BY <1>a DEF TypeOK, ReportsOK
    <3>3. toClient' = [l \in Line |-> IF l = line THEN << >> ELSE toClient[l]]
      BY <1>3 DEF Connect
    <3> QED
      BY <3>1, <3>2, <3>3
  <2>7. epc' \in {"begin", "connect", "ask", "answer", "check", "read", "find", "apply",
                 "sleep", "ended"}
    BY <2>3
  <2>8. toClient' \in [Line -> Seq(Message)]
    BY <2>6, SoundMessages
  <2>9. TypeOK'
    BY <1>t, <2>1, <2>4, <2>5, <2>8, <2>7 DEF TypeOK
  <2>10. LineOK'
    BY <2>2, <2>3, BoundsAssumption DEF LineOK, Line
  <2>11. RequestOK'
    BY <1>a, <2>1, <2>2, <2>3, <2>4, <2>5, <2>6, <2>7 DEF RequestOK, Sending
  <2> QED
    BY <2>9, <2>10, <2>11, <2>6 DEF TypeInv, ReportsOK
<1>4. ASSUME Ask
      PROVE  TypeInv'
  <2>1. UNCHANGED <<run, identity, line, lines, orders, state, report, endAt,
                   stale, apc, request, target, created, cancels, stops,
                   status, toClient, identified, placed, arrivals, reported,
                   early, crashed>>
    BY <1>4 DEF Ask
  <2>2. epc' = "answer" /\ line \in Line
    BY <1>a, <1>4 DEF Ask, LineOK
  <2>3. toServer' \in [Line -> Seq(Request)]
    <3>1. toServer \in [Line -> Seq(Request)] /\ toServer[line] \in Seq(Request)
      BY <1>a, <2>2 DEF TypeOK
    <3>2. GetIdentity \in Request
      BY DEF GetIdentity, Request
    <3>3. Append(toServer[line], GetIdentity) \in Seq(Request)
      BY <3>1, <3>2, AppendElements
    <3>4. \/ toServer' = toServer
          \/ toServer' = [toServer EXCEPT ![line] = Append(toServer[line], GetIdentity)]
      BY <1>4 DEF Ask
    <3> QED
      BY <3>1, <3>3, <3>4, Updated
  <2>4. TypeOK'
    BY <1>t, <2>1, <2>2, <2>3 DEF TypeOK
  <2>5. LineOK'
    BY <2>1, <2>2 DEF LineOK
  <2>6. RequestOK'
    BY <1>a, <2>1, <2>2, <2>3 DEF RequestOK, Sending
  <2>7. ReportsOK'
    BY <1>a, <2>1 DEF ReportsOK
  <2> QED
    BY <2>4, <2>5, <2>6, <2>7 DEF TypeInv
<1>5. ASSUME ReadAnswer
      PROVE  TypeInv'
  <2>1. UNCHANGED <<run, line, lines, orders, state, report, endAt, stale, apc,
                   request, target, created, cancels, stops, status, toServer,
                   identified, placed, arrivals, reported, early, crashed>>
    BY <1>5 DEF ReadAnswer
  <2>2. epc' \in {"check", "sleep"} /\ line \in Line
    BY <1>a, <1>5 DEF ReadAnswer, LineOK
  <2>3. identity' \in BOOLEAN
    BY <1>a, <1>5 DEF ReadAnswer, TypeOK
  <2>4. toClient' \in [Line -> Seq(Sound)]
    <3>1. toClient \in [Line -> Seq(Sound)] /\ toClient[line] \in Seq(Sound)
      BY <1>a, <2>2 DEF TypeOK, ReportsOK
    <3>2. \/ toClient' = toClient
          \/ /\ toClient[line] # << >>
             /\ toClient' = [toClient EXCEPT ![line] = Tail(toClient[line])]
      BY <1>5 DEF ReadAnswer
    <3>3. toClient[line] # << >> => Tail(toClient[line]) \in Seq(Sound)
      BY <3>1, TailElements
    <3> DEFINE rest == Tail(toClient[line])
    <3>5. toClient[line] # << >> => rest \in Seq(Sound)
      BY <3>3
    <3>6. \/ toClient' = toClient
          \/ toClient[line] # << >> /\ toClient' = [toClient EXCEPT ![line] = rest]
      BY <3>2
    <3> HIDE DEF rest
    <3> QED
      BY <3>1, <3>5, <3>6, Updated
  <2>5. toClient' \in [Line -> Seq(Message)]
    BY <2>4, SoundMessages
  <2>6. TypeOK'
    BY <1>t, <2>1, <2>2, <2>3, <2>5 DEF TypeOK
  <2>7. LineOK'
    BY <2>1, <2>2 DEF LineOK
  <2>8. RequestOK'
    BY <1>a, <2>1, <2>2, <2>3, <2>4 DEF RequestOK, Sending
  <2> QED
    BY <2>6, <2>7, <2>8, <2>4 DEF TypeInv, ReportsOK
<1>6. ASSUME Check
      PROVE  TypeInv'
  <2>1. UNCHANGED <<run, identity, line, lines, orders, state, report, endAt,
                   stale, apc, request, target, created, cancels, stops,
                   status, toServer, toClient, identified, placed, arrivals,
                   reported, early, crashed>>
    BY <1>6 DEF Check
  <2>2. epc' \in {"read", "sleep"} /\ line \in Line
    BY <1>a, <1>6 DEF Check, LineOK
  <2>3. TypeOK'
    BY <1>t, <2>1, <2>2 DEF TypeOK
  <2>4. LineOK'
    BY <2>1, <2>2 DEF LineOK
  <2>5. RequestOK'
    BY <1>a, <2>1, <2>2 DEF RequestOK, Sending
  <2>6. ReportsOK'
    BY <1>a, <2>1 DEF ReportsOK
  <2> QED
    BY <2>3, <2>4, <2>5, <2>6 DEF TypeInv
<1>7. ASSUME Read
      PROVE  TypeInv'
  <2>1. UNCHANGED <<run, identity, line, lines, orders, state, stale, apc,
                   request, target, created, cancels, stops, status, toServer,
                   identified, placed, arrivals, reported, crashed>>
    BY <1>7 DEF Read
  <2>2. epc = "read" /\ line \in Line
    BY <1>a, <1>7 DEF Read, LineOK
  <2>3. toClient' \in [Line -> Seq(Sound)]
    <3>1. toClient \in [Line -> Seq(Sound)] /\ toClient[line] \in Seq(Sound)
      BY <1>a, <2>2 DEF TypeOK, ReportsOK
    <3>2. \/ toClient' = toClient
          \/ /\ toClient[line] # << >>
             /\ toClient' = [toClient EXCEPT ![line] = RemoveAt(toClient[line], 1)]
      BY <1>7 DEF Read, Reads
    <3>3. toClient[line] # << >> => Tail(toClient[line]) \in Seq(Sound)
      BY <3>1, TailElements
    <3>4. toClient[line] # << >> => RemoveAt(toClient[line], 1) = Tail(toClient[line])
      BY <3>1, WithoutFirst
    <3> DEFINE rest == RemoveAt(toClient[line], 1)
    <3>5. toClient[line] # << >> => rest \in Seq(Sound)
      BY <3>3, <3>4
    <3>6. \/ toClient' = toClient
          \/ toClient[line] # << >> /\ toClient' = [toClient EXCEPT ![line] = rest]
      BY <3>2
    <3> HIDE DEF rest
    <3> QED
      BY <3>1, <3>5, <3>6, Updated
  <2>4. \/ /\ epc' \in {"check", "sleep"}
           /\ UNCHANGED <<report, endAt, early>>
        \/ /\ toClient[line] # << >>
           /\ epc' = "find" /\ report' = toClient[line][1] /\ endAt' = Len(orders)
           /\ report'.kind = "report"
           /\ early' = early \cup ({report'.order} \ ToSet(orders))
    BY <1>7 DEF Read, Reads, AfterTimeout
  <2>5. toClient[line] # << >> => toClient[line][1] \in Sound
    <3>1. toClient[line] \in Seq(Sound)
      BY <1>a, <2>2 DEF ReportsOK
    <3> QED
      BY <3>1, Elements
  <2>6. report' \in Message
    BY <1>a, <2>4, <2>5 DEF TypeOK, Sound
  <2>7. endAt' \in 0 .. MaxRequests
    BY <1>a, <2>4, Room DEF TypeOK
  <2>8. early' \subseteq Order
    BY <1>a, <2>4, <2>5 DEF TypeOK, Sound
  <2>9. epc' \in {"begin", "connect", "ask", "answer", "check", "read", "find", "apply",
                 "sleep", "ended"}
    BY <2>4
  <2>10. toClient' \in [Line -> Seq(Message)]
    BY <2>3, SoundMessages
  <2>11. TypeOK'
    BY <1>t, <2>1, <2>10, <2>6, <2>7, <2>8, <2>9 DEF TypeOK
  <2>12. LineOK'
    BY <2>1, <2>2 DEF LineOK
  <2>13. RequestOK'
    BY <1>a, <2>1, <2>2, <2>3, <2>4, <2>5, <2>6, <2>7, <2>8, <2>9 DEF RequestOK, Sending
  <2> QED
    BY <2>11, <2>12, <2>13, <2>3 DEF TypeInv, ReportsOK
<1>8. ASSUME Find
      PROVE  TypeInv'
  <2>1. UNCHANGED <<run, identity, line, lines, orders, state, apc, request,
                   target, created, cancels, stops, status, toServer, toClient,
                   identified, placed, arrivals, reported, early, crashed>>
    BY <1>8 DEF Find
  <2>2. epc' \in {"apply", "check"} /\ line \in Line
    BY <1>a, <1>8 DEF Find, LineOK
  <2>3. report' \in Message
    BY <1>a, <1>8, OtherType DEF Find, TypeOK
  <2>4. stale' \in BOOLEAN
    BY <1>8 DEF Find
  <2>5. endAt' \in 0 .. MaxRequests
    BY <1>8, BoundsAssumption DEF Find
  <2>6. TypeOK'
    BY <1>t, <2>1, <2>2, <2>3, <2>4, <2>5 DEF TypeOK
  <2>7. LineOK'
    BY <2>1, <2>2 DEF LineOK
  <2>8. RequestOK'
    BY <1>a, <2>1, <2>2, <2>3, <2>4, <2>5 DEF RequestOK, Sending
  <2>9. ReportsOK'
    BY <1>a, <2>1 DEF ReportsOK
  <2> QED
    BY <2>6, <2>7, <2>8, <2>9 DEF TypeInv
<1>9. ASSUME Apply
      PROVE  TypeInv'
  <2>1. UNCHANGED <<run, identity, line, lines, orders, endAt, apc, request,
                   target, created, cancels, stops, status, toServer, toClient,
                   identified, placed, arrivals, reported, early>>
    BY <1>9 DEF Apply
  <2>2. epc = "apply" /\ epc' \in {"apply", "check"} /\ line \in Line
    BY <1>a, <1>9 DEF Apply, EventAt, LineOK
  <2>3. report' \in Message
    BY <1>a, <1>9, OtherType DEF Apply, TypeOK
  <2>4. stale' \in BOOLEAN /\ crashed' \in BOOLEAN
    BY <1>a, <1>9 DEF Apply, TypeOK
  <2>5. state' \in [Order -> 0 .. MaxReports]
    <3>1. state \in [Order -> 0 .. MaxReports] /\ report.state \in 0 .. MaxReports
      BY <1>a DEF TypeOK, ReportsOK, Message, Sound
    <3>2. state' = state \/ state' = [state EXCEPT ![report.order] = report.state]
      BY <1>9 DEF Apply
    <3> QED
      BY <3>1, <3>2, Updated
  <2>6. TypeOK'
    BY <1>t, <2>1, <2>2, <2>3, <2>4, <2>5 DEF TypeOK
  <2>7. LineOK'
    BY <2>1, <2>2 DEF LineOK
  <2>8. RequestOK'
    BY <1>a, <2>1, <2>2, <2>3, <2>4, <2>5 DEF RequestOK, Sending
  <2>9. ReportsOK'
    BY <1>a, <2>1 DEF ReportsOK
  <2> QED
    BY <2>6, <2>7, <2>8, <2>9 DEF TypeInv
<1>10. ASSUME Sleep
       PROVE  TypeInv'
  <2>1. UNCHANGED <<run, identity, line, lines, orders, state, report, endAt,
                   stale, apc, request, target, created, cancels, stops,
                   status, toServer, toClient, identified, placed, arrivals,
                   reported, early, crashed>>
    BY <1>10 DEF Sleep
  <2>2. epc' = "connect"
    BY <1>10 DEF Sleep
  <2>3. TypeOK'
    BY <1>t, <2>1, <2>2 DEF TypeOK
  <2>4. LineOK'
    BY <1>a, <1>10, <2>1, <2>2 DEF LineOK, TypeOK, Sleep
  <2>5. RequestOK'
    BY <1>a, <2>1, <2>2 DEF RequestOK, Sending
  <2>6. ReportsOK'
    BY <1>a, <2>1 DEF ReportsOK
  <2> QED
    BY <2>3, <2>4, <2>5, <2>6 DEF TypeInv
<1>11. ASSUME SubmitOrder
       PROVE  TypeInv'
  <2>1. UNCHANGED <<run, identity, epc, line, lines, orders, state, report,
                   endAt, stale, cancels, stops, status, toServer, toClient,
                   identified, placed, arrivals, reported, early, crashed>>
    BY <1>11 DEF SubmitOrder
  <2>2. /\ apc = "idle" /\ created' = created + 1 /\ created' \in Order
        /\ request' = [kind |-> "order", order |-> created']
        /\ target' = line /\ apc' = "send"
    <3>1. created \in Nat /\ cancels \in Nat /\ stops \in Nat /\ MaxRequests \in Nat
      BY <1>a, BoundsAssumption DEF TypeOK
    <3>2. created + cancels + stops < MaxRequests => created + 1 \in Order
      BY <3>1 DEF Order
    <3> QED
      BY <1>11, <3>2 DEF SubmitOrder, AppAt
  <2>3. created' \in 0 .. MaxRequests /\ target' \in Line \cup {NoLine}
    BY <1>a, <2>2 DEF TypeOK, Order
  <2>4. request' \in Request
    BY <2>2 DEF Request
  <2>5. TypeOK'
    BY <1>t, <2>1, <2>2, <2>3, <2>4 DEF TypeOK
  <2>6. LineOK'
    BY <1>a, <2>1 DEF LineOK
  <2>7. RequestOK'
    <3>1. Len(orders) \in Nat /\ Len(orders) <= created
      BY Room
    <3> QED
      BY <1>a, <2>1, <2>2, <3>1 DEF RequestOK, Sending, TypeOK
  <2>8. ReportsOK'
    BY <1>a, <2>1 DEF ReportsOK
  <2> QED
    BY <2>5, <2>6, <2>7, <2>8 DEF TypeInv
<1>12. ASSUME NEW o \in Order, CancelOrder(o)
       PROVE  TypeInv'
  <2>1. UNCHANGED <<run, identity, epc, line, lines, orders, state, report,
                   endAt, stale, created, stops, status, toServer, toClient,
                   identified, placed, arrivals, reported, early, crashed>>
    BY <1>12 DEF CancelOrder
  <2>2. /\ apc = "idle" /\ request' = [kind |-> "cancel-order", order |-> o]
        /\ target' = line /\ apc' = "send"
    BY <1>12 DEF CancelOrder, AppAt
  <2>3. cancels' \in 0 .. MaxRequests
    <3>1. created \in Nat /\ cancels \in Nat /\ stops \in Nat /\ MaxRequests \in Nat
      BY <1>a, BoundsAssumption DEF TypeOK
    <3>2. created + cancels + stops < MaxRequests => cancels + 1 \in 0 .. MaxRequests
      BY <3>1
    <3> QED
      BY <1>12, <3>2 DEF CancelOrder
  <2>4. request' \in Request /\ target' \in Line \cup {NoLine}
    BY <1>a, <2>2 DEF Request, TypeOK
  <2>5. TypeOK'
    BY <1>t, <2>1, <2>2, <2>3, <2>4 DEF TypeOK
  <2>6. LineOK'
    BY <1>a, <2>1 DEF LineOK
  <2>7. RequestOK'
    BY <1>a, <2>1, <2>2 DEF RequestOK, Sending
  <2>8. ReportsOK'
    BY <1>a, <2>1 DEF ReportsOK
  <2> QED
    BY <2>5, <2>6, <2>7, <2>8 DEF TypeInv
<1>13. ASSUME Stop
       PROVE  TypeInv'
  <2>1. UNCHANGED <<identity, epc, line, lines, orders, state, report, endAt,
                   stale, request, target, created, cancels, status, toServer,
                   toClient, identified, placed, arrivals, reported, early,
                   crashed>>
    BY <1>13 DEF Stop
  <2>2. apc = "idle" /\ apc' = "join" 
    BY <1>13 DEF Stop, AppAt
  <2>3. stops' \in 0 .. 1
    BY <1>13 DEF Stop
  <2>4. run' \in BOOLEAN
    BY <1>13 DEF Stop
  <2>5. TypeOK'
    BY <1>t, <2>1, <2>2, <2>3, <2>4 DEF TypeOK
  <2>6. LineOK'
    BY <1>a, <2>1 DEF LineOK
  <2>7. RequestOK'
    BY <1>a, <2>1, <2>2 DEF RequestOK, Sending
  <2>8. ReportsOK'
    BY <1>a, <2>1 DEF ReportsOK
  <2> QED
    BY <2>5, <2>6, <2>7, <2>8 DEF TypeInv
<1>14. ASSUME Join
       PROVE  TypeInv'
  <2>1. UNCHANGED <<run, identity, epc, line, lines, orders, state, report,
                   endAt, stale, request, target, created, cancels, stops,
                   status, toServer, toClient, identified, placed, arrivals,
                   reported, early, crashed>>
    BY <1>14 DEF Join
  <2>2. apc = "join" /\ apc' = "idle"
    BY <1>14 DEF Join, AppAt
  <2>3. TypeOK'
    BY <1>t, <2>1, <2>2 DEF TypeOK
  <2>4. LineOK'
    BY <1>a, <2>1 DEF LineOK
  <2>5. RequestOK'
    BY <1>a, <2>1, <2>2 DEF RequestOK, Sending
  <2>6. ReportsOK'
    BY <1>a, <2>1 DEF ReportsOK
  <2> QED
    BY <2>3, <2>4, <2>5, <2>6 DEF TypeInv
<1>15. ASSUME Send
       PROVE  TypeInv'
  <2>1. UNCHANGED <<run, identity, epc, line, lines, orders, state, report,
                   endAt, stale, created, cancels, stops, status, toClient,
                   identified, placed, arrivals, reported, early>>
    BY <1>15 DEF Send
  <2>2. apc = "send" /\ apc' \in {"send", AfterSuccess, AfterFailure}
    BY <1>15 DEF Send, AppAt
  <2>3. apc' = "push" => request.kind = "order"
    BY <2>2 DEF AfterSuccess, AfterFailure
  <2>4. apc' \in {"send", "push", "idle"}
    BY <2>2 DEF AfterSuccess, AfterFailure
  <2>5. request' = IF apc' = "idle" THEN GetIdentity ELSE request
    BY <1>15 DEF Send
  <2>6. target' \in Line \cup {NoLine}
    <3>1. target' = target \/ target' = NoLine
      BY <1>15 DEF Send
    <3> QED
      BY <1>a, <3>1 DEF TypeOK
  <2>7. crashed' \in BOOLEAN
    BY <1>a, <1>15 DEF Send, TypeOK
  <2>8. GetIdentity \in Request /\ request' \in Request
    BY <1>a, <2>5 DEF TypeOK, GetIdentity, Request
  <2>9. toServer' \in [Line -> Seq(Request)]
    <3>1. toServer \in [Line -> Seq(Request)] /\ request \in Request
      BY <1>a DEF TypeOK
    <3>2. \/ toServer' = toServer
          \/ \E l \in Line : toServer' = [toServer EXCEPT ![l] = Append(@, request)]
      BY <1>15 DEF Send
    <3>3. ASSUME NEW l \in Line, toServer' = [toServer EXCEPT ![l] = Append(@, request)]
          PROVE  toServer' \in [Line -> Seq(Request)]
      <4>1. Append(toServer[l], request) \in Seq(Request)
        BY <3>1, AppendElements
      <4> QED
        BY <3>1, <3>3, <4>1, Updated
    <3> QED
      BY <3>1, <3>2, <3>3
  <2>10. TypeOK'
    <3>1. ThreadTypes'
      BY <1>t, <2>1, <2>4, <2>6, <2>7, <2>8, <2>9 DEF TypeOK, ThreadTypes
    <3>2. WireTypes'
      BY <1>t, <2>1, <2>4, <2>6, <2>7, <2>8, <2>9 DEF TypeOK, WireTypes
    <3> QED
      BY <3>1, <3>2 DEF TypeOK, ThreadTypes, WireTypes
  <2>11. LineOK'
    BY <1>a, <2>1 DEF LineOK
  <2>12. RequestOK'
    <3>1. Len(orders) <= created
      BY Room
    <3>2. CASE apc' = "idle"
      BY <2>1, <2>5, <3>1, <3>2 DEF RequestOK, Sending, GetIdentity
    <3>3. CASE apc' \in {"send", "push"}
      <4>1. request' = request
        BY <2>5, <3>3
      <4> QED
        BY <1>a, <2>1, <2>2, <2>3, <3>3, <4>1 DEF RequestOK, Sending
    <3> QED
      BY <2>4, <3>2, <3>3
  <2>13. ReportsOK'
    BY <1>a, <2>1 DEF ReportsOK
  <2> QED
    BY <2>10, <2>11, <2>12, <2>13 DEF TypeInv
<1>16. ASSUME PushOrder
       PROVE  TypeInv'
  <2>1. UNCHANGED <<run, identity, epc, line, lines, state, report, endAt,
                   target, created, cancels, stops, status, toServer, toClient,
                   identified, placed, arrivals, reported, early, crashed>>
    BY <1>16 DEF PushOrder
  <2>2. apc = "push" /\ apc' = "idle" /\ request' = GetIdentity /\ request.kind = "order"
    BY <1>a, <1>16 DEF PushOrder, AppAt, RequestOK
  <2>3. orders' = Append(orders, request.order) /\ request.order \in Order /\ orders \in Seq(Order)
    BY <1>a, <2>2, <1>16 DEF PushOrder, RequestOK, TypeOK
  <2>4. orders' \in Seq(Order) /\ Len(orders') = Len(orders) + 1 /\ Len(orders) \in Nat
    BY <2>3, AppendElements, Elements
  <2>5. stale' \in BOOLEAN
    <3>1. stale \in BOOLEAN
      BY <1>a DEF TypeOK
    <3>2. stale' \in {FALSE} \/ stale' \in {TRUE} \/ stale' \in {stale, TRUE}
      BY <1>16 DEF PushOrder
    <3> QED
      BY <3>1, <3>2
  <2>6. request' \in Request
    BY <2>2 DEF GetIdentity, Request
  <2>7. TypeOK'
    BY <1>t, <2>1, <2>2, <2>4, <2>5, <2>6 DEF TypeOK
  <2>8. LineOK'
    BY <1>a, <2>1 DEF LineOK
  <2>9. RequestOK'
    BY <1>a, <2>1, <2>2, <2>4 DEF RequestOK, Sending, GetIdentity
  <2>10. ReportsOK'
    BY <1>a, <2>1 DEF ReportsOK
  <2> QED
    BY <2>7, <2>8, <2>9, <2>10 DEF TypeInv
<1>17. ASSUME NEW l \in Line, Respond(l)
       PROVE  TypeInv'
  <2>1. UNCHANGED <<run, identity, epc, line, lines, orders, state, report,
                   endAt, stale, apc, request, target, created, cancels, stops,
                   status, reported, early, crashed>>
    BY <1>17 DEF Respond
  <2>2. toServer[l] # << >> /\ toServer[l] \in Seq(Request) /\ toClient[l] \in Seq(Sound)
    BY <1>a, <1>17 DEF Respond, TypeOK, ReportsOK
  <2>3. Head(toServer[l]) \in Request /\ Tail(toServer[l]) \in Seq(Request)
    BY <2>2, TailElements
  <2>4. identified' \in [Line -> BOOLEAN]
    <3>1. identified \in [Line -> BOOLEAN]
      BY <1>a DEF TypeOK
    <3>2. identified' = [identified EXCEPT ![l] =
                            identified[l] \/ Head(toServer[l]).kind = "get-identity"]
      BY <1>17 DEF Respond
    <3>3. (identified[l] \/ Head(toServer[l]).kind = "get-identity") \in BOOLEAN
      OBVIOUS
    <3> QED
      BY <3>1, <3>2, <3>3, Updated
  <2>5. placed' \in [Order -> Line \cup {NoLine}] /\ arrivals' \in [Order -> Nat]
    <3>1. placed \in [Order -> Line \cup {NoLine}] /\ arrivals \in [Order -> Nat]
      BY <1>a DEF TypeOK
    <3>2. CASE Head(toServer[l]).kind = "order"
      <4> DEFINE o == Head(toServer[l]).order
      <4>2. placed' = [placed EXCEPT ![o] = IF identified[l] THEN l ELSE placed[o]]
        BY <1>17, <3>2 DEF Respond
      <4>3. arrivals' = [arrivals EXCEPT ![o] = arrivals[o] + 1]
        BY <1>17, <3>2 DEF Respond
      <4>4. o \in Order => placed[o] \in Line \cup {NoLine} /\ arrivals[o] \in Nat
        BY <3>1
      <4> HIDE DEF o
      <4>5. placed' \in [Order -> Line \cup {NoLine}]
        BY <3>1, <4>2, <4>4, Updated
      <4>6. arrivals' \in [Order -> Nat]
        BY <3>1, <4>3, <4>4, Updated
      <4> QED
        BY <4>5, <4>6
    <3>3. CASE Head(toServer[l]).kind # "order"
      BY <1>17, <3>1, <3>3 DEF Respond
    <3> QED
      BY <3>2, <3>3
  <2>6. toServer' \in [Line -> Seq(Request)]
    <3>1. toServer \in [Line -> Seq(Request)]
      BY <1>a DEF TypeOK
    <3>2. toServer' = [toServer EXCEPT ![l] = Tail(toServer[l])]
      BY <1>17 DEF Respond
    <3> QED
      BY <2>3, <3>1, <3>2, Updated
  <2>7. toClient' \in [Line -> Seq(Sound)]
    <3>1. toClient \in [Line -> Seq(Sound)]
      BY <1>a DEF TypeOK, ReportsOK
    <3>2. toClient' = [toClient EXCEPT ![l] = Append(toClient[l], Answers(l))]
      BY <1>17 DEF Respond
    <3>3. Append(toClient[l], Answers(l)) \in Seq(Sound)
      <4>1. Answers(l) \in Sound
        BY OtherType DEF Answers
      <4> QED
        BY <2>2, <4>1, AppendElements
    <3> QED
      BY <3>1, <3>2, <3>3, Updated
  <2>8. toClient' \in [Line -> Seq(Message)]
    BY <2>7, SoundMessages
  <2>9. TypeOK'
    <3>1. ThreadTypes'
      BY <1>t, <2>1 DEF TypeOK, ThreadTypes
    <3>2. WireTypes'
      BY <1>t, <2>1, <2>4, <2>5, <2>6, <2>8 DEF TypeOK, WireTypes
    <3> QED
      BY <3>1, <3>2 DEF TypeOK, ThreadTypes, WireTypes
  <2>10. LineOK'
    BY <1>a, <2>1 DEF LineOK
  <2>11. RequestOK'
    BY <1>a, <2>1, <2>2, <2>3, <2>4, <2>5, <2>6, <2>7 DEF RequestOK, Sending
  <2> QED
    BY <2>9, <2>10, <2>11, <2>7 DEF TypeInv, ReportsOK
<1>18. ASSUME NEW o \in Order, Report(o)
       PROVE  TypeInv'
  <2>1. UNCHANGED <<run, identity, epc, line, lines, orders, state, report,
                   endAt, stale, apc, request, target, created, cancels, stops,
                   status, toServer, identified, placed, arrivals, early,
                   crashed>>
    BY <1>18 DEF Report
  <2>2. placed[o] \in Line /\ reported[o] < MaxReports /\ reported[o] \in Nat
    <3>1. placed[o] \in Line \cup {NoLine} /\ reported[o] \in 0 .. MaxReports
      BY <1>a DEF TypeOK
    <3>2. placed[o] # NoLine /\ reported[o] < MaxReports
      BY <1>18 DEF Report, Up, Is
    <3> QED
      BY <3>1, <3>2
  <2>3. reported' = [reported EXCEPT ![o] = reported[o] + 1] /\ reported[o] + 1 \in 0 .. MaxReports
    BY <2>2, <1>18, BoundsAssumption DEF Report
  <2>4. reported' \in [Order -> 0 .. MaxReports] /\ reported'[o] = reported[o] + 1
    <3>1. reported \in [Order -> 0 .. MaxReports]
      BY <1>a DEF TypeOK
    <3> QED
      BY <2>3, <3>1, Updated
  <2>5. toClient' \in [Line -> Seq(Sound)]
    <3> DEFINE m == [kind |-> "report", order |-> o, state |-> reported'[o]]
    <3>1. toClient \in [Line -> Seq(Sound)] /\ m \in Sound
      BY <1>a, <2>3, <2>4 DEF TypeOK, ReportsOK, Message, Sound
    <3>2. toClient' = [toClient EXCEPT ![placed[o]] = Append(toClient[placed[o]], m)]
      BY <1>18 DEF Report
    <3> HIDE DEF m
    <3>3. Append(toClient[placed[o]], m) \in Seq(Sound)
      BY <2>2, <3>1, AppendElements
    <3> QED
      BY <3>1, <3>2, <3>3, Updated
  <2>6. toClient' \in [Line -> Seq(Message)]
    BY <2>5, SoundMessages
  <2>7. TypeOK'
    <3>1. ThreadTypes'
      BY <1>t, <2>1 DEF TypeOK, ThreadTypes
    <3>2. WireTypes'
      BY <1>t, <2>1, <2>4, <2>6 DEF TypeOK, WireTypes
    <3> QED
      BY <3>1, <3>2 DEF TypeOK, ThreadTypes, WireTypes
  <2>8. LineOK'
    BY <1>a, <2>1 DEF LineOK
  <2>9. RequestOK'
    BY <1>a, <2>1, <2>2, <2>3, <2>4, <2>5 DEF RequestOK, Sending
  <2> QED
    BY <2>7, <2>8, <2>9, <2>5 DEF TypeInv, ReportsOK
<1>19. ASSUME NEW l \in Line, Break(l)
       PROVE  TypeInv'
  <2>1. UNCHANGED <<run, identity, epc, line, lines, orders, state, report,
                   endAt, stale, apc, request, target, created, cancels, stops,
                   identified, placed, arrivals, reported, early, crashed>>
    BY <1>19 DEF Break
  <2>2. status' \in [Line -> {"none", "up", "broken", "destroyed"}]
    BY <1>a, <1>19, Updated DEF Break, TypeOK
  <2>3. /\ << >> \in Seq(Request) /\ << >> \in Seq(Sound)
    OBVIOUS
  <2>4. toServer' \in [Line -> Seq(Request)]
    <3>1. toServer \in [Line -> Seq(Request)] /\ toServer' = [toServer EXCEPT ![l] = << >>]
      BY <1>a, <1>19 DEF Break, TypeOK, ReportsOK
    <3> QED
      BY <2>3, <3>1, Updated
  <2>5. toClient' \in [Line -> Seq(Sound)]
    <3>1. /\ toClient \in [Line -> Seq(Sound)]
          /\ toClient' = toClient \/ toClient' = [toClient EXCEPT ![l] = << >>]
      BY <1>a, <1>19 DEF Break, TypeOK, ReportsOK
    <3> QED
      BY <2>3, <3>1, Updated
  <2>6. toClient' \in [Line -> Seq(Message)]
    BY <2>5, SoundMessages
  <2>7. TypeOK'
    <3>1. ThreadTypes'
      BY <1>t, <2>1 DEF TypeOK, ThreadTypes
    <3>2. WireTypes'
      BY <1>t, <2>1, <2>2, <2>4, <2>6 DEF TypeOK, WireTypes
    <3> QED
      BY <3>1, <3>2 DEF TypeOK, ThreadTypes, WireTypes
  <2>8. LineOK'
    BY <1>a, <2>1 DEF LineOK
  <2>9. RequestOK'
    BY <1>a, <2>1, <2>2, <2>3, <2>4, <2>5 DEF RequestOK, Sending
  <2> QED
    BY <2>7, <2>8, <2>9, <2>5 DEF TypeInv, ReportsOK
<1>20. CASE Over \/ UNCHANGED vars
  <2>1. UNCHANGED vars
    BY <1>20 DEF Over
  <2>2. TypeOK'
    BY <1>a, <2>1 DEF TypeOK, vars
  <2>3. LineOK' /\ RequestOK' /\ ReportsOK'
    BY <1>a, <2>1 DEF LineOK, RequestOK, Sending, ReportsOK, vars
  <2> QED
    BY <2>2, <2>3 DEF TypeInv
<1> QED
  BY <1>1, <1>2, <1>3, <1>4, <1>5, <1>6, <1>7, <1>8, <1>9, <1>10, <1>11, <1>12, <1>13, <1>14,
     <1>15, <1>16, <1>17, <1>18, <1>19, <1>20 DEF Next, EventLoop, Application, Server

(***************************************************************************)
(* Every variable has its type.                                            *)
(***************************************************************************)
THEOREM TypeCorrect == Spec => []TypeOK
<1>1. TypeInv => TypeOK
  BY DEF TypeInv
<1> QED
  BY InitTypeInv, NextTypeInv, <1>1, PTL DEF Spec

-----------------------------------------------------------------------------
(***************************************************************************)
(* An order that was not sent yet is neither on the way nor has arrived;   *)
(* otherwise it is on the way once, or has arrived once, or was lost.      *)
(***************************************************************************)
OrderRequest(o) == [kind |-> "order", order |-> o]

OnWay(l, i, o) == i \in DOMAIN toServer[l] /\ toServer[l][i] = OrderRequest(o)

Unsent(o) == o > created \/ (apc = "send" /\ request = OrderRequest(o))

OneCopy ==
  \A o \in Order : \A k, l \in Line : \A i, j \in Nat :
     OnWay(k, i, o) /\ OnWay(l, j, o) => k = l /\ i = j

Arrived ==
  \A o \in Order :
    /\ arrivals[o] \in {0, 1}
    /\ arrivals[o] = 1 => \A l \in Line : \A i \in Nat : ~ OnWay(l, i, o)

NotYet ==
  \A o \in Order :
     Unsent(o) => arrivals[o] = 0 /\ \A l \in Line : \A i \in Nat : ~ OnWay(l, i, o)

Once == OneCopy /\ Arrived /\ NotYet

LEMMA InitOnce == Init => Once
<1> SUFFICES ASSUME Init
             PROVE  Once
  OBVIOUS
<1>1. \A l \in Line : \A i, o : ~ OnWay(l, i, o)
  BY DEF Init, OnWay
<1>2. \A o \in Order : arrivals[o] = 0
  BY DEF Init
<1> QED
  BY <1>1, <1>2 DEF Once, OneCopy, Arrived, NotYet

(* Steps by which no order comes to the server. *)

LEMMA NoneComes ==
  ASSUME Once, UNCHANGED arrivals,
         \A l \in Line : \A i \in Nat : \A o \in Order : OnWay(l, i, o)' => OnWay(l, i, o),
         \A o \in Order : Unsent(o)' => Unsent(o)
  PROVE  Once'
<1>1. OneCopy'
  BY DEF Once, OneCopy
<1>2. Arrived'
  BY DEF Once, Arrived
<1>3. NotYet'
  BY DEF Once, NotYet
<1> QED
  BY <1>1, <1>2, <1>3 DEF Once

LEMMA NothingSent ==
  ASSUME Once, UNCHANGED <<arrivals, toServer>>, \A o \in Order : Unsent(o)' => Unsent(o)
  PROVE  Once'
<1>1. \A l \in Line : \A i \in Nat : \A o \in Order : OnWay(l, i, o)' => OnWay(l, i, o)
  BY DEF OnWay
<1> QED
  BY <1>1, NoneComes

(* What is appended to a line comes after what waits there. *)

LEMMA Appended ==
  ASSUME TypeInv, NEW l \in Line, NEW r \in Request,
         toServer' = [toServer EXCEPT ![l] = Append(@, r)],
         NEW o \in Order, NEW k \in Line, NEW i \in Nat, OnWay(k, i, o)'
  PROVE  OnWay(k, i, o) \/ (r = OrderRequest(o) /\ k = l /\ i = Len(toServer[l]) + 1)
<1>1. toServer \in [Line -> Seq(Request)] /\ toServer[l] \in Seq(Request)
  BY DEF TypeInv, TypeOK
<1>2. toServer'[k] = IF k = l THEN Append(toServer[l], r) ELSE toServer[k]
  BY <1>1
<1>3. CASE k # l
  BY <1>2, <1>3 DEF OnWay
<1>4. CASE k = l
  <2>1. \/ i \in DOMAIN toServer[l] /\ Append(toServer[l], r)[i] = toServer[l][i]
        \/ i = Len(toServer[l]) + 1 /\ Append(toServer[l], r)[i] = r
    <3>1. i \in DOMAIN Append(toServer[l], r)
      BY <1>2, <1>4 DEF OnWay
    <3> QED
      BY <1>1, <3>1, AppendElements
  <2> QED
    BY <1>2, <1>4, <2>1 DEF OnWay
<1> QED
  BY <1>3, <1>4

LEMMA NextOnce == TypeInv /\ Once /\ [Next]_vars => Once'
<1> SUFFICES ASSUME TypeInv, Once, [Next]_vars
             PROVE  Once'
  OBVIOUS
<1> USE DEF eventVars, orderVars, appVars, wireVars, serverVars, EventAt, AppAt
<1>a. TypeOK /\ RequestOK /\ created \in Nat
  BY DEF TypeInv, TypeOK
<1>1. ASSUME UNCHANGED <<arrivals, toServer, apc, request, created>>
      PROVE  Once'
  <2>1. \A o \in Order : Unsent(o)' => Unsent(o)
    BY <1>1 DEF Unsent
  <2> QED
    BY <1>1, <2>1, NothingSent
<1>2. CASE Begin \/ End \/ Connect \/ ReadAnswer \/ Check
  BY <1>1, <1>2 DEF Begin, End, Connect, ReadAnswer, Check
<1>3. CASE Read \/ Find \/ Apply \/ Sleep
  BY <1>1, <1>3 DEF Read, Find, Apply, Sleep
<1>4. CASE Over \/ UNCHANGED vars
  BY <1>1, <1>4 DEF Over, vars
<1>5. ASSUME NEW o \in Order, Report(o)
      PROVE  Once'
  BY <1>1, <1>5 DEF Report
<1>6. CASE Ask
  <2>1. /\ UNCHANGED <<arrivals, apc, request, created>> /\ epc = "ask"
        /\ \/ toServer' = toServer
           \/ toServer' = [toServer EXCEPT ![line] = Append(@, GetIdentity)]
    BY <1>6 DEF Ask
  <2>2. CASE toServer' = toServer
    BY <1>1, <2>1, <2>2
  <2>3. CASE toServer' = [toServer EXCEPT ![line] = Append(@, GetIdentity)]
    <3>1. line \in Line /\ GetIdentity \in Request
      BY <2>1 DEF TypeInv, LineOK, GetIdentity, Request
    <3>2. \A o : GetIdentity # OrderRequest(o)
      BY DEF GetIdentity, OrderRequest
    <3>3. \A l \in Line : \A i \in Nat : \A o \in Order : OnWay(l, i, o)' => OnWay(l, i, o)
      BY <2>3, <3>1, <3>2, Appended
    <3>4. \A o \in Order : Unsent(o)' => Unsent(o)
      BY <2>1 DEF Unsent
    <3> QED
      BY <2>1, <3>3, <3>4, NoneComes
  <2> QED
    BY <2>1, <2>2, <2>3
<1>7. CASE SubmitOrder
  <2>1. /\ UNCHANGED <<arrivals, toServer>> /\ created' = created + 1
        /\ request' = OrderRequest(created')
    BY <1>7 DEF SubmitOrder, OrderRequest
  <2>2. ASSUME NEW o \in Order, Unsent(o)'
        PROVE  Unsent(o)
    <3>1. o > created' \/ request' = OrderRequest(o)
      BY <2>2 DEF Unsent
    <3>2. request' = OrderRequest(o) => o = created'
      BY <2>1 DEF OrderRequest
    <3>3. o > created
      BY <1>a, <2>1, <3>1, <3>2 DEF Order
    <3> QED
      BY <3>3 DEF Unsent
  <2> QED
    BY <2>1, <2>2, NothingSent
<1>8. ASSUME NEW c \in Order, CancelOrder(c)
      PROVE  Once'
  <2>1. /\ UNCHANGED <<arrivals, toServer, created>>
        /\ request' = [kind |-> "cancel-order", order |-> c]
    BY <1>8 DEF CancelOrder
  <2>2. \A o \in Order : Unsent(o)' => Unsent(o)
    BY <2>1 DEF Unsent, OrderRequest
  <2> QED
    BY <2>1, <2>2, NothingSent
<1>9. CASE Stop \/ Join \/ PushOrder
  <2>1. UNCHANGED <<arrivals, toServer, created>> /\ apc' # "send"
    BY <1>9 DEF Stop, Join, PushOrder
  <2>2. \A o \in Order : Unsent(o)' => Unsent(o)
    BY <2>1 DEF Unsent
  <2> QED
    BY <2>1, <2>2, NothingSent
<1>10. ASSUME NEW l \in Line, Break(l)
       PROVE  Once'
  <2>1. /\ UNCHANGED <<arrivals, apc, request, created>>
        /\ toServer' = [toServer EXCEPT ![l] = << >>] /\ toServer \in [Line -> Seq(Request)]
    BY <1>10, <1>a DEF Break, TypeOK
  <2>2. \A k \in Line : \A i \in Nat : \A o \in Order : OnWay(k, i, o)' => OnWay(k, i, o)
    <3>1. \A k \in Line : toServer'[k] = IF k = l THEN << >> ELSE toServer[k]
      BY <2>1
    <3> QED
      BY <3>1 DEF OnWay
  <2>3. \A o \in Order : Unsent(o)' => Unsent(o)
    BY <2>1 DEF Unsent
  <2> QED
    BY <2>1, <2>2, <2>3, NoneComes
<1>11. CASE Send
  <2>1. /\ apc = "send" /\ UNCHANGED <<arrivals, created>>
        /\ request' = IF apc' = "idle" THEN GetIdentity ELSE request
    BY <1>11 DEF Send
  <2>2. \/ UNCHANGED toServer
        \/ /\ \E l \in Line : toServer' = [toServer EXCEPT ![l] = Append(@, request)]
           /\ apc' = AfterSuccess
    BY <1>11 DEF Send
  <2>3. \A o \in Order : Unsent(o)' => Unsent(o)
    BY <2>1 DEF Unsent, OrderRequest, GetIdentity
  <2>4. CASE UNCHANGED toServer
    BY <2>1, <2>3, <2>4, NothingSent
  <2>5. ASSUME NEW l \in Line, toServer' = [toServer EXCEPT ![l] = Append(@, request)],
               apc' = AfterSuccess
        PROVE  Once'
    <3>1. request \in Request /\ apc' # "send"
      BY <1>a, <2>5 DEF TypeOK, AfterSuccess
    <3>2. \A o \in Order : Unsent(o)' => Unsent(o) /\ request # OrderRequest(o)
      <4>1. \A o \in Order : Unsent(o)' => o > created
        BY <2>1, <3>1 DEF Unsent
      <4>2. \A o \in Order : request = OrderRequest(o) => ~ o > created
        BY <1>a DEF RequestOK, OrderRequest, Order
      <4> QED
        BY <2>3, <4>1, <4>2
    <3>3. \A o \in Order : request = OrderRequest(o) => Unsent(o)
      BY <2>1 DEF Unsent
    <3>4. \A o \in Order : \A k \in Line : \A i \in Nat :
             OnWay(k, i, o)' => \/ OnWay(k, i, o)
                                \/ request = OrderRequest(o) /\ k = l
                                     /\ i = Len(toServer[l]) + 1
      BY <2>5, <3>1, Appended
    <3>5. \A o \in Order : request = OrderRequest(o) =>
             arrivals[o] = 0 /\ \A k \in Line : \A i \in Nat : ~ OnWay(k, i, o)
      BY <3>3 DEF Once, NotYet
    <3>6. OneCopy'
      BY <3>4, <3>5 DEF Once, OneCopy
    <3>7. Arrived'
      BY <2>1, <3>4, <3>5 DEF Once, Arrived
    <3>8. NotYet'
      BY <2>1, <3>2, <3>4 DEF Once, NotYet
    <3> QED
      BY <3>6, <3>7, <3>8 DEF Once
  <2> QED
    BY <2>2, <2>4, <2>5
<1>12. ASSUME NEW l \in Line, Respond(l)
       PROVE  Once'
  <2> DEFINE r == Head(toServer[l])
  <2>1. /\ UNCHANGED <<apc, request, created>> /\ toServer[l] # << >>
        /\ toServer' = [toServer EXCEPT ![l] = Tail(@)]
        /\ IF r.kind = "order" THEN arrivals' = [arrivals EXCEPT ![r.order] = @ + 1]
                               ELSE arrivals' = arrivals
    BY <1>12 DEF Respond
  <2>2. /\ toServer \in [Line -> Seq(Request)] /\ toServer[l] \in Seq(Request)
        /\ arrivals \in [Order -> Nat]
    BY <1>a DEF TypeOK
  <2>3. /\ r \in Request /\ r = toServer[l][1] /\ 1 \in DOMAIN toServer[l]
        /\ \A i \in DOMAIN Tail(toServer[l]) :
             i \in Nat /\ i + 1 \in DOMAIN toServer[l] /\ i + 1 # 1
               /\ Tail(toServer[l])[i] = toServer[l][i + 1]
    BY <2>1, <2>2, TailElements, Elements
  <2>4. \A k \in Line : toServer'[k] = IF k = l THEN Tail(toServer[l]) ELSE toServer[k]
    BY <2>1, <2>2
  <2>5. \A o : Unsent(o)' <=> Unsent(o)
    BY <2>1 DEF Unsent
  <2> DEFINE was(k, i) == IF k = l THEN i + 1 ELSE i
  <2>6. \A k \in Line : \A i \in Nat : \A o \in Order :
           OnWay(k, i, o)' => OnWay(k, was(k, i), o) /\ was(k, i) \in Nat
                                /\ ~ (k = l /\ was(k, i) = 1)
    <3> SUFFICES ASSUME NEW k \in Line, NEW i \in Nat, NEW o \in Order, OnWay(k, i, o)'
                 PROVE  OnWay(k, was(k, i), o) /\ was(k, i) \in Nat
                          /\ ~ (k = l /\ was(k, i) = 1)
      OBVIOUS
    <3>1. i \in DOMAIN toServer'[k] /\ toServer'[k][i] = OrderRequest(o)
      BY DEF OnWay
    <3>2. CASE k # l
      BY <2>4, <3>1, <3>2 DEF OnWay
    <3>3. CASE k = l
      <4>1. i \in DOMAIN Tail(toServer[l]) /\ Tail(toServer[l])[i] = OrderRequest(o)
        BY <2>4, <3>1, <3>3
      <4> QED
        BY <2>3, <3>3, <4>1 DEF OnWay
    <3> QED
      BY <3>2, <3>3
  <2>7. \A k \in Line : \A i, j \in Nat : was(k, i) = was(k, j) => i = j
    OBVIOUS
  <2> HIDE DEF was
  <2>8. OneCopy'
    BY <2>6, <2>7 DEF Once, OneCopy
  <2>9. CASE r.kind # "order"
    <3>1. UNCHANGED arrivals
      BY <2>1, <2>9
    <3>2. Arrived'
      BY <2>6, <3>1 DEF Once, Arrived
    <3>3. NotYet'
      BY <2>5, <2>6, <3>1 DEF Once, NotYet
    <3> QED
      BY <2>8, <3>2, <3>3 DEF Once
  <2>10. CASE r.kind = "order" /\ r.order \notin Order
    <3>1. UNCHANGED arrivals
      BY <2>1, <2>2, <2>10
    <3>2. Arrived'
      BY <2>6, <3>1 DEF Once, Arrived
    <3>3. NotYet'
      BY <2>5, <2>6, <3>1 DEF Once, NotYet
    <3> QED
      BY <2>8, <3>2, <3>3 DEF Once
  <2>11. CASE r.kind = "order" /\ r.order \in Order
    <3>q. PICK q \in Order : q = r.order
      BY <2>11
    <3>1. r = OrderRequest(q)
      BY <2>3, <2>11, <3>q DEF Request, OrderRequest
    <3>2. OnWay(l, 1, q)
      BY <2>3, <3>1 DEF OnWay
    <3>3. arrivals[q] = 0 /\ ~ Unsent(q)
      BY <3>q, <3>2 DEF Once, Arrived, NotYet
    <3>4. \A o \in Order : arrivals'[o] = IF o = q THEN 1 ELSE arrivals[o]
      BY <2>1, <2>2, <2>11, <3>q, <3>3
    <3>5. \A k \in Line : \A i \in Nat : ~ OnWay(k, i, q)'
      <4> SUFFICES ASSUME NEW k \in Line, NEW i \in Nat, OnWay(k, i, q)'
                   PROVE  FALSE
        OBVIOUS
      <4>1. OnWay(k, was(k, i), q) /\ was(k, i) \in Nat /\ ~ (k = l /\ was(k, i) = 1)
        BY <2>6
      <4>2. k = l /\ was(k, i) = 1
        BY <3>2, <4>1 DEF Once, OneCopy
      <4> QED
        BY <4>1, <4>2
    <3>6. Arrived'
      <4> SUFFICES ASSUME NEW o \in Order
                   PROVE  /\ arrivals'[o] \in {0, 1}
                          /\ arrivals'[o] = 1 =>
                               \A k \in Line : \A i \in Nat : ~ OnWay(k, i, o)'
        BY DEF Arrived
      <4>1. CASE o = q
        BY <3>4, <3>5, <4>1
      <4>2. CASE o # q
        <5>1. arrivals'[o] = arrivals[o]
          BY <3>4, <4>2
        <5>2. /\ arrivals[o] \in {0, 1}
              /\ arrivals[o] = 1 => \A k \in Line : \A i \in Nat : ~ OnWay(k, i, o)
          BY DEF Once, Arrived
        <5>3. ASSUME arrivals[o] = 1, NEW k \in Line, NEW i \in Nat
              PROVE  ~ OnWay(k, i, o)'
          BY <2>6, <5>2, <5>3
        <5> QED
          BY <5>1, <5>2, <5>3
      <4> QED
        BY <4>1, <4>2
    <3>7. NotYet'
      BY <2>5, <2>6, <3>3, <3>4 DEF Once, NotYet
    <3> QED
      BY <2>8, <3>6, <3>7 DEF Once
  <2> QED
    BY <2>9, <2>10, <2>11
<1> QED
  BY <1>2, <1>3, <1>4, <1>5, <1>6, <1>7, <1>8, <1>9, <1>10, <1>11, <1>12
     DEF Next, EventLoop, Application, Server

(***************************************************************************)
(* However often the line is replaced while submitOrder tries, no order    *)
(* reaches the server twice.                                               *)
(***************************************************************************)
THEOREM SubmittedOnceCorrect == Spec => []SubmittedOnce
<1>1. TypeInv /\ Once => SubmittedOnce
  <2> SUFFICES ASSUME TypeInv, Once, NEW o \in Order
               PROVE  Cardinality(Copies(o)) + arrivals[o] <= 1
    BY DEF SubmittedOnce
  <2>1. \A c \in Copies(o) : \E l \in Line : \E i \in Nat : c = <<l, i>> /\ OnWay(l, i, o)
    <3>1. \A l \in Line : DOMAIN toServer[l] \subseteq Nat
      <4>1. \A l \in Line : toServer[l] \in Seq(Request)
        BY DEF TypeInv, TypeOK
      <4> QED
        BY <4>1, Elements
    <3> QED
      BY <3>1 DEF Copies, OnWay, OrderRequest
  <2>2. \A c, d \in Copies(o) : c = d
    BY <2>1 DEF Once, OneCopy
  <2>3. arrivals[o] \in {0, 1} /\ (arrivals[o] = 1 => Copies(o) = {})
    BY <2>1 DEF Once, Arrived
  <2>4. CASE Copies(o) = {}
    BY <2>3, <2>4, FS_EmptySet
  <2>5. CASE Copies(o) # {}
    <3>1. PICK c : Copies(o) = {c}
      BY <2>2, <2>5
    <3>2. Cardinality(Copies(o)) = 1
      BY <3>1, FS_Singleton
    <3> QED
      BY <2>3, <2>5, <3>2
  <2> QED
    BY <2>4, <2>5
<1> QED
  BY InitTypeInv, NextTypeInv, InitOnce, NextOnce, <1>1, PTL DEF Spec

-----------------------------------------------------------------------------
(***************************************************************************)
(* The reports about an order wait on one line, in the order of their      *)
(* states, none behind the state the client has and none ahead of what     *)
(* the server has reported; the one in hand is not ahead of those.         *)
(***************************************************************************)
IsReport(l, i, o) ==
  i \in DOMAIN toClient[l] /\ toClient[l][i].kind = "report" /\ toClient[l][i].order = o

StateAt(l, i) == toClient[l][i].state

Placing ==
  \A o \in Order : /\ arrivals[o] = 0 => placed[o] = NoLine
                   /\ placed[o] = NoLine => reported[o] = 0
                   /\ state[o] <= reported[o]

Between ==
  \A o \in Order, l \in Line : \A i \in Nat :
     IsReport(l, i, o) =>
       l = placed[o] /\ state[o] <= StateAt(l, i) /\ StateAt(l, i) <= reported[o]

Ordered ==
  \A o \in Order, l \in Line : \A i, j \in Nat :
     IsReport(l, i, o) /\ IsReport(l, j, o) /\ i < j => StateAt(l, i) <= StateAt(l, j)

Holding == epc \in {"find", "apply"}

InHand ==
  Holding =>
    /\ report.order \in Order
    /\ state[report.order] <= report.state /\ report.state <= reported[report.order]
    /\ \A l \in Line : \A i \in Nat :
         IsReport(l, i, report.order) => report.state <= StateAt(l, i)

Advancing == Placing /\ Between /\ Ordered /\ InHand

LEMMA InitAdvancing == Init => Advancing
<1> SUFFICES ASSUME Init
             PROVE  Advancing
  OBVIOUS
<1>1. \A l \in Line : \A i, o : ~ IsReport(l, i, o)
  BY DEF Init, IsReport
<1>2. \A o \in Order : placed[o] = NoLine /\ reported[o] = 0 /\ state[o] = 0
  BY DEF Init
<1>3. ~ Holding
  BY DEF Init, Holding
<1>4. Placing
  BY <1>2 DEF Placing
<1> QED
  BY <1>1, <1>3, <1>4 DEF Advancing, Between, Ordered, InHand

LEMMA StateTypes ==
  ASSUME TypeInv
  PROVE  /\ \A o \in Order : /\ state[o] \in Nat /\ reported[o] \in Nat
                             /\ placed[o] \in Line \cup {NoLine}
         /\ \A l \in Line : toClient[l] \in Seq(Sound) /\ DOMAIN toClient[l] \subseteq Nat
         /\ \A l \in Line, o \in Order : \A i \in Nat : IsReport(l, i, o) => StateAt(l, i) \in Nat
         /\ report.state \in Nat
<1>1. \A l \in Line : toClient[l] \in Seq(Sound)
  BY DEF TypeInv, ReportsOK
<1>2. \A l \in Line : \A i \in DOMAIN toClient[l] : i \in Nat /\ toClient[l][i] \in Sound
  BY <1>1, Elements
<1>3. \A m \in Message : m.state \in Nat
  BY BoundsAssumption DEF Message
<1>4. \A o \in Order : state[o] \in Nat /\ reported[o] \in Nat
  BY BoundsAssumption DEF TypeInv, TypeOK
<1>5. (\A o \in Order : placed[o] \in Line \cup {NoLine}) /\ report \in Message
  BY DEF TypeInv, TypeOK
<1>6. \A l \in Line, o \in Order : \A i \in Nat : IsReport(l, i, o) => StateAt(l, i) \in Nat
  BY <1>2, <1>3 DEF IsReport, StateAt, Sound
<1> QED
  BY <1>1, <1>2, <1>3, <1>4, <1>5, <1>6

(* Steps that take messages from the front of lines, or none. *)

LEMMA Shifted ==
  ASSUME TypeInv, Advancing, NEW n \in [Line -> Nat],
         UNCHANGED <<state, reported>>, Placing',
         \A o \in Order : placed'[o] = placed[o] \/ placed[o] = NoLine,
         Holding' => Holding /\ report' = report,
         \A l \in Line : \A i \in Nat : \A o \in Order :
            IsReport(l, i, o)' => IsReport(l, i + n[l], o) /\ StateAt(l, i)' = StateAt(l, i + n[l])
  PROVE  Advancing'
<1>1. \A l \in Line : \A i \in Nat : i + n[l] \in Nat
  OBVIOUS
<1>2. Between'
  <2> SUFFICES ASSUME NEW o \in Order, NEW l \in Line, NEW i \in Nat, IsReport(l, i, o)'
               PROVE  l = placed'[o] /\ state[o] <= StateAt(l, i)'
                        /\ StateAt(l, i)' <= reported[o]
    BY DEF Between
  <2>1. IsReport(l, i + n[l], o) /\ StateAt(l, i)' = StateAt(l, i + n[l]) /\ i + n[l] \in Nat
    BY <1>1
  <2>2. /\ l = placed[o] /\ state[o] <= StateAt(l, i + n[l])
        /\ StateAt(l, i + n[l]) <= reported[o]
    BY <2>1 DEF Advancing, Between
  <2>3. placed'[o] = placed[o]
    BY <2>2 DEF Line, NoLine
  <2> QED
    BY <2>1, <2>2, <2>3
<1>3. Ordered'
  <2> SUFFICES ASSUME NEW o \in Order, NEW l \in Line, NEW i \in Nat, NEW j \in Nat,
                      IsReport(l, i, o)', IsReport(l, j, o)', i < j
               PROVE  StateAt(l, i)' <= StateAt(l, j)'
    BY DEF Ordered
  <2>1. /\ IsReport(l, i + n[l], o) /\ StateAt(l, i)' = StateAt(l, i + n[l])
        /\ IsReport(l, j + n[l], o) /\ StateAt(l, j)' = StateAt(l, j + n[l])
    OBVIOUS
  <2>2. i + n[l] \in Nat /\ j + n[l] \in Nat /\ i + n[l] < j + n[l]
    OBVIOUS
  <2> QED
    BY <2>1, <2>2 DEF Advancing, Ordered
<1>4. InHand'
  <2> SUFFICES ASSUME Holding'
               PROVE  InHand'
    BY DEF InHand
  <2>1. Holding /\ report' = report
    OBVIOUS
  <2>2. /\ report.order \in Order
        /\ state[report.order] <= report.state /\ report.state <= reported[report.order]
        /\ \A l \in Line : \A i \in Nat :
             IsReport(l, i, report.order) => report.state <= StateAt(l, i)
    BY <2>1 DEF Advancing, InHand
  <2>3. PICK o \in Order : o = report.order
    BY <2>2
  <2>4. ASSUME NEW l \in Line, NEW i \in Nat, IsReport(l, i, o)'
        PROVE  report.state <= StateAt(l, i)'
    <3>1. IsReport(l, i + n[l], o) /\ StateAt(l, i)' = StateAt(l, i + n[l])
      BY <2>4
    <3> QED
      BY <1>1, <2>2, <2>3, <3>1
  <2>5. \A l \in Line : \A i \in Nat : IsReport(l, i, report.order)' => IsReport(l, i, o)'
    BY <2>1, <2>3 DEF IsReport
  <2> QED
    BY <2>1, <2>2, <2>4, <2>5 DEF InHand
<1> QED
  BY <1>2, <1>3, <1>4 DEF Advancing

LEMMA NothingRead ==
  ASSUME TypeInv, Advancing, UNCHANGED <<state, reported, placed, arrivals>>,
         Holding' => Holding /\ report' = report,
         \A l \in Line : toClient'[l] \in {toClient[l], << >>}
  PROVE  Advancing'
<1>1. Placing'
  BY DEF Advancing, Placing
<1> DEFINE n == [l \in Line |-> 0]
<1>2. n \in [Line -> Nat] /\ \A l \in Line : n[l] = 0
  OBVIOUS
<1> HIDE DEF n
<1>3. ASSUME NEW l \in Line, NEW i \in Nat, NEW o \in Order, IsReport(l, i, o)'
      PROVE  IsReport(l, i + n[l], o) /\ StateAt(l, i)' = StateAt(l, i + n[l])
  <2>1. i + n[l] = i
    BY <1>2
  <2>2. toClient'[l] = toClient[l]
    BY <1>3 DEF IsReport
  <2> QED
    BY <1>3, <2>1, <2>2 DEF IsReport, StateAt
<1> QED
  BY <1>1, <1>2, <1>3, Shifted

LEMMA FirstRead ==
  ASSUME TypeInv, Advancing, NEW k \in Line, toClient[k] # << >>,
         UNCHANGED <<state, reported, placed, arrivals>>, ~ Holding',
         toClient' = [toClient EXCEPT ![k] = Tail(@)]
  PROVE  Advancing'
<1>1. Placing'
  BY DEF Advancing, Placing
<1> DEFINE n == [l \in Line |-> IF l = k THEN 1 ELSE 0]
<1>2. n \in [Line -> Nat] /\ \A l \in Line : n[l] = IF l = k THEN 1 ELSE 0
  OBVIOUS
<1> HIDE DEF n
<1>3. ASSUME NEW l \in Line, NEW i \in Nat, NEW o \in Order, IsReport(l, i, o)'
      PROVE  IsReport(l, i + n[l], o) /\ StateAt(l, i)' = StateAt(l, i + n[l])
  <2>1. toClient \in [Line -> Seq(Sound)] /\ toClient[k] \in Seq(Sound)
    BY DEF TypeInv, ReportsOK
  <2>2. \A j \in DOMAIN Tail(toClient[k]) :
           j + 1 \in DOMAIN toClient[k] /\ Tail(toClient[k])[j] = toClient[k][j + 1]
    BY <2>1, TailElements
  <2>3. toClient'[l] = IF l = k THEN Tail(toClient[k]) ELSE toClient[l]
    BY <2>1
  <2>4. CASE l = k
    <3>1. i + n[l] = i + 1
      BY <1>2, <2>4
    <3> QED
      BY <1>3, <2>2, <2>3, <2>4, <3>1 DEF IsReport, StateAt
  <2>5. CASE l # k
    <3>1. i + n[l] = i
      BY <1>2, <2>5
    <3> QED
      BY <1>3, <2>3, <2>5, <3>1 DEF IsReport, StateAt
  <2> QED
    BY <2>4, <2>5
<1> QED
  BY <1>1, <1>2, <1>3, Shifted

(* The first message on the line is a report, and is taken in hand. *)

LEMMA ReportRead ==
  ASSUME TypeInv, Advancing, line \in Line, toClient[line] # << >>,
         UNCHANGED <<state, reported, placed, arrivals>>,
         toClient' = [toClient EXCEPT ![line] = Tail(@)],
         report' = toClient[line][1], toClient[line][1].kind = "report"
  PROVE  Advancing'
<1>1. Placing'
  BY DEF Advancing, Placing
<1>2. PICK k \in Line : k = line
  OBVIOUS
<1>3. /\ toClient \in [Line -> Seq(Sound)] /\ toClient[k] \in Seq(Sound)
      /\ toClient[k][1] \in Sound /\ 1 \in DOMAIN toClient[k]
  <2>1. toClient \in [Line -> Seq(Sound)] /\ toClient[k] \in Seq(Sound)
    BY DEF TypeInv, ReportsOK
  <2> QED
    BY <1>2, <2>1, Elements
<1>4. PICK q \in Order : q = toClient[k][1].order
  BY <1>2, <1>3 DEF Sound
<1>5. IsReport(k, 1, q)
  BY <1>2, <1>3, <1>4 DEF IsReport
<1>6. \A l \in Line : toClient'[l] = IF l = k THEN Tail(toClient[k]) ELSE toClient[l]
  BY <1>2, <1>3
<1> DEFINE was(l, i) == IF l = k THEN i + 1 ELSE i
<1>7. ASSUME NEW l \in Line, NEW i \in Nat, NEW o \in Order, IsReport(l, i, o)'
      PROVE  /\ IsReport(l, was(l, i), o) /\ StateAt(l, i)' = StateAt(l, was(l, i))
             /\ was(l, i) \in Nat /\ (l = k => 1 < was(l, i))
  <2>1. /\ \A j \in DOMAIN Tail(toClient[k]) :
             j \in Nat /\ j + 1 \in DOMAIN toClient[k] /\ j + 1 # 1
               /\ Tail(toClient[k])[j] = toClient[k][j + 1]
    BY <1>2, <1>3, TailElements
  <2>2. CASE l = k
    <3>1. i \in DOMAIN Tail(toClient[k])
      BY <1>6, <1>7, <2>2 DEF IsReport
    <3>2. /\ i + 1 \in DOMAIN toClient[k] /\ Tail(toClient[k])[i] = toClient[k][i + 1]
          /\ toClient'[l] = Tail(toClient[k])
      BY <1>6, <2>1, <2>2, <3>1
    <3>4. IsReport(k, i + 1, o) /\ StateAt(l, i)' = StateAt(k, i + 1)
      BY <1>7, <3>2 DEF IsReport, StateAt
    <3>3. was(l, i) = i + 1 /\ 1 < i + 1
      <4>1. i + 1 # 1
        BY <2>1, <3>1
      <4> QED
        BY <2>2, <4>1
    <3> HIDE DEF was
    <3> QED
      BY <2>2, <3>3, <3>4
  <2>3. CASE l # k
    BY <1>6, <1>7, <2>3 DEF IsReport, StateAt
  <2> QED
    BY <2>2, <2>3
<1>8. \A l \in Line : \A i, j \in Nat : i < j => was(l, i) < was(l, j)
  OBVIOUS
<1> HIDE DEF was
<1>9. Between'
  <2> SUFFICES ASSUME NEW o \in Order, NEW l \in Line, NEW i \in Nat, IsReport(l, i, o)'
               PROVE  l = placed[o] /\ state[o] <= StateAt(l, i)' /\ StateAt(l, i)' <= reported[o]
    BY DEF Between
  <2> QED
    BY <1>7 DEF Advancing, Between
<1>10. Ordered'
  <2> SUFFICES ASSUME NEW o \in Order, NEW l \in Line, NEW i \in Nat, NEW j \in Nat,
                      IsReport(l, i, o)', IsReport(l, j, o)', i < j
               PROVE  StateAt(l, i)' <= StateAt(l, j)'
    BY DEF Ordered
  <2> QED
    BY <1>7, <1>8 DEF Advancing, Ordered
<1>11. /\ report'.order = q /\ report'.state = StateAt(k, 1)
  BY <1>2, <1>4 DEF StateAt
<1>12. k = placed[q] /\ state[q] <= StateAt(k, 1) /\ StateAt(k, 1) <= reported[q]
  BY <1>5 DEF Advancing, Between
<1>13. ASSUME NEW l \in Line, NEW i \in Nat, IsReport(l, i, q)'
       PROVE  StateAt(k, 1) <= StateAt(l, i)'
  <2>1. /\ IsReport(l, was(l, i), q) /\ StateAt(l, i)' = StateAt(l, was(l, i))
        /\ was(l, i) \in Nat /\ (l = k => 1 < was(l, i))
    BY <1>7, <1>13
  <2>2. l = k
    BY <1>12, <2>1 DEF Advancing, Between
  <2> QED
    BY <1>5, <2>1, <2>2 DEF Advancing, Ordered
<1>14. InHand'
  <2>1. \A l \in Line : \A i \in Nat : IsReport(l, i, report.order)' => IsReport(l, i, q)'
    BY <1>11 DEF IsReport
  <2>2. \A l \in Line : \A i \in Nat : IsReport(l, i, q)' => report'.state <= StateAt(l, i)'
    BY <1>11, <1>13
  <2>3. report'.order \in Order
    BY <1>11
  <2>4. state[q] <= report'.state /\ report'.state <= reported[q]
    BY <1>11, <1>12
  <2> QED
    BY <1>11, <2>1, <2>2, <2>3, <2>4 DEF InHand
<1> QED
  BY <1>1, <1>9, <1>10, <1>14 DEF Advancing

(* The report in hand is taken up. *)

LEMMA ReportApplied ==
  ASSUME TypeInv, Advancing, Holding, ~ Holding',
         UNCHANGED <<toClient, reported, placed, arrivals>>,
         state' = [state EXCEPT ![report.order] = report.state]
  PROVE  Advancing' /\ \A o \in Order : state[o] <= state'[o]
<1>1. /\ report.order \in Order
      /\ state[report.order] <= report.state /\ report.state <= reported[report.order]
      /\ \A l \in Line : \A i \in Nat :
           IsReport(l, i, report.order) => report.state <= StateAt(l, i)
  BY DEF Advancing, InHand
<1>2. PICK q \in Order : q = report.order
  BY <1>1
<1>3. \A o \in Order : state'[o] = IF o = q THEN report.state ELSE state[o]
  <2>1. state \in [Order -> 0 .. MaxReports]
    BY DEF TypeInv, TypeOK
  <2> QED
    BY <1>2, <2>1
<1>4. \A o : \A l, i : (IsReport(l, i, o)' <=> IsReport(l, i, o)) /\ StateAt(l, i)' = StateAt(l, i)
  BY DEF IsReport, StateAt
<1>5. \A o \in Order : state[o] \in Nat
  BY StateTypes
<1>6. ASSUME NEW o \in Order
      PROVE  state[o] <= state'[o] /\ state'[o] <= reported[o]
  <2>1. state[o] <= reported[o]
    BY DEF Advancing, Placing
  <2> QED
    BY <1>1, <1>2, <1>3, <1>5, <2>1
<1>7. Placing'
  BY <1>6 DEF Advancing, Placing
<1>8. Between'
  <2> SUFFICES ASSUME NEW o \in Order, NEW l \in Line, NEW i \in Nat, IsReport(l, i, o)'
               PROVE  l = placed[o] /\ state'[o] <= StateAt(l, i)' /\ StateAt(l, i)' <= reported[o]
    BY DEF Between
  <2>1. IsReport(l, i, o) /\ StateAt(l, i)' = StateAt(l, i)
    BY <1>4
  <2>2. l = placed[o] /\ state[o] <= StateAt(l, i) /\ StateAt(l, i) <= reported[o]
    BY <2>1 DEF Advancing, Between
  <2>3. CASE o = q
    BY <1>1, <1>2, <1>3, <2>1, <2>2, <2>3
  <2>4. CASE o # q
    BY <1>3, <2>1, <2>2, <2>4
  <2> QED
    BY <2>3, <2>4
<1>9. Ordered'
  BY <1>4 DEF Advancing, Ordered
<1>10. InHand'
  BY DEF InHand
<1> QED
  BY <1>6, <1>7, <1>8, <1>9, <1>10 DEF Advancing

(* A message is put on a line that is not about an order. *)

LEMMA AppendedMessage ==
  ASSUME TypeInv, NEW k \in Line, NEW m \in Sound,
         toClient' = [toClient EXCEPT ![k] = Append(@, m)]
  PROVE  \A l \in Line : \A i \in Nat : \A o \in Order :
            IsReport(l, i, o)' =>
              \/ /\ IsReport(l, i, o) /\ StateAt(l, i)' = StateAt(l, i)
                 /\ l = k => i <= Len(toClient[k])
              \/ /\ m.kind = "report" /\ m.order = o /\ l = k /\ i = Len(toClient[k]) + 1
                 /\ StateAt(l, i)' = m.state
<1> SUFFICES ASSUME NEW l \in Line, NEW i \in Nat, NEW o \in Order, IsReport(l, i, o)'
             PROVE  \/ /\ IsReport(l, i, o) /\ StateAt(l, i)' = StateAt(l, i)
                       /\ l = k => i <= Len(toClient[k])
                    \/ /\ m.kind = "report" /\ m.order = o /\ l = k
                       /\ i = Len(toClient[k]) + 1 /\ StateAt(l, i)' = m.state
  OBVIOUS
<1>1. toClient \in [Line -> Seq(Sound)] /\ toClient[k] \in Seq(Sound)
  BY DEF TypeInv, ReportsOK
<1>2. toClient'[l] = IF l = k THEN Append(toClient[k], m) ELSE toClient[l]
  BY <1>1
<1>3. CASE l # k
  BY <1>2, <1>3 DEF IsReport, StateAt
<1>4. CASE l = k
  <2>1. i \in DOMAIN Append(toClient[k], m)
    BY <1>2, <1>4 DEF IsReport
  <2>2. \/ i \in DOMAIN toClient[k] /\ i <= Len(toClient[k])
             /\ Append(toClient[k], m)[i] = toClient[k][i]
        \/ i = Len(toClient[k]) + 1 /\ Append(toClient[k], m)[i] = m
    BY <1>1, <2>1, AppendElements
  <2> QED
    BY <1>2, <1>4, <2>2 DEF IsReport, StateAt
<1> QED
  BY <1>3, <1>4

LEMMA AnswerSent ==
  ASSUME TypeInv, Advancing, NEW k \in Line, NEW m \in Sound, m.kind # "report",
         toClient' = [toClient EXCEPT ![k] = Append(@, m)],
         UNCHANGED <<state, reported, epc, report>>, Placing',
         \A o \in Order : placed'[o] = placed[o] \/ placed[o] = NoLine
  PROVE  Advancing'
<1> DEFINE n == [l \in Line |-> 0]
<1>1. n \in [Line -> Nat] /\ \A l \in Line : n[l] = 0
  OBVIOUS
<1> HIDE DEF n
<1>2. ASSUME NEW l \in Line, NEW i \in Nat, NEW o \in Order, IsReport(l, i, o)'
      PROVE  IsReport(l, i + n[l], o) /\ StateAt(l, i)' = StateAt(l, i + n[l])
  <2>1. i + n[l] = i
    BY <1>1
  <2>2. IsReport(l, i, o) /\ StateAt(l, i)' = StateAt(l, i)
    BY <1>2, AppendedMessage
  <2> QED
    BY <2>1, <2>2
<1>3. Holding' => Holding /\ report' = report
  BY DEF Holding
<1> QED
  BY <1>1, <1>2, <1>3, Shifted

ReportAdded(q, k) ==
  \A l \in Line : \A i \in Nat : \A o \in Order :
     IsReport(l, i, o)' =>
       \/ /\ IsReport(l, i, o) /\ StateAt(l, i)' = StateAt(l, i)
          /\ l = k => i <= Len(toClient[k])
       \/ /\ o = q /\ l = k /\ i = Len(toClient[k]) + 1
          /\ StateAt(l, i)' = reported'[q]

LEMMA ReportSent ==
  ASSUME TypeInv, Advancing, NEW q \in Order, NEW k \in Line, k = placed[q],
         reported' = [reported EXCEPT ![q] = @ + 1],
         ReportAdded(q, k),
         UNCHANGED <<state, placed, arrivals, epc, report>>
  PROVE  Advancing'
<1> DEFINE r == reported[q] + 1
<1>1. reported \in [Order -> 0 .. MaxReports]
  BY DEF TypeInv, TypeOK
<1>2. \A o \in Order : /\ reported'[o] = IF o = q THEN r ELSE reported[o]
                       /\ reported[o] \in Nat /\ reported[o] <= reported'[o] /\ reported'[o] \in Nat
                       /\ state[o] \in Nat /\ state[o] <= reported[o]
  <2>3. \A o \in Order : reported'[o] = IF o = q THEN r ELSE reported[o]
    BY <1>1
  <2>1. \A o \in Order : reported[o] \in Nat /\ state[o] \in Nat
    BY StateTypes
  <2>2. \A o \in Order : state[o] <= reported[o]
    BY DEF Advancing, Placing
  <2> QED
    BY <2>1, <2>2, <2>3
<1>r. r \in Nat /\ reported[q] < r
  BY <1>2
<1> HIDE DEF r
<1>6. ASSUME NEW l \in Line, NEW i \in Nat, NEW o \in Order, IsReport(l, i, o)'
      PROVE  \/ /\ IsReport(l, i, o) /\ StateAt(l, i)' = StateAt(l, i)
                /\ l = k => i <= Len(toClient[k])
             \/ o = q /\ l = k /\ i = Len(toClient[k]) + 1 /\ StateAt(l, i)' = r
  <2>1. reported'[q] = r
    BY <1>2
  <2> QED
    BY <1>6, <2>1 DEF ReportAdded
<1>7. \A l \in Line, o \in Order : \A i \in Nat :
         IsReport(l, i, o) => /\ l = placed[o] /\ state[o] <= StateAt(l, i)
                              /\ StateAt(l, i) <= reported[o] /\ StateAt(l, i) \in Nat
  BY StateTypes DEF Advancing, Between
<1>8. Placing'
  <2>1. placed[q] # NoLine
    BY DEF Line, NoLine
  <2>2. ASSUME NEW o \in Order
        PROVE  /\ arrivals[o] = 0 => placed[o] = NoLine
               /\ placed[o] = NoLine => reported'[o] = 0
               /\ state[o] <= reported'[o]
    <3>1. (arrivals[o] = 0 => placed[o] = NoLine) /\ (placed[o] = NoLine => reported[o] = 0)
      BY DEF Advancing, Placing
    <3>2. placed[o] = NoLine => reported'[o] = reported[o]
      BY <1>2, <2>1
    <3> QED
      BY <1>2, <3>1, <3>2
  <2> QED
    BY <2>2 DEF Placing
<1>9. Between'
  <2> SUFFICES ASSUME NEW o \in Order, NEW l \in Line, NEW i \in Nat, IsReport(l, i, o)'
               PROVE  l = placed[o] /\ state[o] <= StateAt(l, i)' /\ StateAt(l, i)' <= reported'[o]
    BY DEF Between
  <2>1. CASE IsReport(l, i, o) /\ StateAt(l, i)' = StateAt(l, i)
    BY <1>2, <1>7, <2>1
  <2>2. CASE o = q /\ l = k /\ StateAt(l, i)' = r
    <3>1. reported'[o] = r /\ state[o] <= r
      BY <1>2, <1>r, <2>2
    <3> QED
      BY <1>r, <2>2, <3>1
  <2> QED
    BY <1>6, <2>1, <2>2
<1>10. Ordered'
  <2> SUFFICES ASSUME NEW o \in Order, NEW l \in Line, NEW i \in Nat, NEW j \in Nat,
                      IsReport(l, i, o)', IsReport(l, j, o)', i < j
               PROVE  StateAt(l, i)' <= StateAt(l, j)'
    BY DEF Ordered
  <2>0. Len(toClient[k]) \in Nat
    BY StateTypes, Elements
  <2>1. CASE /\ IsReport(l, i, o) /\ StateAt(l, i)' = StateAt(l, i)
             /\ IsReport(l, j, o) /\ StateAt(l, j)' = StateAt(l, j)
    BY <2>1 DEF Advancing, Ordered
  <2>2. CASE /\ IsReport(l, i, o) /\ StateAt(l, i)' = StateAt(l, i)
             /\ o = q /\ StateAt(l, j)' = r
    <3>1. StateAt(l, i) <= reported[q] /\ StateAt(l, i) \in Nat /\ reported[q] \in Nat
      BY <1>2, <1>7, <2>2
    <3> QED
      BY <1>r, <2>2, <3>1
  <2>3. CASE l = k /\ i = Len(toClient[k]) + 1 /\ StateAt(l, i)' = r
    <3>1. j = Len(toClient[k]) + 1 \/ j <= Len(toClient[k])
      BY <1>6, <2>3
    <3> QED
      BY <2>0, <2>3, <3>1
  <2> QED
    BY <1>6, <2>1, <2>2, <2>3
<1>11. InHand'
  <2> SUFFICES ASSUME Holding'
               PROVE  InHand'
    BY DEF InHand
  <2>1. /\ report.order \in Order
        /\ state[report.order] <= report.state /\ report.state <= reported[report.order]
        /\ \A l \in Line : \A i \in Nat :
             IsReport(l, i, report.order) => report.state <= StateAt(l, i)
    BY DEF Advancing, InHand, Holding
  <2>2. PICK o \in Order : o = report.order
    BY <2>1
  <2>3. report.state \in Nat
    BY StateTypes
  <2>4. report.state <= reported'[o]
    BY <1>2, <2>1, <2>2, <2>3
  <2>5. ASSUME NEW l \in Line, NEW i \in Nat, IsReport(l, i, o)'
        PROVE  report.state <= StateAt(l, i)'
    <3>1. CASE IsReport(l, i, o) /\ StateAt(l, i)' = StateAt(l, i)
      BY <2>1, <2>2, <3>1
    <3>2. CASE o = q /\ StateAt(l, i)' = r
      <4>1. report.state <= reported[q] /\ reported[q] \in Nat
        BY <1>2, <2>1, <2>2, <3>2
      <4> QED
        BY <1>r, <2>3, <3>2, <4>1
    <3> QED
      BY <1>6, <2>5, <3>1, <3>2
  <2>6. \A l \in Line : \A i \in Nat : IsReport(l, i, report.order)' => IsReport(l, i, o)'
    BY <2>2 DEF IsReport
  <2> QED
    BY <2>1, <2>2, <2>4, <2>5, <2>6 DEF InHand
<1> QED
  BY <1>8, <1>9, <1>10, <1>11 DEF Advancing

LEMMA NextAdvancing ==
  TypeInv /\ Once /\ Advancing /\ [Next]_vars =>
    Advancing' /\ \A o \in Order : state[o] <= state'[o]
<1> SUFFICES ASSUME TypeInv, Once, Advancing, [Next]_vars
             PROVE  Advancing' /\ \A o \in Order : state[o] <= state'[o]
  OBVIOUS
<1> USE DEF eventVars, orderVars, appVars, wireVars, serverVars, EventAt, AppAt
<1>a. TypeOK /\ LineOK /\ ReportsOK
  BY DEF TypeInv
<1>b. ASSUME UNCHANGED state
      PROVE  \A o \in Order : state[o] <= state'[o]
  BY <1>b, StateTypes
<1>1. CASE Begin \/ End \/ Ask \/ Check \/ Sleep
  <2>1. UNCHANGED <<state, reported, placed, arrivals, toClient>> /\ ~ Holding'
    BY <1>1 DEF Begin, End, Ask, Check, Sleep, Holding, GoesOn
  <2> QED
    BY <2>1, <1>b, NothingRead
<1>2. CASE \/ SubmitOrder \/ Send \/ PushOrder \/ Stop \/ Join
           \/ \E o \in Order : CancelOrder(o)
  <2>1. UNCHANGED <<state, reported, placed, arrivals, toClient, epc, report>>
    BY <1>2 DEF SubmitOrder, Send, PushOrder, Stop, Join, CancelOrder
  <2> QED
    BY <2>1, <1>b, NothingRead DEF Holding
<1>3. CASE Over \/ UNCHANGED vars
  <2>1. UNCHANGED <<state, reported, placed, arrivals, toClient, epc, report>>
    BY <1>3 DEF Over, vars
  <2> QED
    BY <2>1, <1>b, NothingRead DEF Holding
<1>4. CASE Connect
  <2>1. UNCHANGED <<state, reported, placed, arrivals>> /\ ~ Holding'
    BY <1>4 DEF Connect, Holding
  <2>2. \A l \in Line : toClient'[l] \in {toClient[l], << >>}
    BY <1>4 DEF Connect
  <2> QED
    BY <2>1, <2>2, <1>b, NothingRead
<1>5. ASSUME NEW l \in Line, Break(l)
      PROVE  Advancing' /\ \A o \in Order : state[o] <= state'[o]
  <2>1. UNCHANGED <<state, reported, placed, arrivals, epc, report>>
    BY <1>5 DEF Break
  <2>2. \A k \in Line : toClient'[k] \in {toClient[k], << >>}
    <3>1. toClient' \in {toClient, [toClient EXCEPT ![l] = << >>]}
      BY <1>5 DEF Break
    <3> QED
      BY <1>a, <3>1 DEF TypeOK
  <2> QED
    BY <2>1, <2>2, <1>b, NothingRead DEF Holding
<1>6. CASE ReadAnswer
  <2>1. UNCHANGED <<state, reported, placed, arrivals>> /\ ~ Holding' /\ line \in Line
    BY <1>6, <1>a DEF ReadAnswer, Holding, LineOK
  <2>2. \/ toClient' = toClient
        \/ /\ toClient[line] # << >>
           /\ toClient' = [toClient EXCEPT ![line] = Tail(@)]
    BY <1>6 DEF ReadAnswer
  <2>3. CASE toClient' = toClient
    BY <2>1, <2>3, <1>b, NothingRead
  <2>4. CASE /\ toClient[line] # << >>
             /\ toClient' = [toClient EXCEPT ![line] = Tail(@)]
    BY <2>1, <2>4, <1>b, FirstRead
  <2> QED
    BY <2>2, <2>3, <2>4
<1>7. CASE Read
  <2>1. UNCHANGED <<state, reported, placed, arrivals>> /\ line \in Line
    BY <1>7, <1>a DEF Read, LineOK
  <2>2. toClient \in [Line -> Seq(Sound)] /\ toClient[line] \in Seq(Sound)
    BY <1>a, <2>1 DEF ReportsOK
  <2>3. toClient[line] # << >> => RemoveAt(toClient[line], 1) = Tail(toClient[line])
    BY <2>2, WithoutFirst
  <2>4. \/ /\ toClient[line] # << >>
           /\ toClient' = [toClient EXCEPT ![line] = RemoveAt(toClient[line], 1)]
           /\ \/ ~ Holding'
              \/ report' = toClient[line][1] /\ toClient[line][1].kind = "report"
        \/ toClient' = toClient /\ ~ Holding'
    BY <1>7 DEF Read, Reads, AfterTimeout, Holding
  <2>5. CASE toClient' = toClient /\ ~ Holding'
    BY <2>1, <2>5, <1>b, NothingRead
  <2>6. CASE /\ toClient[line] # << >> /\ ~ Holding'
             /\ toClient' = [toClient EXCEPT ![line] = RemoveAt(toClient[line], 1)]
    <3>1. toClient' = [toClient EXCEPT ![line] = Tail(toClient[line])]
      BY <2>3, <2>6
    <3> QED
      BY <2>1, <2>6, <3>1, <1>b, FirstRead
  <2>7. CASE /\ toClient[line] # << >>
             /\ toClient' = [toClient EXCEPT ![line] = RemoveAt(toClient[line], 1)]
             /\ report' = toClient[line][1] /\ toClient[line][1].kind = "report"
    <3>1. toClient' = [toClient EXCEPT ![line] = Tail(toClient[line])]
      BY <2>3, <2>7
    <3> QED
      BY <2>1, <2>7, <3>1, <1>b, ReportRead
  <2> QED
    BY <2>4, <2>5, <2>6, <2>7
<1>8. CASE Find
  <2>1. UNCHANGED <<state, reported, placed, arrivals, toClient>> /\ epc = "find"
    BY <1>8 DEF Find
  <2>2. Holding' => report' = report
    BY <1>8 DEF Find, Holding
  <2> QED
    BY <2>1, <2>2, <1>b, NothingRead DEF Holding
<1>9. CASE Apply
  <2>1. UNCHANGED <<reported, placed, arrivals, toClient>> /\ epc = "apply"
    BY <1>9 DEF Apply
  <2>2. \/ state' = [state EXCEPT ![report.order] = report.state] /\ epc' = "check"
        \/ UNCHANGED <<state, epc, report>>
    BY <1>9 DEF Apply
  <2>3. CASE state' = [state EXCEPT ![report.order] = report.state] /\ epc' = "check"
    BY <2>1, <2>3, ReportApplied DEF Holding
  <2>4. CASE UNCHANGED <<state, epc, report>>
    BY <2>1, <2>4, <1>b, NothingRead DEF Holding
  <2> QED
    BY <2>2, <2>3, <2>4
<1>10. ASSUME NEW l \in Line, Respond(l)
       PROVE  Advancing' /\ \A o \in Order : state[o] <= state'[o]
  <2>1. UNCHANGED <<state, reported, epc, report>> /\ toServer[l] # << >>
    BY <1>10 DEF Respond
  <2>2. PICK m \in Sound : m.kind # "report" /\ toClient' = [toClient EXCEPT ![l] = Append(@, m)]
    <3>1. Answers(l) \in Sound /\ Answers(l).kind # "report"
      BY OtherType DEF Answers, Other, Identity
    <3>2. toClient' = [toClient EXCEPT ![l] = Append(@, Answers(l))]
      BY <1>10 DEF Respond
    <3> QED
      BY <3>1, <3>2
  <2> DEFINE r == Head(toServer[l])
  <2>3. /\ placed \in [Order -> Line \cup {NoLine}] /\ arrivals \in [Order -> Nat]
        /\ r \in Request /\ r = toServer[l][1] /\ 1 \in DOMAIN toServer[l]
    <3>1. toServer[l] \in Seq(Request)
      BY <1>a DEF TypeOK
    <3> QED
      BY <1>a, <2>1, <3>1, TailElements, Elements DEF TypeOK
  <2>4. \/ UNCHANGED <<placed, arrivals>>
        \/ /\ r.kind = "order"
           /\ placed' = [placed EXCEPT ![r.order] = IF identified[l] THEN l ELSE @]
           /\ arrivals' = [arrivals EXCEPT ![r.order] = @ + 1]
    BY <1>10 DEF Respond
  <2>5. CASE UNCHANGED <<placed, arrivals>>
    <3>1. Placing'
      BY <2>1, <2>5 DEF Advancing, Placing
    <3> QED
      BY <2>1, <2>2, <2>5, <3>1, <1>b, AnswerSent
  <2>6. CASE /\ r.kind = "order"
             /\ placed' = [placed EXCEPT ![r.order] = IF identified[l] THEN l ELSE @]
             /\ arrivals' = [arrivals EXCEPT ![r.order] = @ + 1]
    <3>1. CASE r.order \notin Order
      BY <2>3, <2>5, <2>6, <3>1
    <3>2. CASE r.order \in Order
      <4>1. PICK q \in Order : q = r.order
        BY <3>2
      <4>2. OnWay(l, 1, q)
        BY <2>3, <2>6, <4>1 DEF OnWay, OrderRequest, Request
      <4>3. arrivals[q] = 0
        BY <4>2 DEF Once, Arrived
      <4>4. placed[q] = NoLine /\ reported[q] = 0 /\ state[q] <= reported[q]
        BY <4>3 DEF Advancing, Placing
      <4>5. \A o \in Order : /\ o # q => placed'[o] = placed[o] /\ arrivals'[o] = arrivals[o]
                             /\ arrivals'[q] = 1
        BY <2>3, <2>6, <4>1, <4>3
      <4>6. Placing'
        <5> SUFFICES ASSUME NEW o \in Order
                     PROVE  /\ arrivals'[o] = 0 => placed'[o] = NoLine
                            /\ placed'[o] = NoLine => reported[o] = 0
                            /\ state[o] <= reported[o]
          BY <2>1 DEF Placing
        <5>1. CASE o = q
          BY <4>4, <4>5, <5>1
        <5>2. CASE o # q
          BY <4>5, <5>2 DEF Advancing, Placing
        <5> QED
          BY <5>1, <5>2
      <4>7. \A o \in Order : placed'[o] = placed[o] \/ placed[o] = NoLine
        BY <4>4, <4>5
      <4> QED
        BY <2>1, <2>2, <4>6, <4>7, <1>b, AnswerSent
    <3> QED
      BY <3>1, <3>2
  <2> QED
    BY <2>4, <2>5, <2>6
<1>11. ASSUME NEW q \in Order, Report(q)
       PROVE  Advancing' /\ \A o \in Order : state[o] <= state'[o]
  <2>1. /\ UNCHANGED <<state, placed, arrivals, epc, report>>
        /\ reported' = [reported EXCEPT ![q] = @ + 1]
        /\ placed[q] # NoLine /\ reported[q] < MaxReports
    BY <1>11 DEF Report, Up, Is
  <2>2. PICK k \in Line : k = placed[q]
    BY <2>1, StateTypes
  <2>3. reported'[q] \in 0 .. MaxReports
    <3>1. reported \in [Order -> 0 .. MaxReports]
      BY <1>a DEF TypeOK
    <3>2. reported'[q] = reported[q] + 1 /\ reported[q] \in 0 .. MaxReports
      BY <2>1, <3>1
    <3> QED
      BY <2>1, <3>2, BoundsAssumption
  <2>4. PICK m \in Sound : /\ m.order = q /\ m.state = reported'[q]
                           /\ toClient' = [toClient EXCEPT ![k] = Append(@, m)]
    <3> DEFINE new == [kind |-> "report", order |-> q, state |-> reported'[q]]
    <3>1. new \in Sound /\ new.order = q /\ new.state = reported'[q]
      BY <2>3 DEF Message, Sound
    <3>2. toClient' = [toClient EXCEPT ![k] = Append(@, new)]
      BY <1>11, <2>2 DEF Report
    <3> QED
      BY <3>1, <3>2
  <2>5. ReportAdded(q, k)
    <3>1. toClient' = [toClient EXCEPT ![k] = Append(@, m)]
      BY <2>4
    <3>2. \A l \in Line : \A i \in Nat : \A o \in Order :
             IsReport(l, i, o)' =>
               \/ /\ IsReport(l, i, o) /\ StateAt(l, i)' = StateAt(l, i)
                  /\ l = k => i <= Len(toClient[k])
               \/ /\ m.kind = "report" /\ m.order = o /\ l = k /\ i = Len(toClient[k]) + 1
                  /\ StateAt(l, i)' = m.state
      BY <3>1, AppendedMessage
    <3> QED
      BY <2>4, <3>2 DEF ReportAdded
  <2>6. /\ UNCHANGED <<state, placed, arrivals, epc, report>>
        /\ reported' = [reported EXCEPT ![q] = @ + 1]
    BY <2>1
  <2>7. Advancing'
    BY <2>2, <2>5, <2>6, ReportSent
  <2> QED
    BY <2>1, <2>7, <1>b
<1> QED
  BY <1>1, <1>2, <1>3, <1>4, <1>5, <1>6, <1>7, <1>8, <1>9, <1>10, <1>11
     DEF Next, EventLoop, Application, Server

(***************************************************************************)
(* The state of an order in the client never goes back, and is one that    *)
(* the server has reported: whatever is lost with a line, dropped by the   *)
(* search or applied through a stale iterator.                             *)
(***************************************************************************)
THEOREM StatesAdvanceCorrect == Spec => StatesAdvance
<1> DEFINE Inv == TypeInv /\ Once /\ Advancing
<1>1. Init => Inv
  BY InitTypeInv, InitOnce, InitAdvancing
<1>2. Inv /\ [Next]_vars =>
        /\ Inv'
        /\ [\A o \in Order : state[o] <= state'[o] /\ state'[o] <= reported'[o]]_vars
  <2> SUFFICES ASSUME Inv, [Next]_vars
               PROVE  Inv' /\ \A o \in Order : state[o] <= state'[o] /\ state'[o] <= reported'[o]
    OBVIOUS
  <2>1. Inv' /\ \A o \in Order : state[o] <= state'[o]
    BY NextTypeInv, NextOnce, NextAdvancing
  <2>2. \A o \in Order : state'[o] <= reported'[o]
    BY <2>1 DEF Advancing, Placing
  <2> QED
    BY <2>1, <2>2
<1> QED
  BY <1>1, <1>2, PTL DEF Spec, StatesAdvance

-----------------------------------------------------------------------------
(***************************************************************************)
(* Nothing is known of a line before it is created; what comes first on a  *)
(* line that waits for its answer is no report; an order that was listed   *)
(* when its report was read lies before the end that was taken for the     *)
(* search; and the last state reported for an order, while the client      *)
(* attends to its line, is on that line or in hand, or taken up.           *)
(***************************************************************************)
Fresh ==
  /\ \A l \in Line : l > lines => status[l] = "none" /\ toClient[l] = << >>
  /\ \A o \in Order : placed[o] = NoLine \/ placed[o] <= lines
  /\ line <= lines

Asking == epc \in {"ask", "answer"}

Attending == Asking \/ epc \in {"check", "read"} \/ Holding

Answering ==
  Asking /\ Up(line) =>
    /\ \A o \in Order : placed[o] = line => toClient[line] # << >>
    /\ toClient[line] # << >> => toClient[line][1].kind # "report"

Searching ==
  epc = "find" /\ report.order \notin early =>
    \E k \in DOMAIN orders : k <= endAt /\ orders[k] = report.order

LastOnLine(o) ==
  \E i \in Nat : IsReport(line, i, o) /\ StateAt(line, i) = reported[o]

LastInHand(o) == Holding /\ report.order = o /\ report.state = reported[o]

Caught ==
  \A o \in Order \ early :
    Attending /\ placed[o] = line /\ Up(line) =>
      state[o] = reported[o] \/ LastOnLine(o) \/ LastInHand(o)

Catching == Fresh /\ Answering /\ Searching /\ Caught

LEMMA InitCatching == Init => Catching
<1> SUFFICES ASSUME Init
             PROVE  Catching
  OBVIOUS
<1>1. Fresh
  <2>1. \A l \in Line : status[l] = "none" /\ toClient[l] = << >>
    BY DEF Init
  <2>2. (\A o \in Order : placed[o] = NoLine) /\ line = 0 /\ lines = 0
    BY DEF Init, NoLine
  <2> QED
    BY <2>1, <2>2 DEF Fresh
<1>2. ~ Attending /\ epc # "find" /\ ~ Asking
  BY DEF Init, Attending, Asking, Holding
<1> QED
  BY <1>1, <1>2 DEF Catching, Answering, Searching, Caught

LEMMA LeastIndex ==
  ASSUME NEW I \in SUBSET Nat, I # {}
  PROVE  \E n \in I : \A m \in I : n <= m
<1> DEFINE R == OpToRel(<, Nat)
<1>1. IsWellFoundedOn(R, Nat)
  BY NatLessThanWellFounded, Zenon
<1>2. ASSUME NEW m \in I, NEW n \in I, ~ (<<m, n>> \in R)
      PROVE  n <= m
  <2>1. <<m, n>> \in Nat \X Nat
    OBVIOUS
  <2>2. ~ (m < n)
    BY <1>2, <2>1 DEF OpToRel
  <2> QED
    BY <2>2
<1> HIDE DEF R
<1>3. PICK n \in I : \A m \in I : ~ (<<m, n>> \in R)
  BY <1>1, WFMin
<1> QED
  BY <1>2, <1>3

(* The search finds a listed order no later than where it is listed. *)

LEMMA FirstPosition ==
  ASSUME orders \in Seq(Order), NEW k \in DOMAIN orders
  PROVE  Position(orders[k]) \in 1 .. k
<1> DEFINE I == {i \in 1 .. Len(orders) : orders[i] = orders[k]}
<1>1. k \in I /\ I \subseteq Nat /\ Len(orders) \in Nat
  BY LenProperties
<1>2. PICK n \in I : \A m \in I : n <= m
  <2> HIDE DEF I
  <2> QED
    BY <1>1, LeastIndex
<1>3. Position(orders[k]) = Min(I)
  BY <1>1 DEF Position, SelectInSeq
<1>4. Min(I) \in I /\ \A m \in I : Min(I) <= m
  <2> HIDE DEF I
  <2> QED
    BY <1>2 DEF Min
<1>5. Min(I) \in I /\ Min(I) <= k
  BY <1>1, <1>4
<1> QED
  BY <1>1, <1>3, <1>5

(* Steps in which no message is read or sent. *)

LEMMA NoMessage ==
  ASSUME Catching,
         UNCHANGED <<toClient, state, reported, placed, line, lines, status, early>>,
         Asking' => Asking, Attending' => Attending, Searching',
         \A o \in Order \ early : LastInHand(o) => LastInHand(o)'
  PROVE  Catching'
<1>1. Fresh'
  BY DEF Catching, Fresh
<1>2. Up(line)' => Up(line)
  BY DEF Up, Is
<1>3. Answering'
  BY <1>2 DEF Catching, Answering
<1>4. Caught'
  <2> SUFFICES ASSUME NEW o \in Order \ early, Attending, placed[o] = line, Up(line)
               PROVE  state[o] = reported[o] \/ LastOnLine(o)' \/ LastInHand(o)'
    BY <1>2 DEF Caught
  <2>1. state[o] = reported[o] \/ LastOnLine(o) \/ LastInHand(o)
    BY DEF Catching, Caught
  <2>2. LastOnLine(o) => LastOnLine(o)'
    BY DEF LastOnLine, IsReport, StateAt
  <2> QED
    BY <2>1, <2>2
<1> QED
  BY <1>1, <1>3, <1>4 DEF Catching

(* The first message on the line is read: what waits moves up. *)

LEMMA FirstTaken ==
  ASSUME TypeInv, Catching, line \in Line, toClient[line] # << >>, ~ Holding, ~ Asking',
         toClient' = [toClient EXCEPT ![line] = Tail(@)],
         UNCHANGED <<state, reported, placed, line, lines, status>>,
         early \subseteq early', Attending, Searching',
         Up(line) /\ toClient[line][1].kind = "report" =>
           Holding' /\ report' = toClient[line][1]
  PROVE  Catching'
<1>1. PICK k \in Line : k = line
  OBVIOUS
<1>2. /\ toClient \in [Line -> Seq(Sound)] /\ toClient[k] \in Seq(Sound)
      /\ 1 \in DOMAIN toClient[k]
  <2>1. toClient \in [Line -> Seq(Sound)] /\ toClient[k] \in Seq(Sound)
    BY DEF TypeInv, ReportsOK
  <2> QED
    BY <1>1, <2>1, Elements
<1>3. \A l \in Line : toClient'[l] = IF l = k THEN Tail(toClient[k]) ELSE toClient[l]
  BY <1>1, <1>2
<1>4. Fresh'
  <2>1. \A l \in Line : l > lines => l # k
    BY <1>1 DEF Catching, Fresh
  <2> QED
    BY <1>3, <2>1 DEF Catching, Fresh
<1>5. Answering'
  BY DEF Answering
<1>6. ASSUME NEW o \in Order, NEW i \in Nat, IsReport(k, i, o), i # 1
      PROVE  \E j \in Nat : IsReport(k, j, o)' /\ StateAt(k, j)' = StateAt(k, i)
  <2>1. /\ Len(toClient[k]) \in Nat /\ DOMAIN toClient[k] = 1 .. Len(toClient[k])
        /\ Tail(toClient[k]) \in Seq(Sound) /\ Len(Tail(toClient[k])) = Len(toClient[k]) - 1
        /\ \A j \in 1 .. Len(Tail(toClient[k])) : Tail(toClient[k])[j] = toClient[k][j + 1]
    BY <1>1, <1>2, LenProperties, HeadTailProperties
  <2>2. DOMAIN Tail(toClient[k]) = 1 .. Len(Tail(toClient[k]))
    BY <2>1, LenProperties
  <2>3. i \in 1 .. Len(toClient[k])
    BY <1>6, <2>1 DEF IsReport
  <2>4. /\ i - 1 \in Nat /\ i - 1 \in DOMAIN Tail(toClient[k])
        /\ Tail(toClient[k])[i - 1] = toClient[k][i]
    <3>1. i - 1 \in 1 .. Len(Tail(toClient[k])) /\ i - 1 + 1 = i
      BY <1>6, <2>1, <2>3
    <3> QED
      BY <2>1, <2>2, <3>1
  <2>5. IsReport(k, i - 1, o)' /\ StateAt(k, i - 1)' = StateAt(k, i)
    BY <1>3, <1>6, <2>4 DEF IsReport, StateAt
  <2> QED
    BY <2>4, <2>5
<1>7. Caught'
  <2> SUFFICES ASSUME NEW o \in Order \ early', placed[o] = line, Up(line)'
               PROVE  state[o] = reported[o] \/ LastOnLine(o)' \/ LastInHand(o)'
    BY DEF Caught
  <2>1. Up(line)
    BY DEF Up, Is
  <2>2. state[o] = reported[o] \/ LastOnLine(o)
    BY <2>1 DEF Catching, Caught, LastInHand
  <2>3. CASE LastOnLine(o)
    <3>1. PICK i \in Nat : IsReport(k, i, o) /\ StateAt(k, i) = reported[o]
      BY <1>1, <2>3 DEF LastOnLine
    <3>2. CASE i # 1
      <4>1. PICK j \in Nat : IsReport(k, j, o)' /\ StateAt(k, j)' = StateAt(k, i)
        BY <1>6, <3>1, <3>2
      <4>2. LastOnLine(o)'
        BY <1>1, <3>1, <4>1 DEF LastOnLine
      <4> QED
        BY <4>2
    <3>3. CASE i = 1
      <4>1. Holding' /\ report' = toClient[k][1]
        BY <1>1, <2>1, <3>1, <3>3 DEF IsReport
      <4>2. LastInHand(o)'
        BY <3>1, <3>3, <4>1 DEF IsReport, StateAt, LastInHand
      <4> QED
        BY <4>2
    <3> QED
      BY <3>2, <3>3
  <2> QED
    BY <2>2, <2>3
<1> QED
  BY <1>4, <1>5, <1>7 DEF Catching

(* A message is put at the end of a line. *)

LEMMA MessageAdded ==
  ASSUME TypeInv, NEW k \in Line, NEW m \in Sound,
         toClient' = [toClient EXCEPT ![k] = Append(@, m)]
  PROVE  /\ \A l \in Line : l # k => toClient'[l] = toClient[l]
         /\ toClient'[k] # << >>
         /\ toClient'[k][1] = IF toClient[k] = << >> THEN m ELSE toClient[k][1]
         /\ \E i \in Nat : i \in DOMAIN toClient'[k] /\ toClient'[k][i] = m
         /\ \A l \in Line, o \in Order : \A i \in Nat :
              IsReport(l, i, o) => IsReport(l, i, o)' /\ StateAt(l, i)' = StateAt(l, i)
<1>1. toClient \in [Line -> Seq(Sound)] /\ toClient[k] \in Seq(Sound)
  BY DEF TypeInv, ReportsOK
<1>2. /\ \A l \in Line : l # k => toClient'[l] = toClient[l]
      /\ toClient'[k] = Append(toClient[k], m)
  BY <1>1
<1>3. /\ Append(toClient[k], m) \in Seq(Sound) /\ Append(toClient[k], m) # << >>
      /\ Len(Append(toClient[k], m)) = Len(toClient[k]) + 1
      /\ \A i \in 1 .. Len(toClient[k]) : Append(toClient[k], m)[i] = toClient[k][i]
      /\ Append(toClient[k], m)[Len(toClient[k]) + 1] = m
  BY <1>1, AppendProperties
<1>4. /\ DOMAIN Append(toClient[k], m) = 1 .. Len(toClient[k]) + 1
      /\ DOMAIN toClient[k] = 1 .. Len(toClient[k]) /\ Len(toClient[k]) \in Nat
  BY <1>1, <1>3, LenProperties
<1>5. toClient'[k][1] = IF toClient[k] = << >> THEN m ELSE toClient[k][1]
  <2>1. CASE toClient[k] = << >>
    <3>1. Len(toClient[k]) + 1 = 1
      BY <2>1
    <3> QED
      BY <1>2, <1>3, <2>1, <3>1
  <2>2. CASE toClient[k] # << >>
    BY <1>1, <1>2, <1>3, <1>4, <2>2, Elements
  <2> QED
    BY <2>1, <2>2
<1>6. \E i \in Nat : i \in DOMAIN toClient'[k] /\ toClient'[k][i] = m
  <2>1. Len(toClient[k]) + 1 \in Nat /\ Len(toClient[k]) + 1 \in 1 .. Len(toClient[k]) + 1
    BY <1>4
  <2> QED
    BY <1>2, <1>3, <1>4, <2>1
<1>7. ASSUME NEW l \in Line, NEW o \in Order, NEW i \in Nat, IsReport(l, i, o)
      PROVE  IsReport(l, i, o)' /\ StateAt(l, i)' = StateAt(l, i)
  <2>1. CASE l # k
    BY <1>2, <1>7, <2>1 DEF IsReport, StateAt
  <2>2. CASE l = k
    <3>1. i \in 1 .. Len(toClient[k])
      BY <1>4, <1>7, <2>2 DEF IsReport
    <3>2. i \in DOMAIN toClient'[k] /\ toClient'[k][i] = toClient[k][i]
      BY <1>2, <1>3, <1>4, <3>1
    <3> QED
      BY <1>7, <2>2, <3>2 DEF IsReport, StateAt
  <2> QED
    BY <2>1, <2>2
<1> QED
  BY <1>2, <1>3, <1>5, <1>6, <1>7

LEMMA MessageSent ==
  ASSUME TypeInv, Catching, NEW k \in Line, NEW m \in Sound, status[k] = "up",
         toClient' = [toClient EXCEPT ![k] = Append(@, m)],
         UNCHANGED <<state, line, lines, status, epc, report, endAt, early, orders>>,
         m.kind = "report" => placed[m.order] = k,
         \A o \in Order : placed'[o] = placed[o] \/ (placed'[o] = k /\ state[o] = reported'[o]),
         \A o \in Order : \/ reported'[o] = reported[o]
                          \/ m.kind = "report" /\ m.order = o /\ m.state = reported'[o]
  PROVE  Catching'
<1>1. /\ \A l \in Line : l # k => toClient'[l] = toClient[l]
      /\ toClient'[k] # << >>
      /\ toClient'[k][1] = IF toClient[k] = << >> THEN m ELSE toClient[k][1]
      /\ \E i \in Nat : i \in DOMAIN toClient'[k] /\ toClient'[k][i] = m
      /\ \A l \in Line, o \in Order : \A i \in Nat :
           IsReport(l, i, o) => IsReport(l, i, o)' /\ StateAt(l, i)' = StateAt(l, i)
  BY MessageAdded
<1>2. \A o \in Order : placed[o] \in Line \cup {NoLine}
  BY StateTypes
<1>3. Fresh'
  <2>1. k <= lines
    <3>1. lines \in Nat /\ k \in Nat
      BY BoundsAssumption DEF TypeInv, TypeOK, Line
    <3> QED
      BY <3>1 DEF Catching, Fresh
  <2>2. \A l \in Line : l > lines => l # k
    <3>1. lines \in Nat
      BY BoundsAssumption DEF TypeInv, TypeOK
    <3> QED
      BY <2>1, <3>1 DEF Line
  <2>3. \A l \in Line : l > lines => status[l] = "none" /\ toClient'[l] = << >>
    BY <1>1, <2>2 DEF Catching, Fresh
  <2>4. \A o \in Order : placed'[o] = NoLine \/ placed'[o] <= lines
    BY <2>1 DEF Catching, Fresh
  <2>5. line' <= lines'
    BY DEF Catching, Fresh
  <2> QED
    BY <2>3, <2>4, <2>5 DEF Fresh
<1>4. Answering'
  <2> SUFFICES ASSUME Asking, Up(line)
               PROVE  /\ \A o \in Order : placed'[o] = line => toClient'[line] # << >>
                      /\ toClient'[line] # << >> => toClient'[line][1].kind # "report"
    BY DEF Answering, Asking, Up, Is
  <2>1. /\ \A o \in Order : placed[o] = line => toClient[line] # << >>
        /\ toClient[line] # << >> => toClient[line][1].kind # "report"
    BY DEF Catching, Answering
  <2>2. line \in Line
    BY DEF TypeInv, LineOK, Asking
  <2>3. CASE line # k
    <3>1. \A o \in Order : placed'[o] = line => placed[o] = line
      BY <2>3
    <3> QED
      BY <1>1, <2>1, <2>2, <2>3, <3>1
  <2>4. CASE line = k
    <3>1. m.kind = "report" => m.order \in Order /\ toClient[line] # << >>
      BY <2>1, <2>4 DEF Sound
    <3> QED
      BY <1>1, <2>1, <2>4, <3>1
  <2> QED
    BY <2>3, <2>4
<1>5. Searching'
  BY DEF Catching, Searching
<1>6. Caught'
  <2> SUFFICES ASSUME NEW o \in Order \ early, Attending, placed'[o] = line, Up(line)
               PROVE  state[o] = reported'[o] \/ LastOnLine(o)' \/ LastInHand(o)'
    BY DEF Caught, Attending, Asking, Holding, Up, Is
  <2>1. line \in Line
    BY DEF TypeInv, LineOK, Attending, Asking, Holding
  <2>2. CASE placed'[o] # placed[o]
    BY <2>2
  <2>3. CASE reported'[o] # reported[o]
    <3>1. m.kind = "report" /\ m.order = o /\ m.state = reported'[o] /\ placed[o] = k
      BY <2>3
    <3>2. PICK i \in Nat : i \in DOMAIN toClient'[k] /\ toClient'[k][i] = m
      BY <1>1
    <3>3. CASE placed'[o] = placed[o]
      <4>1. IsReport(line, i, o)' /\ StateAt(line, i)' = reported'[o]
        BY <3>1, <3>2, <3>3 DEF IsReport, StateAt
      <4> QED
        BY <4>1 DEF LastOnLine
    <3> QED
      BY <2>2, <3>3
  <2>4. CASE placed'[o] = placed[o] /\ reported'[o] = reported[o]
    <3>1. state[o] = reported[o] \/ LastOnLine(o) \/ LastInHand(o)
      BY <2>4 DEF Catching, Caught
    <3>2. LastOnLine(o) => LastOnLine(o)'
      BY <1>1, <2>1, <2>4 DEF LastOnLine
    <3>3. LastInHand(o) => LastInHand(o)'
      BY <2>4 DEF LastInHand, Holding
    <3> QED
      BY <2>4, <3>1, <3>2, <3>3
  <2> QED
    BY <2>2, <2>3, <2>4
<1> QED
  BY <1>3, <1>4, <1>5, <1>6 DEF Catching

LEMMA LineBroken ==
  ASSUME TypeInv, Catching, NEW k \in Line, Break(k)
  PROVE  Catching'
<1> USE DEF eventVars, orderVars, appVars, serverVars
<1>1. /\ status[k] = "up" /\ status' = [status EXCEPT ![k] = "broken"]
      /\ toClient' \in {toClient, [toClient EXCEPT ![k] = << >>]}
      /\ UNCHANGED <<epc, report, endAt, early, line, lines, orders, state, placed, reported>>
  BY DEF Break
<1>2. /\ status' = [l \in Line |-> IF l = k THEN "broken" ELSE status[l]]
      /\ \A l \in Line : l # k => toClient'[l] = toClient[l]
  <2>1. toClient \in [Line -> Seq(Message)]
    BY DEF TypeInv, TypeOK
  <2>2. status \in [Line -> {"none", "up", "broken", "destroyed"}]
    BY DEF TypeInv, TypeOK
  <2> QED
    BY <1>1, <2>1, <2>2
<1>3. \A l \in Line : l > lines => l # k
  BY <1>1 DEF Catching, Fresh
<1>4. Fresh'
  BY <1>1, <1>2, <1>3 DEF Catching, Fresh
<1>5. Up(line)' => Up(line) /\ line \in Line /\ toClient'[line] = toClient[line]
  <2>1. line \in Line \cup {NoLine}
    BY DEF TypeInv, TypeOK
  <2> QED
    BY <1>1, <1>2, <2>1 DEF Up, Is
<1>6. Answering'
  <2> SUFFICES ASSUME Asking', Up(line)'
               PROVE  Answering'
    BY DEF Answering
  <2>1. Asking /\ Up(line) /\ toClient'[line] = toClient[line]
    BY <1>1, <1>5 DEF Asking
  <2> QED
    BY <1>1, <2>1 DEF Catching, Answering
<1>7. Searching'
  BY <1>1 DEF Catching, Searching
<1>8. Caught'
  <2> SUFFICES ASSUME NEW o \in Order \ early, Attending, placed[o] = line, Up(line)'
               PROVE  state[o] = reported[o] \/ LastOnLine(o)' \/ LastInHand(o)'
    BY <1>1 DEF Caught, Attending, Asking, Holding
  <2>1. Up(line) /\ toClient'[line] = toClient[line]
    BY <1>5
  <2>2. state[o] = reported[o] \/ LastOnLine(o) \/ LastInHand(o)
    BY <2>1 DEF Catching, Caught
  <2>3. LastOnLine(o) => LastOnLine(o)'
    BY <1>1, <2>1 DEF LastOnLine, IsReport, StateAt
  <2>4. LastInHand(o) => LastInHand(o)'
    BY <1>1 DEF LastInHand, Holding
  <2> QED
    BY <2>2, <2>3, <2>4
<1> QED
  BY <1>4, <1>6, <1>7, <1>8 DEF Catching

LEMMA LineCreated ==
  ASSUME TypeInv, Catching, Connect
  PROVE  Catching'
<1> USE DEF eventVars, orderVars, appVars, serverVars
<1>1. /\ lines \in Nat /\ MaxLines \in Nat /\ line \in Line \cup {NoLine}
      /\ \A o \in Order : placed[o] \in Line \cup {NoLine}
      /\ line <= lines
  BY BoundsAssumption, StateTypes DEF TypeInv, TypeOK, Catching, Fresh
<1>2. /\ placed' = placed
      /\ toClient' = [l \in Line |-> IF l = line THEN << >> ELSE toClient[l]]
  BY DEF Connect
<1>3. \/ /\ lines' = lines + 1 /\ lines < MaxLines /\ line' = lines'
         /\ status' = [l \in Line |-> CASE l = lines' -> "up" [] l = line -> "destroyed"
                                        [] OTHER -> status[l]]
         /\ epc' \in {"sleep", "ask"}
      \/ /\ line' = NoLine /\ epc' = "sleep" /\ lines' = lines
         /\ status' = [l \in Line |-> IF l = line THEN "destroyed" ELSE status[l]]
  BY DEF Connect
<1>4. \A l \in Line : l > lines' => l # line /\ l # lines' /\ l > lines /\ status'[l] = status[l]
  <2>1. ASSUME NEW l \in Line, l > lines'
        PROVE  l # line /\ l # lines' /\ l > lines
    BY <1>1, <1>3, <2>1 DEF Line, NoLine
  <2> QED
    BY <1>3, <2>1
<1>5. Fresh'
  <2>1. \A l \in Line : l > lines' => status'[l] = "none" /\ toClient'[l] = << >>
    BY <1>2, <1>4 DEF Catching, Fresh
  <2>2. \A o \in Order : placed'[o] = NoLine \/ placed'[o] <= lines'
    <3>1. \A o \in Order : placed[o] = NoLine \/ placed[o] <= lines
      BY DEF Catching, Fresh
    <3>2. lines' = lines \/ lines' = lines + 1
      BY <1>3
    <3> QED
      BY <1>1, <1>2, <3>1, <3>2 DEF Line, NoLine
  <2>3. line' <= lines'
    BY <1>1, <1>3 DEF NoLine
  <2> QED
    BY <2>1, <2>2, <2>3 DEF Fresh
<1>6. ASSUME Attending'
      PROVE  toClient'[line'] = << >> /\ \A o \in Order : placed'[o] # line'
  <2>1. line' = lines + 1 /\ lines < MaxLines
    BY <1>3, <1>6 DEF Attending, Asking, Holding
  <2>2. line' \in Line /\ line' > lines /\ line' # line
    BY <1>1, <2>1 DEF Line, NoLine
  <2>3. toClient'[line'] = << >>
    BY <1>2, <2>2 DEF Catching, Fresh
  <2>4. \A o \in Order : placed[o] # line'
    <3>1. \A o \in Order : placed[o] = NoLine \/ placed[o] <= lines
      BY DEF Catching, Fresh
    <3> QED
      BY <1>1, <2>1, <3>1 DEF Line, NoLine
  <2> QED
    BY <1>2, <2>3, <2>4
<1>7. Answering'
  BY <1>6 DEF Answering, Attending
<1>8. Searching'
  BY <1>3 DEF Searching
<1>9. Caught'
  BY <1>6 DEF Caught
<1> QED
  BY <1>5, <1>7, <1>8, <1>9 DEF Catching

LEMMA ReportTaken ==
  ASSUME TypeInv, Advancing, Catching, epc = "apply", epc' = "check",
         state' = [state EXCEPT ![report.order] = report.state],
         UNCHANGED <<toClient, reported, placed, line, lines, status, early>>
  PROVE  Catching'
<1>1. /\ report.order \in Order
      /\ state[report.order] <= report.state /\ report.state <= reported[report.order]
  BY DEF Advancing, InHand, Holding
<1>2. \A o \in Order : state'[o] = IF o = report.order THEN report.state ELSE state[o]
  BY DEF TypeInv, TypeOK
<1>3. Up(line)' = Up(line) /\ ~ Asking' /\ Attending
  BY DEF Up, Is, Asking, Attending, Holding
<1>4. Fresh'
  BY DEF Catching, Fresh
<1>5. Answering' /\ Searching'
  BY <1>3 DEF Answering, Searching
<1>6. Caught'
  <2> SUFFICES ASSUME NEW o \in Order \ early, placed[o] = line, Up(line)
               PROVE  state'[o] = reported[o] \/ LastOnLine(o)'
    BY <1>3 DEF Caught
  <2>1. state[o] = reported[o] \/ LastOnLine(o) \/ LastInHand(o)
    BY <1>3 DEF Catching, Caught
  <2>2. LastOnLine(o) => LastOnLine(o)'
    BY DEF LastOnLine, IsReport, StateAt
  <2>3. CASE state[o] = reported[o]
    <3>1. state[o] \in Nat /\ reported[o] \in Nat /\ report.state \in Nat
      BY StateTypes
    <3> QED
      BY <1>1, <1>2, <2>3, <3>1
  <2>4. CASE LastInHand(o)
    BY <1>2, <2>4 DEF LastInHand
  <2> QED
    BY <2>1, <2>2, <2>3, <2>4
<1> QED
  BY <1>4, <1>5, <1>6 DEF Catching

LEMMA FindKeeps ==
  ASSUME TypeInv, Catching, Find
  PROVE  Catching'
<1> USE DEF eventVars, orderVars, appVars, wireVars, serverVars, EventAt
<1>1. /\ UNCHANGED <<toClient, state, reported, placed, line, lines, status, early>>
      /\ epc = "find" /\ epc' \in {"apply", "check"}
      /\ Found(report.order) => epc' = "apply" /\ report' = report
  BY DEF Find
<1>2. ASSUME NEW o \in Order \ early, LastInHand(o)
      PROVE  LastInHand(o)'
  <2>1. PICK k \in DOMAIN orders : k <= endAt /\ orders[k] = o
    BY <1>1, <1>2 DEF LastInHand, Catching, Searching
  <2>2. orders \in Seq(Order) /\ endAt \in Nat
    BY BoundsAssumption DEF TypeInv, TypeOK
  <2>3. Position(o) \in 1 .. k /\ k \in Nat
    BY <2>1, <2>2, FirstPosition, LenProperties
  <2>4. Position(o) # 0 /\ Position(o) # endAt + 1
    BY <2>1, <2>2, <2>3
  <2>5. Found(report.order)
    BY <1>2, <2>4 DEF Found, LastInHand
  <2> QED
    BY <1>1, <1>2, <2>5 DEF LastInHand, Holding
<1>3. Searching' /\ ~ Asking' /\ Attending
  BY <1>1 DEF Searching, Asking, Attending, Holding
<1> QED
  BY <1>1, <1>2, <1>3, NoMessage

LEMMA ReadKeeps ==
  ASSUME TypeInv, Catching, Read
  PROVE  Catching'
<1> USE DEF eventVars, orderVars, appVars, wireVars, serverVars, EventAt
<1>1. /\ UNCHANGED <<state, reported, placed, line, lines, status, orders>>
      /\ epc = "read" /\ line \in Line
  BY DEF Read, TypeInv, LineOK
<1>2. ~ Asking' /\ ~ Holding /\ Attending
  BY <1>1 DEF Read, AfterTimeout, Asking, Holding, Attending
<1>3. CASE toClient[line] = << >>
  <2>1. UNCHANGED <<toClient, early>> /\ epc' \in {"check", "sleep"}
    BY <1>3 DEF Read, AfterTimeout
  <2>2. Searching' /\ \A o \in Order \ early : ~ LastInHand(o)
    BY <1>2, <2>1 DEF Searching, LastInHand
  <2> QED
    BY <1>1, <1>2, <2>1, <2>2, NoMessage
<1>4. CASE toClient[line] # << >>
  <2>1. /\ toClient' = [toClient EXCEPT ![line] = RemoveAt(toClient[line], 1)]
        /\ \/ /\ toClient[line][1].kind = "report"
              /\ epc' = "find" /\ report' = toClient[line][1] /\ endAt' = Len(orders)
              /\ early' = early \cup ({report'.order} \ ToSet(orders))
           \/ /\ toClient[line][1].kind # "report"
              /\ epc' = "check" /\ early' = early
    BY <1>4 DEF Read, Reads
  <2>2. RemoveAt(toClient[line], 1) = Tail(toClient[line])
    <3>1. toClient[line] \in Seq(Sound)
      BY <1>1 DEF TypeInv, ReportsOK
    <3> QED
      BY <1>4, <3>1, WithoutFirst
  <2>3. Searching'
    <3> SUFFICES ASSUME epc' = "find", report'.order \notin early'
                 PROVE  \E k \in DOMAIN orders : k <= endAt' /\ orders[k] = report'.order
      BY <1>1 DEF Searching
    <3>1. report'.order \in ToSet(orders) /\ endAt' = Len(orders)
      BY <2>1
    <3>2. PICK k \in DOMAIN orders : orders[k] = report'.order
      BY <3>1 DEF ToSet
    <3>3. orders \in Seq(Order)
      BY DEF TypeInv, TypeOK
    <3>4. k <= Len(orders)
      BY <3>3, LenProperties
    <3> QED
      BY <3>1, <3>2, <3>4
  <2>4. early \subseteq early'
    BY <2>1
  <2>5. toClient[line][1].kind = "report" => Holding' /\ report' = toClient[line][1]
    BY <2>1 DEF Holding
  <2>6. toClient' = [toClient EXCEPT ![line] = Tail(toClient[line])]
    BY <2>1, <2>2
  <2> QED
    BY <1>1, <1>2, <1>4, <2>3, <2>4, <2>5, <2>6, FirstTaken
<1> QED
  BY <1>3, <1>4

LEMMA AnswerKeeps ==
  ASSUME TypeInv, Catching, ReadAnswer
  PROVE  Catching'
<1> USE DEF eventVars, orderVars, appVars, wireVars, serverVars, EventAt
<1>1. /\ UNCHANGED <<state, reported, placed, line, lines, status, early>>
      /\ epc = "answer" /\ epc' \in {"check", "sleep"} /\ line \in Line
  BY DEF ReadAnswer, TypeInv, LineOK
<1>2. Asking /\ ~ Asking' /\ ~ Holding /\ Attending /\ Searching'
  BY <1>1 DEF Asking, Holding, Attending, Searching
<1>3. CASE toClient[line] = << >>
  <2>1. toClient' = toClient
    BY <1>3 DEF ReadAnswer
  <2>2. \A o \in Order \ early : ~ LastInHand(o)
    BY <1>2 DEF LastInHand
  <2> QED
    BY <1>1, <1>2, <2>1, <2>2, NoMessage
<1>4. CASE toClient[line] # << >>
  <2>1. toClient' = [toClient EXCEPT ![line] = Tail(@)]
    BY <1>4 DEF ReadAnswer
  <2>2. Up(line) => toClient[line][1].kind # "report"
    BY <1>2, <1>4 DEF Catching, Answering
  <2>3. early \subseteq early'
    BY <1>1
  <2> QED
    BY <1>1, <1>2, <1>4, <2>1, <2>2, <2>3, FirstTaken
<1> QED
  BY <1>3, <1>4

LEMMA ServerKeeps ==
  ASSUME TypeInv, Once, Advancing, Catching,
         \/ \E l \in Line : Respond(l)
         \/ \E o \in Order : Report(o)
  PROVE  Catching'
<1> USE DEF eventVars, orderVars, appVars, serverVars
<1>1. ASSUME NEW l \in Line, Respond(l)
      PROVE  Catching'
  <2>1. /\ UNCHANGED <<state, line, lines, status, epc, report, endAt, early, orders, reported>>
        /\ toServer[l] # << >> /\ status[l] = "up"
    BY <1>1 DEF Respond
  <2>2. PICK m \in Sound : m.kind # "report" /\ toClient' = [toClient EXCEPT ![l] = Append(@, m)]
    <3>1. Answers(l) \in Sound /\ Answers(l).kind # "report"
      BY OtherType DEF Answers, Other, Identity
    <3>2. toClient' = [toClient EXCEPT ![l] = Append(@, Answers(l))]
      BY <1>1 DEF Respond
    <3> QED
      BY <3>1, <3>2
  <2> DEFINE r == Head(toServer[l])
  <2>3. /\ placed \in [Order -> Line \cup {NoLine}]
        /\ r \in Request /\ r = toServer[l][1] /\ 1 \in DOMAIN toServer[l]
    <3>1. toServer[l] \in Seq(Request) /\ placed \in [Order -> Line \cup {NoLine}]
      BY DEF TypeInv, TypeOK
    <3> QED
      BY <2>1, <3>1, TailElements, Elements
  <2>4. \/ placed' = placed
        \/ /\ r.kind = "order"
           /\ placed' = [placed EXCEPT ![r.order] = IF identified[l] THEN l ELSE @]
    BY <1>1 DEF Respond
  <2>5. ASSUME NEW o \in Order
        PROVE  placed'[o] = placed[o] \/ (placed'[o] = l /\ state[o] = reported[o])
    <3>1. CASE r.kind = "order" /\ r.order = o
      <4>1. OnWay(l, 1, o)
        BY <2>3, <3>1 DEF OnWay, OrderRequest, Request
      <4>2. arrivals[o] = 0
        BY <4>1 DEF Once, Arrived
      <4>3. reported[o] = 0 /\ state[o] <= reported[o] /\ state[o] \in Nat
        BY <4>2, StateTypes DEF Advancing, Placing
      <4>4. state[o] = reported[o]
        BY <4>3
      <4>5. placed'[o] = placed[o] \/ placed'[o] = l
        BY <2>3, <2>4, <3>1
      <4> QED
        BY <4>4, <4>5
    <3>2. CASE ~ (r.kind = "order" /\ r.order = o)
      BY <2>3, <2>4, <3>2
    <3> QED
      BY <3>1, <3>2
  <2> HIDE DEF r
  <2>6. \A o \in Order : placed'[o] = placed[o] \/ (placed'[o] = l /\ state[o] = reported'[o])
    BY <2>1, <2>5
  <2>7. \A o \in Order : reported'[o] = reported[o]
    BY <2>1
  <2>8. UNCHANGED <<state, line, lines, status, epc, report, endAt, early, orders>>
    BY <2>1
  <2> QED
    BY <2>1, <2>2, <2>6, <2>7, <2>8, MessageSent
<1>2. ASSUME NEW q \in Order, Report(q)
      PROVE  Catching'
  <2>1. /\ UNCHANGED <<state, line, lines, status, epc, report, endAt, early, orders, placed>>
        /\ reported' = [reported EXCEPT ![q] = @ + 1]
        /\ placed[q] # NoLine /\ status[placed[q]] = "up" /\ reported[q] < MaxReports
    BY <1>2 DEF Report, Up, Is
  <2>2. PICK k \in Line : k = placed[q]
    BY <2>1, StateTypes
  <2>3. /\ reported'[q] \in 0 .. MaxReports
        /\ \A o \in Order : o # q => reported'[o] = reported[o]
    <3>1. reported \in [Order -> 0 .. MaxReports]
      BY DEF TypeInv, TypeOK
    <3>2. reported'[q] = reported[q] + 1 /\ reported[q] \in 0 .. MaxReports
      BY <2>1, <3>1
    <3> QED
      BY <2>1, <3>1, <3>2, BoundsAssumption
  <2>4. PICK m \in Sound : /\ m.kind = "report" /\ m.order = q /\ m.state = reported'[q]
                           /\ toClient' = [toClient EXCEPT ![k] = Append(@, m)]
    <3> DEFINE new == [kind |-> "report", order |-> q, state |-> reported'[q]]
    <3>1. /\ new \in Sound /\ new.kind = "report" /\ new.order = q
          /\ new.state = reported'[q]
      BY <2>3 DEF Message, Sound
    <3>2. toClient' = [toClient EXCEPT ![k] = Append(@, new)]
      BY <1>2, <2>2 DEF Report
    <3> HIDE DEF new
    <3> QED
      BY <3>1, <3>2
  <2>5. \A o \in Order : placed'[o] = placed[o]
    BY <2>1
  <2>6. \A o \in Order : \/ reported'[o] = reported[o]
                         \/ m.kind = "report" /\ m.order = o /\ m.state = reported'[o]
    BY <2>3, <2>4
  <2>7. status[k] = "up" /\ placed[m.order] = k
    BY <2>1, <2>2, <2>4
  <2>8. UNCHANGED <<state, line, lines, status, epc, report, endAt, early, orders>>
    BY <2>1
  <2>9. \A o \in Order : placed'[o] = placed[o] \/ (placed'[o] = k /\ state[o] = reported'[o])
    BY <2>5
  <2>10. m.kind = "report" => placed[m.order] = k
    BY <2>7
  <2>11. status[k] = "up" /\ toClient' = [toClient EXCEPT ![k] = Append(@, m)]
    BY <2>4, <2>7
  <2> QED
    BY <2>6, <2>8, <2>9, <2>10, <2>11, MessageSent
<1> QED
  BY <1>1, <1>2

LEMMA NextCatching == TypeInv /\ Once /\ Advancing /\ Catching /\ [Next]_vars => Catching'
<1> SUFFICES ASSUME TypeInv, Once, Advancing, Catching, [Next]_vars
             PROVE  Catching'
  OBVIOUS
<1> USE DEF eventVars, orderVars, appVars, wireVars, serverVars, EventAt, AppAt
<1> DEFINE Kept == UNCHANGED <<toClient, state, reported, placed, line, lines, status, early>>
<1>1. CASE Begin \/ End \/ Ask \/ Check \/ Sleep
  <2>1. /\ Kept
        /\ \/ epc \notin {"ask", "check"} /\ epc' \in {"connect", "ended"}
           \/ epc = "ask" /\ epc' = "answer"
           \/ epc = "check" /\ epc' \in {"read", "sleep"}
    BY <1>1 DEF Begin, End, Ask, Check, Sleep, GoesOn
  <2>2. epc \notin {"find", "apply"}
    BY <1>1 DEF Begin, End, Ask, Check, Sleep
  <2>3. /\ Searching' /\ (Asking' => Asking) /\ (Attending' => Attending)
        /\ \A o \in Order \ early : ~ LastInHand(o)
    BY <2>1, <2>2 DEF Searching, Asking, Attending, Holding, LastInHand
  <2> QED
    BY <2>1, <2>3, NoMessage
<1>2. CASE \/ SubmitOrder \/ Send \/ PushOrder \/ Stop \/ Join
           \/ \E o \in Order : CancelOrder(o)
           \/ Over \/ UNCHANGED vars
  <2>1. Kept /\ UNCHANGED <<epc, report, endAt>>
    BY <1>2 DEF SubmitOrder, Send, PushOrder, Stop, Join, CancelOrder, Over, vars
  <2>2. orders' = orders \/ orders' = Append(orders, request.order)
    BY <1>2 DEF SubmitOrder, Send, PushOrder, Stop, Join, CancelOrder, Over, vars
  <2>3. \A k \in DOMAIN orders : k \in DOMAIN orders' /\ orders'[k] = orders[k]
    <3>1. CASE orders' = Append(orders, request.order)
      <4>1. orders \in Seq(Order) /\ request \in Request
        BY DEF TypeInv, TypeOK
      <4>2. orders \in Seq(Order \cup {NoOrder}) /\ request.order \in Order \cup {NoOrder}
        BY <4>1, SeqMonotonic DEF Request
      <4> HIDE DEF NoOrder
      <4> QED
        BY <3>1, <4>2, AppendProperties, LenProperties
    <3> QED
      BY <2>2, <3>1
  <2>4. Searching'
    BY <2>1, <2>3 DEF Catching, Searching
  <2>5. /\ Asking' = Asking /\ Attending' = Attending
        /\ \A o \in Order \ early : LastInHand(o) => LastInHand(o)'
    BY <2>1 DEF Asking, Attending, Holding, LastInHand
  <2> QED
    BY <2>1, <2>4, <2>5, NoMessage
<1>3. CASE Apply
  <2>1. \/ /\ state' = [state EXCEPT ![report.order] = report.state] /\ epc' = "check"
           /\ UNCHANGED <<toClient, reported, placed, line, lines, status, early>>
        \/ Kept /\ UNCHANGED <<epc, report, endAt, orders>>
    BY <1>3 DEF Apply
  <2>2. epc = "apply"
    BY <1>3 DEF Apply
  <2>3. CASE Kept /\ UNCHANGED <<epc, report, endAt, orders>>
    <3>1. /\ Searching' /\ Asking' = Asking /\ Attending' = Attending
          /\ \A o \in Order \ early : LastInHand(o) => LastInHand(o)'
      BY <2>2, <2>3 DEF Searching, Asking, Attending, Holding, LastInHand
    <3> QED
      BY <2>3, <3>1, NoMessage
  <2> QED
    BY <2>1, <2>2, <2>3, ReportTaken
<1> QED
  BY <1>1, <1>2, <1>3, LineCreated, AnswerKeeps, ReadKeeps, FindKeeps, LineBroken, ServerKeeps
     DEF Next, EventLoop, Application, Server

(***************************************************************************)
(* While the client reads a line, it knows the last state reported of      *)
(* every order accepted there, apart from reports underway and orders      *)
(* whose report it read before they were listed.                           *)
(***************************************************************************)
THEOREM InStepCorrect == Spec => []InStep
<1> DEFINE Inv == TypeInv /\ Once /\ Advancing /\ Catching
<1>1. Init => Inv
  BY InitTypeInv, InitOnce, InitAdvancing, InitCatching
<1>2. Inv /\ [Next]_vars => Inv'
  BY NextTypeInv, NextOnce, NextAdvancing, NextCatching
<1>3. Inv => InStep
  <2> SUFFICES ASSUME Inv, NEW o \in Order \ early,
                      Reading(placed[o]), Up(placed[o]), ~ ReportsUnderway(o)
               PROVE  state[o] = reported[o]
    BY DEF InStep
  <2>1. Attending /\ placed[o] = line /\ Up(line)
    BY DEF Reading, Attending, Holding
  <2>2. state[o] = reported[o] \/ LastOnLine(o) \/ LastInHand(o)
    BY <2>1 DEF Catching, Caught
  <2>3. ~ LastOnLine(o)
    BY <2>1 DEF ReportsUnderway, LastOnLine, IsReport
  <2>4. ~ LastInHand(o)
    BY DEF ReportsUnderway, LastInHand, Holding
  <2> QED
    BY <2>2, <2>3, <2>4
<1> QED
  BY <1>1, <1>2, <1>3, PTL DEF Spec
-----------------------------------------------------------------------------
(* OrderView, seen from the client. What the client knows of an order is   *)
(* its state in the client, and concerns the line it was placed on.        *)

KnownState == [v \in Line \X Order |-> IF v[1] = placed[v[2]] THEN state[v[2]] ELSE 0]

LEMMA SameView ==
  ASSUME UNCHANGED <<placed, reported, state>>
  PROVE  UNCHANGED View!viewVars
<1>1. KnownState' = KnownState
  BY DEF KnownState
<1> QED
  BY <1>1 DEF View!viewVars, KnownState

(* An order comes to the server at most once, so that it has no line yet    *)
(* when it is accepted on one, and nothing has been reported for it.        *)
LEMMA RespondView ==
  ASSUME TypeInv, Once, Advancing, NEW l \in Line, Respond(l)
  PROVE  [View!Next]_(View!viewVars)
<1> DEFINE r == Head(toServer[l])
<1>1. UNCHANGED <<state, reported>> /\ toServer[l] # << >>
  BY DEF Respond, orderVars
<1>2. /\ placed \in [Order -> Line \cup {NoLine}]
      /\ r \in Request /\ r = toServer[l][1] /\ 1 \in DOMAIN toServer[l]
  <2>1. toServer[l] \in Seq(Request) /\ placed \in [Order -> Line \cup {NoLine}]
    BY DEF TypeInv, TypeOK
  <2> QED
    BY <1>1, <2>1, TailElements, Elements
<1>3. \/ placed' = placed
      \/ /\ r.kind = "order" /\ identified[l]
         /\ placed' = [placed EXCEPT ![r.order] = l]
  <2>1. \/ placed' = placed
        \/ /\ r.kind = "order"
           /\ placed' = [placed EXCEPT ![r.order] = IF identified[l] THEN l ELSE @]
    BY DEF Respond
  <2> QED
    BY <1>2, <2>1
<1>4. CASE placed' = placed
  BY <1>1, <1>4, SameView
<1>5. CASE r.kind = "order" /\ placed' = [placed EXCEPT ![r.order] = l]
  <2>1. CASE r.order \notin Order
    <3>1. placed' = placed
      BY <1>2, <1>5, <2>1
    <3> QED
      BY <1>4, <3>1
  <2>2. CASE r.order \in Order
    <3>1. PICK q \in Order : q = r.order
      BY <2>2
    <3>2. OnWay(l, 1, q)
      BY <1>2, <1>5, <3>1 DEF OnWay, OrderRequest, Request
    <3>3. arrivals[q] = 0
      BY <3>2 DEF Once, Arrived
    <3>4. placed[q] = NoLine /\ reported[q] = 0 /\ state[q] <= 0
      BY <3>3 DEF Advancing, Placing
    <3>5. state[q] = 0
      BY <3>4, StateTypes
    <3>6. placed' = [placed EXCEPT ![q] = l]
      BY <1>5, <3>1
    <3>7. \A v \in Line \X Order : KnownState'[v] = KnownState[v]
      <4>1. \A o \in Order : o # q => placed'[o] = placed[o]
        BY <1>2, <3>6
      <4> QED
        BY <1>1, <3>5, <4>1 DEF KnownState
    <3>8. KnownState' = KnownState
      BY <3>7 DEF KnownState
    <3>9. View!Place(q)
      BY <1>1, <3>4, <3>6, <3>8 DEF View!Place, KnownState
    <3> QED
      BY <3>9 DEF View!Next
  <2> QED
    BY <2>1, <2>2
<1> QED
  BY <1>3, <1>4, <1>5

LEMMA ReportView ==
  ASSUME TypeInv, NEW o \in Order, Report(o)
  PROVE  [View!Next]_(View!viewVars)
<1>1. /\ UNCHANGED <<state, placed>> /\ placed[o] # NoLine
      /\ reported[o] < MaxReports /\ reported' = [reported EXCEPT ![o] = @ + 1]
  BY DEF Report, Up, Is, orderVars
<1>2. placed[o] \in Line
  BY <1>1, StateTypes
<1>3. PICK n \in Nat : n = reported[o]
  BY StateTypes
<1>4. n + 1 \in 0 .. MaxReports /\ n \in 0 .. MaxReports /\ n < n + 1
  BY <1>1, <1>3, BoundsAssumption
<1>5. <<reported[o], n + 1>>
        \in {p \in (0 .. MaxReports) \X (0 .. MaxReports) : p[1] < p[2]}
  BY <1>3, <1>4
<1>6. reported' = [reported EXCEPT ![o] = n + 1]
  BY <1>1, <1>3
<1>7. KnownState' = KnownState
  BY <1>1 DEF KnownState
<1>8. View!Advance(o)
  BY <1>1, <1>2, <1>4, <1>5, <1>6, <1>7 DEF View!Advance, KnownState
<1> QED
  BY <1>8 DEF View!Next

(* The report in hand is no older than what the client knows, and no newer  *)
(* than the order.                                                          *)
LEMMA ApplyView ==
  ASSUME TypeInv, Advancing, Apply
  PROVE  [View!Next]_(View!viewVars)
<1>a. epc = "apply" /\ UNCHANGED <<placed, reported>>
  BY DEF Apply, EventAt, serverVars
<1>1. PICK o \in Order : o = report.order
  BY <1>a DEF Advancing, InHand, Holding
<1>2. PICK n : n = report.state
  OBVIOUS
<1>3. n \in Nat /\ state[o] <= n /\ n <= reported[o]
  BY <1>a, <1>1, <1>2, StateTypes DEF Advancing, InHand, Holding
<1>4. state' = [state EXCEPT ![o] = n] \/ state' = state
  BY <1>1, <1>2 DEF Apply
<1>5. CASE state' = state
  BY <1>a, <1>5, SameView
<1>6. CASE state' = [state EXCEPT ![o] = n] /\ n = state[o]
  <2>1. state' = state
    BY <1>6 DEF TypeInv, TypeOK
  <2> QED
    BY <1>5, <2>1
<1>7. CASE state' = [state EXCEPT ![o] = n] /\ n # state[o]
  <2>1. /\ state[o] \in 0 .. MaxReports /\ reported[o] \in 0 .. MaxReports
        /\ state \in [Order -> 0 .. MaxReports]
    BY DEF TypeInv, TypeOK
  <2>2. state[o] < n /\ reported[o] # 0 /\ n \in 0 .. MaxReports
    BY <1>3, <1>7, <2>1, BoundsAssumption
  <2>3. placed[o] \in Line
    BY <2>2, StateTypes DEF Advancing, Placing
  <2>4. PICK l \in Line : l = placed[o]
    BY <2>3
  <2>5. KnownState[<<l, o>>] = state[o]
    BY <2>4 DEF KnownState
  <2>6. KnownState' = [KnownState EXCEPT ![<<l, o>>] = n]
    <3>1. \A p \in Order : state'[p] = IF p = o THEN n ELSE state[p]
      BY <1>7, <2>1
    <3>2. \A v \in Line \X Order :
            KnownState'[v] = [KnownState EXCEPT ![<<l, o>>] = n][v]
      BY <1>a, <2>4, <3>1 DEF KnownState
    <3> QED
      BY <3>2 DEF KnownState
  <2>7. <<KnownState[<<placed[o], o>>], n>>
          \in {p \in (0 .. MaxReports) \X (0 .. MaxReports) : p[1] < p[2]}
    BY <2>1, <2>2, <2>4, <2>5
  <2>8. \/ n = reported[o]
        \/ <<n, reported[o]>>
             \in {p \in (0 .. MaxReports) \X (0 .. MaxReports) : p[1] < p[2]}
    BY <1>3, <2>1, <2>2, BoundsAssumption
  <2>9. KnownState' = View!Informed(o, n)
    BY <2>4, <2>6 DEF View!Informed, KnownState
  <2>10. View!Learn(o)
    BY <1>a, <2>2, <2>3, <2>7, <2>8, <2>9 DEF View!Learn, KnownState
  <2> QED
    BY <2>10 DEF View!Next
<1> QED
  BY <1>4, <1>5, <1>6, <1>7

LEMMA ViewStep ==
  ASSUME TypeInv, Once, Advancing, [Next]_vars
  PROVE  [View!Next]_(View!viewVars)
<1> USE DEF eventVars, orderVars, appVars, wireVars, serverVars
<1>1. CASE Begin \/ End \/ Connect \/ Ask \/ ReadAnswer \/ Check \/ Read \/ Find \/ Sleep
  <2>1. UNCHANGED <<placed, reported, state>>
    BY <1>1 DEF Begin, End, Connect, Ask, ReadAnswer, Check, Read, Find, Sleep
  <2> QED
    BY <2>1, SameView
<1>2. CASE Application
  <2>1. UNCHANGED <<placed, reported, state>>
    BY <1>2 DEF Application, SubmitOrder, CancelOrder, Send, PushOrder, Stop, Join
  <2> QED
    BY <2>1, SameView
<1>3. CASE Over \/ UNCHANGED vars \/ \E l \in Line : Break(l)
  <2>1. UNCHANGED <<placed, reported, state>>
    BY <1>3 DEF Over, vars, Break
  <2> QED
    BY <2>1, SameView
<1> QED
  BY <1>1, <1>2, <1>3, RespondView, ReportView, ApplyView DEF Next, EventLoop, Server

(***************************************************************************)
(* The client implements OrderView, as the server does: an order has one   *)
(* line for good, whatever lines the application tries to send it on, and  *)
(* what the client takes up of it comes from that line and goes forward,   *)
(* never ahead of the server.                                              *)
(***************************************************************************)
THEOREM ImplementsView == Spec => ViewSpec
<1> DEFINE Inv == TypeInv /\ Once /\ Advancing
<1>1. Init => Inv
  BY InitTypeInv, InitOnce, InitAdvancing
<1>2. Inv /\ [Next]_vars => Inv'
  BY NextTypeInv, NextOnce, NextAdvancing
<1>3. Init => View!Init
  <2> SUFFICES ASSUME Init PROVE View!Init
    OBVIOUS
  <2>1. \A v \in Line \X Order : KnownState[v] = 0
    BY DEF Init, KnownState
  <2>2. KnownState = [v \in Line \X Order |-> 0]
    BY <2>1 DEF KnownState
  <2> QED
    BY <2>2 DEF Init, View!Init, KnownState
<1>4. Inv /\ [Next]_vars => [View!Next]_(View!viewVars)
  BY ViewStep
<1> QED
  BY <1>1, <1>2, <1>3, <1>4, PTL DEF Spec, ViewSpec, View!Spec
==============================================================================
