----------------------------- MODULE TickStream -----------------------------
(***************************************************************************)
(* What a quote source promises to a client that asks for one stream:      *)
(* ticks arrive in the order they were produced, none twice, and, if the   *)
(* client paces the stream itself (manual mode), no more of them than it   *)
(* has asked for with NextTick messages: but for one tick that is underway *)
(* while the mode is set, and comes first. Ticks may be missing.           *)
(*                                                                         *)
(* Ticks are numbered in the order they are produced.                      *)
(***************************************************************************)
EXTENDS Naturals, Sequences

CONSTANT Client

VARIABLES
  produced,   \* how many ticks were produced
  paced,      \* the clients whose stream is in manual mode
  nexts,      \* how many NextTick messages each client sent
  sent,       \* the ticks sent to each client
  early       \* how many of them were underway when the mode was set

streamVars == <<produced, paced, nexts, sent, early>>

Init ==
  /\ produced = 0
  /\ paced = [c \in Client |-> FALSE]
  /\ nexts = [c \in Client |-> 0]
  /\ sent = [c \in Client |-> << >>]
  /\ early = [c \in Client |-> 0]

Produce ==
  /\ produced' = produced + 1
  /\ UNCHANGED <<paced, nexts, sent, early>>

SetMode(c) ==
  /\ sent[c] = << >>
  /\ \E m \in BOOLEAN : paced' = [paced EXCEPT ![c] = m]
  /\ UNCHANGED <<produced, nexts, sent, early>>

AskNext(c) ==
  /\ nexts' = [nexts EXCEPT ![c] = @ + 1]
  /\ UNCHANGED <<produced, paced, sent, early>>

LastSent(c) == IF sent[c] = << >> THEN 0 ELSE sent[c][Len(sent[c])]

SendNew(c) ==
  \E t \in LastSent(c) + 1 .. produced : sent' = [sent EXCEPT ![c] = Append(@, t)]

Send(c) ==
  /\ paced[c] => Len(sent[c]) < nexts[c] + early[c]
  /\ SendNew(c)
  /\ UNCHANGED <<produced, paced, nexts, early>>

SendUnderway(c) ==
  /\ paced[c] /\ sent[c] = << >>
  /\ SendNew(c)
  /\ early' = [early EXCEPT ![c] = @ + 1]
  /\ UNCHANGED <<produced, paced, nexts>>

Next == Produce \/ \E c \in Client : SetMode(c) \/ AskNext(c) \/ Send(c) \/ SendUnderway(c)

Spec == Init /\ [][Next]_streamVars
=============================================================================
