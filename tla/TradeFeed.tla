------------------------------ MODULE TradeFeed ------------------------------
(***************************************************************************)
(* What the trade sink of the order server promises to the stats server,   *)
(* broker/brokerserver.cpp sendTradeToSink and tradeSink: it receives only *)
(* trades that were handed over, and never one that was handed over before *)
(* one it has already received. Trades may be missing, and a trade may be  *)
(* repeated, but then before the next one.                                 *)
(*                                                                         *)
(* Trades are numbered in the order they are handed over.                  *)
(***************************************************************************)
EXTENDS Naturals, Sequences

VARIABLES
  given,     \* how many trades were handed over
  received   \* the trades the stats server has received

feedVars == <<given, received>>

Init == given = 0 /\ received = << >>

Latest == IF received = << >> THEN 1 ELSE received[Len(received)]

Give ==
  /\ given' = given + 1
  /\ UNCHANGED received

Receive ==
  /\ \E t \in Latest .. given : received' = Append(received, t)
  /\ UNCHANGED given

Next == Give \/ Receive

Spec == Init /\ [][Next]_feedVars
=============================================================================
