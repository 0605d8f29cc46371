----------------------------- MODULE OrderView -----------------------------
(***************************************************************************)
(* What the order service of libgoldmine promises of the orders given to   *)
(* it, at the server and at the client alike. An order is placed once, by  *)
(* one session, and is that session's for good. It goes through its stages *)
(* forward only. The session comes to know of stages in their order; it    *)
(* may miss some, and know of the last one late or never, but knows of     *)
(* none that is ahead of the order, and of no order but its own.           *)
(***************************************************************************)
CONSTANTS
  Order,
  Party,      \* the sessions that place orders
  NoParty,    \* the order is not placed
  Stage,      \* the stages of an order
  First,      \* the stage of an order that is not placed
  Later       \* the pairs of stages of which the second is after the first

VARIABLES
  placed,     \* the session that placed each order
  current,    \* the stage each order is in
  known       \* the stage that each session knows of for each order

viewVars == <<placed, current, known>>

Init ==
  /\ placed = [o \in Order |-> NoParty]
  /\ current = [o \in Order |-> First]
  /\ known = [v \in Party \X Order |-> First]

Place(o) ==
  /\ placed[o] = NoParty
  /\ \E s \in Party : placed' = [placed EXCEPT ![o] = s]
  /\ UNCHANGED <<current, known>>

Informed(o, stage) == [known EXCEPT ![<<placed[o], o>>] = stage]

Advance(o) ==   \* the session may be told in the same step
  /\ placed[o] \in Party
  /\ \E stage \in Stage :
       /\ <<current[o], stage>> \in Later
       /\ current' = [current EXCEPT ![o] = stage]
       /\ known' \in {known, Informed(o, stage)}
  /\ UNCHANGED placed

Learn(o) ==
  /\ placed[o] \in Party
  /\ \E stage \in Stage :
       /\ <<known[<<placed[o], o>>], stage>> \in Later
       /\ stage = current[o] \/ <<stage, current[o]>> \in Later
       /\ known' = Informed(o, stage)
  /\ UNCHANGED <<placed, current>>

Next == \E o \in Order : Place(o) \/ Advance(o) \/ Learn(o)

Spec == Init /\ [][Next]_viewVars
=============================================================================
