---------------------------- MODULE MCQuoteSource ----------------------------
(***************************************************************************)
(* QuoteSource on small instances.                                         *)
(***************************************************************************)
EXTENDS QuoteSource

CONSTANTS c1, A, B

OneClient == {c1}
TwoTickers == {A, B}

\* a ticker or all of them, and a list that is refused half-way
OneRequest == {<<A>>}
NamedOrRefused == {<<A>>, <<B, Invalid, A>>}
AllOrRefused == {<<All>>, <<A, Invalid>>}
=============================================================================
