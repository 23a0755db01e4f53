----------------------------- MODULE MCConnector -----------------------------
(* Three channels to two destinations with two slots beside the one for the  *)
(* global requests.                                                          *)
EXTENDS Connector

CONSTANTS x1, x2, x3, p1, p2

ThreeChannels == {x1, x2, x3}
TwoDests == {p1, p2}
==============================================================================
