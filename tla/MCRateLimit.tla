---------------------------- MODULE MCRateLimit ----------------------------
(* A small instance of RateLimit for TLC.                                  *)
EXTENDS RateLimit

CONSTANTS w1, w2, w3
=============================================================================
