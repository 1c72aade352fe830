---------------------------- MODULE MCProviderCall ----------------------------
(* The instances of ProviderCall that TLC checks. *)
EXTENDS ProviderCall

CONSTANTS c1, c2

MCConcurrency == [c \in Calls |-> 2]
=============================================================================
