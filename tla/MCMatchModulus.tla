--------------------------- MODULE MCMatchModulus ---------------------------
(* Model values for MatchModulus: the default chain: five primes, TopLevel 3 *)
(* so both ciphertexts can be mod-switched or rescaled several times.      *)
EXTENDS MatchModulus

MCTopLevel == 3
MCPlain == <<1>>
=============================================================================
