----------------------------- MODULE MC_Session -----------------------------
(* Session with two accounts, one sign-in and one sign-out in flight.      *)
EXTENDS Session
=============================================================================
