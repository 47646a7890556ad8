------------------------------ MODULE Sessions ------------------------------
(***************************************************************************)
(* What the timers and the event path share: the session ids their tables  *)
(* are indexed with, and the bound on the inputs of an instance.           *)
(***************************************************************************)
EXTENDS Integers

CONSTANTS
  NumSessions,   \* TCP_MAX_SESSIONS
  MaxInputs      \* bound on the number of inputs

Session == 0 .. NumSessions - 1

ASSUME SessionsAssumption == NumSessions \in Nat \ {0} /\ MaxInputs \in Nat
=============================================================================
