------------------------------- MODULE Faults --------------------------------
(***************************************************************************)
(* What fails outside the code: a D1 statement, an isolate that is killed. *)
(***************************************************************************)
EXTENDS Integers

CONSTANT
  MaxFaults  \* bound: failed D1 statements, kills

VARIABLE
  faults     \* how many there were

Fault == faults < MaxFaults /\ faults' = faults + 1

(* A D1 statement, which goes through or fails.                            *)
D1(ok) == IF ok THEN UNCHANGED faults ELSE Fault
=============================================================================
