----------------------------- MODULE MCMiterCheck ------------------------------
(***************************************************************************)
(* Instances of the miter check for TLC.  Any call may fail at any time.   *)
(***************************************************************************)
EXTENDS MiterCheck

AnyFault == FaultyCalls

\* What an interrupted run of the program may have left.
NoMiterFile == {"none", "empty"}

===============================================================================
