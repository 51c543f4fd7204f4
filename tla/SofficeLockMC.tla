---------------------------- MODULE SofficeLockMC ----------------------------
(***************************************************************************)
(* Small instances of SofficeLock for TLC.                                 *)
(***************************************************************************)
EXTENDS SofficeLock, TLC

ProcSymmetry == Permutations(Procs)

(* Processes die outside their guard sections, deadlines pass and writes   *)
(* fail; or a process has died in its guard section, and nothing else.     *)
LateFaults == [deaths |-> "unobserved", left |-> {}, giveUp |-> TRUE]
EarlyFault == [deaths |-> "none", left |-> {TRUE}, giveUp |-> FALSE]
LateOrEarly == {LateFaults, EarlyFault}

(* Processes die, and somebody keeps waiting.                              *)
DeathsOnly == {[LateFaults EXCEPT !.giveUp = FALSE]}
=============================================================================
