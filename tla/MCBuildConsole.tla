---------------------------- MODULE MCBuildConsole ----------------------------
(***************************************************************************)
(* The instance of BuildConsole for TLC.                                   *)
(***************************************************************************)
EXTENDS BuildConsole

(* A third of the selections of adapters: any three Stages have every      *)
(* choice of modes, and the fourth follows from them.                      *)
Rank == [implemented |-> 0, fixture |-> 1, not_implemented |-> 2]
EveryThree ==
  {chosen \in [Stages -> Modes] :
     (Rank[chosen[1]] + Rank[chosen[2]] + Rank[chosen[3]] + Rank[chosen[4]]) % 3 = 0}
=============================================================================
