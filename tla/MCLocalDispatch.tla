--------------------------- MODULE MCLocalDispatch ---------------------------
(***************************************************************************)
(* Instances of LocalDispatch for TLC.                                     *)
(***************************************************************************)
EXTENDS LocalDispatch, TLC

(* For two dispatches: a commit whose first Stage may pass, be negative or *)
(* fail; the fixture behind it is skipped before it is spawned, because it *)
(* cannot consume implemented output, or blocked like the two that follow. *)
FixtureBehindAdapter ==
  {<< "implemented", "fixture", "implemented", "not_implemented" >>}

(* For three dispatches: a commit without adapters, whose runs differ in   *)
(* nothing but the order of their steps.                                   *)
NoAdapters == {<< "not_implemented", "not_implemented", "not_implemented",
                  "not_implemented" >>}
AnyOrder == Permutations(Dispatches)
=============================================================================
