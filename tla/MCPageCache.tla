----------------------------- MODULE MCPageCache -----------------------------
(***************************************************************************)
(* Bounds for PageCache. Sizes are in pages. Four memories are enough to  *)
(* fill the non-executable cache to its scaled capacity of 2 and still     *)
(* have one page live. The semi-space bound of 1 page and the thresholds  *)
(* 0 and 3 give limits of 1 and 2, so Deallocate both caches and deletes  *)
(* a cacheable page. A large page may have the size of a regular one. No  *)
(* symmetry is used: AllocationFits relates a memory in two successive    *)
(* states.                                                                 *)
(***************************************************************************)
EXTENDS PageCache

MCPageSize == 1
MCLargeSizes == {1, 2}
MCCapacity == 2
MCSemiMaxPages == 1
MCThresholds == {0, 3}
MCFlagChoices == {{"new"}, {}, {"exec"}, {"large"}, {"vmisolate"}}
=============================================================================
