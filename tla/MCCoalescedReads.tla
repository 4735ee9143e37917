-------------------------- MODULE MCCoalescedReads --------------------------
(***************************************************************************)
(* Instances of CoalescedReads for TLC.                                    *)
(***************************************************************************)
EXTENDS CoalescedReads, TLC

CONSTANTS r1, r2, r3

\* Readers differ in nothing, and no safety property names one.
Symmetry == Permutations(Readers)
=============================================================================
