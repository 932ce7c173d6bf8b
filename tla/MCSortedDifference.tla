------------------------ MODULE MCSortedDifference -------------------------
(* All pairs of sorted arrays over five values. *)
EXTENDS SortedDifference, SequencesExt, FiniteSetsExt

SortedArrays == {SetToSortSeq(S, <) : S \in SUBSET Value}

MCInit == \E ds, es \in SortedArrays : Begin(ds, es)

MCSpec == MCInit /\ [][MergeNext]_mergeVars
=============================================================================
