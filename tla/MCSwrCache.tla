----------------------------- MODULE MCSwrCache -----------------------------
(* Small instances of SwrCache.                                            *)
EXTENDS SwrCache, TLC

CONSTANTS r1, k1, k2

\* Every version is data, or the write deletes the last item of the list.
NothingBlank == {}
LastBlank == {MaxVersion}

\* Only for invariants: the liveness run does not use it.
Symmetry == Permutations(Tasks)
=============================================================================
