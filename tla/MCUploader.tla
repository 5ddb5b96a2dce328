------------------------------ MODULE MCUploader ------------------------------
(* Finite instances of Uploader: the bundles are interchangeable. *)
EXTENDS UploaderImplements, TLC

Symmetry == Permutations(Bundles)

\* Somebody else has touched a copy, or a copy that was given up may still land.
Touched == outside > 0 \/ landing # {}

\* A receipt is wrong, or one that was issued has been taken back.
Doubtful ==
  \/ \E b \in Bundles : receipt[b].kind = "invalid"
  \/ \E issued \in reviewed : receipt[issued[1]].kind = "absent"

\* Bound: from then on no process dies and the second bundle stays away.
Calm == Touched \/ Doubtful => crashes = 0 /\ Cardinality({b \in Bundles : stage[b] # "none"}) = 1
=============================================================================
