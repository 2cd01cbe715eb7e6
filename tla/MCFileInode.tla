---------------------------- MODULE MCFileInode ----------------------------
(* FileInode for TLC: what other clients write into the object, and the    *)
(* symmetry of the handles (no liveness property is checked).              *)
EXTENDS FileInode, TLC

MCContents == {<<>>, <<7>>}

HandleSymmetry == Permutations(Handles)
=============================================================================
