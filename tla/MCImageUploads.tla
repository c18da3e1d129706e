--------------------------- MODULE MCImageUploads ---------------------------
(* ImageUploads on a small instance.  Either two sessions of one chunk for *)
(* files of one name, whose finalizations compete for it, or one session   *)
(* of two chunks, sent in any order: Focus leaves out the two together.    *)
(* Requests, contents and the short sessions are interchangeable; the      *)
(* symmetry is used for safety only.                                       *)
EXTENDS ImageUploads, TLC

CONSTANT Long
MCLength == [u \in Uploads |-> IF u = Long THEN 2 ELSE 1]
Focus == \A u \in Uploads \ {Long} : NoSession \in {sessions[Long], sessions[u]}
MCSymmetry == Permutations(Handlers) \cup Permutations(Uploads \ {Long}) \cup Permutations(Contents)
=============================================================================
