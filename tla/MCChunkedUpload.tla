-------------------------- MODULE MCChunkedUpload --------------------------
(* Uploads of one model: one of two chunks, and one in a single request. *)
EXTENDS ChunkedUpload, TLC

CONSTANTS big, small, h1, h2

MCSingles == Uploads \intersect {small}
MCChunksOf == [u \in Uploads |-> IF u = small THEN 1 ELSE 2]


(* Requests are alike. *)
MCAlike == Permutations(Handlers)
=============================================================================
