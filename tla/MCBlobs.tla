-------------------------------- MODULE MCBlobs --------------------------------
(* Empty content, content of one chunk, of a whole and a part, of two wholes    *)
(* that are alike, and content over the limit.                                  *)
EXTENDS Blobs

CONSTANTS w1, w2, k0, k1

Files == {<<>>, <<1>>, <<1, 2, 1>>, <<1, 2, 1, 2>>, <<1, 1, 1, 1, 1>>}
WriteSymmetry == Permutations({w1, w2})
=============================================================================
