------------------------ MODULE MCStreamSubscribers ------------------------
(* Three streams for two places: the third finds them taken, left or leaked. *)
EXTENDS StreamSubscribers, TLC

CONSTANTS s1, s2, s3

ThreeStreams == {s1, s2, s3}
Symmetry == Permutations(ThreeStreams)
=============================================================================
