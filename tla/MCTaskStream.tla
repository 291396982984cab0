---------------------------- MODULE MCTaskStream ----------------------------
(* Four events, a cache of two, one other instance. *)
EXTENDS TaskStream

\* The definition of After by ranks is the filter of the code.
ASSUME AfterFilters ==
    \A len \in 0..4 : \A s \in [1..len -> 0..4], n \in 0..4 :
        After(s, n) = SelectSeq(s, LAMBDA e : e > n)
=============================================================================
