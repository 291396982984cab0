---------------------------- MODULE PointAccount ----------------------------
(***************************************************************************)
(* What the point account of one user promises to those who pay with it:   *)
(* every consumption is covered when it is taken, every return is booked,  *)
(* each exactly once and one after the other.                              *)
(***************************************************************************)
EXTENDS Naturals

CONSTANTS
    Consumes,  \* consumptions
    Returns,   \* refunds and compensations
    Of,        \* Of[r]: the consumption a return gives back
    Amount,    \* Amount[c]: the points of a consumption
    Opening    \* the balance before them

VARIABLES balance, applied

Init == balance = Opening /\ applied = {}

Take(c) ==
    /\ c \notin applied /\ balance >= Amount[c]
    /\ balance' = balance - Amount[c]
    /\ applied' = applied \cup {c}

GiveBack(r) ==
    /\ r \notin applied /\ Of[r] \in applied
    /\ balance' = balance + Amount[Of[r]]
    /\ applied' = applied \cup {r}

Next == (\E c \in Consumes : Take(c)) \/ (\E r \in Returns : GiveBack(r))

Spec == Init /\ [][Next]_<<balance, applied>>
=============================================================================
