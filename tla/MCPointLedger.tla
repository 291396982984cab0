--------------------------- MODULE MCPointLedger ---------------------------
(* Two tasks of one user with their refunds, two compensations of the first *)
(* task, and two requests that would credit the same day.                   *)
EXTENDS PointLedger

CONSTANTS pay1, pay2, back1, back2, admin1, admin2, reward1, reward2

BothConsumes == {pay1, pay2}
BothRefunds  == {back1, back2}
OneRefund    == {back1}
OneAdmin     == {admin1}
BothRewards  == {reward1, reward2}
Nobody       == {}

MCOf       == [r \in Returns |-> IF r = back2 THEN pay2 ELSE pay1]
MCSourceOf == [w \in Credits |-> "today"]

\* The opening balance pays for either task, not for both; a return or a
\* credit makes the second one affordable.
MCAmount   == [w \in Consumes \cup Credits |->
                 IF w = pay1 THEN 2 ELSE IF w = pay2 THEN 3 ELSE 1]
============================================================================
