--------------------------- MODULE MCPaymentOrder ---------------------------
(* Two membership orders of one level with the requests for them, and a      *)
(* recharge order with its intent and its payment.                          *)
EXTENDS PaymentOrder

CONSTANTS gold, silver, first, second, recharge, h1, h2

MCOrders == {first, second}
OneRecharge == {recharge}
BothLevels == {gold, silver}
MCLevel  == [o \in Orders |-> IF o = recharge THEN NoLevel ELSE gold]
MCLength == [o \in Orders |-> IF o = first THEN 2 ELSE 1]
MCBonus  == {first} \cap Orders

Sent(op, o, event, paid, exact) ==
    [op |-> op, order |-> o, event |-> event, paid |-> paid, exact |-> exact]

\* The intent of the first order, its payment with the right and with a wrong amount, a
\* failed payment and the local simulation; the payment of the second order.
MCPayloads ==
    {Sent("webhook", first, "tx1", TRUE, TRUE), Sent("webhook", first, "tx1", TRUE, FALSE),
     Sent("webhook", first, "tx2", FALSE, TRUE), Sent("local", first, "key", TRUE, TRUE),
     Sent("intent", first, IntentKey, FALSE, FALSE), Sent("webhook", second, "tx3", TRUE, TRUE)}

RechargePayloads == {Sent("intent", recharge, IntentKey, FALSE, FALSE),
                     Sent("webhook", recharge, "tx1", TRUE, TRUE)}
=============================================================================
