---------------------------- MODULE MCHubTrading ----------------------------
(***************************************************************************)
(* The instance of HubTrading that TLC checks: a BUY and a SELL on Binance *)
(* and a BUY on Polymarket.                                                *)
(***************************************************************************)
EXTENDS HubTrading

CONSTANTS b1, s1, p1

MCOrders == {b1, s1, p1}
MCBinance == {b1, s1}
MCBuys == {b1, p1}
MCQty == [k \in MCOrders |-> IF k = b1 THEN 2 ELSE 1]
=============================================================================
