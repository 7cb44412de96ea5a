------------------------- MODULE MCTelegramDelivery -------------------------
(* Small instances of TelegramDelivery for TLC. *)
EXTENDS TelegramDelivery, TLC

CONSTANTS n1, n2, g1, b1, b2, none

OnlyOne == n1 :> g1
OneTarget == n1 :> g1 @@ n2 :> g1
=============================================================================
