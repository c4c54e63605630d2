------------------------------ MODULE MCPayments ------------------------------
(***************************************************************************)
(* PaymentOrchestrator with two workers, and a card payment and a wire of  *)
(* the default routing table; no payment here is routed to Tabapay.        *)
(***************************************************************************)
EXTENDS PaymentOrchestrator

CONSTANTS k1, k2

MCPSPs == {"stripe", "adyen"}

MCSupported == [stripe |-> {"card"}, adyen |-> {"card", "wire"}]

MCRouting == [card |-> <<"stripe", "adyen">>, wire |-> <<"adyen", "stripe">>]

CardAndWire ==
  {[key |-> k1, method |-> "card"], [key |-> k2, method |-> "wire"]}

OneCard == {[key |-> k1, method |-> "card"]}
=============================================================================
