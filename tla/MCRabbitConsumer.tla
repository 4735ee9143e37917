------------------------- MODULE MCRabbitConsumer -------------------------
(***************************************************************************)
(* Instances of RabbitConsumer for TLC.                                    *)
(***************************************************************************)
EXTENDS RabbitConsumer, TLC

CONSTANTS m1, m2, m3, c1, c2

\* Two messages a handler sees and one that does not parse.
TwoGoodOneGarbage ==
  (m1 :> "object") @@ (m2 :> "object") @@ (m3 :> "garbage")

\* One body of each kind.
OneOfEach == (m1 :> "object") @@ (m2 :> "falsy") @@ (m3 :> "garbage")

TwoGood == (m1 :> "object") @@ (m2 :> "object")

OneGoodOneGarbage == (m1 :> "object") @@ (m2 :> "garbage")
=============================================================================
