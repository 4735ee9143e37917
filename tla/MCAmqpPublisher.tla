-------------------------- MODULE MCAmqpPublisher --------------------------
(***************************************************************************)
(* Instances of AmqpPublisher for TLC.                                     *)
(***************************************************************************)
EXTENDS AmqpPublisher, TLC

CONSTANTS r1, r2, r3

\* A request of two messages, one whose second message the serializer refuses,
\* and one of no messages.
TwoHalfNone ==
  (r1 :> <<"plain", "plain">>) @@ (r2 :> <<"plain", "cyclic">>) @@ (r3 :> <<>>)

\* One request of one message.
OnePlain == (r1 :> <<"plain">>)
=============================================================================
