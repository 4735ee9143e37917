--------------------------- MODULE MCChannelSetup ---------------------------
(***************************************************************************)
(* Instances of ChannelSetup for TLC.                                      *)
(***************************************************************************)
EXTENDS ChannelSetup, TLC

CONSTANTS c1, c2, c3, c4, c5, c6, b1, x1, x2

\* Asserts its queue, binds nothing; registered on the default channel.
Plain ==
  [queue |-> "q", channel |-> "none", batchSize |-> 0, exchange |-> "none",
   createQueue |-> TRUE, enable |-> TRUE]

\* Two consumers of one provider on the default channel, which the second gets
\* for want of the channel it names, and one that is disabled; then one on a
\* channel of the configuration and two of batches with one name. A binding.
AllOptions ==
  c1 :> Plain
  @@ c2 :> [Plain EXCEPT !.channel = "missing", !.exchange = x2, !.createQueue = FALSE]
  @@ c3 :> [Plain EXCEPT !.enable = FALSE, !.batchSize = 3]
  @@ c4 :> [Plain EXCEPT !.channel = "slow", !.createQueue = FALSE]
  @@ c5 :> [Plain EXCEPT !.batchSize = 2, !.exchange = x2]
  @@ c6 :> [Plain EXCEPT !.batchSize = 2, !.createQueue = FALSE]
  @@ b1 :> [Plain EXCEPT !.exchange = x1]

TwoGroups == <<<<c1, c2, c3>>, <<c4, c5, c6>>>>

TwoExchanges == <<x1, x2>>

SlowChannel == <<[name |-> "slow", prefetchCount |-> 4]>>

Batches == <<c5, c1, c6>>

\* One consumer, bound to the second configured exchange.
OneOption == c1 :> [Plain EXCEPT !.exchange = x2]

OneGroup == <<<<c1>>>>

NoChannels == <<>>

NoConsumer == <<>>
=============================================================================
