---------------------------- MODULE AtLeastOnce ----------------------------
(***************************************************************************)
(* What a consumer of a queue promises, whatever it does with channels,    *)
(* batches and settlements: the queue forgets a message only after a       *)
(* handler ran to its end on it (at least once, possibly more often), or   *)
(* when the message is one that no handler is to see; and it forgets every *)
(* message in the end.                                                     *)
(***************************************************************************)
EXTENDS Naturals

CONSTANTS Messages,  \* the messages published to the queue
          Droppable  \* those that may be forgotten unhandled

VARIABLES waiting,   \* messages in the queue
          done,      \* messages the queue has forgotten
          times      \* how often a handler ran to its end on each message

vars == <<waiting, done, times>>

\* The messages given out and not yet settled.
Held == Messages \ (waiting \cup done)

Init ==
  /\ waiting = Messages
  /\ done = {}
  /\ times = [m \in Messages |-> 0]

Take(m) ==
  /\ m \in waiting
  /\ waiting' = waiting \ {m}
  /\ UNCHANGED <<done, times>>

\* A handler ends on the messages of S, and those of T return to the queue.
Attempt(S, T) ==
  /\ T \subseteq Held
  /\ times' = [m \in Messages |-> IF m \in S THEN times[m] + 1 ELSE times[m]]
  /\ waiting' = waiting \cup T
  /\ UNCHANGED done

Settle(m) ==
  /\ m \in Held
  /\ times[m] > 0 \/ m \in Droppable
  /\ done' = done \cup {m}
  /\ UNCHANGED <<waiting, times>>

Next ==
  \/ \E m \in Messages : Take(m) \/ Settle(m)
  \/ \E S, T \in SUBSET Messages : Attempt(S, T)

Spec == Init /\ [][Next]_vars

\* Every message is forgotten in the end.
EventuallySettled == \A m \in Messages : <>(m \in done)
=============================================================================
