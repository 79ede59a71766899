------------------------------ MODULE Delivery ------------------------------
(***************************************************************************)
(* What the stream loader promises, without saying how: events are appended*)
(* to a topic, each sink stores events of the topic in any order and any   *)
(* number of times, and the committed offset passes an event only when     *)
(* every sink has it.  Nothing is taken back.                              *)
(***************************************************************************)
EXTENDS Naturals, Sequences

CONSTANTS Events, Sinks

VARIABLES log, stored, committed

Init ==
  /\ log = <<>>
  /\ stored = [s \in Sinks |-> {}]
  /\ committed = 0

Publish(e) ==
  /\ log' = Append(log, e)
  /\ UNCHANGED <<stored, committed>>

Store(s, e) ==
  /\ \E i \in 1 .. Len(log) : log[i] = e
  /\ stored' = [stored EXCEPT ![s] = @ \cup {e}]
  /\ UNCHANGED <<log, committed>>

Commit(n) ==
  /\ \A i \in 1 .. n, s \in Sinks : log[i] \in stored[s]
  /\ committed' = n
  /\ UNCHANGED <<log, stored>>

Next ==
  \/ \E e \in Events : Publish(e) \/ \E s \in Sinks : Store(s, e)
  \/ \E n \in (committed + 1) .. Len(log) : Commit(n)

vars == <<log, stored, committed>>

Spec == Init /\ [][Next]_vars
=============================================================================
