---------------------------- MODULE EventGateway ----------------------------
(***************************************************************************)
(* event-gateway/app/main.py: every post is a handler that hands one event *)
(* to the process's only Kafka producer and waits in flush(5) until the    *)
(* producer's queue is empty, the queue of all handlers, or five seconds   *)
(* have passed.  The number flush returns is not looked at, so both ways   *)
(* the handler answers "accepted".  The producer delivers in the           *)
(* background, in no particular order, and appends an event again when the *)
(* broker's acknowledgement was lost; the handler sees none of that.       *)
(*                                                                         *)
(* An event is one post.  Topics are alike: `log' is one of them.          *)
(***************************************************************************)
EXTENDS Naturals, Sequences, FiniteSets

CONSTANTS
  Events,
  QueueSize   \* messages the producer holds at most

ASSUME QueueAssumption == QueueSize \in Nat

VARIABLES
  handler,   \* where the handler of an event is
  queue,     \* events the producer holds
  lost,      \* events the producer gave up, or died with
  log        \* the topic

gatewayVars == <<handler, queue, lost, log>>

\* How a handler answers: after a flush that emptied the queue or that ran
\* out, both a 200, or with an error.
Accepted == {"flushed", "ran_out"}
Answered == Accepted \cup {"refused", "broken"}

Logged == {log[i] : i \in DOMAIN log}

GatewayTypeOK ==
  /\ handler \in [Events -> Answered \cup {"idle", "flushing"}]
  /\ queue \subseteq Events
  /\ lost \subseteq Events
  /\ log \in Seq(Events)

GatewayInit ==
  /\ handler = [e \in Events |-> "idle"]
  /\ queue = {}
  /\ lost = {}
  /\ log = <<>>

-----------------------------------------------------------------------------
\* producer.produce takes the message.
Produce(e) ==
  /\ handler[e] = "idle"
  /\ Cardinality(queue) < QueueSize
  /\ handler' = [handler EXCEPT ![e] = "flushing"]
  /\ queue' = queue \cup {e}
  /\ UNCHANGED <<lost, log>>

\* producer.produce raises BufferError: the queue is full.
Refuse(e) ==
  /\ handler[e] = "idle"
  /\ Cardinality(queue) >= QueueSize
  /\ handler' = [handler EXCEPT ![e] = "refused"]
  /\ UNCHANGED <<queue, lost, log>>

\* A variant that returns from flush as soon as it is called.
FlushAtOnce(e) ==
  /\ handler[e] = "flushing"
  /\ handler' = [handler EXCEPT ![e] = "flushed"]
  /\ UNCHANGED <<queue, lost, log>>

\* flush(5) returns 0.
FlushEmpties(e) ==
  /\ handler[e] = "flushing"
  /\ queue = {}
  /\ handler' = [handler EXCEPT ![e] = "flushed"]
  /\ UNCHANGED <<queue, lost, log>>

\* A variant that cleans up after a flush that ran out.
FlushPurges(e) ==
  /\ handler[e] = "flushing"
  /\ queue # {}
  /\ handler' = [handler EXCEPT ![e] = "ran_out"]
  /\ queue' = {}
  /\ UNCHANGED <<lost, log>>

\* flush(5) returns what is still in the queue, after five seconds.
FlushRunsOut(e) ==
  /\ handler[e] = "flushing"
  /\ queue # {}
  /\ handler' = [handler EXCEPT ![e] = "ran_out"]
  /\ UNCHANGED <<queue, lost, log>>

-----------------------------------------------------------------------------
\* The producer in the background: an append that is acknowledged, one whose
\* acknowledgement is lost, and the end of its tries (message.timeout.ms, or
\* an error it does not retry).
Deliver(e) ==
  /\ e \in queue
  /\ log' = Append(log, e)
  /\ queue' = queue \ {e}
  /\ UNCHANGED <<handler, lost>>

AppendUnacknowledged(e) ==
  /\ e \in queue
  /\ log' = Append(log, e)
  /\ UNCHANGED <<handler, queue, lost>>

GiveUp(e) ==
  /\ e \in queue
  /\ queue' = queue \ {e}
  /\ lost' = lost \cup {e}
  /\ UNCHANGED <<handler, log>>

\* The process dies with its queue and starts again.
GatewayCrash ==
  /\ \E e \in Events : handler[e] = "flushing" \/ e \in queue
  /\ handler' = [e \in Events |-> IF handler[e] = "flushing" THEN "broken" ELSE handler[e]]
  /\ lost' = lost \cup queue
  /\ queue' = {}
  /\ UNCHANGED log

Publish(e) == Produce(e) \/ Refuse(e) \/ FlushEmpties(e) \/ FlushRunsOut(e)

\* What the producer does for an event of its own accord.
Settle(e) == Deliver(e) \/ GiveUp(e)
=============================================================================
