---------------------------- MODULE EventPipeline ----------------------------
(***************************************************************************)
(* From a post to the event gateway to the rows in ClickHouse.  Between    *)
(* the topic that EventGateway fills and the tables of LakehouseInit runs  *)
(* the stream loader, Redpanda Connect with redpanda-connect/connect.yaml: *)
(* consumer group stream-loader, a fan-out broker over two sinks, one      *)
(* message per write.  It keeps several messages under way, writes each to *)
(* both sinks until both have acknowledged it, and commits an offset when  *)
(* all up to it are acknowledged.  A write that was not acknowledged in    *)
(* time is repeated, and may arrive as well.                               *)
(*                                                                         *)
(* The loader starts once lakehouse-init has completed                     *)
(* (docker-compose.yml), and starts at the committed offset.               *)
(***************************************************************************)
EXTENDS EventGateway, LakehouseInit

CONSTANTS
  Window,             \* messages under way at most, checkpoint_limit
  MaxFailures         \* bound: lost answers, crashes, failed statements

\* A row stands for the event whose payload it holds.
ASSUME RowsAssumption == Rows = Events

ASSUME FailuresAssumption == MaxFailures \in Nat

VARIABLES
  bronze,      \* objects in the bucket, per event
  running,     \* does the loader run?
  committed,   \* offset committed in Redpanda: how many messages are done
  fetched,     \* how many messages the loader has read
  acked,       \* per sink, the messages it acknowledged to this process
  late,        \* per sink, messages an abandoned write still carries
  failures

Sinks == {"bronze", "raw"}

loaderVars == <<bronze, running, committed, fetched, acked, late>>
vars == <<gatewayVars, initVars, loaderVars, failures>>

\* One type invariant for the three parts.
TypeOK ==
  /\ GatewayTypeOK
  /\ InitTypeOK
  /\ bronze \in [Events -> Nat]
  /\ running \in BOOLEAN
  /\ committed \in 0 .. fetched /\ fetched \in 0 .. Len(log)
  /\ acked \in [Sinks -> SUBSET (1 .. fetched)]
  /\ late \in [Sinks -> SUBSET (1 .. Len(log))]
  /\ failures \in 0 .. MaxFailures

Init ==
  /\ GatewayInit
  /\ LakehouseInitInit
  /\ bronze = [e \in Events |-> 0]
  /\ running = FALSE
  /\ committed = 0 /\ fetched = 0
  /\ acked = [s \in Sinks |-> {}]
  /\ late = [s \in Sinks |-> {}]
  /\ failures = 0

-----------------------------------------------------------------------------
\* A variant of the compose file without the dependency on lakehouse-init.
LoaderStartsEarly ==
  /\ ~running /\ tables
  /\ running' = TRUE
  /\ UNCHANGED <<clickhouse, bronze, committed, fetched, acked, late>>

\* depends_on lakehouse-init: service_completed_successfully.
LoaderStart ==
  /\ ~running /\ script = "done"
  /\ running' = TRUE
  /\ UNCHANGED <<clickhouse, bronze, committed, fetched, acked, late>>

\* A variant that asks for the next message without looking for the end.
FetchBeyond ==
  /\ running
  /\ fetched - committed < Window
  /\ fetched' = fetched + 1
  /\ UNCHANGED <<clickhouse, bronze, running, committed, acked, late>>

\* The loader reads the next message.
Fetch ==
  /\ running
  /\ fetched < Len(log) /\ fetched - committed < Window
  /\ fetched' = fetched + 1
  /\ UNCHANGED <<clickhouse, bronze, running, committed, acked, late>>

\* A message that sink s has yet to acknowledge.
Pending(s, i) == running /\ i \in (committed + 1) .. fetched /\ i \notin acked[s]

\* Sink s stores event e: a new object, under a name of its own, or a row.
Store(s, e) ==
  IF s = "bronze"
  THEN bronze' = [bronze EXCEPT ![e] = @ + 1] /\ UNCHANGED clickhouse
  ELSE InsertRaw(e) /\ UNCHANGED bronze

\* A write that is acknowledged.
Write(s, i) ==
  /\ Pending(s, i)
  /\ Store(s, log[i])
  /\ acked' = [acked EXCEPT ![s] = @ \cup {i}]
  /\ UNCHANGED <<running, committed, fetched, late>>

\* A variant that takes a write without an answer for one that arrived.
WriteAssumed(s, i) ==
  /\ Pending(s, i)
  /\ late' = [late EXCEPT ![s] = @ \cup {i}]
  /\ acked' = [acked EXCEPT ![s] = @ \cup {i}]
  /\ UNCHANGED <<clickhouse, bronze, running, committed, fetched>>

\* A write without an answer.  The loader will repeat it.
WriteTimesOut(s, i) ==
  /\ Pending(s, i)
  /\ late' = [late EXCEPT ![s] = @ \cup {i}]
  /\ UNCHANGED <<clickhouse, bronze, running, committed, fetched, acked>>

\* An abandoned write arrives.
LateWrite(s, i) ==
  /\ i \in late[s]
  /\ Store(s, log[i])
  /\ late' = [late EXCEPT ![s] = @ \ {i}]
  /\ UNCHANGED <<running, committed, fetched, acked>>

\* An insert fails in the view, after its row was written: an error for the
\* loader, which repeats it.
InsertBreaks(i) ==
  /\ Pending("raw", i)
  /\ InsertRawOnly(log[i])
  /\ UNCHANGED loaderVars

\* A variant that commits the highest message that is done.
CommitHighest ==
  /\ running
  /\ \E n \in (committed + 1) .. fetched :
       /\ \A s \in Sinks : n \in acked[s]
       /\ committed' = n
  /\ UNCHANGED <<clickhouse, bronze, running, fetched, acked, late>>

\* The loader commits up to the first message that is not done.
Commit ==
  /\ running
  /\ \E n \in (committed + 1) .. fetched :
       /\ \A i \in (committed + 1) .. n, s \in Sinks : i \in acked[s]
       /\ committed' = n
  /\ UNCHANGED <<clickhouse, bronze, running, fetched, acked, late>>

\* The loader dies.  What it had read and not committed is read again.
LoaderCrash ==
  /\ running
  /\ running' = FALSE
  /\ fetched' = committed
  /\ acked' = [s \in Sinks |-> {}]
  /\ UNCHANGED <<clickhouse, bronze, committed, late>>

-----------------------------------------------------------------------------
scriptVars == <<script, attempt, orphans, ups>>

GatewayStep(A) == A /\ UNCHANGED <<initVars, loaderVars, failures>>
InitStep(A)    == A /\ UNCHANGED <<gatewayVars, loaderVars, failures>>
LoaderStep(A)  == A /\ UNCHANGED <<gatewayVars, scriptVars, failures>>

\* What a loader that runs does of its own accord.
LoaderProgress ==
  Fetch \/ Commit \/ \E s \in Sinks : \E i \in 1 .. Len(log) : Write(s, i)

Failing(A, others) ==
  /\ failures < MaxFailures
  /\ A
  /\ failures' = failures + 1
  /\ UNCHANGED others

Failure ==
  \/ Failing(GatewayCrash \/ \E e \in Events : AppendUnacknowledged(e), <<initVars, loaderVars>>)
  \/ Failing(StatementFails, <<gatewayVars, loaderVars>>)
  \/ Failing(\/ LoaderCrash
             \/ \E i \in 1 .. Len(log) : InsertBreaks(i) \/ \E s \in Sinks : WriteTimesOut(s, i),
             <<gatewayVars, scriptVars>>)

Next ==
  \/ \E e \in Events : GatewayStep(Publish(e) \/ Settle(e))
  \/ InitStep(Up \/ ScriptStep)
  \/ LoaderStep(LoaderStart \/ LoaderProgress)
  \/ LoaderStep(\E s \in Sinks : \E i \in late[s] : LateWrite(s, i))
  \/ Failure

Spec == Init /\ [][Next]_vars

\* The gateway's producer settles what it holds within message.timeout.ms, and
\* a loader that runs goes on.  Nothing is assumed of posts, of the operator, or
\* of failures, which end.
FairSpec ==
  /\ Spec
  /\ WF_vars(\E e \in Events : GatewayStep(Settle(e)))
  /\ WF_vars(LoaderStep(LoaderProgress))

-----------------------------------------------------------------------------
\* What a reader of the two stores relies on: the loader implements Delivery,
\* where an offset is committed only past events that both sinks have.
Copies == [bronze |-> bronze, raw |-> raw]

D == INSTANCE Delivery WITH
       stored <- [s \in Sinks |-> {e \in Events : Copies[s][e] > 0}]

\* The stream loader delivers at least once to both sinks, whatever crashes and
\* answers are lost (connect.yaml:21-44).
ImplementsDelivery == D!Spec

\* An event that is committed is in serving.raw_events: no message reaches
\* raw_payload before the view is there, and an insert whose view failed is
\* repeated (01_mv_parse_raw_payload.sql:7, docker-compose.yml:337).
CommittedIsParsed == \A i \in 1 .. committed : parsed[log[i]] > 0

\* Duplicates come from failures and from bringing the stack up again, from
\* nothing else: not from the view and the backfill meeting the same rows, nor
\* from the messages the loader has under way (connect.yaml:11-19).
DuplicatesNeedFailure ==
  failures = 0 /\ ups <= 1 =>
    \A e \in Events : bronze[e] <= 1 /\ raw[e] <= 1 /\ parsed[e] <= 1

\* A flush that emptied the queue means that the event was published or given
\* up, although the handler may have waited for others (main.py:52).
FlushSettles == \A e \in Events : handler[e] = "flushed" => e \in Logged \cup lost

\* An event that was answered "accepted" is published in the end, also when its
\* flush ran out, unless the producer gave up or died (main.py:46-52).
AcceptedSettles ==
  \A e \in Events : handler[e] \in Accepted ~> e \in Logged \cup lost

\* While the loader stays up, every event of the topic comes to both stores and
\* to raw_events, also what a crash had interrupted (connect.yaml:19-44).
EveryLoggedEventLands ==
  <>[]running =>
    \A e \in Events : e \in Logged ~> bronze[e] > 0 /\ raw[e] > 0 /\ parsed[e] > 0

\* 01_mv_parse_raw_payload.sql:23 calls its INSERT "a one-time backfill": no
\* event has more rows in raw_events than raw_payload holds (bootstrap.py:116-129).
BackfillIsOneTime == \A e \in Events : parsed[e] <= raw[e]
=============================================================================
