------------------------- MODULE EventPipeline_proofs -------------------------
(***************************************************************************)
(* Proofs about EventPipeline, for any number of events, failures and      *)
(* starts: its types, that a drained flush settles, that what is committed *)
(* is parsed, and that the loader implements Delivery.                     *)
(***************************************************************************)
EXTENDS EventPipeline, TLAPS

\* Everything a handler produced is held, published or given up.
Accounted ==
  \A e \in Events : handler[e] \in Accepted \cup {"flushing"} => e \in queue \cup Logged \cup lost

\* A statement is tried only while it has a try left.
TryLeft == script \in Statements => attempt < Attempts

\* The view exists wherever the script has passed it, and under a loader.
ViewFirst ==
  /\ script \in {"backfill", "done"} => view
  /\ running => view

\* Both stores and raw_events have what was acknowledged or committed.
Served(i) == bronze[log[i]] > 0 /\ raw[log[i]] > 0 /\ parsed[log[i]] > 0

AckedIsStored ==
  /\ \A i \in acked["bronze"] : bronze[log[i]] > 0
  /\ \A i \in acked["raw"] : raw[log[i]] > 0 /\ parsed[log[i]] > 0

CommittedIsStored == \A i \in 1 .. committed : Served(i)

IInv ==
  /\ TypeOK
  /\ Accounted
  /\ FlushSettles
  /\ TryLeft
  /\ ViewFirst
  /\ AckedIsStored
  /\ CommittedIsStored

-----------------------------------------------------------------------------
\* The topic grows at its end.
LEMMA AppendKeeps ==
  ASSUME NEW e \in Events, log \in Seq(Events), log' = Append(log, e)
  PROVE  /\ log' \in Seq(Events)
         /\ Len(log') = Len(log) + 1
         /\ \A i \in 1 .. Len(log) : log'[i] = log[i]
         /\ Logged' = Logged \cup {e}
<1>1. /\ log' \in Seq(Events)
      /\ Len(log') = Len(log) + 1
      /\ \A i \in 1 .. Len(log) : log'[i] = log[i]
      /\ log'[Len(log) + 1] = e
  OBVIOUS
<1>2. DOMAIN log = 1 .. Len(log) /\ DOMAIN log' = 1 .. (Len(log) + 1) /\ Len(log) \in Nat
  BY <1>1
<1>3. Logged' = Logged \cup {e}
  BY <1>1, <1>2 DEF Logged
<1> QED
  BY <1>1, <1>3

\* A step of the gateway: what is under way, what it leaves of the topic, and
\* that it loses sight of no event.
LEMMA GatewayKeeps ==
  ASSUME GatewayTypeOK, Accounted, FlushSettles,
         \/ GatewayCrash
         \/ \E e \in Events : Publish(e) \/ Settle(e) \/ AppendUnacknowledged(e)
  PROVE  /\ GatewayTypeOK' /\ Accounted' /\ FlushSettles'
         /\ Len(log) \in Nat /\ Len(log') \in Nat /\ Len(log) <= Len(log')
         /\ \A i \in 1 .. Len(log) : log'[i] = log[i]
<1> USE DEF GatewayTypeOK, Accounted, FlushSettles, Accepted, Answered
<1>1. ASSUME NEW e \in Events, Produce(e) \/ Refuse(e) \/ FlushEmpties(e) \/ FlushRunsOut(e)
      PROVE  /\ GatewayTypeOK' /\ Accounted' /\ FlushSettles' /\ log' = log
  <2>1. Logged' = Logged /\ log' = log
    BY <1>1 DEF Produce, Refuse, FlushEmpties, FlushRunsOut, Logged
  <2>2. CASE Produce(e)
    BY <2>1, <2>2 DEF Produce
  <2>3. CASE Refuse(e)
    BY <2>1, <2>3 DEF Refuse
  <2>4. CASE FlushEmpties(e)
    BY <2>1, <2>4 DEF FlushEmpties
  <2>5. CASE FlushRunsOut(e)
    BY <2>1, <2>5 DEF FlushRunsOut
  <2> QED
    BY <1>1, <2>2, <2>3, <2>4, <2>5
<1>2. ASSUME GatewayCrash
      PROVE  /\ GatewayTypeOK' /\ Accounted' /\ FlushSettles' /\ log' = log
  <2>1. Logged' = Logged /\ log' = log
    BY <1>2 DEF GatewayCrash, Logged
  <2> QED
    BY <1>2, <2>1 DEF GatewayCrash
<1>3. ASSUME NEW e \in Events, GiveUp(e)
      PROVE  /\ GatewayTypeOK' /\ Accounted' /\ FlushSettles' /\ log' = log
  <2>1. Logged' = Logged /\ log' = log
    BY <1>3 DEF GiveUp, Logged
  <2> QED
    BY <1>3, <2>1 DEF GiveUp
<1>4. ASSUME NEW e \in Events, Deliver(e) \/ AppendUnacknowledged(e)
      PROVE  /\ GatewayTypeOK' /\ Accounted' /\ FlushSettles' /\ log' = Append(log, e)
  <2>1. log' = Append(log, e)
    BY <1>4 DEF Deliver, AppendUnacknowledged
  <2>2. Logged' = Logged \cup {e} /\ log' \in Seq(Events)
    BY <2>1, AppendKeeps
  <2> QED
    BY <1>4, <2>1, <2>2 DEF Deliver, AppendUnacknowledged
<1>5. CASE log' = log
  BY <1>1, <1>2, <1>3, <1>4, <1>5 DEF Publish, Settle
<1>6. CASE \E e \in Events : log' = Append(log, e)
  BY <1>1, <1>2, <1>3, <1>4, <1>6, AppendKeeps DEF Publish, Settle
<1> QED
  BY <1>1, <1>2, <1>3, <1>4, <1>5, <1>6 DEF Publish, Settle

\* What an insert into raw_payload adds.
LEMMA InsertAdds ==
  ASSUME InitTypeOK, NEW e \in Events, InsertRaw(e) \/ InsertRawOnly(e)
  PROVE  /\ raw' \in [Events -> Nat] /\ parsed' \in [Events -> Nat]
         /\ raw'[e] > 0
         /\ InsertRaw(e) /\ view => parsed'[e] > 0
         /\ \A d \in Events : raw[d] <= raw'[d] /\ parsed[d] <= parsed'[d]
         /\ view' = view /\ tables' = tables
BY RowsAssumption DEF InitTypeOK, InsertRaw, InsertRawOnly

\* A step of the script or of a statement it abandoned: no row is removed, none
\* is added to raw_payload, and the view stays and precedes the backfill.
LEMMA ScriptKeeps ==
  ASSUME InitTypeOK, TryLeft, ViewFirst, running' = running,
         Up \/ ScriptStep \/ StatementFails
  PROVE  /\ InitTypeOK' /\ TryLeft' /\ ViewFirst'
         /\ raw' = raw
         /\ \A e \in Events : parsed[e] <= parsed'[e]
<1> USE DEF InitTypeOK, TryLeft, ViewFirst, Statements
<1>1. ASSUME NEW s \in Statements, Execute(s)
      PROVE  /\ tables' \in BOOLEAN /\ view' \in BOOLEAN
             /\ raw' = raw /\ parsed' \in [Rows -> Nat]
             /\ \A e \in Events : parsed[e] <= parsed'[e]
             /\ view => view'
             /\ s = "view" => view'
  <2>1. CASE s = "tables"
    BY <1>1, <2>1, RowsAssumption DEF Execute
  <2>2. CASE s = "view"
    BY <1>1, <2>2, RowsAssumption DEF Execute
  <2>3. CASE s = "backfill"
    <3>1. /\ parsed' = [e \in Rows |-> parsed[e] + raw[e]]
          /\ tables' = tables /\ view' = view /\ raw' = raw
      BY <1>1, <2>3 DEF Execute
    <3> QED
      BY <2>3, <3>1, RowsAssumption
  <2> QED
    BY <2>1, <2>2, <2>3
<1>2. CASE UNCHANGED clickhouse
  <2>1. /\ tables' = tables /\ view' = view /\ raw' = raw /\ parsed' = parsed
        /\ \A e \in Events : parsed[e] <= parsed'[e]
    BY <1>2, RowsAssumption DEF clickhouse
  <2>2. CASE Up
    BY <2>1, <2>2, AttemptsAssumption DEF Up
  <2>3. CASE StatementFails
    BY <2>1, <2>3, AttemptsAssumption DEF StatementFails
  <2>4. CASE ScriptStep
    BY <1>1, <2>1, <2>4, AttemptsAssumption DEF ScriptStep, StatementDone, OrphanExecutes, After
  <2> QED
    BY <2>2, <2>3, <2>4
<1>3. CASE StatementDone
  <2>1. Execute(script) /\ script \in Statements
    BY <1>3 DEF StatementDone
  <2> QED
    BY <1>1, <1>3, <2>1, AttemptsAssumption DEF StatementDone, After
<1>4. CASE OrphanExecutes
  BY <1>1, <1>4 DEF OrphanExecutes
<1>5. CASE StatementFails /\ Execute(script) /\ UNCHANGED orphans
  BY <1>1, <1>5, AttemptsAssumption DEF StatementFails
<1>6. CASE Up
  BY <1>2, <1>6 DEF Up
<1>7. CASE StatementFails
  BY <1>2, <1>5, <1>7 DEF StatementFails
<1> QED
  BY <1>3, <1>4, <1>6, <1>7 DEF ScriptStep

\* What a write to a sink adds.
LEMMA StoreAdds ==
  ASSUME InitTypeOK, bronze \in [Events -> Nat], NEW s \in Sinks, NEW e \in Events, Store(s, e)
  PROVE  /\ bronze' \in [Events -> Nat] /\ raw' \in [Events -> Nat] /\ parsed' \in [Events -> Nat]
         /\ s = "bronze" => bronze'[e] > 0
         /\ s = "raw" => raw'[e] > 0 /\ (view => parsed'[e] > 0)
         /\ \A d \in Events : bronze[d] <= bronze'[d] /\ raw[d] <= raw'[d] /\ parsed[d] <= parsed'[d]
         /\ view' = view /\ tables' = tables
<1>1. CASE s = "bronze"
  BY <1>1, RowsAssumption DEF Store, InitTypeOK, clickhouse
<1>2. CASE s = "raw"
  <2>1. InsertRaw(e) /\ bronze' = bronze
    BY <1>2 DEF Store
  <2>2. \A d \in Events : bronze[d] <= bronze'[d]
    BY <2>1
  <2> QED
    BY <1>2, <2>1, <2>2, InsertAdds
<1> QED
  BY <1>1, <1>2 DEF Sinks

\* What was stored of a message stays stored while rows and topic grow.
LEMMA StoredStays ==
  ASSUME log \in Seq(Events),
         bronze \in [Events -> Nat], raw \in [Events -> Nat], parsed \in [Events -> Nat],
         bronze' \in [Events -> Nat], raw' \in [Events -> Nat], parsed' \in [Events -> Nat],
         \A e \in Events : bronze[e] <= bronze'[e] /\ raw[e] <= raw'[e] /\ parsed[e] <= parsed'[e],
         \A i \in 1 .. Len(log) : log'[i] = log[i],
         NEW i \in 1 .. Len(log)
  PROVE  /\ bronze[log[i]] > 0 => bronze'[log'[i]] > 0
         /\ raw[log[i]] > 0 => raw'[log'[i]] > 0
         /\ parsed[log[i]] > 0 => parsed'[log'[i]] > 0
<1>1. log[i] \in Events /\ log'[i] = log[i]
  OBVIOUS
<1>2. ASSUME NEW e \in Events
      PROVE  /\ bronze[e] > 0 => bronze'[e] > 0
             /\ raw[e] > 0 => raw'[e] > 0
             /\ parsed[e] > 0 => parsed'[e] > 0
  <2>1. /\ bronze[e] \in Nat /\ bronze'[e] \in Nat /\ bronze[e] <= bronze'[e]
        /\ raw[e] \in Nat /\ raw'[e] \in Nat /\ raw[e] <= raw'[e]
        /\ parsed[e] \in Nat /\ parsed'[e] \in Nat /\ parsed[e] <= parsed'[e]
    OBVIOUS
  <2>2. \A a, b \in Nat : a <= b /\ a > 0 => b > 0
    OBVIOUS
  <2> QED
    BY <2>1, <2>2, Zenon
<1> QED
  BY <1>1, <1>2, Zenon

Growing ==
  \A e \in Events : bronze[e] <= bronze'[e] /\ raw[e] <= raw'[e] /\ parsed[e] <= parsed'[e]

RowsOK ==
  bronze \in [Events -> Nat] /\ raw \in [Events -> Nat] /\ parsed \in [Events -> Nat]

\* A step that lets rows and topic grow keeps what the loader knows to be stored.
LEMMA OldIsStored ==
  ASSUME IInv, RowsOK', Growing, \A i \in 1 .. Len(log) : log'[i] = log[i]
  PROVE  /\ \A i \in acked["bronze"] : bronze'[log'[i]] > 0
         /\ \A i \in acked["raw"] : raw'[log'[i]] > 0 /\ parsed'[log'[i]] > 0
         /\ \A i \in 1 .. committed : bronze'[log'[i]] > 0 /\ raw'[log'[i]] > 0 /\ parsed'[log'[i]] > 0
<1>1. log \in Seq(Events) /\ Len(log) \in Nat
  BY DEF IInv, TypeOK, GatewayTypeOK
<1>2. ASSUME NEW i \in 1 .. Len(log)
      PROVE  /\ bronze[log[i]] > 0 => bronze'[log'[i]] > 0
             /\ raw[log[i]] > 0 => raw'[log'[i]] > 0
             /\ parsed[log[i]] > 0 => parsed'[log'[i]] > 0
  BY <1>1, <1>2, StoredStays, RowsAssumption DEF IInv, TypeOK, InitTypeOK, RowsOK, Growing
<1>3. /\ acked["bronze"] \subseteq 1 .. Len(log)
      /\ acked["raw"] \subseteq 1 .. Len(log)
      /\ 1 .. committed \subseteq 1 .. Len(log)
  BY <1>1 DEF IInv, TypeOK, Sinks
<1> QED
  BY <1>2, <1>3 DEF IInv, AckedIsStored, CommittedIsStored, Served

\* The part of TypeOK that is the loader's.
LoaderTypeOK ==
  /\ bronze \in [Events -> Nat]
  /\ running \in BOOLEAN
  /\ committed \in 0 .. fetched /\ fetched \in 0 .. Len(log)
  /\ acked \in [Sinks -> SUBSET (1 .. fetched)]
  /\ late \in [Sinks -> SUBSET (1 .. Len(log))]

LoaderInv == LoaderTypeOK /\ ViewFirst /\ AckedIsStored /\ CommittedIsStored

\* The steps of the loader, the failing ones included.
LEMMA LoaderKeeps ==
  ASSUME IInv, UNCHANGED <<gatewayVars, scriptVars>>,
         \/ LoaderStart \/ Fetch \/ Commit \/ LoaderCrash
         \/ \E i \in 1 .. Len(log) : InsertBreaks(i)
         \/ \E s \in Sinks : \/ \E i \in 1 .. Len(log) : Write(s, i) \/ WriteTimesOut(s, i)
                            \/ \E i \in late[s] : LateWrite(s, i)
  PROVE  InitTypeOK' /\ LoaderInv' /\ RowsOK' /\ Growing
<1>1. /\ log' = log /\ script' = script /\ attempt' = attempt /\ orphans' = orphans /\ ups' = ups
      /\ log \in Seq(Events) /\ Len(log) \in Nat
      /\ \A i \in 1 .. Len(log) : log[i] \in Events
      /\ InitTypeOK /\ LoaderTypeOK /\ RowsOK
      /\ ViewFirst /\ AckedIsStored /\ CommittedIsStored
  <2>1. /\ log' = log /\ script' = script /\ attempt' = attempt /\ orphans' = orphans /\ ups' = ups
    BY DEF gatewayVars, scriptVars
  <2>2. InitTypeOK /\ LoaderTypeOK /\ ViewFirst /\ AckedIsStored /\ CommittedIsStored
    BY DEF IInv, TypeOK, LoaderTypeOK
  <2>3. log \in Seq(Events)
    BY DEF IInv, TypeOK, GatewayTypeOK
  <2>4. RowsOK
    BY <2>2, RowsAssumption DEF InitTypeOK, LoaderTypeOK, RowsOK
  <2> QED
    BY <2>1, <2>2, <2>3, <2>4
<1>2. \A e \in Events : bronze[e] <= bronze[e] /\ raw[e] <= raw[e] /\ parsed[e] <= parsed[e]
  BY <1>1 DEF RowsOK
<1>3. ASSUME UNCHANGED clickhouse, bronze' = bronze
      PROVE  /\ InitTypeOK' /\ RowsOK' /\ Growing
             /\ view' = view /\ raw' = raw /\ parsed' = parsed
  BY <1>1, <1>2, <1>3 DEF clickhouse, InitTypeOK, RowsOK, Growing
<1>4. CASE LoaderStart
  BY <1>1, <1>3, <1>4 DEF LoaderStart, LoaderInv, LoaderTypeOK, ViewFirst, AckedIsStored, CommittedIsStored, Served
<1>5. CASE Fetch
  BY <1>1, <1>3, <1>5 DEF Fetch, LoaderInv, LoaderTypeOK, ViewFirst, AckedIsStored, CommittedIsStored, Served
<1>6. CASE Commit
  BY <1>1, <1>3, <1>6
     DEF Commit, Sinks, LoaderInv, LoaderTypeOK, ViewFirst, AckedIsStored, CommittedIsStored, Served
<1>7. CASE LoaderCrash
  <2>1. /\ running' = FALSE /\ fetched' = committed /\ acked' = [s \in Sinks |-> {}]
        /\ UNCHANGED <<clickhouse, bronze, committed, late>>
    BY <1>7 DEF LoaderCrash
  <2>2. LoaderTypeOK'
    <3>1. committed' \in 0 .. fetched' /\ fetched' \in 0 .. Len(log')
      BY <1>1, <2>1 DEF LoaderTypeOK
    <3>2. acked' \in [Sinks -> SUBSET (1 .. fetched')]
      BY <2>1
    <3>3. bronze' \in [Events -> Nat] /\ running' \in BOOLEAN
      BY <1>1, <2>1 DEF LoaderTypeOK
    <3>4. late' \in [Sinks -> SUBSET (1 .. Len(log'))]
      BY <1>1, <2>1 DEF LoaderTypeOK
    <3> QED
      BY <3>1, <3>2, <3>3, <3>4 DEF LoaderTypeOK
  <2>3. ViewFirst' /\ AckedIsStored' /\ CommittedIsStored'
    BY <1>1, <1>3, <2>1 DEF Sinks, ViewFirst, AckedIsStored, CommittedIsStored, Served
  <2> QED
    BY <1>3, <2>1, <2>2, <2>3 DEF LoaderInv
<1>8. ASSUME NEW s \in Sinks, NEW i \in 1 .. Len(log), WriteTimesOut(s, i)
      PROVE  InitTypeOK' /\ LoaderInv' /\ RowsOK' /\ Growing
  BY <1>1, <1>3, <1>8
     DEF WriteTimesOut, LoaderInv, LoaderTypeOK, ViewFirst, AckedIsStored, CommittedIsStored, Served
<1>9. ASSUME NEW i \in 1 .. Len(log), InsertBreaks(i)
      PROVE  InitTypeOK' /\ LoaderInv' /\ RowsOK' /\ Growing
  <2>1. InsertRawOnly(log[i]) /\ UNCHANGED loaderVars
    BY <1>9 DEF InsertBreaks
  <2>2. InitTypeOK' /\ RowsOK' /\ Growing /\ view' = view
    BY <1>1, <1>2, <2>1, InsertAdds DEF loaderVars, InitTypeOK, RowsOK, Growing
  <2>3. /\ \A j \in acked["bronze"] : bronze'[log'[j]] > 0
        /\ \A j \in acked["raw"] : raw'[log'[j]] > 0 /\ parsed'[log'[j]] > 0
        /\ \A j \in 1 .. committed : bronze'[log'[j]] > 0 /\ raw'[log'[j]] > 0 /\ parsed'[log'[j]] > 0
    BY <1>1, <2>2, OldIsStored
  <2> QED
    BY <1>1, <2>1, <2>2, <2>3
       DEF loaderVars, LoaderInv, LoaderTypeOK, ViewFirst, AckedIsStored, CommittedIsStored, Served
<1>10. ASSUME NEW s \in Sinks, NEW i \in 1 .. Len(log), Store(s, log[i])
       PROVE  /\ InitTypeOK' /\ RowsOK' /\ Growing /\ view' = view
              /\ s = "bronze" => bronze'[log[i]] > 0
              /\ s = "raw" => raw'[log[i]] > 0 /\ (view => parsed'[log[i]] > 0)
              /\ \A j \in acked["bronze"] : bronze'[log'[j]] > 0
              /\ \A j \in acked["raw"] : raw'[log'[j]] > 0 /\ parsed'[log'[j]] > 0
              /\ \A j \in 1 .. committed : bronze'[log'[j]] > 0 /\ raw'[log'[j]] > 0 /\ parsed'[log'[j]] > 0
  <2>1. log[i] \in Events
    BY <1>1
  <2>2. /\ InitTypeOK' /\ RowsOK' /\ Growing /\ view' = view
        /\ s = "bronze" => bronze'[log[i]] > 0
        /\ s = "raw" => raw'[log[i]] > 0 /\ (view => parsed'[log[i]] > 0)
    BY <1>1, <1>10, <2>1, StoreAdds, RowsAssumption DEF InitTypeOK, RowsOK, Growing
  <2> QED
    BY <1>1, <2>2, OldIsStored
<1>11. ASSUME NEW s \in Sinks, NEW i \in 1 .. Len(log), Write(s, i)
       PROVE  InitTypeOK' /\ LoaderInv' /\ RowsOK' /\ Growing
  <2>1. /\ Store(s, log[i]) /\ running /\ i \in 1 .. fetched
        /\ acked' = [acked EXCEPT ![s] = @ \cup {i}]
        /\ UNCHANGED <<running, committed, fetched, late>>
    BY <1>1, <1>11 DEF Write, Pending, LoaderTypeOK
  <2>2. LoaderTypeOK' /\ ViewFirst' /\ CommittedIsStored'
    BY <1>1, <1>10, <2>1 DEF LoaderTypeOK, RowsOK, ViewFirst, CommittedIsStored, Served
  <2>3. AckedIsStored'
    BY <1>1, <1>10, <2>1 DEF LoaderTypeOK, Sinks, ViewFirst, AckedIsStored
  <2> QED
    BY <1>10, <2>1, <2>2, <2>3 DEF LoaderInv
<1>12. ASSUME NEW s \in Sinks, NEW i \in late[s], LateWrite(s, i)
       PROVE  InitTypeOK' /\ LoaderInv' /\ RowsOK' /\ Growing
  <2>1. /\ Store(s, log[i]) /\ i \in 1 .. Len(log)
        /\ late' = [late EXCEPT ![s] = @ \ {i}]
        /\ UNCHANGED <<running, committed, fetched, acked>>
    BY <1>1, <1>12 DEF LateWrite, LoaderTypeOK
  <2>2. LoaderTypeOK' /\ ViewFirst' /\ CommittedIsStored' /\ AckedIsStored'
    BY <1>1, <1>10, <2>1 DEF LoaderTypeOK, RowsOK, ViewFirst, CommittedIsStored, Served, AckedIsStored
  <2> QED
    BY <1>10, <2>1, <2>2 DEF LoaderInv
<1> QED
  BY <1>4, <1>5, <1>6, <1>7, <1>8, <1>9, <1>11, <1>12

-----------------------------------------------------------------------------
\* The kinds of step there are.
LEMMA StepKinds ==
  ASSUME Next
  PROVE  \/ /\ \/ GatewayCrash
               \/ \E e \in Events : Publish(e) \/ Settle(e) \/ AppendUnacknowledged(e)
            /\ UNCHANGED <<initVars, loaderVars>>
         \/ /\ Up \/ ScriptStep \/ StatementFails
            /\ UNCHANGED <<gatewayVars, loaderVars>>
         \/ /\ \/ LoaderStart \/ Fetch \/ Commit \/ LoaderCrash
               \/ \E i \in 1 .. Len(log) : InsertBreaks(i)
               \/ \E s \in Sinks : \/ \E i \in 1 .. Len(log) : Write(s, i) \/ WriteTimesOut(s, i)
                                  \/ \E i \in late[s] : LateWrite(s, i)
            /\ UNCHANGED <<gatewayVars, scriptVars>>
<1>1. CASE Failure
  BY <1>1 DEF Failure, Failing
<1>2. CASE \E e \in Events : GatewayStep(Publish(e) \/ Settle(e))
  BY <1>2 DEF GatewayStep
<1>3. CASE InitStep(Up \/ ScriptStep)
  BY <1>3 DEF InitStep
<1>4. CASE LoaderStep(LoaderStart \/ LoaderProgress)
  BY <1>4 DEF LoaderStep, LoaderProgress
<1>5. CASE LoaderStep(\E s \in Sinks : \E i \in late[s] : LateWrite(s, i))
  BY <1>5 DEF LoaderStep
<1> QED
  BY <1>1, <1>2, <1>3, <1>4, <1>5 DEF Next

\* Failures are counted up to their bound.
LEMMA FailuresTyped ==
  ASSUME failures \in 0 .. MaxFailures, Next
  PROVE  failures' \in 0 .. MaxFailures
<1>1. CASE Failure
  <2>1. failures < MaxFailures /\ failures' = failures + 1
    BY <1>1 DEF Failure, Failing
  <2> QED
    BY <2>1, FailuresAssumption
<1>2. CASE failures' = failures
  BY <1>2
<1> QED
  BY <1>1, <1>2 DEF Next, GatewayStep, InitStep, LoaderStep

\* Nothing published, nothing started: the invariant holds.
LEMMA Initially == Init => IInv
<1> SUFFICES ASSUME Init PROVE IInv
  OBVIOUS
<1>1. TypeOK
  <2>1. GatewayTypeOK
    BY DEF Init, GatewayInit, GatewayTypeOK
  <2>2. InitTypeOK
    <3>1. 0 \in 0 .. Attempts /\ 0 \in 0 .. MaxUps
      BY AttemptsAssumption
    <3>2. raw \in [Rows -> Nat] /\ parsed \in [Rows -> Nat]
      BY DEF Init, LakehouseInitInit
    <3> QED
      BY <3>1, <3>2 DEF Init, LakehouseInitInit, InitTypeOK
  <2>3. Len(log) = 0 /\ 0 \in 0 .. 0 /\ 0 \in 0 .. MaxFailures
    BY FailuresAssumption DEF Init, GatewayInit
  <2>4. bronze \in [Events -> Nat]
    BY DEF Init
  <2>5. acked \in [Sinks -> SUBSET (1 .. fetched)] /\ late \in [Sinks -> SUBSET (1 .. Len(log))]
    BY DEF Init
  <2> QED
    BY <2>1, <2>2, <2>3, <2>4, <2>5 DEF Init, TypeOK
<1>2. Accounted /\ FlushSettles
  BY DEF Init, GatewayInit, Accounted, FlushSettles, Accepted
<1>3. TryLeft /\ ViewFirst
  BY DEF Init, LakehouseInitInit, TryLeft, ViewFirst, Statements
<1>4. AckedIsStored /\ CommittedIsStored
  BY DEF Init, AckedIsStored, CommittedIsStored, Sinks
<1> QED
  BY <1>1, <1>2, <1>3, <1>4 DEF IInv

\* Every step of gateway, script and loader keeps the invariant.
LEMMA Inductive == IInv /\ [Next]_vars => IInv'
<1> SUFFICES ASSUME IInv, [Next]_vars PROVE IInv'
  OBVIOUS
<1>1. CASE UNCHANGED vars
  BY <1>1
     DEF vars, gatewayVars, initVars, clickhouse, loaderVars, IInv, TypeOK, GatewayTypeOK, InitTypeOK,
         Accounted, FlushSettles, Logged, TryLeft, ViewFirst, AckedIsStored, CommittedIsStored, Served
<1>2. ASSUME Next,
             \/ GatewayCrash
             \/ \E e \in Events : Publish(e) \/ Settle(e) \/ AppendUnacknowledged(e),
             UNCHANGED <<initVars, loaderVars>>
      PROVE  IInv'
  <2>1. /\ GatewayTypeOK' /\ Accounted' /\ FlushSettles'
        /\ Len(log) \in Nat /\ Len(log') \in Nat /\ Len(log) <= Len(log')
        /\ \A i \in 1 .. Len(log) : log'[i] = log[i]
    BY <1>2, GatewayKeeps DEF IInv, TypeOK
  <2>2. /\ tables' = tables /\ view' = view /\ raw' = raw /\ parsed' = parsed /\ script' = script
        /\ attempt' = attempt /\ orphans' = orphans /\ ups' = ups
        /\ bronze' = bronze /\ running' = running /\ committed' = committed
        /\ fetched' = fetched /\ acked' = acked /\ late' = late
    BY <1>2 DEF initVars, clickhouse, loaderVars
  <2>3. InitTypeOK' /\ TryLeft' /\ ViewFirst'
    BY <2>2 DEF IInv, TypeOK, InitTypeOK, TryLeft, ViewFirst
  <2>4. TypeOK'
    <3>1. failures' \in 0 .. MaxFailures
      BY <1>2, FailuresTyped DEF IInv, TypeOK
    <3>2. committed' \in 0 .. fetched' /\ fetched' \in 0 .. Len(log')
      BY <2>1, <2>2 DEF IInv, TypeOK
    <3>3. 1 .. Len(log) \subseteq 1 .. Len(log')
      BY <2>1
    <3>4. late' \in [Sinks -> SUBSET (1 .. Len(log'))]
      BY <2>2, <3>3 DEF IInv, TypeOK
    <3> QED
      BY <2>1, <2>2, <2>3, <3>1, <3>2, <3>4 DEF IInv, TypeOK
  <2>5. RowsOK' /\ Growing
    BY <2>2, RowsAssumption DEF IInv, TypeOK, InitTypeOK, RowsOK, Growing
  <2>6. AckedIsStored' /\ CommittedIsStored'
    BY <2>1, <2>2, <2>5, OldIsStored DEF AckedIsStored, CommittedIsStored, Served
  <2> QED
    BY <2>1, <2>3, <2>4, <2>6 DEF IInv
<1>3. ASSUME Next, Up \/ ScriptStep \/ StatementFails, UNCHANGED <<gatewayVars, loaderVars>>
      PROVE  IInv'
  <2>1. /\ handler' = handler /\ queue' = queue /\ lost' = lost /\ log' = log
        /\ bronze' = bronze /\ running' = running /\ committed' = committed
        /\ fetched' = fetched /\ acked' = acked /\ late' = late
    BY <1>3 DEF gatewayVars, loaderVars
  <2>2. /\ InitTypeOK' /\ TryLeft' /\ ViewFirst'
        /\ raw' = raw
        /\ \A e \in Events : parsed[e] <= parsed'[e]
    BY <1>3, <2>1, ScriptKeeps DEF IInv, TypeOK
  <2>3. TypeOK' /\ Accounted' /\ FlushSettles'
    <3>1. failures' \in 0 .. MaxFailures
      BY <1>3, FailuresTyped DEF IInv, TypeOK
    <3> QED
      BY <2>1, <2>2, <3>1 DEF IInv, TypeOK, GatewayTypeOK, Accounted, FlushSettles, Logged
  <2>4. RowsOK' /\ Growing
    BY <2>1, <2>2, RowsAssumption DEF IInv, TypeOK, InitTypeOK, RowsOK, Growing
  <2>5. AckedIsStored' /\ CommittedIsStored'
    BY <2>1, <2>4, OldIsStored DEF AckedIsStored, CommittedIsStored, Served
  <2> QED
    BY <2>2, <2>3, <2>5 DEF IInv
<1>4. ASSUME Next, UNCHANGED <<gatewayVars, scriptVars>>,
             \/ LoaderStart \/ Fetch \/ Commit \/ LoaderCrash
             \/ \E i \in 1 .. Len(log) : InsertBreaks(i)
             \/ \E s \in Sinks : \/ \E i \in 1 .. Len(log) : Write(s, i) \/ WriteTimesOut(s, i)
                                \/ \E i \in late[s] : LateWrite(s, i)
      PROVE  IInv'
  <2>1. InitTypeOK' /\ LoaderInv'
    BY <1>4, LoaderKeeps
  <2>2. /\ handler' = handler /\ queue' = queue /\ lost' = lost /\ log' = log
        /\ script' = script /\ attempt' = attempt
    BY <1>4 DEF gatewayVars, scriptVars
  <2>3. failures' \in 0 .. MaxFailures
    BY <1>4, FailuresTyped DEF IInv, TypeOK
  <2> QED
    BY <2>1, <2>2, <2>3
       DEF IInv, TypeOK, LoaderInv, LoaderTypeOK, GatewayTypeOK, Accounted, FlushSettles, Logged, TryLeft
<1> QED
  BY <1>1, <1>2, <1>3, <1>4, StepKinds

\* The invariant holds in every reachable state.
LEMMA Always == Spec => []IInv
<1> QED
  BY Initially, Inductive, PTL DEF Spec

\* The types of the pipeline's state hold (main.py, bootstrap.py, connect.yaml).
THEOREM TypesHold == Spec => []TypeOK
<1>1. IInv => TypeOK
  BY DEF IInv
<1> QED
  BY <1>1, Always, PTL

\* A flush that emptied the producer's queue left the event published or given
\* up, however many handlers share the queue (main.py:52).
THEOREM FlushesSettle == Spec => []FlushSettles
<1>1. IInv => FlushSettles
  BY DEF IInv
<1> QED
  BY <1>1, Always, PTL

\* What is committed is parsed, whatever is lost, repeated or crashes, because
\* the loader starts after the view (connect.yaml:37-44, docker-compose.yml:337).
THEOREM CommittedParsed == Spec => []CommittedIsParsed
<1>1. IInv => CommittedIsParsed
  BY DEF IInv, CommittedIsStored, CommittedIsParsed, Served
<1> QED
  BY <1>1, Always, PTL

-----------------------------------------------------------------------------
\* While nothing has failed, an event is published once ...
PublishedOnce ==
  /\ \A e \in Events : handler[e] = "idle" => e \notin queue
  /\ \A e \in Events : handler[e] = "idle" \/ e \in queue => \A i \in 1 .. Len(log) : log[i] # e
  /\ \A i, j \in 1 .. Len(log) : log[i] = log[j] => i = j

\* ... the script runs once, before the loader writes anything ...
ScriptRunsOnce ==
  /\ orphans = 0
  /\ \A s \in Sinks : late[s] = {}
  /\ ups = 0 => script = "down"
  /\ script # "done" => ~running /\ \A e \in Events : raw[e] = 0

\* ... and a row is that of a message the sink acknowledged.
Done(s, e) == \E i \in 1 .. Len(log) : log[i] = e /\ (i <= committed \/ i \in acked[s])

CopiedOnce ==
  \A e \in Events :
    /\ bronze[e] <= 1 /\ raw[e] <= 1 /\ parsed[e] <= raw[e]
    /\ bronze[e] > 0 => Done("bronze", e)
    /\ raw[e] > 0 => Done("raw", e)

Once == PublishedOnce /\ ScriptRunsOnce /\ CopiedOnce

Quiet == failures = 0 /\ ups <= 1

\* A step that the gateway takes without failing.
LEMMA GatewayOnce ==
  ASSUME IInv, Once, NEW e \in Events, Publish(e) \/ Settle(e), UNCHANGED <<initVars, loaderVars>>
  PROVE  Once'
<1>1. /\ handler \in [Events -> Answered \cup {"idle", "flushing"}] /\ queue \subseteq Events
      /\ log \in Seq(Events) /\ Len(log) \in Nat
  BY DEF IInv, TypeOK, GatewayTypeOK
<1>2. UNCHANGED <<tables, view, raw, parsed, script, attempt, orphans, ups,
                  bronze, running, committed, acked, late>>
  BY DEF initVars, clickhouse, loaderVars
<1>3. ScriptRunsOnce'
  BY <1>2 DEF Once, ScriptRunsOnce
<1>4. CASE log' = log
  <2>1. CopiedOnce'
    BY <1>2, <1>4 DEF Once, CopiedOnce, Done
  <2>2. PublishedOnce'
    BY <1>1, <1>4 DEF Publish, Settle, Produce, Refuse, FlushEmpties, FlushRunsOut, Deliver, GiveUp,
                      Once, PublishedOnce
  <2> QED
    BY <1>3, <2>1, <2>2 DEF Once
<1>5. CASE Deliver(e)
  <2>1. /\ log' = Append(log, e) /\ e \in queue /\ queue' = queue \ {e} /\ handler' = handler
    BY <1>5 DEF Deliver
  <2>2. /\ Len(log') = Len(log) + 1
        /\ \A i \in 1 .. Len(log) : log'[i] = log[i]
        /\ log'[Len(log) + 1] = e
    BY <1>1, <2>1
  <2>3. \A i \in 1 .. Len(log) : log[i] # e
    BY <2>1 DEF Once, PublishedOnce
  <2>4. \A i \in 1 .. Len(log') : i \in 1 .. Len(log) \/ i = Len(log) + 1
    BY <1>1, <2>2
  <2>5. \A i \in 1 .. Len(log) : i \in 1 .. Len(log')
    BY <1>1, <2>2
  <2>6. PublishedOnce'
    BY <2>1, <2>2, <2>3, <2>4 DEF Once, PublishedOnce
  <2>7. \A s, d : Done(s, d) => Done(s, d)'
    BY <1>2, <2>2, <2>5 DEF Done
  <2>8. CopiedOnce'
    BY <1>2, <2>7 DEF Once, CopiedOnce
  <2> QED
    BY <1>3, <2>6, <2>8 DEF Once
<1> QED
  BY <1>4, <1>5 DEF Publish, Settle, Produce, Refuse, FlushEmpties, FlushRunsOut, GiveUp

\* A step of the script's first run: what is there to backfill is nothing.
LEMMA ScriptOnce ==
  ASSUME IInv, Once, Up \/ ScriptStep, ups' <= 1, UNCHANGED <<gatewayVars, loaderVars>>
  PROVE  Once'
<1>1. /\ raw \in [Events -> Nat] /\ parsed \in [Events -> Nat] /\ ups \in Nat
  BY RowsAssumption DEF IInv, TypeOK, InitTypeOK
<1>2. UNCHANGED <<handler, queue, log, bronze, running, committed, acked, late>>
  BY DEF gatewayVars, loaderVars
<1>3. PublishedOnce'
  BY <1>2 DEF Once, PublishedOnce
<1>4. \A s, e : Done(s, e)' = Done(s, e)
  BY <1>2 DEF Done
<1>5. CASE Up
  <2>1. ups = 0 /\ script' = "tables" /\ ups' # 0
    BY <1>1, <1>5 DEF Up
  <2>2. UNCHANGED <<raw, parsed, orphans>>
    BY <1>5 DEF Up, clickhouse
  <2>3. ScriptRunsOnce'
    BY <1>2, <2>1, <2>2 DEF Once, ScriptRunsOnce
  <2>4. CopiedOnce'
    BY <1>2, <1>4, <2>2 DEF Once, CopiedOnce
  <2> QED
    BY <1>3, <2>3, <2>4 DEF Once
<1>6. CASE StatementDone
  <2>1. /\ script \in Statements /\ Execute(script) /\ UNCHANGED <<orphans, ups>>
    BY <1>6 DEF StatementDone
  <2>2. \A e \in Events : raw[e] = 0
    BY <2>1 DEF Once, ScriptRunsOnce, Statements
  <2>3. raw' = raw /\ \A e \in Events : parsed'[e] = parsed[e]
    <3>1. CASE script = "backfill"
      <4>1. raw' = raw /\ parsed' = [e \in Events |-> parsed[e] + raw[e]]
        BY <2>1, <3>1, RowsAssumption DEF Execute
      <4> QED
        BY <1>1, <2>2, <4>1
    <3>2. CASE script # "backfill"
      BY <2>1, <3>2 DEF Execute, Statements
    <3> QED
      BY <3>1, <3>2
  <2>4. ScriptRunsOnce'
    BY <1>2, <2>1, <2>2, <2>3 DEF Once, ScriptRunsOnce, Statements
  <2>5. CopiedOnce'
    BY <1>2, <1>4, <2>3 DEF Once, CopiedOnce
  <2> QED
    BY <1>3, <2>4, <2>5 DEF Once
<1>7. ~OrphanExecutes
  BY DEF OrphanExecutes, Once, ScriptRunsOnce
<1> QED
  BY <1>5, <1>6, <1>7 DEF ScriptStep

\* A step that the loader takes without failing.
LEMMA LoaderOnce ==
  ASSUME IInv, Once, UNCHANGED <<gatewayVars, scriptVars>>,
         LoaderStart \/ LoaderProgress \/ \E s \in Sinks : \E i \in late[s] : LateWrite(s, i)
  PROVE  Once'
<1>1. /\ raw \in [Events -> Nat] /\ parsed \in [Events -> Nat] /\ bronze \in [Events -> Nat]
      /\ Len(log) \in Nat /\ \A i \in 1 .. Len(log) : log[i] \in Events
      /\ committed \in Nat /\ acked \in [Sinks -> SUBSET Nat]
  BY RowsAssumption DEF IInv, TypeOK, InitTypeOK, GatewayTypeOK
<1>2. UNCHANGED <<handler, queue, log, script, orphans, ups>>
  BY DEF gatewayVars, scriptVars
<1>3. PublishedOnce'
  BY <1>2 DEF Once, PublishedOnce
<1>4. CASE LoaderStart \/ Fetch
  <2>1. UNCHANGED <<raw, parsed, bronze, committed, acked, late>>
    BY <1>4 DEF LoaderStart, Fetch, clickhouse
  <2>2. ScriptRunsOnce'
    BY <1>2, <1>4, <2>1 DEF LoaderStart, Fetch, Once, ScriptRunsOnce
  <2>3. CopiedOnce'
    BY <1>2, <2>1 DEF Once, CopiedOnce, Done
  <2> QED
    BY <1>3, <2>2, <2>3 DEF Once
<1>5. CASE Commit
  <2>1. UNCHANGED <<raw, parsed, bronze, running, acked, late>> /\ committed' \in Nat /\ committed <= committed'
    BY <1>1, <1>5 DEF Commit, clickhouse
  <2>2. \A s, e : Done(s, e) => Done(s, e)'
    BY <1>1, <1>2, <2>1 DEF Done
  <2>3. CopiedOnce'
    BY <2>1, <2>2 DEF Once, CopiedOnce
  <2>4. ScriptRunsOnce'
    BY <1>2, <2>1 DEF Once, ScriptRunsOnce
  <2> QED
    BY <1>3, <2>3, <2>4 DEF Once
<1>6. ASSUME NEW s \in Sinks, NEW i \in 1 .. Len(log), Write(s, i)
      PROVE  Once'
  <2>1. /\ running /\ i > committed /\ i \notin acked[s] /\ Store(s, log[i])
        /\ acked' = [acked EXCEPT ![s] = @ \cup {i}]
        /\ UNCHANGED <<running, committed, late>>
    BY <1>1, <1>6 DEF Write, Pending, IInv, TypeOK
  <2> PICK e \in Events : e = log[i]
    BY <1>1
  <2>2. ~Done(s, e)
    BY <1>1, <2>1 DEF Done, Once, PublishedOnce
  <2>3. \A t \in Sinks : \A d : Done(t, d) => Done(t, d)'
    BY <1>1, <1>2, <2>1 DEF Done
  <2>4. Done(s, e)'
    BY <1>1, <1>2, <2>1 DEF Done
  <2>5. script = "done"
    BY <2>1 DEF Once, ScriptRunsOnce
  <2>6. ScriptRunsOnce'
    BY <1>2, <2>1, <2>5 DEF Once, ScriptRunsOnce
  <2>7. CASE s = "bronze"
    <3>1. bronze' = [bronze EXCEPT ![e] = @ + 1] /\ UNCHANGED <<raw, parsed>>
      BY <2>1, <2>7 DEF Store, clickhouse
    <3>2. bronze[e] = 0
      BY <1>1, <2>2, <2>7 DEF Once, CopiedOnce
    <3>3. CopiedOnce'
      BY <1>1, <2>3, <2>4, <2>7, <3>1, <3>2 DEF Once, CopiedOnce, Sinks
    <3> QED
      BY <1>3, <2>6, <3>3 DEF Once
  <2>8. CASE s = "raw"
    <3>1. /\ raw' = [raw EXCEPT ![e] = @ + 1] /\ bronze' = bronze
          /\ parsed' = parsed \/ parsed' = [parsed EXCEPT ![e] = @ + 1]
      BY <2>1, <2>8 DEF Store, InsertRaw
    <3>2. raw[e] = 0
      BY <1>1, <2>2, <2>8 DEF Once, CopiedOnce
    <3>3. /\ raw'[e] = 1 /\ parsed'[e] <= 1
          /\ \A d \in Events : d # e => raw'[d] = raw[d] /\ parsed'[d] = parsed[d]
      BY <1>1, <3>1, <3>2 DEF Once, CopiedOnce
    <3>4. CopiedOnce'
      BY <1>1, <2>3, <2>4, <2>8, <3>1, <3>3 DEF Once, CopiedOnce, Sinks
    <3> QED
      BY <1>3, <2>6, <3>4 DEF Once
  <2> QED
    BY <2>7, <2>8 DEF Sinks
<1>7. \A s \in Sinks : late[s] = {}
  BY DEF Once, ScriptRunsOnce
<1> QED
  BY <1>4, <1>5, <1>6, <1>7 DEF LoaderProgress

\* Without a failure and a second start, nothing is stored twice.
LEMMA OnceStep ==
  ASSUME IInv, Quiet => Once, [Next]_vars
  PROVE  Quiet' => Once'
<1> SUFFICES ASSUME Quiet' PROVE Once'
  OBVIOUS
<1>1. failures \in Nat /\ ups \in Nat
  BY FailuresAssumption, AttemptsAssumption DEF IInv, TypeOK, InitTypeOK
<1>2. CASE UNCHANGED vars
  BY <1>2 DEF vars, gatewayVars, initVars, clickhouse, loaderVars, Quiet, Once, PublishedOnce,
              ScriptRunsOnce, CopiedOnce, Done
<1>3. ~Failure
  BY <1>1 DEF Failure, Failing, Quiet
<1>4. ASSUME NEW e \in Events, GatewayStep(Publish(e) \/ Settle(e)) PROVE Once'
  <2>1. UNCHANGED <<initVars, loaderVars, failures>>
    BY <1>4 DEF GatewayStep
  <2>2. Quiet
    BY <2>1 DEF initVars, Quiet
  <2> QED
    BY <1>4, <2>1, <2>2, GatewayOnce DEF GatewayStep
<1>5. CASE InitStep(Up \/ ScriptStep)
  <2>1. (Up \/ ScriptStep) /\ UNCHANGED <<gatewayVars, loaderVars, failures>>
    BY <1>5 DEF InitStep
  <2>2. ups <= ups'
    BY <1>1, <2>1 DEF Up, ScriptStep, StatementDone, OrphanExecutes
  <2>3. ups' <= 1 /\ ups' \in Nat
    BY <1>1, <2>1 DEF Quiet, Up, ScriptStep, StatementDone, OrphanExecutes
  <2>4. Quiet
    BY <1>1, <2>1, <2>2, <2>3 DEF Quiet
  <2> QED
    BY <2>1, <2>3, <2>4, ScriptOnce
<1>7. CASE \/ LoaderStep(LoaderStart \/ LoaderProgress)
           \/ LoaderStep(\E s \in Sinks : \E i \in late[s] : LateWrite(s, i))
  <2>1. Quiet
    BY <1>7 DEF LoaderStep, scriptVars, Quiet
  <2> QED
    BY <1>7, <2>1, LoaderOnce DEF LoaderStep
<1> QED
  BY <1>2, <1>3, <1>4, <1>5, <1>7 DEF Next

\* Duplicates come from failures and from bringing the stack up again: the view
\* and the backfill never meet the same rows, nor do the messages under way
\* (connect.yaml:11-19, bootstrap.py:116-129).
THEOREM NoFailureNoDuplicate == Spec => []DuplicatesNeedFailure
<1>1. Init => (Quiet => Once)
  <2> SUFFICES ASSUME Init PROVE Once
    OBVIOUS
  <2>1. Len(log) = 0 /\ queue = {}
    BY DEF Init, GatewayInit
  <2>2. PublishedOnce
    BY <2>1 DEF PublishedOnce, Init, GatewayInit
  <2>3. \A e \in Events : bronze[e] = 0 /\ raw[e] = 0 /\ parsed[e] = 0
    BY RowsAssumption DEF Init, LakehouseInitInit
  <2>4. ScriptRunsOnce
    BY <2>3 DEF ScriptRunsOnce, Init, LakehouseInitInit
  <2>5. CopiedOnce
    BY <2>3 DEF CopiedOnce
  <2> QED
    BY <2>2, <2>4, <2>5 DEF Once
<1>2. IInv /\ (Quiet => Once) /\ [Next]_vars => (Quiet => Once)'
  BY OnceStep
<1>3. IInv /\ (Quiet => Once) => DuplicatesNeedFailure
  <2> SUFFICES ASSUME IInv, Once, NEW e \in Events
               PROVE  bronze[e] <= 1 /\ raw[e] <= 1 /\ parsed[e] <= 1
    BY DEF DuplicatesNeedFailure, Quiet
  <2>1. raw[e] \in Nat /\ parsed[e] \in Nat /\ bronze[e] \in Nat
    BY RowsAssumption DEF IInv, TypeOK, InitTypeOK
  <2> QED
    BY <2>1 DEF Once, CopiedOnce
<1> QED
  BY <1>1, <1>2, <1>3, Always, PTL DEF Spec

-----------------------------------------------------------------------------
\* Before the first run of the script is done nothing is written.
ScriptFirst ==
  /\ ups = 0 => script = "down"
  /\ script # "done" =>
       ~running /\ (\A s \in Sinks : late[s] = {}) /\ \A e \in Events : raw[e] = 0

\* The first start, with no backfill that was given up and still executes.
OneBackfill == ups <= 1 /\ orphans = 0

\* What may happen to an event's rows: none, an insert with its view or one
\* whose view failed.
LEMMA InsertsParseOnce ==
  ASSUME IInv, BackfillIsOneTime,
         UNCHANGED <<raw, parsed>> \/ \E e \in Events : InsertRaw(e) \/ InsertRawOnly(e)
  PROVE  BackfillIsOneTime'
<1>1. raw \in [Events -> Nat] /\ parsed \in [Events -> Nat]
  BY RowsAssumption DEF IInv, TypeOK, InitTypeOK
<1>2. CASE UNCHANGED <<raw, parsed>>
  BY <1>2 DEF BackfillIsOneTime
<1>3. ASSUME NEW e \in Events, InsertRaw(e) \/ InsertRawOnly(e)
      PROVE  BackfillIsOneTime'
  <2>1. /\ raw' = [raw EXCEPT ![e] = @ + 1]
        /\ parsed' = parsed \/ parsed' = [parsed EXCEPT ![e] = @ + 1]
    BY <1>3 DEF InsertRaw, InsertRawOnly
  <2> QED
    BY <1>1, <2>1 DEF BackfillIsOneTime
<1> QED
  BY <1>2, <1>3

\* The script's statements find nothing to parse.
LEMMA ScriptParsesNothing ==
  ASSUME IInv, ScriptFirst, OneBackfill, OneBackfill', Up \/ ScriptStep \/ StatementFails
  PROVE  UNCHANGED <<raw, parsed>> /\ script # "done" /\ ups' # 0
<1>1. raw \in [Events -> Nat] /\ parsed \in [Events -> Nat] /\ ups \in Nat /\ orphans \in Nat
  BY RowsAssumption DEF IInv, TypeOK, InitTypeOK
<1>2. CASE Up
  <2>1. ups = 0 /\ ups' = 1
    BY <1>1, <1>2 DEF Up, OneBackfill
  <2> QED
    BY <1>2, <2>1 DEF Up, clickhouse, ScriptFirst
<1>3. CASE script \in Statements /\ Execute(script) /\ ups' = ups
  <2>1. script # "done" /\ script # "down"
    BY <1>3 DEF Statements
  <2>2. \A e \in Events : raw[e] = 0
    BY <2>1 DEF ScriptFirst
  <2>3. CASE script = "backfill"
    <3>1. raw' = raw /\ parsed' = [e \in Events |-> parsed[e] + raw[e]]
      BY <1>3, <2>3, RowsAssumption DEF Execute
    <3>2. parsed' = parsed
      BY <1>1, <2>2, <3>1
    <3> QED
      BY <1>3, <2>1, <3>1, <3>2 DEF ScriptFirst
  <2>4. CASE script # "backfill"
    BY <1>3, <2>1, <2>4 DEF Execute, Statements, ScriptFirst
  <2> QED
    BY <2>3, <2>4
<1>4. CASE StatementFails
  <2>1. ~(orphans' = orphans + 1)
    BY <1>1 DEF OneBackfill
  <2>2. /\ script \in Statements /\ ups' = ups
        /\ Execute(script) \/ UNCHANGED clickhouse
    BY <1>4, <2>1 DEF StatementFails
  <2> QED
    BY <1>3, <2>2 DEF clickhouse, Statements, ScriptFirst
<1>5. CASE StatementDone
  BY <1>3, <1>5 DEF StatementDone
<1>6. ~OrphanExecutes
  BY DEF OrphanExecutes, OneBackfill
<1> QED
  BY <1>2, <1>4, <1>5, <1>6 DEF ScriptStep

\* Up to a second start and a backfill that was given up, every step keeps
\* the two and the loader waits for them.
LEMMA OneBackfillStep ==
  ASSUME IInv, ScriptFirst, BackfillIsOneTime, OneBackfill, OneBackfill', [Next]_vars
  PROVE  ScriptFirst' /\ BackfillIsOneTime'
<1>1. CASE UNCHANGED <<initVars, loaderVars>>
  BY <1>1 DEF initVars, clickhouse, loaderVars, ScriptFirst, BackfillIsOneTime
<1>2. CASE (Up \/ ScriptStep \/ StatementFails) /\ UNCHANGED loaderVars
  <2>1. UNCHANGED <<raw, parsed>> /\ script # "done" /\ ups' # 0
    BY <1>2, ScriptParsesNothing
  <2>2. UNCHANGED <<running, late>>
    BY <1>2 DEF loaderVars
  <2> QED
    BY <2>1, <2>2 DEF ScriptFirst, BackfillIsOneTime
<1>3. CASE (LoaderStart \/ Fetch \/ Commit \/ LoaderCrash) /\ UNCHANGED scriptVars
  <2>1. UNCHANGED <<raw, parsed, late, script, ups>>
    BY <1>3 DEF LoaderStart, Fetch, Commit, LoaderCrash, clickhouse, scriptVars
  <2>2. running' => running \/ script = "done"
    BY <1>3 DEF LoaderStart, Fetch, Commit, LoaderCrash
  <2> QED
    BY <2>1, <2>2 DEF ScriptFirst, BackfillIsOneTime
<1>4. ASSUME NEW s \in Sinks, NEW i \in 1 .. Len(log), UNCHANGED scriptVars,
             Write(s, i) \/ WriteTimesOut(s, i) \/ InsertBreaks(i) \/ (i \in late[s] /\ LateWrite(s, i))
      PROVE  ScriptFirst' /\ BackfillIsOneTime'
  <2>1. script = "done" /\ UNCHANGED <<script, ups>>
    BY <1>4 DEF Write, WriteTimesOut, InsertBreaks, LateWrite, Pending, ScriptFirst, scriptVars
  <2>2. log[i] \in Events
    BY DEF IInv, TypeOK, GatewayTypeOK
  <2>3. UNCHANGED <<raw, parsed>> \/ InsertRaw(log[i]) \/ InsertRawOnly(log[i])
    BY <1>4 DEF Write, WriteTimesOut, InsertBreaks, LateWrite, Store, clickhouse
  <2>4. BackfillIsOneTime'
    BY <2>2, <2>3, InsertsParseOnce
  <2> QED
    BY <2>1, <2>4 DEF ScriptFirst
<1> QED
  <2>1. \A s \in Sinks : late[s] \subseteq 1 .. Len(log)
    BY DEF IInv, TypeOK
  <2>2. CASE UNCHANGED vars \/ \E e \in Events : GatewayStep(Publish(e) \/ Settle(e))
    BY <1>1, <2>2 DEF vars, GatewayStep
  <2>3. CASE InitStep(Up \/ ScriptStep)
    BY <1>2, <2>3 DEF InitStep
  <2>4. CASE LoaderStep(LoaderStart \/ LoaderProgress)
    BY <1>3, <1>4, <2>4 DEF LoaderStep, LoaderProgress
  <2>5. CASE LoaderStep(\E s \in Sinks : \E i \in late[s] : LateWrite(s, i))
    BY <1>4, <2>1, <2>5 DEF LoaderStep
  <2>6. CASE Failing(GatewayCrash \/ \E e \in Events : AppendUnacknowledged(e), <<initVars, loaderVars>>)
    BY <1>1, <2>6 DEF Failing
  <2>7. CASE Failing(StatementFails, <<gatewayVars, loaderVars>>)
    BY <1>2, <2>7 DEF Failing
  <2>8. CASE Failing(\/ LoaderCrash
                     \/ \E i \in 1 .. Len(log) : InsertBreaks(i) \/ \E s \in Sinks : WriteTimesOut(s, i),
                     <<gatewayVars, scriptVars>>)
    BY <1>3, <1>4, <2>8 DEF Failing, Sinks
  <2> QED
    BY <2>2, <2>3, <2>4, <2>5, <2>6, <2>7, <2>8 DEF Next, Failure

\* What every further start breaks holds until then: on the first start the
\* backfill parses nothing that the view parses too, whatever else fails, is
\* late or crashes, unless a try of it was given up and still executes
\* (bootstrap.py:84-95).
THEOREM FirstBackfillIsOneTime == Spec => ([]OneBackfill => []BackfillIsOneTime)
<1>1. Init => ScriptFirst /\ BackfillIsOneTime
  <2> SUFFICES ASSUME Init PROVE ScriptFirst /\ BackfillIsOneTime
    OBVIOUS
  <2>1. \A e \in Events : raw[e] = 0 /\ parsed[e] = 0
    BY RowsAssumption DEF Init, LakehouseInitInit
  <2> QED
    BY <2>1 DEF Init, LakehouseInitInit, ScriptFirst, BackfillIsOneTime
<1>2. IInv /\ OneBackfill /\ OneBackfill' /\ ScriptFirst /\ BackfillIsOneTime /\ [Next]_vars
        => ScriptFirst' /\ BackfillIsOneTime'
  BY OneBackfillStep
<1> QED
  BY <1>1, <1>2, Always, PTL DEF Spec

-----------------------------------------------------------------------------
\* What Delivery sees of the two stores.
Stored == [s \in Sinks |-> {e \in Events : Copies[s][e] > 0}]

\* A step that adds no row to them leaves it as it was.
LEMMA StoredUnchanged ==
  ASSUME bronze' = bronze, raw' = raw
  PROVE  Stored' = Stored
BY DEF Stored, Copies

\* One more copy of an event in one sink is Delivery's Store, or nothing new.
LEMMA StoredGrows ==
  ASSUME IInv, NEW s \in Sinks, NEW e \in Events,
         \/ s = "bronze" /\ bronze' = [bronze EXCEPT ![e] = @ + 1] /\ raw' = raw
         \/ s = "raw" /\ raw' = [raw EXCEPT ![e] = @ + 1] /\ bronze' = bronze
  PROVE  Stored' = [Stored EXCEPT ![s] = @ \cup {e}]
<1>1. bronze \in [Events -> Nat] /\ raw \in [Events -> Nat]
  BY RowsAssumption DEF IInv, TypeOK, InitTypeOK
<1>2. ASSUME NEW f, NEW g, f \in [Events -> Nat], g = [f EXCEPT ![e] = @ + 1]
      PROVE  {d \in Events : g[d] > 0} = {d \in Events : f[d] > 0} \cup {e}
  <2>1. \A d \in Events : g[d] = IF d = e THEN f[d] + 1 ELSE f[d]
    BY <1>2
  <2>2. f[e] + 1 > 0
    BY <1>2
  <2> QED
    BY <2>1, <2>2
<1>3. /\ Copies["bronze"] = bronze /\ Copies["raw"] = raw
      /\ Copies'["bronze"] = bronze' /\ Copies'["raw"] = raw'
  BY DEF Copies
<1>4. ASSUME NEW t \in Sinks
      PROVE  Stored'[t] = IF t = s THEN Stored[t] \cup {e} ELSE Stored[t]
  <2>1. /\ Stored[t] = {d \in Events : Copies[t][d] > 0}
        /\ Stored'[t] = {d \in Events : Copies'[t][d] > 0}
    BY DEF Stored
  <2>2. Copies'[t] = IF t = s THEN [Copies[t] EXCEPT ![e] = @ + 1] ELSE Copies[t]
    BY <1>3, <1>4 DEF Sinks
  <2>3. Copies[t] \in [Events -> Nat]
    BY <1>1, <1>3, <1>4 DEF Sinks
  <2>4. CASE t = s
    <3>1. {d \in Events : Copies'[t][d] > 0} = {d \in Events : Copies[t][d] > 0} \cup {e}
      BY <1>2, <2>2, <2>3, <2>4
    <3> QED
      BY <2>1, <2>4, <3>1
  <2>5. CASE t # s
    BY <2>1, <2>2, <2>5
  <2> QED
    BY <2>4, <2>5
<1>5. /\ Stored = [t \in Sinks |-> Stored[t]] /\ Stored' = [t \in Sinks |-> Stored'[t]]
  BY DEF Stored
<1> QED
  BY <1>4, <1>5

\* The empty pipeline is Delivery's initial state.
LEMMA MapsInit == Init => D!Init
<1> SUFFICES ASSUME Init PROVE D!Init
  OBVIOUS
<1>1. \A s \in Sinks, e \in Events : ~(Copies[s][e] > 0)
  BY RowsAssumption DEF Init, LakehouseInitInit, Copies, Sinks
<1>2. Stored = [s \in Sinks |-> {}]
  BY <1>1 DEF Stored
<1> QED
  BY <1>2 DEF Init, GatewayInit, D!Init, Stored

\* Every step is one of Delivery's or a stutter.
LEMMA MapsNext == IInv /\ [Next]_vars => [D!Next]_(D!vars)
<1> SUFFICES ASSUME IInv, [Next]_vars
             PROVE  D!Next \/ (log' = log /\ Stored' = Stored /\ committed' = committed)
  BY DEF D!vars, Stored
<1>1. CASE UNCHANGED vars
  BY <1>1, StoredUnchanged DEF vars, gatewayVars, initVars, clickhouse, loaderVars
<1>2. ASSUME \/ GatewayCrash
             \/ \E e \in Events : Publish(e) \/ Settle(e) \/ AppendUnacknowledged(e),
             UNCHANGED <<initVars, loaderVars>>
      PROVE  D!Next \/ (log' = log /\ Stored' = Stored /\ committed' = committed)
  <2>1. Stored' = Stored /\ committed' = committed
    BY <1>2, StoredUnchanged DEF initVars, clickhouse, loaderVars
  <2>2. log' = log \/ \E e \in Events : log' = Append(log, e)
    BY <1>2 DEF GatewayCrash, Publish, Produce, Refuse, FlushEmpties, FlushRunsOut, Settle, Deliver,
                GiveUp, AppendUnacknowledged
  <2>3. ASSUME NEW e \in Events, log' = Append(log, e) PROVE D!Publish(e)
    BY <2>1, <2>3 DEF D!Publish, Stored
  <2> QED
    BY <2>1, <2>2, <2>3 DEF D!Next
<1>3. ASSUME Up \/ ScriptStep \/ StatementFails, UNCHANGED <<gatewayVars, loaderVars>>
      PROVE  log' = log /\ Stored' = Stored /\ committed' = committed
  <2>1. log' = log /\ committed' = committed /\ bronze' = bronze /\ running' = running
    BY <1>3 DEF gatewayVars, loaderVars
  <2>2. raw' = raw
    BY <1>3, <2>1, ScriptKeeps DEF IInv, TypeOK
  <2> QED
    BY <2>1, <2>2, StoredUnchanged
<1>4. ASSUME NEW s \in Sinks, NEW i \in 1 .. Len(log), log' = log, committed' = committed,
             \/ Store(s, log[i])
             \/ s = "raw" /\ InsertRawOnly(log[i]) /\ bronze' = bronze
      PROVE  D!Next
  <2>1. log[i] \in Events
    BY DEF IInv, TypeOK, GatewayTypeOK
  <2>2. Stored' = [Stored EXCEPT ![s] = @ \cup {log[i]}]
    BY <1>4, <2>1, StoredGrows DEF Store, InsertRaw, InsertRawOnly, clickhouse, Sinks
  <2>3. D!Store(s, log[i])
    BY <1>4, <2>2 DEF D!Store, Stored
  <2> QED
    BY <2>1, <2>3 DEF D!Next, D!Store, Stored
<1>5. ASSUME UNCHANGED <<gatewayVars, scriptVars>>,
             \/ LoaderStart \/ Fetch \/ Commit \/ LoaderCrash
             \/ \E i \in 1 .. Len(log) : InsertBreaks(i)
             \/ \E s \in Sinks : \/ \E i \in 1 .. Len(log) : Write(s, i) \/ WriteTimesOut(s, i)
                                \/ \E i \in late[s] : LateWrite(s, i)
      PROVE  D!Next \/ (log' = log /\ Stored' = Stored /\ committed' = committed)
  <2>1. log' = log
    BY <1>5 DEF gatewayVars
  <2>2. CASE Commit
    <3>1. PICK n \in (committed + 1) .. fetched :
            /\ \A i \in (committed + 1) .. n, s \in Sinks : i \in acked[s]
            /\ committed' = n
      BY <2>2 DEF Commit
    <3>2. /\ committed \in Nat /\ fetched \in Nat /\ Len(log) \in Nat /\ fetched <= Len(log)
          /\ \A i \in 1 .. Len(log) : log[i] \in Events
      BY DEF IInv, TypeOK, GatewayTypeOK
    <3>3. ASSUME NEW i \in 1 .. n, NEW s \in Sinks PROVE log[i] \in Stored[s]
      <4>1. log[i] \in Events
        BY <3>1, <3>2
      <4>2. Copies[s][log[i]] > 0
        <5>1. CASE i \in 1 .. committed
          BY <5>1 DEF IInv, CommittedIsStored, Served, Copies, Sinks
        <5>2. CASE i \in (committed + 1) .. n
          BY <3>1, <5>2 DEF IInv, AckedIsStored, Copies, Sinks
        <5> QED
          BY <3>1, <3>2, <5>1, <5>2
      <4> QED
        BY <4>1, <4>2 DEF Stored
    <3>4. Stored' = Stored
      BY <2>2, StoredUnchanged DEF Commit, clickhouse
    <3>5. D!Commit(n)
      BY <2>1, <3>1, <3>3, <3>4 DEF D!Commit, Stored
    <3>6. n \in (committed + 1) .. Len(log)
      BY <3>1, <3>2
    <3> QED
      BY <3>5, <3>6 DEF D!Next
  <2>3. CASE \/ LoaderStart \/ Fetch \/ LoaderCrash
             \/ \E s \in Sinks : \E i \in 1 .. Len(log) : WriteTimesOut(s, i)
    BY <2>1, <2>3, StoredUnchanged DEF LoaderStart, Fetch, LoaderCrash, WriteTimesOut, clickhouse
  <2>4. CASE \E i \in 1 .. Len(log) : InsertBreaks(i)
    <3>1. PICK i \in 1 .. Len(log) : InsertRawOnly(log[i]) /\ UNCHANGED loaderVars
      BY <2>4 DEF InsertBreaks
    <3> QED
      BY <1>4, <2>1, <3>1 DEF loaderVars, Sinks
  <2>5. CASE \E s \in Sinks : \/ \E i \in 1 .. Len(log) : Write(s, i)
                              \/ \E i \in late[s] : LateWrite(s, i)
    <3>1. PICK s \in Sinks, i \in 1 .. Len(log) : Store(s, log[i]) /\ committed' = committed
      BY <2>5 DEF Write, LateWrite, IInv, TypeOK
    <3> QED
      BY <1>4, <2>1, <3>1
  <2> QED
    BY <1>5, <2>2, <2>3, <2>4, <2>5
<1> QED
  BY <1>1, <1>2, <1>3, <1>5, StepKinds

\* The stream loader implements at-least-once delivery to both sinks: it commits
\* an offset past an event only when both have it, through crashes, lost answers,
\* late writes and inserts that break half-way (connect.yaml:11-46).
THEOREM LoaderDelivers == Spec => ImplementsDelivery
<1>1. Spec => D!Spec
  BY Always, MapsInit, MapsNext, PTL DEF Spec, D!Spec
<1> QED
  BY <1>1 DEF ImplementsDelivery
=============================================================================
