---------------------------- MODULE LakehouseInit ----------------------------
(***************************************************************************)
(* The ClickHouse tables serving.raw_payload and serving.raw_events, the   *)
(* materialized view between them, and lakehouse-init, the container that  *)
(* runs trino/init/bootstrap.py: create the tables through Trino, create   *)
(* the view, and copy what raw_payload holds into raw_events.  It runs at  *)
(* every `docker compose up'.  Each statement is tried again after an      *)
(* error or a time-out, and a statement that timed out may still execute.  *)
(*                                                                         *)
(* raw[e] and parsed[e] count the rows of event e.  The copy is one step:  *)
(* what arrives while it executes goes through the view.                   *)
(***************************************************************************)
EXTENDS Naturals

CONSTANTS
  Rows,       \* what a row stands for
  Attempts,   \* tries of a statement, TRINO_BOOTSTRAP_ATTEMPTS
  MaxUps      \* bound: how often the stack is brought up

ASSUME AttemptsAssumption == Attempts \in Nat \ {0} /\ MaxUps \in Nat

VARIABLES
  tables,     \* do the two tables exist?
  view,       \* does the view exist?
  raw,        \* rows of serving.raw_payload
  parsed,     \* rows of serving.raw_events
  script,     \* the statement main() is at
  attempt,    \* tries of it that failed
  orphans,    \* abandoned backfills that still execute
  ups         \* how often the script was started

clickhouse == <<tables, view, raw, parsed>>
initVars == <<clickhouse, script, attempt, orphans, ups>>

Statements == {"tables", "view", "backfill"}

After(s) == CASE s = "tables" -> "view" [] s = "view" -> "backfill" [] s = "backfill" -> "done"

InitTypeOK ==
  /\ tables \in BOOLEAN /\ view \in BOOLEAN
  /\ raw \in [Rows -> Nat] /\ parsed \in [Rows -> Nat]
  /\ script \in Statements \cup {"down", "done", "failed"}
  /\ attempt \in 0 .. Attempts
  /\ orphans \in Nat
  /\ ups \in 0 .. MaxUps

LakehouseInitInit ==
  /\ tables = FALSE /\ view = FALSE
  /\ raw = [e \in Rows |-> 0] /\ parsed = [e \in Rows |-> 0]
  /\ script = "down"
  /\ attempt = 0
  /\ orphans = 0
  /\ ups = 0

-----------------------------------------------------------------------------
\* INSERT INTO serving.raw_payload; the view is part of the insert.
InsertRaw(e) ==
  /\ tables
  /\ raw' = [raw EXCEPT ![e] = @ + 1]
  /\ parsed' = IF view THEN [parsed EXCEPT ![e] = @ + 1] ELSE parsed
  /\ UNCHANGED <<tables, view>>

\* The same, when the view fails after the row was written.
InsertRawOnly(e) ==
  /\ tables /\ view
  /\ raw' = [raw EXCEPT ![e] = @ + 1]
  /\ UNCHANGED <<tables, view, parsed>>

\* What a statement does in ClickHouse: both CREATEs say IF NOT EXISTS, the
\* INSERT ... SELECT says nothing of the kind.
Execute(s) ==
  CASE s = "tables" -> tables' = TRUE /\ UNCHANGED <<view, raw, parsed>>
    [] s = "view" -> view' = TRUE /\ UNCHANGED <<tables, raw, parsed>>
    [] s = "backfill" -> parsed' = [e \in Rows |-> parsed[e] + raw[e]]
                         /\ UNCHANGED <<tables, view, raw>>

\* docker compose up: the container starts unless it is running.
Up ==
  /\ script \notin Statements
  /\ ups < MaxUps
  /\ ups' = ups + 1
  /\ script' = "tables"
  /\ attempt' = 0
  /\ UNCHANGED <<clickhouse, orphans>>

\* The statement is answered and main() goes on.
StatementDone ==
  /\ script \in Statements
  /\ Execute(script)
  /\ script' = After(script)
  /\ attempt' = 0
  /\ UNCHANGED <<orphans, ups>>

\* retry: an error, or 30 s without an answer.  The statement was not executed,
\* or was, or will be.  For the CREATEs, which the next try repeats to no effect,
\* executed later is as good as executed now.
StatementFails ==
  /\ script \in Statements
  /\ attempt' = attempt + 1
  /\ script' = IF attempt + 1 < Attempts THEN script ELSE "failed"
  /\ \/ Execute(script) /\ UNCHANGED orphans
     \/ script = "backfill" /\ orphans' = orphans + 1 /\ UNCHANGED clickhouse
     \/ UNCHANGED <<clickhouse, orphans>>
  /\ UNCHANGED ups

\* A backfill nobody waits for takes effect.
OrphanExecutes ==
  /\ orphans > 0
  /\ orphans' = orphans - 1
  /\ Execute("backfill")
  /\ UNCHANGED <<script, attempt, ups>>

ScriptStep == StatementDone \/ OrphanExecutes
=============================================================================
