----------------------------- MODULE ObjectIndex -----------------------------
(***************************************************************************)
(* sync_object_metadata of dagster/repository.py: a run reads the keys     *)
(* already in iceberg.ingress.raw_object_index, lists the bronze prefix of *)
(* the bucket page by page, and inserts what it found in batches.  The     *)
(* index has no key: an insert adds rows whatever is there.                *)
(*                                                                         *)
(* Objects keep arriving from the stream loader and are never removed.     *)
(* When a run fails, the insert it had sent may still commit afterwards.   *)
(***************************************************************************)
EXTENDS Naturals, FiniteSets

CONSTANTS
  Objects,     \* bronze object keys, in the order the bucket lists them
  Runs,        \* Dagster runs; one that ended stands for the next again
  PageSize,    \* keys in a page of list_objects_v2
  BatchSize,   \* rows in an INSERT: 200
  MaxFailures  \* bound: how many runs fail

ASSUME KeysAssumption == Objects \subseteq Nat \ {0}
ASSUME SizesAssumption == PageSize \in Nat \ {0} /\ BatchSize \in Nat \ {0}

VARIABLES
  bronze,   \* objects in the bucket
  index,    \* rows of raw_object_index for each object
  pc,       \* what a run does next, or how it ended
  known,    \* its seen_keys
  cursor,   \* the last key listed
  found,    \* discovered and not yet sent
  sending,  \* the batch of the INSERT under way
  failures

\* Observation only: what the bucket held when a run started, and the run that
\* started last, when nothing of another was left then.
VARIABLES atStart, alone

vars == <<bronze, index, pc, known, cursor, found, sending, failures, atStart, alone>>

Active == {"reading", "listing", "writing"}

TypeOK ==
  /\ bronze \subseteq Objects
  /\ index \in [Objects -> Nat]
  /\ pc \in [Runs -> Active \cup {"ready", "done", "failed"}]
  /\ known \in [Runs -> SUBSET Objects]
  /\ cursor \in [Runs -> Nat]
  /\ found \in [Runs -> SUBSET Objects]
  /\ sending \in [Runs -> SUBSET Objects]
  /\ failures \in Nat
  /\ atStart \in [Runs -> SUBSET Objects]
  /\ alone \subseteq Runs

Init ==
  /\ bronze = {}
  /\ index = [o \in Objects |-> 0]
  /\ pc = [r \in Runs |-> "ready"]
  /\ known = [r \in Runs |-> {}]
  /\ cursor = [r \in Runs |-> 0]
  /\ found = [r \in Runs |-> {}]
  /\ sending = [r \in Runs |-> {}]
  /\ failures = 0
  /\ atStart = [r \in Runs |-> {}]
  /\ alone = {}

Indexed == {o \in Objects : index[o] > 0}

-----------------------------------------------------------------------------
\* The first n keys of a set, all of them if there are fewer.
IsHead(head, keys, n) ==
  /\ head \subseteq keys
  /\ \A o \in head, p \in keys \ head : o < p
  /\ IF Cardinality(keys) <= n THEN head = keys ELSE Cardinality(head) = n

Idle(r) == pc[r] \notin Active /\ sending[r] = {}

Arrive(o) ==
  /\ o \notin bronze
  /\ bronze' = bronze \cup {o}
  /\ UNCHANGED <<index, pc, known, cursor, found, sending, failures, atStart, alone>>

\* The hourly schedule, once it is turned on, or an operator in the Dagster UI;
\* nothing keeps a run from starting beside another.
StartRun(r) ==
  /\ Idle(r)
  /\ pc' = [pc EXCEPT ![r] = "reading"]
  /\ atStart' = [atStart EXCEPT ![r] = bronze]
  /\ alone' = (IF \A q \in Runs : Idle(q) THEN {r} ELSE {})
  /\ UNCHANGED <<bronze, index, known, cursor, found, sending, failures>>

\* processed_object_keys
ReadIndex(r) ==
  /\ pc[r] = "reading"
  /\ known' = [known EXCEPT ![r] = Indexed]
  /\ pc' = [pc EXCEPT ![r] = "listing"]
  /\ UNCHANGED <<bronze, index, cursor, found, sending, failures, atStart, alone>>

Unlisted(r) == {o \in bronze : o > cursor[r]}

\* A variant that lists one page only.
ListFirstPage(r) ==
  /\ pc[r] = "listing"
  /\ \E page \in SUBSET Unlisted(r) :
       /\ IsHead(page, Unlisted(r), PageSize)
       /\ found' = [found EXCEPT ![r] = @ \cup (page \ known[r])]
  /\ pc' = [pc EXCEPT ![r] = "writing"]
  /\ UNCHANGED <<bronze, index, known, cursor, sending, failures, atStart, alone>>

\* A variant that does not look at the keys it read.
ListEveryPage(r) ==
  /\ pc[r] = "listing"
  /\ \E page \in SUBSET Unlisted(r) :
       /\ IsHead(page, Unlisted(r), PageSize)
       /\ found' = [found EXCEPT ![r] = @ \cup page]
       /\ IF page = Unlisted(r)
          THEN pc' = [pc EXCEPT ![r] = "writing"] /\ UNCHANGED cursor
          ELSE \E last \in page :
                 /\ \A o \in page : o <= last
                 /\ cursor' = [cursor EXCEPT ![r] = last]
                 /\ UNCHANGED pc
  /\ UNCHANGED <<bronze, index, known, sending, failures, atStart, alone>>

\* One page of list_objects_v2; the last one ends the listing.
ListPage(r) ==
  /\ pc[r] = "listing"
  /\ \E page \in SUBSET Unlisted(r) :
       /\ IsHead(page, Unlisted(r), PageSize)
       /\ found' = [found EXCEPT ![r] = @ \cup (page \ known[r])]
       /\ IF page = Unlisted(r)
          THEN pc' = [pc EXCEPT ![r] = "writing"] /\ UNCHANGED cursor
          ELSE \E last \in page :
                 /\ \A o \in page : o <= last
                 /\ cursor' = [cursor EXCEPT ![r] = last]
                 /\ UNCHANGED pc
  /\ UNCHANGED <<bronze, index, known, sending, failures, atStart, alone>>

\* The next INSERT of record_object_index_entries.
SendBatch(r) ==
  /\ pc[r] = "writing" /\ sending[r] = {} /\ found[r] # {}
  /\ \E batch \in SUBSET found[r] :
       /\ IsHead(batch, found[r], BatchSize)
       /\ sending' = [sending EXCEPT ![r] = batch]
       /\ found' = [found EXCEPT ![r] = @ \ batch]
  /\ UNCHANGED <<bronze, index, pc, known, cursor, failures, atStart, alone>>

CommitBatch(r) ==
  /\ sending[r] # {}
  /\ index' = [o \in Objects |-> IF o \in sending[r] THEN index[o] + 1 ELSE index[o]]
  /\ sending' = [sending EXCEPT ![r] = {}]
  /\ UNCHANGED <<bronze, pc, known, cursor, found, failures, atStart, alone>>

\* What a run knows goes with its process.
Forget(r) ==
  /\ known' = [known EXCEPT ![r] = {}]
  /\ cursor' = [cursor EXCEPT ![r] = 0]
  /\ found' = [found EXCEPT ![r] = {}]

\* Nothing to index, or every batch committed.
FinishRun(r) ==
  /\ pc[r] = "writing" /\ sending[r] = {} /\ found[r] = {}
  /\ pc' = [pc EXCEPT ![r] = "done"]
  /\ Forget(r)
  /\ UNCHANGED <<bronze, index, sending, failures, atStart, alone>>

\* A variant that parks a failed run for a retry nobody makes.
ParkRun(r) ==
  /\ pc[r] \in Active /\ failures < MaxFailures
  /\ pc' = [pc EXCEPT ![r] = "retrying"]
  /\ failures' = failures + 1
  /\ Forget(r)
  /\ UNCHANGED <<bronze, index, sending, atStart, alone>>

\* A query fails, or the run's process dies; Dagster does not retry it.
FailRun(r) ==
  /\ pc[r] \in Active /\ failures < MaxFailures
  /\ pc' = [pc EXCEPT ![r] = "failed"]
  /\ failures' = failures + 1
  /\ Forget(r)
  /\ UNCHANGED <<bronze, index, sending, atStart, alone>>

\* The insert a failed run had sent is cancelled.
DropBatch(r) ==
  /\ pc[r] = "failed" /\ sending[r] # {}
  /\ sending' = [sending EXCEPT ![r] = {}]
  /\ UNCHANGED <<bronze, index, pc, known, cursor, found, failures, atStart, alone>>

RunStep(r) ==
  \/ ReadIndex(r) \/ ListPage(r)
  \/ SendBatch(r) \/ CommitBatch(r) \/ FinishRun(r)
  \/ DropBatch(r)

Next ==
  \/ \E o \in Objects : Arrive(o)
  \/ \E r \in Runs : StartRun(r) \/ RunStep(r) \/ FailRun(r)

Spec == Init /\ [][Next]_vars

\* Trino and MinIO answer a run.  Nothing is assumed of starts: the schedule is
\* off until somebody turns it on.
FairSpec == Spec /\ \A r \in Runs : WF_vars(RunStep(r))

-----------------------------------------------------------------------------
\* A run that succeeds has indexed everything that was in the bucket when
\* it started, though it lists the bucket page by page while objects arrive
\* and writes in batches that other runs' batches interleave with.
DoneMeansComplete ==
  \A r \in Runs : pc[r] = "done" => atStart[r] \subseteq Indexed

\* "Stores one row per object." (trino/init/01_ingress_catalogs.sql:8)
OneRowPerObject == \A o \in Objects : index[o] <= 1

\* An object gets a second row only while runs overlap, the late insert of a
\* failed one counting as part of it: a run that started with nothing of
\* another left adds none, whatever failed or overlapped before it.
DuplicatesNeedOverlap ==
  [][\A o \in Objects : index'[o] > index[o] /\ index[o] > 0 => alone = {}]_vars

\* Nothing is indexed that is not in the bucket, and no row is ever lost.
IndexGrows ==
  [][\A o \in Objects : index'[o] >= index[o] /\ (index'[o] > 0 => o \in bronze)]_vars

\* If runs are started again and again, and do not fail for ever, every object
\* is indexed in the end, whatever failed and overlapped runs left out.
EveryObjectIndexed ==
  []<><<\E r \in Runs : StartRun(r)>>_vars =>
    \A o \in Objects : o \in bronze ~> index[o] > 0
=============================================================================
