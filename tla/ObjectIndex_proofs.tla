-------------------------- MODULE ObjectIndex_proofs --------------------------
(***************************************************************************)
(* The properties of ObjectIndex, for every bucket, every number of runs   *)
(* and all page and batch sizes.                                           *)
(*                                                                         *)
(* A run is complete because no key at or below its cursor is lost from    *)
(* sight (Progress).  A run that started with nothing of another left      *)
(* indexes nothing twice, because until the next start nobody else writes  *)
(* (Alone) and so what it still holds is not in the index (Fresh).         *)
(***************************************************************************)
EXTENDS ObjectIndex, TLAPS

\* Whatever a run holds came from the bucket.
FromBucket ==
  /\ \A r \in Runs : atStart[r] \cup found[r] \cup sending[r] \subseteq bronze
  /\ Indexed \subseteq bronze

\* Where every key that was there when the run started is by now.
Progress ==
  \A r \in Runs :
    /\ pc[r] \notin {"listing", "writing"} => cursor[r] = 0 /\ found[r] = {}
    /\ pc[r] \in {"reading", "listing"} => sending[r] = {}
    /\ pc[r] = "listing" =>
         /\ known[r] \subseteq Indexed
         /\ \A o \in atStart[r] : o <= cursor[r] => o \in known[r] \cup found[r]
    /\ pc[r] = "writing" => atStart[r] \subseteq Indexed \cup found[r] \cup sending[r]

CompleteInv == TypeOK /\ FromBucket /\ Progress /\ DoneMeansComplete

\* Nothing of any run but the one that started alone is left.
Alone == \A r \in Runs : ~Idle(r) => alone = {r}

Fresh ==
  \A r \in Runs :
    /\ sending[r] \cap Indexed = {}
    /\ pc[r] = "listing" => known[r] = Indexed
    /\ pc[r] \in {"listing", "writing"} =>
         found[r] \cap Indexed = {} /\ found[r] \cap sending[r] = {}

OnceInv == CompleteInv /\ (alone # {} => Alone /\ Fresh)

-----------------------------------------------------------------------------
\* The empty bucket and index satisfy both invariants.
LEMMA InitInv == Init => CompleteInv /\ OnceInv
  BY DEF Init, CompleteInv, OnceInv, TypeOK, FromBucket, Progress, DoneMeansComplete,
         Alone, Fresh, Indexed, Idle, Active

\* Every step keeps the variables in their types.
LEMMA TypeStep == TypeOK /\ [Next]_vars => TypeOK'
  <1> SUFFICES ASSUME TypeOK, [Next]_vars PROVE TypeOK'
    OBVIOUS
  <1> USE DEF TypeOK, Active
  <1>1. CASE UNCHANGED vars
    BY <1>1 DEF vars
  <1>2. ASSUME NEW o \in Objects, Arrive(o) PROVE TypeOK'
    BY <1>2 DEF Arrive
  <1>3. ASSUME NEW r \in Runs, StartRun(r) \/ ReadIndex(r) PROVE TypeOK'
    BY <1>3 DEF StartRun, ReadIndex, Indexed
  <1>4. ASSUME NEW r \in Runs, ListPage(r) PROVE TypeOK'
    <2>1. Unlisted(r) \subseteq Objects /\ Objects \subseteq Nat
      BY KeysAssumption DEF Unlisted
    <2>2. found' \in [Runs -> SUBSET Objects]
      BY <1>4, <2>1 DEF ListPage
    <2>3. pc' \in [Runs -> Active \cup {"ready", "done", "failed"}]
      BY <1>4 DEF ListPage
    <2>4. cursor' \in [Runs -> Nat]
      BY <1>4, <2>1 DEF ListPage
    <2> QED
      BY <1>4, <2>2, <2>3, <2>4 DEF ListPage
  <1>5. ASSUME NEW r \in Runs, SendBatch(r) PROVE TypeOK'
    BY <1>5 DEF SendBatch
  <1>6. ASSUME NEW r \in Runs, CommitBatch(r) PROVE TypeOK'
    BY <1>6 DEF CommitBatch
  <1>7. ASSUME NEW r \in Runs, FinishRun(r) \/ FailRun(r) \/ DropBatch(r) PROVE TypeOK'
    BY <1>7 DEF FinishRun, FailRun, DropBatch, Forget
  <1> QED
    BY <1>1, <1>2, <1>3, <1>4, <1>5, <1>6, <1>7 DEF Next, RunStep

\* Every step keeps track of the keys a run has to index.
LEMMA CompleteStep == CompleteInv /\ [Next]_vars => CompleteInv'
  <1> SUFFICES ASSUME CompleteInv, [Next]_vars PROVE CompleteInv'
    OBVIOUS
  <1>0. TypeOK'
    BY TypeStep DEF CompleteInv
  <1> USE DEF CompleteInv, TypeOK, FromBucket, Progress, DoneMeansComplete, Indexed, Active
  <1>1. CASE UNCHANGED vars
    BY <1>1 DEF vars
  <1>2. ASSUME NEW o \in Objects, Arrive(o) PROVE CompleteInv'
    BY <1>0, <1>2 DEF Arrive
  <1>3. ASSUME NEW r \in Runs, StartRun(r) PROVE CompleteInv'
    BY <1>0, <1>3 DEF StartRun, Idle
  <1>4. ASSUME NEW r \in Runs, ReadIndex(r) PROVE CompleteInv'
    BY <1>0, <1>4, KeysAssumption DEF ReadIndex
  <1>5. ASSUME NEW r \in Runs, ListPage(r) PROVE CompleteInv'
    <2> PICK page \in SUBSET Unlisted(r) :
          /\ IsHead(page, Unlisted(r), PageSize)
          /\ found' = [found EXCEPT ![r] = @ \cup (page \ known[r])]
          /\ IF page = Unlisted(r)
             THEN pc' = [pc EXCEPT ![r] = "writing"] /\ UNCHANGED cursor
             ELSE \E last \in page :
                    /\ \A o \in page : o <= last
                    /\ cursor' = [cursor EXCEPT ![r] = last]
                    /\ UNCHANGED pc
      BY <1>5 DEF ListPage
    <2>1. FromBucket' /\ DoneMeansComplete'
      BY <1>5 DEF ListPage, Unlisted
    <2>2. Progress'
      <3>1. CASE page = Unlisted(r)
        <4>1. pc' = [pc EXCEPT ![r] = "writing"] /\ UNCHANGED <<cursor, index, sending, known, atStart>>
          BY <1>5, <3>1 DEF ListPage
        <4>2. atStart[r] \subseteq Indexed \cup found'[r]
          <5>1. SUFFICES ASSUME NEW o \in atStart[r], o \notin known[r] \cup found[r]
                         PROVE  o \in page
            BY <1>5 DEF ListPage
          <5>2. o \in bronze /\ o \in Nat /\ cursor[r] \in Nat
            BY KeysAssumption
          <5>3. o > cursor[r]
            BY <1>5, <5>1, <5>2 DEF ListPage
          <5> QED
            BY <3>1, <5>2, <5>3 DEF Unlisted
        <4>3. \A q \in Runs : q # r => pc'[q] = pc[q] /\ found'[q] = found[q]
          BY <4>1
        <4> QED
          BY <4>1, <4>2, <4>3
      <3>2. CASE page # Unlisted(r)
        BY <1>5, <3>2, KeysAssumption DEF ListPage, Unlisted, IsHead
      <3> QED
        BY <3>1, <3>2
    <2> QED
      BY <1>0, <2>1, <2>2
  <1>6. ASSUME NEW r \in Runs, SendBatch(r) PROVE CompleteInv'
    BY <1>0, <1>6 DEF SendBatch
  <1>7. ASSUME NEW r \in Runs, CommitBatch(r) PROVE CompleteInv'
    <2>1. Indexed' = Indexed \cup sending[r]
      BY <1>7 DEF CommitBatch
    <2> QED
      BY <1>0, <1>7, <2>1 DEF CommitBatch
  <1>8. ASSUME NEW r \in Runs, FinishRun(r) \/ FailRun(r) \/ DropBatch(r) PROVE CompleteInv'
    BY <1>0, <1>8 DEF FinishRun, FailRun, DropBatch, Forget
  <1> QED
    BY <1>1, <1>2, <1>3, <1>4, <1>5, <1>6, <1>7, <1>8 DEF Next, RunStep

\* What the run that started alone still holds stays out of the index.
LEMMA OnceStep == OnceInv /\ [Next]_vars => OnceInv'
  <1> SUFFICES ASSUME OnceInv, [Next]_vars, alone' # {} PROVE Alone' /\ Fresh'
    BY CompleteStep DEF OnceInv
  <1> USE DEF OnceInv, Alone, Fresh, CompleteInv, TypeOK, Indexed, Idle, Active
  <1>1. CASE UNCHANGED vars
    BY <1>1 DEF vars
  <1>2. ASSUME NEW o \in Objects, Arrive(o) PROVE Alone' /\ Fresh'
    BY <1>2 DEF Arrive
  <1>3. ASSUME NEW r \in Runs, StartRun(r) PROVE Alone' /\ Fresh'
    BY <1>3 DEF StartRun
  <1>4. ASSUME NEW r \in Runs, ReadIndex(r) PROVE Alone' /\ Fresh'
    BY <1>4 DEF ReadIndex, Progress
  <1>5. ASSUME NEW r \in Runs, ListPage(r) PROVE Alone' /\ Fresh'
    BY <1>5 DEF ListPage, Progress
  <1>6. ASSUME NEW r \in Runs, SendBatch(r) PROVE Alone' /\ Fresh'
    BY <1>6 DEF SendBatch
  <1>7. ASSUME NEW r \in Runs, CommitBatch(r) PROVE Alone' /\ Fresh'
    <2>1. Indexed' = Indexed \cup sending[r]
      BY <1>7 DEF CommitBatch
    <2>2. \A q \in Runs \ {r} : Idle(q)
      BY <1>7 DEF CommitBatch
    <2> QED
      BY <1>7, <2>1, <2>2 DEF CommitBatch, Progress
  <1>8. ASSUME NEW r \in Runs, FinishRun(r) \/ FailRun(r) \/ DropBatch(r) PROVE Alone' /\ Fresh'
    BY <1>8 DEF FinishRun, FailRun, DropBatch, Forget
  <1> QED
    BY <1>1, <1>2, <1>3, <1>4, <1>5, <1>6, <1>7, <1>8 DEF Next, RunStep

-----------------------------------------------------------------------------
\* The keys of every run are accounted for in every reachable state.
THEOREM CompleteInvariant == Spec => []CompleteInv
  BY InitInv, CompleteStep, PTL DEF Spec

\* Every step of a run, late and cancelled batches included, keeps the index,
\* the cursors and what runs hold in their types.
THEOREM IndexTypes == Spec => []TypeOK
  BY CompleteInvariant, PTL DEF CompleteInv

\* A run that succeeds has indexed all it could have seen at its start.
THEOREM DoneIsComplete == Spec => []DoneMeansComplete
  BY CompleteInvariant, PTL DEF CompleteInv

\* A run that started with nothing of another left, the late insert of a
\* failed one included, never adds a second row for an object.
THEOREM DuplicatesAreOverlaps == Spec => DuplicatesNeedOverlap
  <1>1. OnceInv /\ [Next]_vars =>
          [\A o \in Objects : index'[o] > index[o] /\ index[o] > 0 => alone = {}]_vars
    <2> SUFFICES ASSUME OnceInv, Next, NEW o \in Objects, index'[o] > index[o], index[o] > 0
                 PROVE  alone = {}
      OBVIOUS
    <2>1. ~UNCHANGED index
      BY DEF OnceInv, CompleteInv, TypeOK
    <2>2. PICK r \in Runs : CommitBatch(r)
      BY <2>1 DEF Next, RunStep, Arrive, StartRun, ReadIndex, ListPage, SendBatch,
           FinishRun, FailRun, DropBatch
    <2>3. o \in sending[r] \cap Indexed
      BY <2>2 DEF CommitBatch, Indexed, OnceInv, CompleteInv, TypeOK
    <2> QED
      BY <2>3 DEF OnceInv, Fresh
  <1>2. Spec => []OnceInv
    BY InitInv, OnceStep, PTL DEF Spec
  <1> QED
    BY <1>1, <1>2, PTL DEF Spec, DuplicatesNeedOverlap

\* The index only grows, and only by objects of the bucket.
THEOREM IndexNeverShrinks == Spec => IndexGrows
  <1>1. CompleteInv /\ [Next]_vars =>
          [\A o \in Objects : index'[o] >= index[o] /\ (index'[o] > 0 => o \in bronze)]_vars
    <2> SUFFICES ASSUME CompleteInv, Next, NEW o \in Objects
                 PROVE  index'[o] >= index[o] /\ (index'[o] > 0 => o \in bronze)
      OBVIOUS
    <2> USE DEF CompleteInv, TypeOK, FromBucket, Indexed
    <2>1. ASSUME NEW r \in Runs, CommitBatch(r)
          PROVE  index'[o] >= index[o] /\ (index'[o] > 0 => o \in bronze)
      BY <2>1 DEF CommitBatch
    <2>2. CASE UNCHANGED index
      BY <2>2
    <2> QED
      BY <2>1, <2>2 DEF Next, RunStep, Arrive, StartRun, ReadIndex, ListPage, SendBatch,
           FinishRun, FailRun, DropBatch
  <1> QED
    BY <1>1, CompleteInvariant, PTL DEF Spec, IndexGrows
=============================================================================
