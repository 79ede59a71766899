--------------------------- MODULE AppdbInit_proofs ---------------------------
(***************************************************************************)
(* The properties of AppdbInit, for every set of handlers, campaigns and   *)
(* seeded rows, and any number of starts.                                  *)
(*                                                                         *)
(* Of the invariant of CampaignStore_proofs, what the deletes leave true   *)
(* is kept (Errand and Numbering, not SeedHasRow nor SuccessIsDurable).    *)
(* What a complete run restores is carried from statement to statement     *)
(* (Restored, HalvesKnown); that only a create makes the script fail       *)
(* needs whose the rows between the deletes and the inserts are            *)
(* (RowsAreCreated).                                                       *)
(***************************************************************************)
EXTENDS AppdbInit, CampaignStore_proofs

\* A row that is not there has seen nothing.
AbsentUnseen == \A c \in CampaignIds \ campaigns : seen[c] = {}

\* What the statements run so far have put back.
Restored ==
  /\ initPc \in {"addCampaigns", "addAnalytics", "done"} => environmentRow
  /\ initPc \in {"addAnalytics", "done"} => SeedCampaigns \subseteq campaigns
  /\ initPc = "done" => SeedCampaigns \subseteq analyticsRows

KnownToCreate(c) ==
  \E r \in Requests :
    /\ operation[r] = "create" /\ target[r] = c
    /\ pc[r] = "seed" \/ r \in abandoned

\* A campaign without its analytics row is known to a create, except
\* between the deletes and where a run has stopped between them.
HalvesKnown ==
  \A c \in campaigns \ analyticsRows :
    \/ initPc \in {"clearAnalytics", "clearCampaigns", "failed"}
    \/ initPc = "addAnalytics" /\ c \in SeedCampaigns
    \/ KnownToCreate(c)

CreateNames(c) == \E r \in Requests : operation[r] = "create" /\ target[r] = c

\* Before the inserts every row is a create's.
RowsAreCreated ==
  initPc \in {"addEnvironment", "addCampaigns"} => \A c \in campaigns : CreateNames(c)

InitInv ==
  /\ InitTypeOK /\ Errand /\ Numbering /\ AbsentUnseen
  /\ Restored /\ HalvesKnown /\ RowsAreCreated /\ ConflictNeedsCreate

-----------------------------------------------------------------------------
\* The first start leaves the seed and no handler at work.
LEMMA InitInitInv == InitInit => InitInv
  <1> SUFFICES ASSUME InitInit PROVE InitInv
    OBVIOUS
  <1>1. IInv
    BY InitIInv DEF InitInit
  <1>2. InitTypeOK
    BY <1>1, MaxStartsAssumption DEF InitInit, InitTypeOK, IInv, Ends
  <1>3. AbsentUnseen
    BY DEF InitInit, Init, AbsentUnseen
  <1>4. Restored /\ HalvesKnown /\ RowsAreCreated /\ ConflictNeedsCreate
    BY DEF InitInit, Init, Restored, HalvesKnown, RowsAreCreated, ConflictNeedsCreate
  <1> QED
    BY <1>1, <1>2, <1>3, <1>4 DEF InitInv, IInv, Purpose

\* What a handler's step does to the rows: it takes none away, and one it
\* adds is named by its create.
LEMMA HandlerRows ==
  ASSUME TypeOK, Errand, NEW r \in Requests, HandlerStep(r)
  PROVE  /\ [Next]_storeVars /\ UNCHANGED initVars
         /\ campaigns \subseteq campaigns' /\ analyticsRows \subseteq analyticsRows'
         /\ \A c \in campaigns' \ campaigns : CreateNames(c)' /\ seen'[c] = snapshot[r]
         /\ \A c \in CampaignIds \ campaigns' : seen'[c] = seen[c]
         /\ \A c : CreateNames(c) => CreateNames(c)'
  <1>1. Call(r) \/ Statement(r) \/ Abandon(r) \/ Drop(r)
    BY DEF HandlerStep
  <1>2. [Next]_storeVars /\ UNCHANGED initVars
    BY <1>1 DEF HandlerStep, Next
  <1>3. ASSUME NEW q \in Requests, operation[q] = "create"
        PROVE  operation'[q] = "create" /\ target'[q] = target[q]
    BY <1>1, <1>3 DEF TypeOK, Errand, Call, Statement, BeginCreate, BeginSchedule, RefuseUnnamed,
         Begin, LookupOrder, NextOrder, InsertCampaign, OverwriteCampaign, SeedAnalytics,
         ScheduleCampaign, ScheduleMissing, Abandon, Drop
  <1>4. \A c : CreateNames(c) => CreateNames(c)'
    BY <1>3 DEF CreateNames
  <1>5. CASE InsertCampaign(r)
    <2>1. operation'[r] = "create" /\ target' = target
      BY <1>5 DEF InsertCampaign, Errand
    <2>2. /\ campaigns' = campaigns \cup {target[r]} /\ analyticsRows' = analyticsRows
          /\ target[r] \in CampaignIds
          /\ seen' = [seen EXCEPT ![target[r]] = snapshot[r]]
      BY <1>5 DEF InsertCampaign, Errand, Statements
    <2> QED
      BY <1>2, <1>4, <2>1, <2>2 DEF CreateNames, TypeOK
  <1>6. CASE ~InsertCampaign(r)
    <2>1. campaigns' = campaigns /\ analyticsRows \subseteq analyticsRows' /\ seen' = seen
      BY <1>1, <1>6 DEF Call, Statement, BeginCreate, BeginSchedule, RefuseUnnamed,
           Begin, LookupOrder, NextOrder, OverwriteCampaign, SeedAnalytics,
           ScheduleCampaign, ScheduleMissing, Abandon, Drop, tables, observed
    <2> QED
      BY <1>2, <1>4, <2>1
  <1> QED
    BY <1>5, <1>6

\* A handler's step loses no create that knows of a half created campaign
\* unless it adds the analytics row, and knows of the row it inserts.
LEMMA HandlerKnows ==
  ASSUME TypeOK, Errand, NEW r \in Requests, HandlerStep(r),
         NEW c \in campaigns' \ analyticsRows', c \in campaigns => KnownToCreate(c)
  PROVE  KnownToCreate(c)'
  <1> USE DEF TypeOK, Errand, KnownToCreate, GoOn
  <1>1. CASE \E d \in CampaignIds : BeginCreate(r, d) \/ BeginSchedule(r, d)
    BY <1>1 DEF BeginCreate, BeginSchedule, Begin, tables
  <1>2. CASE \E op \in {"create", "schedule"} : RefuseUnnamed(r, op)
    BY <1>2 DEF RefuseUnnamed, Begin, tables
  <1>3. CASE LookupOrder(r) \/ NextOrder(r)
    BY <1>3 DEF LookupOrder, NextOrder, tables
  <1>4. CASE InsertCampaign(r)
    BY <1>4 DEF InsertCampaign
  <1>5. CASE OverwriteCampaign(r)
    BY <1>5 DEF OverwriteCampaign
  <1>6. CASE SeedAnalytics(r)
    BY <1>6 DEF SeedAnalytics
  <1>7. CASE ScheduleCampaign(r)
    BY <1>7 DEF ScheduleCampaign
  <1>8. CASE ScheduleMissing(r) \/ Abandon(r) \/ Drop(r)
    BY <1>8 DEF ScheduleMissing, Abandon, Drop, Statements, tables
  <1> QED
    BY <1>1, <1>2, <1>3, <1>4, <1>5, <1>6, <1>7, <1>8 DEF HandlerStep, Call, Statement

-----------------------------------------------------------------------------
\* The script's statements keep the variables in their types.
LEMMA ScriptTypes ==
  ASSUME InitTypeOK, InitScript
  PROVE  InitTypeOK'
  <1> USE DEF InitTypeOK, TypeOK, Script, Ends, RunStatement, handlers, tables, observed
  <1>1. CASE StartInit \/ InitFails
    BY <1>1, MaxStartsAssumption DEF StartInit, InitFails, storeVars
  <1>2. CASE ClearAnalytics
    BY <1>2 DEF ClearAnalytics
  <1>3. CASE ClearCampaigns \/ ClearEnvironment
    <2>1. /\ displayOrder' \in [CampaignIds -> Nat] /\ status' \in [CampaignIds -> Statuses]
          /\ snapshot' \in [Requests -> SUBSET CampaignIds] /\ seen' \in [CampaignIds -> SUBSET CampaignIds]
      BY <1>3 DEF ClearCampaigns, ClearEnvironment, DeleteCampaigns, Statuses
    <2>2. campaigns' = {} /\ analyticsRows' = {} /\ environmentRow' \in BOOLEAN
      BY <1>3 DEF ClearCampaigns, ClearEnvironment, DeleteCampaigns
    <2>3. initPc' \in Script /\ UNCHANGED <<handlers, starts>>
      BY <1>3 DEF ClearCampaigns, ClearEnvironment
    <2> QED
      BY <2>1, <2>2, <2>3
  <1>4. CASE AddEnvironment
    BY <1>4 DEF AddEnvironment
  <1>5. CASE AddCampaigns
    <2>1. displayOrder' \in [CampaignIds -> Nat]
      BY <1>5, SeedAssumption DEF AddCampaigns
    <2>2. status' \in [CampaignIds -> Statuses]
      BY <1>5, SeedAssumption DEF AddCampaigns, Statuses
    <2> QED
      BY <1>5, <2>1, <2>2, SeedAssumption DEF AddCampaigns
  <1>6. CASE AddCampaignsConflict
    BY <1>6 DEF AddCampaignsConflict
  <1>7. CASE AddAnalytics
    BY <1>7, SeedAssumption DEF AddAnalytics
  <1> QED
    BY <1>1, <1>2, <1>3, <1>4, <1>5, <1>6, <1>7 DEF InitScript

\* A script's statement interrupts no handler.
LEMMA ScriptErrands ==
  ASSUME Errand, InitScript
  PROVE  Errand' /\ UNCHANGED handlers
  <1>1. UNCHANGED handlers
    BY DEF InitScript, StartInit, ClearAnalytics, ClearCampaigns, ClearEnvironment, AddEnvironment,
         AddCampaigns, AddCampaignsConflict, AddAnalytics, InitFails, RunStatement, storeVars
  <1> QED
    BY <1>1 DEF Errand, handlers

\* The deletes take the numbers with the rows, what handlers hold included;
\* the seed comes with numbers of its own and has seen no other row.
LEMMA ScriptNumbering ==
  ASSUME InitTypeOK, Numbering, AbsentUnseen, InitScript
  PROVE  Numbering' /\ AbsentUnseen'
  <1> USE DEF InitTypeOK, TypeOK, Numbering, RowsNumbered, HeldNumber, NumberedAfterSeen, AbsentUnseen,
              RunStatement, handlers, tables, observed
  <1>1. CASE ClearCampaigns \/ ClearEnvironment
    BY <1>1 DEF ClearCampaigns, ClearEnvironment, DeleteCampaigns
  <1>2. CASE AddCampaigns
    <2>1. /\ UNCHANGED <<pc, order, snapshot, seen>>
          /\ campaigns' = campaigns \cup SeedCampaigns /\ campaigns \cap SeedCampaigns = {}
          /\ \A c \in CampaignIds : displayOrder'[c] = IF c \in SeedCampaigns THEN SeedOrder[c] ELSE displayOrder[c]
      BY <1>2 DEF AddCampaigns
    <2>2. \A c \in SeedCampaigns : c \in CampaignIds /\ SeedOrder[c] > 0 /\ seen[c] = {}
      BY <2>1, SeedAssumption
    <2>3. RowsNumbered'
      BY <2>1, <2>2
    <2>4. HeldNumber'
      BY <2>1, <2>2
    <2>5. NumberedAfterSeen' /\ AbsentUnseen'
      BY <2>1, <2>2
    <2> QED
      BY <2>3, <2>4, <2>5
  <1>3. CASE StartInit \/ InitFails
    BY <1>3 DEF StartInit, InitFails, storeVars
  <1>4. CASE ClearAnalytics \/ AddEnvironment \/ AddCampaignsConflict \/ AddAnalytics
    BY <1>4 DEF ClearAnalytics, AddEnvironment, AddCampaignsConflict, AddAnalytics
  <1> QED
    BY <1>1, <1>2, <1>3, <1>4 DEF InitScript

\* Each statement puts back what it inserts, and the deletes excuse what
\* they leave half done.
LEMMA ScriptRestores ==
  ASSUME InitTypeOK, Errand, Restored, HalvesKnown, RowsAreCreated, ConflictNeedsCreate, InitScript
  PROVE  Restored' /\ HalvesKnown' /\ RowsAreCreated' /\ ConflictNeedsCreate'
  <1>1. UNCHANGED <<operation, target, pc, abandoned>>
    BY ScriptErrands DEF handlers
  <1>2. \A c : (KnownToCreate(c)' <=> KnownToCreate(c)) /\ (CreateNames(c)' <=> CreateNames(c))
    BY <1>1 DEF KnownToCreate, CreateNames
  <1> USE DEF Restored, HalvesKnown, RowsAreCreated, ConflictNeedsCreate, RunStatement, Script, Ends
  <1>3. CASE StartInit \/ InitFails
    BY <1>1, <1>2, <1>3 DEF StartInit, InitFails, storeVars, tables
  <1>4. CASE ClearAnalytics
    BY <1>1, <1>2, <1>4 DEF ClearAnalytics
  <1>5. CASE ClearCampaigns \/ ClearEnvironment
    BY <1>1, <1>2, <1>5 DEF ClearCampaigns, ClearEnvironment, DeleteCampaigns
  <1>6. CASE AddEnvironment
    BY <1>1, <1>2, <1>6 DEF AddEnvironment, tables
  <1>7. CASE AddCampaigns
    BY <1>1, <1>2, <1>7 DEF AddCampaigns
  <1>8. CASE AddCampaignsConflict
    BY <1>1, <1>2, <1>8 DEF AddCampaignsConflict, CreateNames, tables
  <1>9. CASE AddAnalytics
    BY <1>1, <1>2, <1>9 DEF AddAnalytics
  <1> QED
    BY <1>3, <1>4, <1>5, <1>6, <1>7, <1>8, <1>9 DEF InitScript

\* A handler's step keeps what the script has restored.
LEMMA HandlerKeeps ==
  ASSUME InitInv, NEW r \in Requests, HandlerStep(r)
  PROVE  InitInv'
  <1> USE DEF InitInv
  <1>1. TypeOK
    BY DEF InitTypeOK
  <1>2. /\ [Next]_storeVars /\ UNCHANGED initVars
        /\ campaigns \subseteq campaigns' /\ analyticsRows \subseteq analyticsRows'
        /\ \A c \in campaigns' \ campaigns : CreateNames(c)' /\ seen'[c] = snapshot[r]
        /\ \A c \in CampaignIds \ campaigns' : seen'[c] = seen[c]
        /\ \A c : CreateNames(c) => CreateNames(c)'
    BY <1>1, HandlerRows
  <1>3. InitTypeOK'
    BY <1>1, <1>2, TypeStep DEF InitTypeOK, initVars
  <1>4. Errand' /\ Numbering'
    BY <1>1, <1>2, ErrandStep, NumberingStep
  <1>5. AbsentUnseen'
    BY <1>2 DEF AbsentUnseen
  <1>6. Restored' /\ RowsAreCreated'
    BY <1>2 DEF Restored, RowsAreCreated, initVars
  <1>7. HalvesKnown'
    <2> SUFFICES ASSUME NEW c \in campaigns' \ analyticsRows',
                        initPc \notin {"clearAnalytics", "clearCampaigns", "failed"},
                        ~(initPc = "addAnalytics" /\ c \in SeedCampaigns)
                 PROVE  KnownToCreate(c)'
      BY <1>2 DEF HalvesKnown, initVars
    <2>1. c \in campaigns => KnownToCreate(c)
      BY <1>2 DEF HalvesKnown
    <2> QED
      BY <1>1, <2>1, HandlerKnows
  <1>8. ConflictNeedsCreate'
    <2>1. ConflictNeedsCreate <=> (initPc = "conflict" => \E c \in SeedCampaigns : CreateNames(c))
      BY DEF ConflictNeedsCreate, CreateNames
    <2>2. ConflictNeedsCreate' <=> (initPc' = "conflict" => \E c \in SeedCampaigns : CreateNames(c)')
      BY DEF ConflictNeedsCreate, CreateNames
    <2> QED
      BY <1>2, <2>1, <2>2 DEF initVars
  <1> QED
    BY <1>3, <1>4, <1>5, <1>6, <1>7, <1>8

\* A stuttering step keeps the invariant.
LEMMA StutterKeeps ==
  ASSUME InitInv, UNCHANGED allVars
  PROVE  InitInv'
  BY DEF InitInv, allVars, initVars, storeVars, tables, handlers, observed, InitTypeOK, TypeOK, Errand,
     Numbering, RowsNumbered, HeldNumber, NumberedAfterSeen, AbsentUnseen, Restored, HalvesKnown,
     KnownToCreate, RowsAreCreated, CreateNames, ConflictNeedsCreate

-----------------------------------------------------------------------------
\* However often the stack is started and wherever a run stops, the
\* invariant of the script beside the handlers holds.
THEOREM RestartInvariant == InitSpec => []InitInv
  <1>1. InitInv /\ [InitNext]_allVars => InitInv'
    <2> SUFFICES ASSUME InitInv, [InitNext]_allVars PROVE InitInv'
      OBVIOUS
    <2>1. CASE InitScript
      <3>1. InitTypeOK' /\ Errand' /\ Numbering' /\ AbsentUnseen'
        BY <2>1, ScriptTypes, ScriptErrands, ScriptNumbering DEF InitInv
      <3>2. Restored' /\ HalvesKnown' /\ RowsAreCreated' /\ ConflictNeedsCreate'
        BY <2>1, ScriptRestores DEF InitInv
      <3> QED
        BY <3>1, <3>2 DEF InitInv
    <2>2. CASE \E r \in Requests : HandlerStep(r)
      BY <2>2, HandlerKeeps
    <2> QED
      BY <2>1, <2>2, StutterKeeps DEF InitNext
  <1> QED
    BY InitInitInv, <1>1, PTL DEF InitSpec

\* The script and the handlers keep every variable in its type.
THEOREM RestartTypes == InitSpec => []InitTypeOK
  BY RestartInvariant, PTL DEF InitInv

\* Rows stay numbered after what their creates had seen, across deletes.
THEOREM RestartNumbers == InitSpec => []NumberedAfterSeen
  BY RestartInvariant, PTL DEF InitInv, Numbering

\* A run of 02_platform_bootstrap.sql that reaches its end has restored the
\* environment and the seed, and left no campaign half created of its own.
THEOREM CompleteRuns == InitSpec => []CompleteRunRestores
  <1>1. InitInv => CompleteRunRestores
    BY DEF InitInv, Restored, HalvesKnown, KnownToCreate, CompleteRunRestores, HalfCreatedIsKnown
  <1> QED
    BY <1>1, RestartInvariant, PTL

\* Only a create for a seeded identifier makes the inserts fail.
THEOREM Conflicts == InitSpec => []ConflictNeedsCreate
  BY RestartInvariant, PTL DEF InitInv

-----------------------------------------------------------------------------
\* Before the stack is started again.
FirstStart == starts = 1 => initPc = "done" /\ IInv

\* The promise that every further start breaks (StoredSurvivesRestart) is
\* kept until then: whatever a handler was told is stored is there for as
\* long as nothing runs 02_platform_bootstrap.sql again.
THEOREM StoredSurvivesFirstStart == InitSpec => [](starts = 1 => StoredSurvivesRestart)
  <1>1. InitInit => FirstStart
    BY InitIInv DEF InitInit, FirstStart
  <1>2. InitInv /\ FirstStart /\ [InitNext]_allVars => FirstStart'
    <2> SUFFICES ASSUME InitInv, FirstStart, [InitNext]_allVars, starts' = 1
                 PROVE  initPc' = "done" /\ IInv'
      BY DEF FirstStart
    <2>1. CASE InitScript
      <3>1. starts \in Nat /\ starts > 0
        BY MaxStartsAssumption DEF InitInv, InitTypeOK
      <3>2. starts = 1 /\ initPc = "done" /\ StartInit
        BY <2>1, <3>1 DEF FirstStart, InitScript, StartInit, ClearAnalytics, ClearCampaigns, ClearEnvironment,
             AddEnvironment, AddCampaigns, AddCampaignsConflict, AddAnalytics, InitFails, RunStatement, Script
      <3> QED
        BY <3>1, <3>2 DEF StartInit
    <2>2. CASE \E r \in Requests : HandlerStep(r)
      <3>1. [Next]_storeVars /\ UNCHANGED initVars
        BY <2>2, HandlerRows DEF InitInv, InitTypeOK
      <3>2. initPc = "done" /\ IInv
        BY <3>1 DEF FirstStart, initVars
      <3> QED
        BY <3>1, <3>2, TypeStep, ErrandStep, SeedHasRowStep, NumberingStep, OutcomesStep
           DEF IInv, Purpose, initVars
    <2>3. CASE UNCHANGED allVars
      <3>1. UNCHANGED storeVars /\ UNCHANGED initVars
        BY <2>3 DEF allVars
      <3>2. initPc = "done" /\ IInv
        BY <3>1 DEF FirstStart, initVars
      <3> QED
        BY <3>1, <3>2, TypeStep, ErrandStep, SeedHasRowStep, NumberingStep, OutcomesStep
           DEF IInv, Purpose, initVars
    <2> QED
      BY <2>1, <2>2, <2>3 DEF InitNext
  <1>3. FirstStart => (starts = 1 => StoredSurvivesRestart)
    BY DEF FirstStart, IInv, Outcomes, StoredSurvivesRestart
  <1> QED
    BY <1>1, <1>2, <1>3, RestartInvariant, PTL DEF InitSpec
=============================================================================
