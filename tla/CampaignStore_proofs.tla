------------------------- MODULE CampaignStore_proofs -------------------------
(***************************************************************************)
(* The properties of CampaignStore, for every set of handlers, campaigns   *)
(* and seeded rows.                                                        *)
(*                                                                         *)
(* NumberedAfterSeen is not inductive alone: it needs what a handler holds *)
(* between computing its number and inserting its row (HeldNumber), and    *)
(* that only an absent row has the number 0 (RowsNumbered), for            *)
(* lookupDisplayOrder tells the two apart by that 0.  The outcomes need    *)
(* what each handler is at its statement for (Purpose).  What only the     *)
(* absence of deletes guarantees is kept apart (SeedHasRow).               *)
(***************************************************************************)
EXTENDS CampaignStore, TLAPS

RowsNumbered == \A c \in CampaignIds : c \in campaigns <=> displayOrder[c] > 0

HeldNumber ==
  \A r \in Requests : pc[r] = "upsert" =>
    /\ order[r] > 0
    /\ \A d \in snapshot[r] : d \in campaigns /\ displayOrder[d] < order[r]

Numbering == RowsNumbered /\ HeldNumber /\ NumberedAfterSeen

Errand ==
  \A r \in Requests :
    /\ pc[r] \in Statements => target[r] \in CampaignIds
    /\ pc[r] \in {"lookup", "next", "upsert", "seed"} => operation[r] = "create"
    /\ pc[r] = "schedule" => operation[r] = "schedule"
    /\ pc[r] = "idle" => operation[r] = "none"

SeedHasRow == \A r \in Requests : pc[r] = "seed" => target[r] \in campaigns

Purpose == Errand /\ SeedHasRow

Outcomes == SuccessIsDurable /\ HalfCreatedIsKnown /\ ScheduledByItsLaunch

IInv == TypeOK /\ Purpose /\ Numbering /\ Outcomes

-----------------------------------------------------------------------------
\* The seeded database with no handler at work satisfies the invariant.
LEMMA InitIInv == Init => IInv
  <1> SUFFICES ASSUME Init PROVE IInv
    OBVIOUS
  <1>1. TypeOK
    BY SeedAssumption DEF Init, TypeOK, Statuses, Operations
  <1>2. Purpose
    BY DEF Init, Purpose, Errand, SeedHasRow, Statements
  <1>3. Numbering
    BY SeedAssumption DEF Init, Numbering, RowsNumbered, HeldNumber, NumberedAfterSeen
  <1>4. Outcomes
    BY DEF Init, Outcomes, SuccessIsDurable, HalfCreatedIsKnown, ScheduledByItsLaunch
  <1> QED
    BY <1>1, <1>2, <1>3, <1>4 DEF IInv

-----------------------------------------------------------------------------
\* Every step keeps the variables in their types.
LEMMA TypeStep ==
  ASSUME TypeOK, Errand, [Next]_storeVars
  PROVE  TypeOK'
  <1> USE DEF TypeOK, tables, observed, Statements, Endings, GoOn
  <1>1. CASE UNCHANGED storeVars
    BY <1>1 DEF storeVars, handlers
  <1>2. CASE Next
    <2> PICK r \in Requests : Call(r) \/ Statement(r) \/ Abandon(r) \/ Drop(r)
      BY <1>2 DEF Next
    <2>1. CASE \E c \in CampaignIds : BeginCreate(r, c) \/ BeginSchedule(r, c)
      BY <2>1 DEF BeginCreate, BeginSchedule, Begin, Operations
    <2>2. CASE \E op \in {"create", "schedule"} : RefuseUnnamed(r, op)
      BY <2>2 DEF RefuseUnnamed, Begin, Operations
    <2>3. CASE LookupOrder(r)
      BY <2>3 DEF LookupOrder, Errand
    <2>4. CASE NextOrder(r)
      BY <2>4 DEF NextOrder
    <2>5. CASE InsertCampaign(r)
      BY <2>5 DEF InsertCampaign, Errand, Statuses
    <2>6. CASE OverwriteCampaign(r)
      BY <2>6 DEF OverwriteCampaign, Statuses
    <2>7. CASE SeedAnalytics(r)
      BY <2>7 DEF SeedAnalytics
    <2>8. CASE ScheduleCampaign(r)
      BY <2>8 DEF ScheduleCampaign, Statuses
    <2>9. CASE ScheduleMissing(r) \/ Abandon(r) \/ Drop(r)
      BY <2>9 DEF ScheduleMissing, Abandon, Drop
    <2> QED
      BY <2>1, <2>2, <2>3, <2>4, <2>5, <2>6, <2>7, <2>8, <2>9 DEF Call, Statement
  <1> QED
    BY <1>1, <1>2

\* Every step leaves each handler at a statement of its own operation, with
\* a named campaign.
LEMMA ErrandStep ==
  ASSUME TypeOK, Errand, [Next]_storeVars
  PROVE  Errand'
  <1> USE DEF TypeOK, Errand, tables, Statements, GoOn
  <1>1. CASE UNCHANGED storeVars
    BY <1>1 DEF storeVars, handlers
  <1>2. CASE Next
    <2> PICK r \in Requests : Call(r) \/ Statement(r) \/ Abandon(r) \/ Drop(r)
      BY <1>2 DEF Next
    <2>1. CASE \E c \in CampaignIds : BeginCreate(r, c) \/ BeginSchedule(r, c)
      BY <2>1 DEF BeginCreate, BeginSchedule, Begin
    <2>2. CASE \E op \in {"create", "schedule"} : RefuseUnnamed(r, op)
      BY <2>2 DEF RefuseUnnamed, Begin
    <2>3. CASE LookupOrder(r) \/ NextOrder(r)
      BY <2>3 DEF LookupOrder, NextOrder
    <2>4. CASE InsertCampaign(r) \/ OverwriteCampaign(r)
      BY <2>4 DEF InsertCampaign, OverwriteCampaign
    <2>5. CASE SeedAnalytics(r) \/ ScheduleCampaign(r) \/ ScheduleMissing(r)
      BY <2>5 DEF SeedAnalytics, ScheduleCampaign, ScheduleMissing
    <2>6. CASE Abandon(r) \/ Drop(r)
      BY <2>6 DEF Abandon, Drop
    <2> QED
      BY <2>1, <2>2, <2>3, <2>4, <2>5, <2>6 DEF Call, Statement
  <1> QED
    BY <1>1, <1>2

\* No step takes the row of a handler at "seed" away.
LEMMA SeedHasRowStep ==
  ASSUME TypeOK, Purpose, [Next]_storeVars
  PROVE  SeedHasRow'
  <1> USE DEF TypeOK, Purpose, Errand, SeedHasRow, tables, Statements, GoOn
  <1>1. CASE UNCHANGED storeVars
    BY <1>1 DEF storeVars, handlers
  <1>2. CASE Next
    <2> PICK r \in Requests : Call(r) \/ Statement(r) \/ Abandon(r) \/ Drop(r)
      BY <1>2 DEF Next
    <2>1. CASE \E c \in CampaignIds : BeginCreate(r, c) \/ BeginSchedule(r, c)
      BY <2>1 DEF BeginCreate, BeginSchedule, Begin
    <2>2. CASE \E op \in {"create", "schedule"} : RefuseUnnamed(r, op)
      BY <2>2 DEF RefuseUnnamed, Begin
    <2>3. CASE LookupOrder(r) \/ NextOrder(r)
      BY <2>3 DEF LookupOrder, NextOrder
    <2>4. CASE InsertCampaign(r) \/ OverwriteCampaign(r)
      BY <2>4 DEF InsertCampaign, OverwriteCampaign
    <2>5. CASE SeedAnalytics(r) \/ ScheduleCampaign(r) \/ ScheduleMissing(r)
      BY <2>5 DEF SeedAnalytics, ScheduleCampaign, ScheduleMissing
    <2>6. CASE Abandon(r) \/ Drop(r)
      BY <2>6 DEF Abandon, Drop
    <2> QED
      BY <2>1, <2>2, <2>3, <2>4, <2>5, <2>6 DEF Call, Statement
  <1> QED
    BY <1>1, <1>2

\* Every step keeps rows, and the numbers handlers hold for rows to come,
\* above the numbers of the rows they were computed from.
LEMMA NumberingStep ==
  ASSUME TypeOK, Errand, Numbering, [Next]_storeVars
  PROVE  Numbering'
  <1> USE DEF TypeOK, Numbering, RowsNumbered, HeldNumber, NumberedAfterSeen, GoOn
  <1>1. CASE UNCHANGED storeVars
    BY <1>1 DEF storeVars, tables, handlers, observed
  <1>2. CASE Next
    <2> PICK r \in Requests : Call(r) \/ Statement(r) \/ Abandon(r) \/ Drop(r)
      BY <1>2 DEF Next
    <2>1. CASE \E c \in CampaignIds : BeginCreate(r, c) \/ BeginSchedule(r, c)
      BY <2>1 DEF BeginCreate, BeginSchedule, Begin, tables, observed
    <2>2. CASE \E op \in {"create", "schedule"} : RefuseUnnamed(r, op)
      BY <2>2 DEF RefuseUnnamed, Begin, tables, observed
    \* The row found is numbered after the rows it had seen itself.
    <2>3. CASE LookupOrder(r)
      BY <2>3 DEF LookupOrder, Errand, Statements, tables
    <2>4. CASE NextOrder(r)
      BY <2>4 DEF NextOrder, tables
    <2>5. CASE InsertCampaign(r)
      <3>1. RowsNumbered'
        BY <2>5 DEF InsertCampaign, Errand, Statements
      <3>2. HeldNumber'
        BY <2>5 DEF InsertCampaign, Errand, Statements
      <3>3. NumberedAfterSeen'
        BY <2>5 DEF InsertCampaign, Errand, Statements
      <3> QED
        BY <3>1, <3>2, <3>3
    <2>6. CASE OverwriteCampaign(r) \/ SeedAnalytics(r) \/ ScheduleCampaign(r)
      BY <2>6 DEF OverwriteCampaign, SeedAnalytics, ScheduleCampaign, observed
    <2>7. CASE ScheduleMissing(r) \/ Abandon(r) \/ Drop(r)
      BY <2>7 DEF ScheduleMissing, Abandon, Drop, tables, observed
    <2> QED
      BY <2>1, <2>2, <2>3, <2>4, <2>5, <2>6, <2>7 DEF Call, Statement
  <1> QED
    BY <1>1, <1>2

\* Every step keeps what callers were told true of the tables.
LEMMA OutcomesStep ==
  ASSUME TypeOK, Purpose, Outcomes, [Next]_storeVars
  PROVE  Outcomes'
  <1> USE DEF TypeOK, Outcomes, SuccessIsDurable, HalfCreatedIsKnown,
              ScheduledByItsLaunch, Endings, GoOn
  <1>1. CASE UNCHANGED storeVars
    BY <1>1 DEF storeVars, tables, handlers
  <1>2. CASE Next
    <2> PICK r \in Requests : Call(r) \/ Statement(r) \/ Abandon(r) \/ Drop(r)
      BY <1>2 DEF Next
    <2>1. CASE \E c \in CampaignIds : BeginCreate(r, c) \/ BeginSchedule(r, c)
      BY <2>1 DEF BeginCreate, BeginSchedule, Begin, Purpose, Errand, SeedHasRow, tables
    <2>2. CASE \E op \in {"create", "schedule"} : RefuseUnnamed(r, op)
      BY <2>2 DEF RefuseUnnamed, Begin, Purpose, Errand, SeedHasRow, tables
    <2>3. CASE LookupOrder(r) \/ NextOrder(r)
      BY <2>3 DEF LookupOrder, NextOrder, tables
    \* The new row has no analytics row yet; its creator is at "seed" or
    \* had given up on the insert.
    <2>4. CASE InsertCampaign(r)
      <3>1. /\ operation[r] = "create" /\ pc'[r] \in {"seed", "failed"}
            /\ \A q \in Requests \ {r} : pc'[q] = pc[q]
            /\ UNCHANGED <<operation, target>>
        BY <2>4 DEF InsertCampaign, Purpose, Errand, SeedHasRow
      <3>2. PICK s \in BriefStatuses : status' = [status EXCEPT ![target[r]] = s]
        BY <2>4 DEF InsertCampaign
      <3>3. SuccessIsDurable' /\ HalfCreatedIsKnown'
        BY <2>4, <3>1 DEF InsertCampaign, Purpose, Errand, SeedHasRow
      <3>4. ScheduledByItsLaunch'
        BY <3>1, <3>2
      <3> QED
        BY <3>3, <3>4
    <2>5. CASE OverwriteCampaign(r)
      <3>1. /\ operation[r] = "create" /\ pc'[r] \in {"seed", "failed"}
            /\ \A q \in Requests \ {r} : pc'[q] = pc[q]
            /\ UNCHANGED <<operation, target>>
        BY <2>5 DEF OverwriteCampaign, Purpose, Errand, SeedHasRow
      <3>2. PICK s \in BriefStatuses : status' = [status EXCEPT ![target[r]] = s]
        BY <2>5 DEF OverwriteCampaign
      <3>3. SuccessIsDurable' /\ HalfCreatedIsKnown'
        BY <2>5, <3>1 DEF OverwriteCampaign, Purpose, Errand, SeedHasRow
      <3>4. ScheduledByItsLaunch'
        BY <3>1, <3>2
      <3> QED
        BY <3>3, <3>4
    <2>6. CASE SeedAnalytics(r)
      BY <2>6 DEF SeedAnalytics, Purpose, Errand, SeedHasRow
    <2>7. CASE ScheduleCampaign(r)
      BY <2>7 DEF ScheduleCampaign, Purpose, Errand, SeedHasRow
    <2>8. CASE ScheduleMissing(r) \/ Abandon(r) \/ Drop(r)
      BY <2>8 DEF ScheduleMissing, Abandon, Drop, Purpose, Errand, SeedHasRow, Statements, tables
    <2> QED
      BY <2>1, <2>2, <2>3, <2>4, <2>5, <2>6, <2>7, <2>8 DEF Call, Statement
  <1> QED
    BY <1>1, <1>2

-----------------------------------------------------------------------------
\* The inductive invariant holds in every reachable state.
THEOREM InductiveInvariant == Spec => []IInv
  <1>1. IInv /\ [Next]_storeVars => IInv'
    BY TypeStep, ErrandStep, SeedHasRowStep, NumberingStep, OutcomesStep DEF IInv, Purpose
  <1> QED
    BY InitIInv, <1>1, PTL DEF Spec

\* Every variable keeps its type, the display_order column included: it is
\* never null and never negative.
THEOREM TypeCorrect == Spec => []TypeOK
  BY InductiveInvariant, PTL DEF IInv

\* createCampaign numbers a row after every row it found.
THEOREM NumbersFollowObservation == Spec => []NumberedAfterSeen
  BY InductiveInvariant, PTL DEF IInv, Numbering

\* What a caller was told is stored stays stored.
THEOREM SuccessDurable == Spec => []SuccessIsDurable
  BY InductiveInvariant, PTL DEF IInv, Outcomes

\* A half created campaign always has a create that knows of it.
THEOREM HalfCreatedKnown == Spec => []HalfCreatedIsKnown
  BY InductiveInvariant, PTL DEF IInv, Outcomes

\* A campaign is scheduled only by a launch that named it: the update's
\* condition on campaign_id.
THEOREM LaunchIsLocal == Spec => []ScheduledByItsLaunch
  BY InductiveInvariant, PTL DEF IInv, Outcomes

\* No step moves a stored campaign.
THEOREM PlacesPermanent == Spec => PlaceIsPermanent
  <1>1. TypeOK /\ Purpose /\ [Next]_storeVars =>
          [\A c \in campaigns : c \in campaigns' /\ displayOrder'[c] = displayOrder[c]]_storeVars
    <2> SUFFICES ASSUME TypeOK, Purpose, Next, NEW c \in campaigns
                 PROVE  c \in campaigns' /\ displayOrder'[c] = displayOrder[c]
      OBVIOUS
    <2> PICK r \in Requests : Call(r) \/ Statement(r) \/ Abandon(r) \/ Drop(r)
      BY DEF Next
    <2>1. CASE InsertCampaign(r)
      BY <2>1 DEF InsertCampaign, TypeOK, Purpose, Errand, SeedHasRow, Statements
    <2>2. CASE ~InsertCampaign(r)
      BY <2>2 DEF Call, Statement, BeginCreate, BeginSchedule, RefuseUnnamed, Begin, LookupOrder, NextOrder,
           OverwriteCampaign, SeedAnalytics, ScheduleCampaign, ScheduleMissing,
           Abandon, Drop, tables
    <2> QED
      BY <2>1, <2>2
  <1>2. IInv => TypeOK /\ Purpose
    BY DEF IInv
  <1> QED
    BY <1>1, <1>2, InductiveInvariant, PTL DEF Spec, PlaceIsPermanent

-----------------------------------------------------------------------------
(* Once at most, and wholly before success.                                *)

\* A handler has succeeded or has given its caller an error, never both.
Answered ==
  \A r \in Requests :
    /\ pc[r] \in {"idle", "stored"} => r \notin abandoned
    /\ pc[r] = "failed" => r \in abandoned

\* No step lets a handler answer twice.
LEMMA AnsweredStep ==
  ASSUME TypeOK, Answered, [Next]_storeVars
  PROVE  Answered'
  <1> USE DEF TypeOK, Answered, Statements, GoOn
  <1>1. CASE UNCHANGED storeVars
    BY <1>1 DEF storeVars, handlers
  <1>2. CASE Next
    <2> PICK r \in Requests : Call(r) \/ Statement(r) \/ Abandon(r) \/ Drop(r)
      BY <1>2 DEF Next
    <2>1. CASE Call(r)
      BY <2>1 DEF Call, BeginCreate, BeginSchedule, RefuseUnnamed, Begin
    <2>2. CASE LookupOrder(r) \/ NextOrder(r)
      BY <2>2 DEF LookupOrder, NextOrder
    <2>3. CASE InsertCampaign(r) \/ OverwriteCampaign(r)
      BY <2>3 DEF InsertCampaign, OverwriteCampaign
    <2>4. CASE SeedAnalytics(r) \/ ScheduleCampaign(r) \/ ScheduleMissing(r)
      BY <2>4 DEF SeedAnalytics, ScheduleCampaign, ScheduleMissing
    <2>5. CASE Abandon(r) \/ Drop(r)
      BY <2>5 DEF Abandon, Drop
    <2> QED
      BY <2>1, <2>2, <2>3, <2>4, <2>5 DEF Statement
  <1> QED
    BY <1>1, <1>2

\* How a handler looks from outside.
Outside(r) ==
  CASE pc[r] = "idle"    -> "idle"
    [] pc[r] = "seed"    -> "half"
    [] pc[r] \in Endings -> "over"
    [] OTHER             -> "pending"

Told(r) == IF pc[r] = "stored" THEN "success" ELSE IF r \in abandoned THEN "error" ELSE "none"

AskedOf(r) == [kind |-> operation[r], campaign |-> target[r]]

\* What r does, others do not notice.
LEMMA OthersOutside ==
  ASSUME NEW r \in Requests, NEW stage, NEW told,
         \A q \in Requests \ {r} : /\ UNCHANGED <<pc[q], operation[q], target[q]>>
                                   /\ q \in abandoned' <=> q \in abandoned,
         Outside(r)' = stage, Told(r)' = told
  PROVE  /\ [q \in Requests |-> Outside(q)]' = [[q \in Requests |-> Outside(q)] EXCEPT ![r] = stage]
         /\ [q \in Requests |-> Told(q)]' = [[q \in Requests |-> Told(q)] EXCEPT ![r] = told]
         /\ [q \in Requests |-> AskedOf(q)]' = [[q \in Requests |-> AskedOf(q)] EXCEPT ![r] = AskedOf(r)']
  <1>1. \A q \in Requests \ {r} :
          Outside(q)' = Outside(q) /\ Told(q)' = Told(q) /\ AskedOf(q)' = AskedOf(q)
    BY DEF Outside, Told, AskedOf
  <1> HIDE DEF Outside, Told, AskedOf
  <1> QED
    BY <1>1

\* Each step of a handler is one of the table's or is not seen.
LEMMA MapsNext ==
  ASSUME IInv, Answered, [Next]_storeVars
  PROVE  [Table!Next]_(Table!tableVars)
  <1>0. TypeOK /\ Errand /\ SeedHasRow /\ RowsNumbered /\ HeldNumber
    BY DEF IInv, Purpose, Numbering
  <1>1. CASE UNCHANGED storeVars
    BY <1>1 DEF storeVars, tables, handlers, Table!tableVars
  <1>2. CASE Next
    <2> PICK r \in Requests : Call(r) \/ Statement(r) \/ Abandon(r) \/ Drop(r)
      BY <1>2 DEF Next
    <2> DEFINE stage == [q \in Requests |-> Outside(q)]
               told  == [q \in Requests |-> Told(q)]
               asked == [q \in Requests |-> AskedOf(q)]
    <2>1. CASE \E c \in CampaignIds : BeginCreate(r, c) \/ BeginSchedule(r, c)
      <3> PICK c \in CampaignIds : BeginCreate(r, c) \/ BeginSchedule(r, c)
        BY <2>1
      <3>1. PICK kind \in {"create", "schedule"} :
              /\ operation' = [operation EXCEPT ![r] = kind] /\ target' = [target EXCEPT ![r] = c]
              /\ pc[r] = "idle" /\ pc' = [pc EXCEPT ![r] = pc'[r]] /\ pc'[r] \in {"lookup", "schedule"}
              /\ UNCHANGED <<campaigns, displayOrder, status, analyticsRows, abandoned>>
        BY <1>0 DEF BeginCreate, BeginSchedule, Begin, tables, TypeOK
      <3>2. /\ Outside(r) = "idle" /\ Outside(r)' = "pending" /\ Told(r)' = Told(r)
            /\ AskedOf(r)' = [kind |-> kind, campaign |-> c]
        BY <1>0, <3>1 DEF Outside, Told, AskedOf, Endings, TypeOK
      <3>3. \A q \in Requests \ {r} : UNCHANGED <<pc[q], operation[q], target[q]>>
        BY <1>0, <3>1 DEF TypeOK
      <3> HIDE DEF Outside, Told, AskedOf
      <3>4. /\ stage' = [stage EXCEPT ![r] = "pending"] /\ told' = told
            /\ asked' = [asked EXCEPT ![r] = [kind |-> kind, campaign |-> c]]
        BY <3>1, <3>2, <3>3, OthersOutside
      <3>5. Table!Call(r, kind, c)
        BY <3>1, <3>2, <3>4 DEF Table!Call, Outside, Told, AskedOf
      <3> QED
        BY <3>5 DEF Table!Next, Table!Kinds
    <2>2. CASE \E op \in {"create", "schedule"} : RefuseUnnamed(r, op)
      <3> PICK op \in {"create", "schedule"} : RefuseUnnamed(r, op)
        BY <2>2
      <3>1. /\ operation' = [operation EXCEPT ![r] = op] /\ target' = [target EXCEPT ![r] = NoCampaign]
            /\ pc[r] = "idle" /\ pc' = [pc EXCEPT ![r] = "failed"] /\ abandoned' = abandoned \cup {r}
            /\ UNCHANGED <<campaigns, displayOrder, status, analyticsRows>>
        BY DEF RefuseUnnamed, Begin, tables
      <3>2. /\ Outside(r) = "idle" /\ Outside(r)' = "over" /\ Told(r)' = "error"
            /\ AskedOf(r)' = [kind |-> op, campaign |-> NoCampaign]
        BY <1>0, <3>1 DEF Outside, Told, AskedOf, Endings, TypeOK
      <3>3. \A q \in Requests \ {r} : /\ UNCHANGED <<pc[q], operation[q], target[q]>>
                                      /\ q \in abandoned' <=> q \in abandoned
        BY <1>0, <3>1 DEF TypeOK
      <3> HIDE DEF Outside, Told, AskedOf
      <3>4. /\ stage' = [stage EXCEPT ![r] = "over"] /\ told' = [told EXCEPT ![r] = "error"]
            /\ asked' = [asked EXCEPT ![r] = [kind |-> op, campaign |-> NoCampaign]]
        BY <3>2, <3>3, OthersOutside
      <3>5. Table!Refuse(r, op)
        BY <3>1, <3>2, <3>4 DEF Table!Refuse, Outside, Told, AskedOf
      <3> QED
        BY <3>5 DEF Table!Next, Table!Kinds
    <2>3. CASE LookupOrder(r) \/ NextOrder(r)
      <3>1. /\ pc[r] \in {"lookup", "next"} /\ pc' = [pc EXCEPT ![r] = pc'[r]]
            /\ pc'[r] \in IF r \in abandoned THEN {"failed"} ELSE {"next", "upsert"}
            /\ UNCHANGED <<campaigns, displayOrder, status, analyticsRows, operation, target, abandoned>>
        BY <1>0, <2>3 DEF LookupOrder, NextOrder, GoOn, tables, TypeOK
      <3>2. /\ Outside(r) = "pending" /\ Outside(r)' = IF r \in abandoned THEN "over" ELSE "pending"
            /\ Told(r)' = Told(r) /\ AskedOf(r)' = AskedOf(r)
        BY <1>0, <3>1 DEF Outside, Told, AskedOf, Endings, TypeOK
      <3>3. \A q \in Requests \ {r} : UNCHANGED <<pc[q], operation[q], target[q]>>
        BY <1>0, <3>1 DEF TypeOK
      <3>4. r \in abandoned => Told(r) = "error"
        BY <3>1 DEF Told
      <3> HIDE DEF Outside, Told, AskedOf
      <3>5. /\ stage' = [stage EXCEPT ![r] = Outside(r)'] /\ told' = [told EXCEPT ![r] = Told(r)']
            /\ asked' = [asked EXCEPT ![r] = AskedOf(r)']
        BY <3>1, <3>3, OthersOutside
      <3>6. CASE r \in abandoned
        <4>1. Table!Fail(r)
          BY <3>1, <3>2, <3>4, <3>5, <3>6 DEF Table!Fail, Outside, Told, AskedOf
        <4> QED
          BY <4>1 DEF Table!Next
      <3>7. CASE r \notin abandoned
        BY <3>1, <3>2, <3>5, <3>7 DEF Table!tableVars, Outside, Told, AskedOf
      <3> QED
        BY <3>6, <3>7
    <2>4. CASE InsertCampaign(r) \/ OverwriteCampaign(r)
      <3> PICK c \in CampaignIds : c = target[r]
        BY <1>0, <2>4 DEF InsertCampaign, OverwriteCampaign, Errand, Statements
      <3>1. /\ pc[r] = "upsert" /\ pc' = [pc EXCEPT ![r] = pc'[r]]
            /\ pc'[r] = IF r \in abandoned THEN "failed" ELSE "seed"
            /\ UNCHANGED <<analyticsRows, operation, target, abandoned>>
            /\ campaigns' = campaigns \cup {c}
            /\ \E s \in BriefStatuses : status' = [status EXCEPT ![c] = s]
        BY <1>0, <2>4 DEF InsertCampaign, OverwriteCampaign, GoOn, TypeOK
      <3>2. /\ displayOrder' = [displayOrder EXCEPT ![c] = displayOrder'[c]]
            /\ IF c \in campaigns THEN displayOrder'[c] = displayOrder[c] ELSE displayOrder'[c] > 0
        <4>1. CASE InsertCampaign(r)
          BY <1>0, <3>1, <4>1 DEF InsertCampaign, TypeOK, HeldNumber
        <4>2. CASE OverwriteCampaign(r)
          BY <1>0, <4>2 DEF OverwriteCampaign, TypeOK
        <4> QED
          BY <2>4, <4>1, <4>2
      <3>3. /\ Outside(r) = "pending" /\ Outside(r)' = IF Told(r) = "none" THEN "half" ELSE "over"
            /\ Told(r)' = Told(r) /\ AskedOf(r)' = AskedOf(r)
            /\ AskedOf(r) = [kind |-> "create", campaign |-> c]
        BY <1>0, <3>1 DEF Outside, Told, AskedOf, Endings, TypeOK, Errand
      <3>4. \A q \in Requests \ {r} : UNCHANGED <<pc[q], operation[q], target[q]>>
        BY <1>0, <3>1 DEF TypeOK
      <3> HIDE DEF Outside, Told, AskedOf
      <3>5. /\ stage' = [stage EXCEPT ![r] = Outside(r)'] /\ told' = [told EXCEPT ![r] = Told(r)']
            /\ asked' = [asked EXCEPT ![r] = AskedOf(r)']
        BY <3>1, <3>4, OthersOutside
      <3>6. asked' = asked /\ told' = told
        BY <3>3, <3>5
      <3>7. Table!Put(r, c)
        BY <3>1, <3>2, <3>3, <3>5, <3>6 DEF Table!Put, Outside, Told, AskedOf
      <3> QED
        BY <3>7 DEF Table!Next
    <2>5. CASE SeedAnalytics(r) \/ ScheduleCampaign(r)
      <3> PICK c \in CampaignIds : c = target[r]
        BY <1>0, <2>5 DEF SeedAnalytics, ScheduleCampaign, Errand, Statements
      <3>1. /\ pc[r] \in {"seed", "schedule"} /\ pc' = [pc EXCEPT ![r] = pc'[r]]
            /\ pc'[r] = IF r \in abandoned THEN "failed" ELSE "stored"
            /\ UNCHANGED <<campaigns, displayOrder, operation, target, abandoned>>
        BY <1>0, <2>5 DEF SeedAnalytics, ScheduleCampaign, GoOn, TypeOK
      <3>2. /\ Outside(r) = IF pc[r] = "seed" THEN "half" ELSE "pending"
            /\ Outside(r)' = "over" /\ AskedOf(r)' = AskedOf(r)
            /\ Told(r)' = IF Told(r) = "none" THEN "success" ELSE Told(r)
            /\ AskedOf(r).campaign = c
            /\ pc[r] = "schedule" => AskedOf(r) = [kind |-> "schedule", campaign |-> c]
        BY <1>0, <3>1 DEF Outside, Told, AskedOf, Endings, TypeOK, Errand
      <3>3. \A q \in Requests \ {r} : UNCHANGED <<pc[q], operation[q], target[q]>>
        BY <1>0, <3>1 DEF TypeOK
      <3> HIDE DEF Outside, Told, AskedOf
      <3>4. /\ stage' = [stage EXCEPT ![r] = "over"] /\ told' = [told EXCEPT ![r] = Told(r)']
            /\ asked' = [asked EXCEPT ![r] = AskedOf(r)']
        BY <3>1, <3>2, <3>3, OthersOutside
      <3>5. asked' = asked
        BY <3>2, <3>4
      <3>6. Table!Finish(r)
        BY <3>2, <3>4 DEF Table!Finish, Outside, Told
      <3>7. CASE SeedAnalytics(r)
        <4>1. /\ pc[r] = "seed" /\ status' = status /\ analyticsRows' = analyticsRows \cup {c}
          BY <3>7 DEF SeedAnalytics
        <4>2. Table!Complete(r)
          BY <3>1, <3>2, <3>5, <3>6, <4>1 DEF Table!Complete, Outside, AskedOf
        <4> QED
          BY <4>2 DEF Table!Next
      <3>8. CASE ScheduleCampaign(r)
        <4>1. /\ pc[r] = "schedule" /\ c \in campaigns /\ analyticsRows' = analyticsRows
              /\ status' = [status EXCEPT ![c] = "Scheduled"]
          BY <3>8 DEF ScheduleCampaign
        <4>2. Table!Launch(r, c)
          BY <3>1, <3>2, <3>5, <3>6, <4>1 DEF Table!Launch, Outside, AskedOf
        <4> QED
          BY <4>2 DEF Table!Next
      <3> QED
        BY <2>5, <3>7, <3>8
    <2>6. CASE ScheduleMissing(r) \/ Abandon(r) \/ Drop(r)
      <3>1. /\ pc[r] \in Statements /\ pc' = [pc EXCEPT ![r] = pc'[r]] /\ pc'[r] \in {pc[r], "failed"}
            /\ abandoned' = abandoned \cup {r}
            /\ UNCHANGED <<campaigns, displayOrder, status, analyticsRows, operation, target>>
        BY <1>0, <2>6 DEF ScheduleMissing, Abandon, Drop, tables, TypeOK, Statements
      <3>2. /\ Outside(r) \in {"pending", "half"} /\ Outside(r)' \in {Outside(r), "over"}
            /\ Told(r) \in {"none", "error"} /\ Told(r)' = "error" /\ AskedOf(r)' = AskedOf(r)
        BY <1>0, <3>1 DEF Outside, Told, AskedOf, Endings, TypeOK, Statements
      <3>3. \A q \in Requests \ {r} : /\ UNCHANGED <<pc[q], operation[q], target[q]>>
                                      /\ q \in abandoned' <=> q \in abandoned
        BY <1>0, <3>1 DEF TypeOK
      <3> HIDE DEF Outside, Told, AskedOf
      <3>4. /\ stage' = [stage EXCEPT ![r] = Outside(r)'] /\ told' = [told EXCEPT ![r] = "error"]
            /\ asked' = [asked EXCEPT ![r] = AskedOf(r)']
        BY <3>2, <3>3, OthersOutside
      <3>5. asked' = asked /\ stage' \in {stage, [stage EXCEPT ![r] = "over"]}
        BY <3>2, <3>4
      <3>6. Table!Fail(r)
        BY <3>1, <3>2, <3>4, <3>5 DEF Table!Fail, Outside, Told, AskedOf
      <3> QED
        BY <3>6 DEF Table!Next
    <2> QED
      BY <2>1, <2>2, <2>3, <2>4, <2>5, <2>6 DEF Call, Statement
  <1> QED
    BY <1>1, <1>2

\* createCampaign and scheduleCampaign take effect once at most, wholly
\* before they report success and possibly after they reported an error.
THEOREM StoreImplementsTable == Spec => ImplementsTable
  <1>1. Init => Answered /\ Table!Init
    <2> SUFFICES ASSUME Init PROVE Answered /\ Table!Init
      OBVIOUS
    <2>1. TypeOK /\ RowsNumbered
      BY InitIInv DEF IInv, Numbering
    <2>2. Answered
      BY DEF Init, Answered
    <2>3. /\ [r \in Requests |-> AskedOf(r)] = [r \in Requests |-> Table!NotAsked]
          /\ [r \in Requests |-> Outside(r)] = [r \in Requests |-> "idle"]
          /\ [r \in Requests |-> Told(r)] = [r \in Requests |-> "none"]
      <3>1. \A r \in Requests : operation[r] = "none" /\ target[r] = NoCampaign /\ pc[r] = "idle" /\ r \notin abandoned
        BY DEF Init
      <3>2. \A r \in Requests : AskedOf(r) = Table!NotAsked /\ Outside(r) = "idle" /\ Told(r) = "none"
        BY <3>1 DEF AskedOf, Outside, Told, Table!NotAsked, Endings
      <3> HIDE DEF AskedOf, Outside, Told, Table!NotAsked
      <3> QED
        BY <3>2
    <2>4. DOMAIN status = CampaignIds
      BY <2>1 DEF TypeOK
    <2>5. campaigns \subseteq CampaignIds /\ analyticsRows = campaigns
      BY SeedAssumption DEF Init
    <2> QED
      BY <2>1, <2>2, <2>3, <2>4, <2>5 DEF TypeOK, RowsNumbered, Table!Init, AskedOf, Outside, Told
  <1>2. Answered /\ IInv /\ [Next]_storeVars => Answered'
    BY AnsweredStep DEF IInv
  <1>3. IInv /\ Answered /\ [Next]_storeVars => [Table!Next]_(Table!tableVars)
    BY MapsNext
  <1> QED
    BY <1>1, <1>2, <1>3, InductiveInvariant, PTL DEF Spec, ImplementsTable, Table!Spec
=============================================================================
