------------------------- MODULE BatchRefresh_proofs -------------------------
(***************************************************************************)
(* What refresh_batch_and_serving guarantees, for every number of runs,    *)
(* mishaps and changes.  For a run that nothing overlaps the invariant     *)
(* says what the two serving tables hold at each place of its plan         *)
(* (Filled): nobody else rebuilds or publishes meanwhile (Alone), and      *)
(* every publication starts with a TRUNCATE, whatever it finds.  That a    *)
(* run serves nothing old needs no such condition (Fresh).                 *)
(***************************************************************************)
EXTENDS BatchRefresh, TLAPS

Campaigns  == "campaign_performance"
Engagement == "product_engagement"

\* The run that started with nothing of another left is the only one at work.
Alone ==
  \A r \in alone : alone = {r} /\ latest = {r} /\ \A q \in Runs \ {r} : Idle(q)

Filled ==
  \A r \in alone : pc[r] = "publish" =>
    /\ at[r] = 2 => serving[Campaigns] = <<>>
    /\ at[r] \in {3, 4} => serving[Campaigns] = <<mart[Campaigns]>>
    /\ at[r] = 4 => serving[Engagement] = <<>>

Places ==
  /\ \A r \in Runs : pc[r] \in {"snapshot", "records", "dbt"} => at[r] = 1
  /\ \A r \in dead : ~Idle(r)

IInv == TypeOK /\ Places /\ Alone /\ Filled /\ DoneServesMarts

\* Has a run emptied a table?
Emptied(r, t) ==
  \/ pc[r] = "done"
  \/ pc[r] = "publish" /\ ((t = Campaigns /\ at[r] > 1) \/ (t = Engagement /\ at[r] > 3))

\* What the latest run has built, it or another run has built since its start,
\* and so has been what its emptied tables hold.
Fresh ==
  /\ since <= version
  /\ \A r \in Runs : pc[r] \in {"publish", "done"} => unbuilt[r] = {}
  /\ \A r \in latest : pc[r] \in Active \cup {"done"} =>
       \A t \in Tables \ unbuilt[r] : mart[t] >= since
  /\ \A r \in latest : \A t \in Tables : Emptied(r, t) =>
       \A i \in 1 .. Len(serving[t]) : serving[t][i] >= since

-----------------------------------------------------------------------------
\* The four statements of the plan.
LEMMA PlanStatements ==
  /\ Len(Plan) = 4
  /\ \A i \in 1 .. 4, t \in Tables :
       /\ Plan[i] = <<"truncate", t>> <=>
            (i = 1 /\ t = Campaigns) \/ (i = 3 /\ t = Engagement)
       /\ Plan[i] = <<"insert", t>> <=>
            (i = 2 /\ t = Campaigns) \/ (i = 4 /\ t = Engagement)
  BY DEF Plan, Tables, Campaigns, Engagement

\* What the two publishing statements make of a serving table.
LEMMA ServedContents ==
  /\ <<>> \in Seq(Nat) /\ Len(<<>>) = 0
  /\ \A n \in Nat : Append(<<>>, n) = <<n>> /\ Len(<<n>>) = 1
  /\ \A s \in Seq(Nat), n \in Nat : Append(s, n) \in Seq(Nat)
  <1>1. <<>> \in Seq(Nat) /\ Len(<<>>) = 0
    OBVIOUS
  <1>2. ASSUME NEW n \in Nat PROVE Append(<<>>, n) = <<n>> /\ Len(<<n>>) = 1
    OBVIOUS
  <1>3. ASSUME NEW s \in Seq(Nat), NEW n \in Nat PROVE Append(s, n) \in Seq(Nat)
    BY <1>3
  <1> QED
    BY <1>1, <1>2, <1>3

\* The empty serving tables satisfy the invariant.
LEMMA InitIInv == Init => IInv
  BY PlanStatements DEF Init, IInv, TypeOK, Alone, Places, Filled, DoneServesMarts, Idle, Active

\* A step of the plan moves the run on, or ends it.
LEMMA AdvanceStep ==
  ASSUME TypeOK, NEW r \in Runs, Advance(r), pc[r] = "publish"
  PROVE  /\ pc' \in [Runs -> Active \cup {"ready", "done", "failed"}]
         /\ at' \in [Runs -> 1 .. Len(Plan)]
         /\ dead' \subseteq Runs
         /\ \A q \in Runs \ {r} : pc'[q] = pc[q] /\ at'[q] = at[q]
         /\ dead' = dead \ {r}
         /\ pc'[r] = "publish" => at[r] < 4 /\ at'[r] = at[r] + 1
         /\ pc'[r] = "done" => at[r] = 4
         /\ pc'[r] \in {"publish", "done", "failed"}
  <1>1. at \in [Runs -> 1 .. 4] /\ Len(Plan) = 4
    BY PlanStatements DEF TypeOK
  <1>2. at' = [at EXCEPT ![r] = IF @ = 4 THEN @ ELSE @ + 1] /\ dead' = dead \ {r}
    BY <1>1 DEF Advance, GoOn
  <1>3. pc' = [pc EXCEPT ![r] = IF r \in dead THEN "failed"
                               ELSE IF at[r] = 4 THEN "done" ELSE "publish"]
    BY <1>1 DEF Advance, GoOn
  <1>4. /\ pc' \in [Runs -> Active \cup {"ready", "done", "failed"}]
        /\ \A q \in Runs \ {r} : pc'[q] = pc[q]
        /\ pc'[r] = (IF r \in dead THEN "failed" ELSE IF at[r] = 4 THEN "done" ELSE "publish")
    BY <1>3 DEF TypeOK, Active
  <1>5. /\ at' \in [Runs -> 1 .. 4]
        /\ \A q \in Runs \ {r} : at'[q] = at[q]
        /\ at[r] # 4 => at'[r] = at[r] + 1 /\ at[r] < 4
    BY <1>1, <1>2
  <1> QED
    BY <1>1, <1>2, <1>4, <1>5 DEF TypeOK

\* Publishing leaves sequences of mart versions.
LEMMA ServingType ==
  ASSUME TypeOK, NEW r \in Runs, NEW t \in Tables, Truncate(r, t) \/ InsertServing(r, t)
  PROVE  serving' \in [Tables -> Seq(Nat)]
  <1>1. CASE Truncate(r, t)
    BY <1>1, ServedContents DEF Truncate, TypeOK
  <1>2. CASE InsertServing(r, t)
    <2>1. serving' = [serving EXCEPT ![t] = Append(serving[t], mart[t])]
      BY <1>2 DEF InsertServing
    <2>2. serving[t] \in Seq(Nat) /\ mart[t] \in Nat
      BY DEF TypeOK
    <2>3. Append(serving[t], mart[t]) \in Seq(Nat)
      BY <2>2, ServedContents
    <2> QED
      BY <2>1, <2>3 DEF TypeOK
  <1> QED
    BY <1>1, <1>2

\* Truncating and inserting follow the plan, when nothing else is at work.
LEMMA PublishStep ==
  ASSUME IInv, NEW r \in alone, NEW t \in Tables, Truncate(r, t) \/ InsertServing(r, t)
  PROVE  IInv'
  <1>0. r \in Runs
    BY DEF IInv, TypeOK
  <1>1. pc[r] = "publish" /\ Advance(r)
    BY DEF Truncate, InsertServing
  <1>2. UNCHANGED <<version, mart, iceberg, appdb, unbuilt, mishaps, latest, since, alone>>
    BY <1>1 DEF Advance
  <1>3. alone = {r} /\ \A q \in Runs \ {r} : Idle(q)
    BY DEF IInv, Alone
  <1>4. serving' = [serving EXCEPT ![t] = IF Truncate(r, t) THEN <<>> ELSE Append(@, mart[t])]
    BY DEF Truncate, InsertServing
  <1>5. Truncate(r, t) => (at[r] = 1 /\ t = Campaigns) \/ (at[r] = 3 /\ t = Engagement)
    BY <1>0, PlanStatements DEF Truncate, IInv, TypeOK
  <1>6. ~Truncate(r, t) => (at[r] = 2 /\ t = Campaigns) \/ (at[r] = 4 /\ t = Engagement)
    BY <1>0, PlanStatements DEF InsertServing, IInv, TypeOK
  <1>7. ~Truncate(r, t) => serving[t] = <<>>
    BY <1>1, <1>6 DEF IInv, Filled
  <1>8. /\ Truncate(r, t) => serving'[t] = <<>>
        /\ ~Truncate(r, t) => serving'[t] = <<mart[t]>>
    <2>1. CASE Truncate(r, t)
      BY <1>4, <2>1 DEF IInv, TypeOK
    <2>2. CASE ~Truncate(r, t)
      <3>1. serving'[t] = Append(serving[t], mart[t])
        BY <1>4, <2>2 DEF IInv, TypeOK
      <3>2. mart[t] \in Nat
        BY DEF IInv, TypeOK
      <3>3. serving'[t] = Append(<<>>, mart[t])
        BY <1>7, <2>2, <3>1
      <3>4. Append(<<>>, mart[t]) = <<mart[t]>>
        BY <3>2, ServedContents
      <3> QED
        BY <2>2, <3>3, <3>4
    <2> QED
      BY <2>1, <2>2
  <1>9. \A u \in Tables \ {t} : serving'[u] = serving[u]
    BY <1>4 DEF IInv, TypeOK
  <1>10. TypeOK'
    <2>1. serving' \in [Tables -> Seq(Nat)]
      BY <1>0, ServingType DEF IInv
    <2> QED
      BY <1>0, <1>1, <1>2, <2>1, AdvanceStep DEF IInv, TypeOK
  <1>11. Alone' /\ Places'
    BY <1>0, <1>1, <1>2, <1>3, AdvanceStep DEF IInv, Alone, Places, Idle, Active
  <1>12. Filled'
    <2>1. SUFFICES ASSUME pc'[r] = "publish"
                   PROVE  /\ at'[r] = 2 => serving'[Campaigns] = <<>>
                          /\ at'[r] \in {3, 4} => serving'[Campaigns] = <<mart[Campaigns]>>
                          /\ at'[r] = 4 => serving'[Engagement] = <<>>
      BY <1>2, <1>3 DEF Filled
    <2>2. at[r] \in 1 .. 3 /\ at'[r] = at[r] + 1
      BY <1>0, <1>1, <2>1, AdvanceStep, PlanStatements DEF IInv, TypeOK
    <2>3. CASE at[r] = 1
      BY <1>5, <1>6, <1>8, <2>2, <2>3
    <2>4. CASE at[r] = 2
      BY <1>5, <1>6, <1>8, <2>2, <2>4
    <2>5. CASE at[r] = 3
      <3>1. t = Engagement /\ Truncate(r, t) /\ Campaigns \in Tables \ {t}
        BY <1>5, <1>6, <2>5 DEF Tables, Campaigns, Engagement
      <3>2. serving[Campaigns] = <<mart[Campaigns]>>
        BY <1>1, <2>5 DEF IInv, Filled
      <3> QED
        BY <1>8, <1>9, <2>2, <2>5, <3>1, <3>2
    <2> QED
      BY <2>2, <2>3, <2>4, <2>5
  <1>13. DoneServesMarts'
    <2>1. SUFFICES ASSUME pc'[r] = "done" PROVE \A u \in Tables : serving'[u] = <<mart[u]>>
      BY <1>2, <1>3 DEF DoneServesMarts
    <2>2. at[r] = 4 /\ t = Engagement /\ ~Truncate(r, t)
      BY <1>0, <1>1, <1>5, <1>6, <2>1, AdvanceStep DEF IInv
    <2>3. serving[Campaigns] = <<mart[Campaigns]>>
      BY <1>1, <2>2 DEF IInv, Filled
    <2> QED
      BY <1>8, <1>9, <2>2, <2>3 DEF Tables, Campaigns, Engagement
  <1> QED
    BY <1>10, <1>11, <1>12, <1>13 DEF IInv

\* Every step keeps the variables in their types.
LEMMA TypeStep == TypeOK /\ [Next]_vars => TypeOK'
  <1> SUFFICES ASSUME TypeOK, [Next]_vars PROVE TypeOK'
    OBVIOUS
  <1> USE DEF TypeOK, Active
  <1>1. CASE UNCHANGED vars
    BY <1>1 DEF vars
  <1>2. CASE Change
    BY <1>2 DEF Change
  <1>3. ASSUME NEW r \in Runs, Start(r) PROVE TypeOK'
    BY <1>3, PlanStatements DEF Start
  <1>4. ASSUME NEW r \in Runs, InsertSnapshot(r) \/ InsertRecords(r) PROVE TypeOK'
    BY <1>4 DEF InsertSnapshot, InsertRecords, GoOn
  <1>5. ASSUME NEW r \in Runs, NEW t \in Tables, BuildMart(r, t) PROVE TypeOK'
    <2>1. /\ mart' \in [Tables -> Nat]
          /\ unbuilt' \in [Runs -> SUBSET Tables]
          /\ dead' \subseteq Runs
      BY <1>5 DEF BuildMart, GoOn
    <2>2. pc' \in [Runs -> Active \cup {"ready", "done", "failed"}]
      <3>1. PICK next \in {"publish", "dbt", "failed"} : pc' = [pc EXCEPT ![r] = next]
        BY <1>5 DEF BuildMart, GoOn
      <3> QED
        BY <3>1
    <2> QED
      BY <1>5, <2>1, <2>2 DEF BuildMart
  <1>6. ASSUME NEW r \in Runs, NEW t \in Tables, Truncate(r, t) \/ InsertServing(r, t) PROVE TypeOK'
    <2>1. pc[r] = "publish" /\ Advance(r)
      BY <1>6 DEF Truncate, InsertServing
    <2>2. serving' \in [Tables -> Seq(Nat)]
      BY <1>6, ServingType
    <2>3. UNCHANGED <<version, mart, iceberg, appdb, unbuilt, mishaps, latest, since, alone>>
      BY <2>1 DEF Advance
    <2> QED
      BY <2>1, <2>2, <2>3, AdvanceStep
  <1>7. ASSUME NEW r \in Runs, Fail(r) \/ Drop(r) PROVE TypeOK'
    BY <1>7 DEF Fail, Drop
  <1> QED
    BY <1>1, <1>2, <1>3, <1>4, <1>5, <1>6, <1>7 DEF Next, RunStep

\* Every step of a run is a step of one that is at work, and leaves its place
\* with the others.
LEMMA PlacesStep == TypeOK /\ Places /\ [Next]_vars => Places'
  <1> SUFFICES ASSUME TypeOK, Places, [Next]_vars PROVE Places'
    OBVIOUS
  <1> USE DEF Places, TypeOK, Idle, Active
  <1>1. CASE UNCHANGED vars \/ Change
    BY <1>1 DEF vars, Change
  <1>2. ASSUME NEW r \in Runs, Start(r) PROVE Places'
    BY <1>2 DEF Start
  <1>3. ASSUME NEW r \in Runs, InsertSnapshot(r) \/ InsertRecords(r) PROVE Places'
    BY <1>3 DEF InsertSnapshot, InsertRecords, GoOn
  <1>4. ASSUME NEW r \in Runs, NEW t \in Tables, BuildMart(r, t) PROVE Places'
    BY <1>4 DEF BuildMart, GoOn
  <1>5. ASSUME NEW r \in Runs, NEW t \in Tables, Truncate(r, t) \/ InsertServing(r, t) PROVE Places'
    <2>1. pc[r] = "publish" /\ Advance(r)
      BY <1>5 DEF Truncate, InsertServing
    <2> QED
      BY <2>1, AdvanceStep
  <1>6. ASSUME NEW r \in Runs, Fail(r) \/ Drop(r) PROVE Places'
    BY <1>6 DEF Fail, Drop, AtWork
  <1> QED
    BY <1>1, <1>2, <1>3, <1>4, <1>5, <1>6 DEF Next, RunStep

\* A step of the run that is alone before it publishes, or by which it fails,
\* leaves the tables and its place.
LEMMA WorkStep ==
  ASSUME IInv, TypeOK', Places', NEW r \in alone,
         UNCHANGED <<serving, at, latest, alone>>,
         \A q \in Runs \ {r} : pc'[q] = pc[q],
         pc'[r] \in {"records", "dbt", "publish", "failed"} \cup {pc[r]}, pc[r] \in Active,
         pc'[r] = "publish" => pc[r] = "publish" \/ at[r] = 1,
         pc[r] = "publish" => UNCHANGED mart
  PROVE  IInv'
  <1>1. alone = {r} /\ latest = {r} /\ \A q \in Runs \ {r} : Idle(q)
    BY DEF IInv, Alone
  <1>2. Alone'
    BY <1>1 DEF Alone, Idle
  <1>3. Filled'
    BY <1>1 DEF IInv, Filled, Active
  <1>4. DoneServesMarts'
    BY <1>1 DEF DoneServesMarts, Active
  <1> QED
    BY <1>2, <1>3, <1>4 DEF IInv

\* Every step keeps the invariant.
LEMMA Step == IInv /\ [Next]_vars => IInv'
  <1> SUFFICES ASSUME IInv, [Next]_vars PROVE IInv'
    OBVIOUS
  <1>0. TypeOK /\ TypeOK' /\ Places'
    BY TypeStep, PlacesStep DEF IInv
  <1>1. CASE UNCHANGED vars
    BY <1>0, <1>1 DEF vars, IInv, Alone, Filled, DoneServesMarts, Idle
  <1>2. CASE Change
    BY <1>0, <1>2 DEF Change, IInv, Alone, Filled, DoneServesMarts, Idle
  <1>3. ASSUME NEW r \in Runs, Start(r) PROVE IInv'
    <2>1. pc'[r] = "snapshot" /\ latest' = {r} /\ alone' \in {{}, {r}}
          /\ \A q \in Runs \ {r} : pc'[q] = pc[q]
      BY <1>0, <1>3 DEF Start, TypeOK
    <2>2. alone' = {r} => \A q \in Runs : Idle(q)
      BY <1>3 DEF Start
    <2> QED
      BY <1>0, <2>1, <2>2 DEF IInv, Alone, Filled, DoneServesMarts, Idle
  <1>4. ASSUME NEW r \in Runs, RunStep(r) \/ Fail(r) PROVE IInv'
    <2>1. pc[r] \in Active
      BY <1>4 DEF RunStep, InsertSnapshot, InsertRecords, BuildMart, Truncate, InsertServing,
           Drop, Fail, AtWork, Active
    <2>2. UNCHANGED alone
      BY <1>4 DEF RunStep, InsertSnapshot, InsertRecords, BuildMart, Truncate, InsertServing,
           Advance, Drop, Fail
    <2>3. CASE alone = {}
      BY <1>0, <2>2, <2>3 DEF IInv, Alone, Filled, DoneServesMarts
    <2>4. CASE alone # {}
      <3>1. r \in alone
        BY <2>1, <2>4 DEF IInv, Alone, Idle
      <3>2. CASE InsertSnapshot(r) \/ InsertRecords(r)
        BY <1>0, <2>1, <2>2, <3>1, <3>2, WorkStep
          DEF InsertSnapshot, InsertRecords, GoOn, TypeOK, IInv, Places, Active
      <3>3. ASSUME NEW t \in Tables, BuildMart(r, t) PROVE IInv'
        BY <1>0, <2>1, <2>2, <3>1, <3>3, WorkStep DEF BuildMart, GoOn, TypeOK, IInv, Places, Active
      <3>4. ASSUME NEW t \in Tables, Truncate(r, t) \/ InsertServing(r, t) PROVE IInv'
        BY <3>1, <3>4, PublishStep
      <3>5. CASE Fail(r) \/ Drop(r)
        BY <1>0, <2>1, <2>2, <3>1, <3>5, WorkStep DEF Fail, Drop, TypeOK, IInv, Places, Active
      <3> QED
        BY <1>4, <3>2, <3>3, <3>4, <3>5 DEF RunStep
    <2> QED
      BY <2>3, <2>4
  <1> QED
    BY <1>1, <1>2, <1>3, <1>4 DEF Next

\* A mart is rebuilt from the tables as they are, so not older than the start
\* of any run, and inserts into emptied tables add only marts.
LEMMA FreshStep == TypeOK /\ TypeOK' /\ Places /\ Fresh /\ [Next]_vars => Fresh'
  <1> SUFFICES ASSUME TypeOK, TypeOK', Places, Fresh, [Next]_vars PROVE Fresh'
    OBVIOUS
  <1>0. \A a, b \in Nat : a >= b <=> b <= a
    OBVIOUS
  <1> USE DEF Fresh
  <1>1. CASE UNCHANGED vars
    BY <1>1 DEF vars, Emptied
  <1>2. CASE Change
    BY <1>0, <1>2 DEF Change, TypeOK, Emptied
  <1>3. ASSUME NEW r \in Runs, Start(r) PROVE Fresh'
    <2>1. latest' = {r} /\ pc'[r] = "snapshot" /\ unbuilt'[r] = Tables /\ since' = version
          /\ version' = version /\ \A q \in Runs \ {r} : pc'[q] = pc[q] /\ unbuilt'[q] = unbuilt[q]
      BY <1>3 DEF Start, TypeOK
    <2>2. version <= version
      BY DEF TypeOK
    <2>3. \A q \in Runs : pc'[q] \in {"publish", "done"} => unbuilt'[q] = {}
      BY <2>1
    <2>4. \A t \in Tables : ~Emptied(r, t)'
      BY <2>1 DEF Emptied
    <2> QED
      BY <2>1, <2>2, <2>3, <2>4
  <1>4. ASSUME NEW r \in Runs, InsertSnapshot(r) \/ InsertRecords(r) PROVE Fresh'
    <2>1. /\ UNCHANGED <<version, mart, serving, unbuilt, at, latest, since>>
          /\ pc[r] \in Active /\ pc'[r] \in {"records", "dbt", "failed"}
          /\ \A q \in Runs \ {r} : pc'[q] = pc[q]
      BY <1>4 DEF InsertSnapshot, InsertRecords, GoOn, TypeOK, Active
    <2>2. \A q \in Runs, t \in Tables : Emptied(q, t)' => Emptied(q, t)
      BY <2>1 DEF Emptied
    <2> QED
      BY <2>1, <2>2 DEF TypeOK, Active
  <1>5. ASSUME NEW r \in Runs, NEW t \in Tables, BuildMart(r, t) PROVE Fresh'
    <2>1. /\ pc[r] = "dbt" /\ t \in unbuilt[r] /\ UNCHANGED <<version, since, latest, serving, at>>
          /\ pc'[r] \in {"dbt", "publish", "failed"} /\ latest \subseteq Runs
      BY <1>5 DEF BuildMart, GoOn, TypeOK
    <2>2. \A q \in Runs \ {r} : pc'[q] = pc[q] /\ unbuilt'[q] = unbuilt[q]
      BY <1>5 DEF BuildMart, GoOn, TypeOK
    <2>3. unbuilt'[r] = unbuilt[r] \ {t} /\ mart'[t] = version
      BY <1>5 DEF BuildMart, TypeOK
    <2>4. \A u \in Tables \ {t} : mart'[u] = mart[u]
      BY <1>5 DEF BuildMart, TypeOK
    <2>5. pc'[r] \in {"publish", "done"} => unbuilt'[r] = {}
      BY <1>5, <2>3 DEF BuildMart, GoOn, TypeOK
    <2>6. version >= since
      BY DEF TypeOK
    <2>7. ASSUME NEW q \in latest, pc'[q] \in Active \cup {"done"}
          PROVE  \A u \in Tables \ unbuilt'[q] : mart'[u] >= since
      BY <2>1, <2>2, <2>3, <2>4, <2>6, <2>7 DEF Active
    <2>8. ASSUME NEW q \in latest, NEW u \in Tables, Emptied(q, u)' PROVE Emptied(q, u)
      BY <2>1, <2>2, <2>8 DEF Emptied, Places
    <2> QED
      BY <2>1, <2>2, <2>5, <2>7, <2>8
  <1>6. ASSUME NEW r \in Runs, NEW t \in Tables, Truncate(r, t) \/ InsertServing(r, t) PROVE Fresh'
    <2>1. pc[r] = "publish" /\ Advance(r)
      BY <1>6 DEF Truncate, InsertServing
    <2>2. UNCHANGED <<version, mart, unbuilt, latest, since>> /\ latest \subseteq Runs
      BY <2>1 DEF Advance, TypeOK
    <2>3. /\ \A q \in Runs \ {r} : pc'[q] = pc[q] /\ at'[q] = at[q]
          /\ pc'[r] \in {"publish", "done", "failed"}
          /\ pc'[r] = "publish" => at[r] < 4 /\ at'[r] = at[r] + 1
          /\ pc'[r] = "done" => at[r] = 4
          /\ at[r] \in 1 .. 4
      BY <2>1, AdvanceStep, PlanStatements DEF TypeOK
    <2>4. serving' = [serving EXCEPT ![t] = IF Truncate(r, t) THEN <<>> ELSE Append(@, mart[t])]
      BY <1>6 DEF Truncate, InsertServing
    <2>5. ASSUME NEW q \in latest, NEW u \in Tables, Emptied(q, u)', NEW i \in 1 .. Len(serving'[u])
          PROVE  serving'[u][i] >= since
      <3>1. pc[q] \in {"publish", "done"} /\ mart[u] >= since
        BY <2>1, <2>2, <2>3, <2>5 DEF Emptied, Active
      <3>2. u = t /\ Truncate(r, t) => FALSE
        BY <2>4, <2>5 DEF TypeOK
      <3>3. Emptied(q, u)
        <4>1. Truncate(r, t) <=> (at[r] = 1 /\ t = Campaigns) \/ (at[r] = 3 /\ t = Engagement)
          BY <1>6, <2>3, PlanStatements DEF Truncate, InsertServing
        <4>2. at[r] = 1 => t = Campaigns
          BY <1>6, PlanStatements DEF Truncate, InsertServing
        <4>3. at[r] = 3 => t = Engagement
          BY <1>6, PlanStatements DEF Truncate, InsertServing
        <4>4. u \in {Campaigns, Engagement} /\ Campaigns # Engagement
          BY DEF Tables, Campaigns, Engagement
        <4>5. q # r => Emptied(q, u)
          BY <2>2, <2>3, <2>5 DEF Emptied
        <4>6. ASSUME q = r PROVE Emptied(q, u)
          <5>1. CASE at[r] = 1
            <6>1. pc'[r] = "publish" /\ at'[r] = 2 /\ Emptied(r, u)'
              BY <2>3, <2>5, <4>6, <5>1 DEF Emptied
            <6>2. u = Campaigns
              BY <6>1 DEF Emptied
            <6> QED
              BY <3>2, <4>1, <4>2, <5>1, <6>2
          <5>2. CASE at[r] = 2
            <6>1. pc'[r] = "publish" /\ at'[r] = 3 /\ Emptied(r, u)'
              BY <2>3, <2>5, <4>6, <5>2 DEF Emptied
            <6>2. u = Campaigns
              BY <6>1 DEF Emptied
            <6> QED
              BY <2>1, <4>6, <5>2, <6>2 DEF Emptied
          <5>3. CASE at[r] = 3
            <6>1. u = Campaigns
              BY <3>2, <4>1, <4>3, <4>4, <5>3
            <6> QED
              BY <2>1, <4>6, <5>3, <6>1 DEF Emptied
          <5>4. CASE at[r] = 4
            BY <2>1, <4>4, <4>6, <5>4 DEF Emptied
          <5> QED
            BY <2>3, <5>1, <5>2, <5>3, <5>4
        <4> QED
          BY <4>5, <4>6
      <3>4. CASE u # t
        BY <2>4, <2>5, <3>3, <3>4 DEF TypeOK
      <3>5. CASE u = t
        <4>1. serving'[t] = Append(serving[t], mart[t]) /\ serving[t] \in Seq(Nat) /\ mart[t] \in Nat
          BY <2>4, <3>2, <3>5 DEF TypeOK
        <4>2. serving'[t][i] \in {mart[t]} \cup {serving[t][j] : j \in 1 .. Len(serving[t])}
          BY <2>5, <3>5, <4>1
        <4> QED
          BY <2>5, <3>1, <3>3, <3>5, <4>2
      <3> QED
        BY <3>4, <3>5
    <2> QED
      BY <2>1, <2>2, <2>3, <2>5 DEF Active
  <1>7. ASSUME NEW r \in Runs, Fail(r) \/ Drop(r) PROVE Fresh'
    BY <1>0, <1>7 DEF Fail, Drop, TypeOK, Active, Emptied
  <1> QED
    BY <1>1, <1>2, <1>3, <1>4, <1>5, <1>6, <1>7 DEF Next, RunStep

-----------------------------------------------------------------------------
\* Where a run nothing overlaps is in its plan says what the tables hold.
THEOREM RefreshInvariant == Spec => []IInv
  BY InitIInv, Step, PTL DEF Spec

\* Every step of a run, late statements of failed ones included, keeps marts,
\* serving tables, records and the runs' places in their types.
THEOREM TypesHold == Spec => []TypeOK
  BY RefreshInvariant, PTL DEF IInv

\* A run that started with nothing of another left never puts a second insert
\* into a table, whatever it found there.
THEOREM SecondInsertsAreOverlaps == Spec => SecondInsertNeedsOverlap
  <1>1. IInv /\ [Next]_vars =>
          [\A t \in Tables :
             Len(serving[t]) > 0 /\ Len(serving'[t]) > Len(serving[t]) => alone = {}]_vars
    <2> SUFFICES ASSUME IInv, Next, NEW t \in Tables,
                        Len(serving[t]) > 0, Len(serving'[t]) > Len(serving[t])
                 PROVE  alone = {}
      OBVIOUS
    <2>1. serving[t] \in Seq(Nat) /\ Len(serving[t]) \in Nat
      BY DEF IInv, TypeOK
    <2>2. serving'[t] # serving[t] /\ serving'[t] # <<>>
      BY <2>1
    <2>3. PICK r \in Runs : InsertServing(r, t)
      <3>1. ASSUME NEW r \in Runs, NEW u \in Tables, Truncate(r, u) PROVE FALSE
        BY <2>2, <3>1 DEF Truncate, IInv, TypeOK
      <3>2. ASSUME NEW r \in Runs, NEW u \in Tables, InsertServing(r, u) PROVE u = t
        BY <2>2, <3>2 DEF InsertServing, IInv, TypeOK
      <3>3. ~UNCHANGED serving
        BY <2>2
      <3> QED
        BY <3>1, <3>2, <3>3 DEF Next, RunStep, Change, Start, InsertSnapshot, InsertRecords,
             BuildMart, Fail, Drop
    <2>4. pc[r] = "publish" /\ ((at[r] = 2 /\ t = Campaigns) \/ (at[r] = 4 /\ t = Engagement))
      BY <2>3, PlanStatements DEF InsertServing, IInv, TypeOK
    <2>5. r \notin alone
      BY <2>1, <2>2, <2>4, ServedContents DEF IInv, Filled
    <2> QED
      BY <2>4, <2>5 DEF IInv, Alone, Idle, Active
  <1> QED
    BY <1>1, RefreshInvariant, PTL DEF Spec, SecondInsertNeedsOverlap

\* The latest run, once done, leaves every serving table equal to its mart,
\* unless another run overlapped it.
THEOREM ServesTheMarts == Spec => []DoneServesMarts
  BY RefreshInvariant, PTL DEF IInv

\* What the latest run has built or emptied is never older than its start.
THEOREM FreshInvariant == Spec => []Fresh
  <1>1. Init => Fresh
    BY DEF Init, Fresh, Active
  <1>2. TypeOK /\ TypeOK' /\ Places /\ Fresh /\ [Next]_vars => Fresh'
    BY FreshStep
  <1>3. IInv => TypeOK /\ Places
    BY DEF IInv
  <1> QED
    BY RefreshInvariant, TypesHold, <1>1, <1>2, <1>3, PTL DEF Spec

\* Once the latest run is done nothing older than its start is served, whoever
\* inserted it.
THEOREM DoneFresh == Spec => []DoneIsFresh
  <1>1. Fresh => DoneIsFresh
    BY DEF Fresh, DoneIsFresh, Emptied
  <1> QED
    BY FreshInvariant, <1>1, PTL

\* Partner records reach Iceberg before appdb, also where runs overlap.
THEOREM RecordsTraceable == Spec => []RecordsAreInLakehouse
  <1> DEFINE Inv == /\ TypeOK
                    /\ RecordsAreInLakehouse
                    /\ \A r \in Runs : pc[r] = "records" => r \in iceberg
  <1>1. Init => Inv
    BY InitIInv DEF Init, IInv, RecordsAreInLakehouse
  <1>2. Inv /\ [Next]_vars => Inv'
    <2> SUFFICES ASSUME Inv, [Next]_vars PROVE Inv'
      OBVIOUS
    <2>0. TypeOK'
      BY TypeStep
    <2> USE DEF TypeOK, RecordsAreInLakehouse
    <2>1. CASE UNCHANGED vars \/ Change
      BY <2>0, <2>1 DEF vars, Change
    <2>2. ASSUME NEW r \in Runs, Start(r) PROVE Inv'
      BY <2>0, <2>2 DEF Start
    <2>3. ASSUME NEW r \in Runs, InsertSnapshot(r) \/ InsertRecords(r) PROVE Inv'
      BY <2>0, <2>3 DEF InsertSnapshot, InsertRecords, GoOn
    <2>4. ASSUME NEW r \in Runs, NEW t \in Tables,
                 BuildMart(r, t) \/ Truncate(r, t) \/ InsertServing(r, t)
          PROVE  Inv'
      <3>1. UNCHANGED <<iceberg, appdb>>
        BY <2>4 DEF BuildMart, Truncate, InsertServing, Advance
      <3>2. PICK to \in {"publish", "dbt", "done"} : GoOn(r, to)
        BY <2>4 DEF BuildMart, Truncate, InsertServing, Advance
      <3>3. \A q \in Runs : pc'[q] = "records" => pc[q] = "records"
        BY <3>2 DEF GoOn
      <3> QED
        BY <2>0, <3>1, <3>3
    <2>5. ASSUME NEW r \in Runs, Fail(r) \/ Drop(r) PROVE Inv'
      BY <2>0, <2>5 DEF Fail, Drop
    <2> QED
      BY <2>1, <2>2, <2>3, <2>4, <2>5 DEF Next, RunStep
  <1> QED
    BY <1>1, <1>2, PTL DEF Spec
=============================================================================
