------------------------- MODULE BootstrapView_proofs -------------------------
(***************************************************************************)
(* What a view shows beside the refresh job, for every number of runs,     *)
(* mishaps and changes.  The job's own theorems carry over, since a        *)
(* request only reads (ViewSpec implements Spec).  While the job rests,    *)
(* what a request holds is what the job has published and what appdb has   *)
(* shown since (Held).  At any time nothing a caller has got is newer      *)
(* than the mart, nor than the last rows of a table that is not empty      *)
(* (Behind), since a table only loses its rows or gets the mart's.         *)
(***************************************************************************)
EXTENDS BootstrapView, BatchRefresh_proofs

Held ==
  /\ calm => Resting
  /\ phase = "answered" => rows = <<>> /\ live = {} /\ statement = "none"
  /\ phase # "answered" => answer = NoAnswer
  /\ calm => /\ statement = "executed" => rows = <<mart[Campaigns]>>
             /\ \A v \in live : mart[Campaigns] <= v /\ v <= version

\* The newest versions callers have got or the request under way will get.
Seen == {shown, Newest(rows, shown), Newest(answer.figures, shown)}

Behind ==
  /\ \A x \in Seen : x <= mart[Campaigns]
  /\ serving[Campaigns] # <<>> =>
       /\ Newest(serving[Campaigns], 0) <= mart[Campaigns]
       /\ \A x \in Seen : x <= Newest(serving[Campaigns], 0)
  /\ \A x \in Seen : shown <= x

\* No mart is newer than the tables it is built from.
MartsBehind == \A t \in Tables : mart[t] <= version

ViewInv == ViewTypeOK /\ Held /\ Behind /\ CalmViewIsCurrent

-----------------------------------------------------------------------------
\* A request changes nothing of the job, and the job runs as it would alone.
THEOREM ViewRefines == ViewSpec => Spec
  <1>1. ViewInit => Init
    BY DEF ViewInit
  <1>2. [ViewNext]_<<vars, viewVars>> => [Next]_vars
    BY DEF ViewNext, Refresh
  <1> QED
    BY <1>1, <1>2, PTL DEF ViewSpec, Spec

\* Where the job rests, its tables hold what its latest run published.
LEMMA RestingTables ==
  ASSUME IInv, Fresh, Resting
  PROVE  serving[Campaigns] = <<mart[Campaigns]>> /\ since <= mart[Campaigns]
  <1>1. PICK r \in alone : r \in Runs /\ pc[r] = "done"
    BY DEF Resting, IInv, TypeOK
  <1>2. Campaigns \in Tables /\ Campaigns \notin unbuilt[r] /\ r \in latest
    BY <1>1 DEF Fresh, Tables, Campaigns, IInv, Alone
  <1>3. serving[Campaigns] = <<mart[Campaigns]>>
    BY <1>1, <1>2 DEF IInv, DoneServesMarts
  <1>4. mart[Campaigns] \in Nat /\ mart[Campaigns] >= since /\ since \in Nat
    BY <1>1, <1>2 DEF IInv, TypeOK, Fresh
  <1> QED
    BY <1>3, <1>4

\* A build reads the tables as they are, and versions only grow.
LEMMA MartStep == TypeOK /\ MartsBehind /\ [Next]_vars => MartsBehind'
  <1> SUFFICES ASSUME TypeOK, MartsBehind, [Next]_vars, NEW u \in Tables
               PROVE  mart'[u] <= version'
    BY DEF MartsBehind
  <1> USE DEF TypeOK, MartsBehind
  <1>1. CASE UNCHANGED vars
    BY <1>1 DEF vars
  <1>2. CASE Change
    BY <1>2 DEF Change
  <1>3. ASSUME NEW r \in Runs, NEW t \in Tables, BuildMart(r, t) PROVE mart'[u] <= version'
    BY <1>3 DEF BuildMart
  <1>4. ASSUME NEW r \in Runs, UNCHANGED <<mart, version>> PROVE mart'[u] <= version'
    BY <1>4
  <1> QED
    BY <1>1, <1>2, <1>3, <1>4 DEF Next, RunStep, Start, InsertSnapshot, InsertRecords, Truncate,
         InsertServing, Advance, Fail, Drop

\* No mart is ever newer than the tables.
LEMMA MartsFollow == Spec => []MartsBehind
  <1>1. Init => MartsBehind
    BY DEF Init, MartsBehind
  <1> QED
    BY <1>1, MartStep, TypesHold, PTL DEF Spec

\* The newest row of a table.
LEMMA NewestRow ==
  ASSUME NEW s \in Seq(Nat), NEW d \in Nat
  PROVE  /\ Newest(s, d) \in Nat
         /\ s = <<>> => Newest(s, d) = d
         /\ s # <<>> => Newest(s, d) = Newest(s, 0)
         /\ \A m \in Nat : Append(s, m) # <<>> /\ Newest(Append(s, m), 0) = m
  <1>1. s # <<>> => Len(s) \in 1 .. Len(s) /\ s[Len(s)] \in Nat
    OBVIOUS
  <1>2. ASSUME NEW m \in Nat
        PROVE  /\ Append(s, m) # <<>>
               /\ Append(s, m)[Len(Append(s, m))] = m
    OBVIOUS
  <1> QED
    BY <1>1, <1>2 DEF Newest

\* What a step of the job does to the mart and the serving table of campaigns.
LEMMA PublishedStep ==
  ASSUME TypeOK, MartsBehind, Next
  PROVE  /\ mart[Campaigns] <= mart'[Campaigns]
         /\ \/ serving'[Campaigns] \in {<<>>, serving[Campaigns]}
            \/ /\ serving'[Campaigns] = Append(serving[Campaigns], mart[Campaigns])
               /\ UNCHANGED mart
  <1>0. Campaigns \in Tables /\ mart[Campaigns] \in Nat /\ version \in Nat
    BY DEF TypeOK, Tables, Campaigns
  <1>1. CASE Change
    BY <1>0, <1>1 DEF Change
  <1>2. ASSUME NEW r \in Runs, NEW t \in Tables, BuildMart(r, t)
        PROVE  mart[Campaigns] <= mart'[Campaigns] /\ UNCHANGED serving
    BY <1>0, <1>2 DEF BuildMart, TypeOK, MartsBehind
  <1>3. ASSUME NEW r \in Runs, NEW t \in Tables, Truncate(r, t)
        PROVE  UNCHANGED mart /\ serving'[Campaigns] \in {<<>>, serving[Campaigns]}
    BY <1>0, <1>3 DEF Truncate, Advance, TypeOK
  <1>4. ASSUME NEW r \in Runs, NEW t \in Tables, InsertServing(r, t)
        PROVE  /\ UNCHANGED mart
               /\ serving'[Campaigns] \in
                    {serving[Campaigns], Append(serving[Campaigns], mart[Campaigns])}
    BY <1>0, <1>4 DEF InsertServing, Advance, TypeOK
  <1>5. ASSUME NEW r \in Runs, Start(r) \/ InsertSnapshot(r) \/ InsertRecords(r) \/ Drop(r) \/ Fail(r)
        PROVE  UNCHANGED <<mart, serving>>
    BY <1>5 DEF Start, InsertSnapshot, InsertRecords, Drop, Fail
  <1> QED
    BY <1>0, <1>1, <1>2, <1>3, <1>4, <1>5 DEF Next, RunStep

\* While the job rests, only the platform moves it: by a change of the tables,
\* or by a start that ends the rest.
LEMMA RestStep ==
  ASSUME TypeOK, Resting, calm, Refresh, calm'
  PROVE  Change
  <1>1. \A r \in Runs : pc[r] \notin Active /\ pc'[r] \notin Active
    BY DEF Resting, Idle, Refresh
  <1>2. ASSUME NEW r \in Runs PROVE ~Start(r) /\ ~RunStep(r) /\ ~Fail(r)
    BY <1>1 DEF Start, RunStep, InsertSnapshot, InsertRecords, BuildMart, Truncate, InsertServing,
         Drop, Fail, AtWork, TypeOK, Active
  <1> QED
    BY <1>2 DEF Refresh, Next

\* No step of the job makes what callers have got newer than what there is.
LEMMA BehindRefresh ==
  ASSUME TypeOK, TypeOK', MartsBehind, ViewInv, Refresh
  PROVE  Behind'
  <1>1. Next /\ UNCHANGED <<rows, answer, shown>>
    BY DEF Refresh, request
  <1>2. Seen' = Seen
    BY <1>1 DEF Seen
  <1>3. Seen \subseteq Nat
    BY NewestRow DEF Seen, ViewInv, ViewTypeOK
  <1>4. /\ serving[Campaigns] \in Seq(Nat) /\ mart[Campaigns] \in Nat /\ mart'[Campaigns] \in Nat
        /\ serving'[Campaigns] \in Seq(Nat)
    BY DEF TypeOK, Tables, Campaigns
  <1>5. mart[Campaigns] <= mart'[Campaigns]
    BY <1>1, PublishedStep
  <1>6. \A x \in Seen : x <= mart'[Campaigns] /\ shown <= x
    <2> SUFFICES ASSUME NEW x \in Seen PROVE x <= mart'[Campaigns] /\ shown <= x
      OBVIOUS
    <2>1. x <= mart[Campaigns] /\ shown <= x /\ x \in Nat
      BY <1>3 DEF ViewInv, Behind
    <2> QED
      BY <1>4, <1>5, <2>1
  <1>7. ASSUME serving'[Campaigns] # <<>>
        PROVE  /\ Newest(serving'[Campaigns], 0) <= mart'[Campaigns]
               /\ \A x \in Seen : x <= Newest(serving'[Campaigns], 0)
    <2>1. CASE serving'[Campaigns] = serving[Campaigns]
      <3>1. Newest(serving[Campaigns], 0) \in Nat
        BY <1>4, NewestRow
      <3> QED
        BY <1>4, <1>5, <1>7, <2>1, <3>1 DEF ViewInv, Behind
    <2>2. CASE serving'[Campaigns] = Append(serving[Campaigns], mart[Campaigns]) /\ UNCHANGED mart
      <3>1. Newest(serving'[Campaigns], 0) = mart[Campaigns]
        BY <1>4, <2>2, NewestRow
      <3> QED
        BY <1>4, <2>2, <3>1 DEF ViewInv, Behind
    <2> QED
      BY <1>1, <1>7, <2>1, <2>2, PublishedStep
  <1> QED
    BY <1>1, <1>2, <1>6, <1>7 DEF Behind

\* A step of the job keeps what a request holds.
LEMMA RefreshStep == TypeOK /\ TypeOK' /\ MartsBehind /\ ViewInv /\ Refresh => ViewInv'
  <1> SUFFICES ASSUME TypeOK, TypeOK', MartsBehind, ViewInv, Refresh PROVE ViewInv'
    OBVIOUS
  <1>1. ViewTypeOK' /\ UNCHANGED <<request, shown>> /\ (calm' => calm)
    BY DEF ViewInv, ViewTypeOK, Refresh, request
  <1>2. CASE ~calm'
    BY <1>1, <1>2, BehindRefresh DEF ViewInv, Held, CalmViewIsCurrent, request
  <1>3. CASE calm'
    <2>1. calm /\ Resting /\ Change
      BY <1>1, <1>3, RestStep DEF ViewInv, Held
    <2>2. UNCHANGED <<mart, pc, latest, alone, since>> /\ version' = version + 1
      BY <2>1 DEF Change
    <2>3. Resting'
      BY <2>1, <2>2 DEF Resting, Idle
    <2>4. \A v \in Nat : v <= version => v <= version'
      BY <2>2 DEF TypeOK
    <2>5. live \subseteq Nat /\ answer.live \subseteq Nat
      BY DEF ViewInv, ViewTypeOK
    <2>6. Held'
      BY <1>1, <2>1, <2>2, <2>3, <2>4, <2>5 DEF ViewInv, Held, request
    <2>7. CalmViewIsCurrent'
      BY <1>1, <2>1, <2>2, <2>4, <2>5 DEF ViewInv, CalmViewIsCurrent, request
    <2> QED
      BY <1>1, <2>6, <2>7, BehindRefresh DEF ViewInv
  <1> QED
    BY <1>2, <1>3

\* The answers a caller can get.
Answers == [kind : {"none", "error", "appdb", "trino"}, live : SUBSET Nat, figures : Seq(Nat)]

\* Answers are of the four kinds.
LEMMA AnswersAre ==
  /\ \A k \in {"none", "error", "appdb", "trino"}, l \in SUBSET Nat, f \in Seq(Nat) :
       [kind |-> k, live |-> l, figures |-> f] \in Answers
  /\ NoAnswer \in Answers /\ NoAnswer.kind = "none" /\ NoAnswer.figures = <<>>
  /\ Error \in Answers /\ Error.kind = "error" /\ Error.figures = <<>>
  <1>1. \A k \in {"none", "error", "appdb", "trino"}, l \in SUBSET Nat, f \in Seq(Nat) :
          [kind |-> k, live |-> l, figures |-> f] \in Answers
    BY DEF Answers
  <1>2. <<>> \in Seq(Nat)
    OBVIOUS
  <1> QED
    BY <1>1, <1>2 DEF NoAnswer, Error

\* A step of a request keeps it.
LEMMA ServeStep ==
  ASSUME IInv, Fresh, MartsBehind, ViewInv, Serve, UNCHANGED vars
  PROVE  ViewInv'
  <1> DEFINE m == mart[Campaigns]
             table == serving[Campaigns]
  <1>1. /\ TypeOK /\ TypeOK' /\ (Resting <=> Resting')
        /\ UNCHANGED <<mart, version, since, serving>>
    BY DEF IInv, TypeOK, Resting, Idle, vars
  <1>2. /\ phase \in Asking \cup {"answered"} /\ route \in Routes \cup {"none"}
        /\ live \in SUBSET Nat /\ statement \in {"none", "queued", "executed"}
        /\ rows \in Seq(Nat) /\ answer \in Answers /\ calm \in BOOLEAN /\ shown \in Nat
        /\ answer.figures \in Seq(Nat) /\ Campaign = Campaigns
    BY DEF ViewInv, ViewTypeOK, Answers, Campaigns, Campaign
  <1>3. /\ version \in Nat /\ since \in Nat /\ table \in Seq(Nat) /\ m \in Nat /\ m <= version
        /\ <<>> \in Seq(Nat)
    BY <1>1 DEF TypeOK, MartsBehind, Tables, Campaigns
  <1>4. Resting => table = <<m>> /\ since <= m
    BY RestingTables
  <1>5. calm => Resting
    BY DEF ViewInv, Held
  <1> HIDE DEF m, table
  <1>6. ASSUME phase' \in Asking \cup {"answered"}, route' \in Routes \cup {"none"},
               live' \in SUBSET Nat, statement' \in {"none", "queued", "executed"},
               rows' \in Seq(Nat), answer' \in Answers, calm' \in BOOLEAN, shown' \in Nat
        PROVE  ViewTypeOK'
    BY <1>1, <1>6 DEF ViewTypeOK, Answers
  <1>7. ASSUME Seen' \subseteq Seen, \A x \in Seen' : shown' <= x
        PROVE  Behind'
    BY <1>1, <1>7 DEF ViewInv, Behind
  <1>8. ASSUME NEW p \in Routes, Ask(p) PROVE ViewInv'
    <2>1. /\ phase = "answered" /\ phase' \in {"row", "reply"} /\ route' = p
          /\ statement' \in {statement, "queued"} /\ answer' = NoAnswer /\ calm' = Resting
          /\ shown' = Newest(answer.figures, shown) /\ live' = live /\ rows' = rows
      BY <1>8 DEF Ask
    <2>2. rows = <<>> /\ live = {} /\ statement = "none"
      BY <2>1 DEF ViewInv, Held
    <2>3. shown' \in Nat /\ shown' \in Seen
      BY <1>2, <2>1, NewestRow DEF Seen
    <2>4. ViewTypeOK'
      <3>1. phase' \in Asking \cup {"answered"} /\ route' \in Routes \cup {"none"} /\ calm' \in BOOLEAN
        BY <2>1 DEF Asking, Resting
      <3> QED
        BY <1>2, <1>6, <2>1, <2>2, <2>3, <3>1, AnswersAre
    <2>5. Held'
      BY <1>1, <2>1, <2>2 DEF Held
    <2>6. Seen' = {shown'}
      <3>1. Newest(<<>>, shown') = shown'
        BY DEF Newest
      <3> QED
        BY <2>1, <2>2, <3>1, AnswersAre DEF Seen
    <2>7. Behind'
      BY <1>7, <2>3, <2>6
    <2> QED
      BY <2>1, <2>4, <2>5, <2>7, AnswersAre DEF ViewInv, CalmViewIsCurrent
  <1>9. CASE LoadRow
    <2>1. /\ phase = "row" /\ phase' = "reply" /\ live' = {version} /\ statement' = "queued"
          /\ UNCHANGED <<route, rows, answer, calm, shown>> /\ answer = NoAnswer
      BY <1>9 DEF LoadRow, ViewInv, Held
    <2>2. ViewTypeOK'
      BY <1>2, <1>3, <1>6, <2>1 DEF Asking
    <2>3. Held'
      BY <1>1, <1>3, <2>1 DEF ViewInv, Held, m
    <2>4. Behind'
      BY <1>7, <2>1 DEF Seen, ViewInv, Behind
    <2> QED
      BY <2>1, <2>2, <2>3, <2>4, AnswersAre DEF ViewInv, CalmViewIsCurrent
  <1>10. CASE Execute
    <2>1. /\ statement = "queued" /\ statement' = "executed" /\ rows' = table
          /\ UNCHANGED <<phase, route, live, answer, calm, shown>>
      BY <1>2, <1>10 DEF Execute, table
    <2>2. phase # "answered" /\ answer = NoAnswer
      BY <2>1 DEF ViewInv, Held
    <2>3. ViewTypeOK'
      BY <1>2, <1>3, <1>6, <2>1
    <2>4. Held'
      BY <1>1, <1>4, <1>5, <2>1, <2>2 DEF ViewInv, Held, m
    <2>5. Behind'
      <3>1. Seen' = {shown, Newest(table, shown)}
        BY <2>1, <2>2, AnswersAre DEF Seen, Newest
      <3>2. CASE table = <<>>
        <4>1. Newest(table, shown) = shown /\ shown \in Seen
          BY <3>2 DEF Newest, Seen
        <4> QED
          BY <1>2, <1>7, <2>1, <3>1, <4>1
      <3>3. CASE table # <<>>
        <4>1. Newest(table, shown) = Newest(table, 0) /\ Newest(table, 0) \in Nat /\ shown \in Seen
          BY <1>2, <1>3, <3>3, NewestRow DEF Seen
        <4>2. shown <= Newest(table, 0) /\ Newest(table, 0) <= m /\ shown <= m
          BY <3>3, <4>1 DEF ViewInv, Behind, table, m
        <4> QED
          BY <1>1, <1>2, <2>1, <3>1, <4>1, <4>2 DEF Behind, table, m
      <3> QED
        BY <3>2, <3>3
    <2> QED
      BY <1>1, <2>1, <2>2, <2>3, <2>4, <2>5, AnswersAre DEF ViewInv, CalmViewIsCurrent
  <1>11. CASE Page \/ Follow
    <2>1. /\ phase' \in {"next", "reply"} /\ phase # "answered"
          /\ UNCHANGED <<route, live, statement, rows, answer, calm, shown>>
      BY <1>11 DEF Page, Follow
    <2>2. ViewTypeOK'
      BY <1>2, <1>6, <2>1 DEF Asking
    <2>3. Held'
      BY <1>1, <2>1 DEF ViewInv, Held
    <2>4. Behind'
      BY <1>1, <2>1 DEF ViewInv, Behind, Seen
    <2> QED
      BY <1>1, <2>1, <2>2, <2>3, <2>4 DEF ViewInv, CalmViewIsCurrent
  <1>12. ASSUME NEW a \in Answers, Answer(a), phase # "answered",
                Newest(a.figures, shown) \in {shown, Newest(rows, shown)},
                calm /\ a.kind = "trino" =>
                  a.figures = <<m>> /\ \A v \in a.live : m <= v /\ v <= version,
                calm /\ a.kind = "appdb" => \A v \in a.live : since <= v /\ v <= version
         PROVE  ViewInv'
    <2>1. PICK b \in {a, Error} :
            /\ phase' = "answered" /\ answer' = b /\ route' = "none" /\ live' = {}
            /\ statement' = "none" /\ rows' = <<>> /\ calm' = calm /\ shown' = shown
      BY <1>12 DEF Answer
    <2>2. b \in Answers /\ Newest(b.figures, shown) \in {shown, Newest(rows, shown)}
      BY <1>12, AnswersAre DEF Newest
    <2>3. ViewTypeOK'
      BY <1>2, <1>3, <1>6, <2>1, <2>2
    <2>4. Held'
      BY <1>1, <2>1 DEF ViewInv, Held
    <2>5. Behind'
      <3>1. Seen' \subseteq {shown, Newest(rows, shown)}
        BY <2>1, <2>2 DEF Seen, Newest
      <3> QED
        BY <1>7, <2>1, <3>1 DEF Seen, ViewInv, Behind
    <2>6. CalmViewIsCurrent'
      BY <1>1, <1>2, <1>4, <1>5, <1>12, <2>1, AnswersAre DEF CalmViewIsCurrent, m
    <2> QED
      BY <2>3, <2>4, <2>5, <2>6 DEF ViewInv
  <1>13. CASE LoadRowFails \/ GiveUp
    <2>1. Answer(Error) /\ phase # "answered"
      BY <1>13 DEF LoadRowFails, GiveUp, Asking
    <2> QED
      BY <1>12, <2>1, AnswersAre DEF Newest
  <1>14. CASE LastPage
    <2> DEFINE a == [kind |-> "trino", live |-> live, figures |-> rows]
    <2>1. a \in Answers /\ a.kind = "trino" /\ a.figures = rows /\ a.live = live /\ Answer(a)
      BY <1>2, <1>14, AnswersAre DEF LastPage
    <2>2. phase # "answered" /\ (calm => rows = <<m>> /\ \A v \in live : m <= v /\ v <= version)
      BY <1>14 DEF LastPage, ViewInv, Held, m
    <2> HIDE DEF a
    <2> QED
      BY <1>12, <2>1, <2>2
  <1>15. CASE TrinoFails
    <2>1. CASE route = "/api/bootstrap"
      <3> DEFINE a == [kind |-> "appdb", live |-> live, figures |-> <<>>]
      <3>1. a \in Answers /\ a.kind = "appdb" /\ a.live = live /\ a.figures = <<>> /\ Answer(a)
        BY <1>2, <1>3, <1>15, <2>1, AnswersAre DEF TrinoFails
      <3>2. phase # "answered" /\ (calm => \A v \in live : m <= v /\ v <= version)
        BY <1>15 DEF TrinoFails, ViewInv, Held, m
      <3>3. calm => \A v \in live : since <= v /\ v <= version
        BY <1>2, <1>3, <1>4, <1>5, <3>2
      <3>4. Newest(a.figures, shown) = shown
        BY <3>1 DEF Newest
      <3> HIDE DEF a
      <3> QED
        BY <1>12, <3>1, <3>2, <3>3, <3>4
    <2>2. CASE route # "/api/bootstrap"
      <3>1. Answer(Error) /\ phase # "answered"
        BY <1>15, <2>2 DEF TrinoFails
      <3> QED
        BY <1>12, <3>1, AnswersAre DEF Newest
    <2> QED
      BY <2>1, <2>2
  <1> QED
    BY <1>8, <1>9, <1>10, <1>11, <1>13, <1>14, <1>15 DEF Serve, Progress

-----------------------------------------------------------------------------
\* What a request holds, and all callers have got, fits what the job has done.
THEOREM ViewInvariant == ViewSpec => []ViewInv
  <1>1. ViewInit => ViewInv
    <2> SUFFICES ASSUME ViewInit PROVE ViewInv
      OBVIOUS
    <2>1. TypeOK /\ rows \in Seq(Nat) /\ answer \in Answers
      BY InitIInv, AnswersAre DEF ViewInit, IInv
    <2>2. ViewTypeOK
      BY <2>1 DEF ViewInit, ViewTypeOK, Answers
    <2>3. Seen = {0} /\ serving[Campaigns] = <<>> /\ mart[Campaigns] = 0
      BY AnswersAre DEF ViewInit, Init, Seen, Newest, Tables, Campaigns
    <2>4. Behind
      BY <2>3 DEF ViewInit, Behind
    <2> QED
      BY <2>2, <2>4 DEF ViewInit, ViewInv, Held, CalmViewIsCurrent
  <1>2. /\ IInv /\ Fresh /\ MartsBehind /\ ViewInv
        /\ TypeOK /\ TypeOK' /\ [ViewNext]_<<vars, viewVars>>
        => ViewInv'
    <2> SUFFICES ASSUME IInv, Fresh, MartsBehind, ViewInv,
                        TypeOK, TypeOK', [ViewNext]_<<vars, viewVars>>
                 PROVE  ViewInv'
      OBVIOUS
    <2>1. CASE Refresh
      BY <2>1, RefreshStep
    <2>2. CASE Serve /\ UNCHANGED vars
      BY <2>2, ServeStep
    <2>3. CASE UNCHANGED <<vars, viewVars>>
      BY <2>3 DEF vars, viewVars, request, ViewInv, ViewTypeOK, Held, Behind, Seen,
           CalmViewIsCurrent, Resting, Idle
    <2> QED
      BY <2>1, <2>2, <2>3 DEF ViewNext
  <1> QED
    BY <1>1, <1>2, ViewRefines, TypesHold, RefreshInvariant, FreshInvariant, MartsFollow,
       PTL DEF ViewSpec

\* The state of the job and of the request keeps its type.
THEOREM ViewTypes == ViewSpec => []ViewTypeOK
  BY ViewInvariant, PTL DEF ViewInv

\* While the job rests, the sections of an answer belong together.
THEOREM CalmViews == ViewSpec => []CalmViewIsCurrent
  BY ViewInvariant, PTL DEF ViewInv

\* No caller gets figures older than one before it got, whatever runs overlap.
THEOREM NoViewGoesBack == ViewSpec => []ViewsNeverGoBack
  <1>1. ViewInv => ViewsNeverGoBack
    BY DEF ViewInv, Behind, Seen, ViewsNeverGoBack
  <1> QED
    BY ViewInvariant, <1>1, PTL
=============================================================================
