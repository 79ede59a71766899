---------------------------- MODULE BootstrapView ----------------------------
(***************************************************************************)
(* GET /api/bootstrap and GET /api/analytics beside the refresh job:       *)
(* Service.Load and LoadAnalytics (internal/application/bootstrap), the    *)
(* row of appdb they start from and the Trino client that asks for the     *)
(* campaign figures of the serving table.  The bootstrap answer has both:  *)
(* its analytics section is Trino's, read while runs of BatchRefresh       *)
(* truncate and fill the table, or without Trino a text without figures;   *)
(* its other sections always show the live figures of appdb.               *)
(*                                                                         *)
(* Requests share nothing but what they read, so one request after the     *)
(* other stands for any number of them.  The figures of a table are the    *)
(* versions its rows came from; <<>> are the zeros of an empty table.      *)
(***************************************************************************)
EXTENDS BatchRefresh

Routes == {"/api/bootstrap", "/api/analytics"}

VARIABLES
  phase,      \* what the request under way waits for
  route,      \* what it asks for
  live,       \* the version its row of platform_bootstrap shows, once read
  statement,  \* what has become of its statement in Trino
  rows,       \* the rows Trino has for it
  answer      \* what the last caller got

\* Observation only: has the refresh job rested since the request came, its
\* latest run done and overlapped by none; the newest figures of Trino any
\* caller before this one got.
VARIABLES calm, shown

request  == <<phase, route, live, statement, rows, answer>>
viewVars == <<request, calm, shown>>

Asking   == {"row", "reply", "next"}
Campaign == "campaign_performance"

NoAnswer == [kind |-> "none", live |-> {}, figures |-> <<>>]
Error    == [kind |-> "error", live |-> {}, figures |-> <<>>]

ViewTypeOK ==
  /\ TypeOK
  /\ phase \in Asking \cup {"answered"}
  /\ route \in Routes \cup {"none"}
  /\ live \subseteq Nat
  /\ statement \in {"none", "queued", "executed"}
  /\ rows \in Seq(Nat)
  /\ answer \in [kind : {"none", "error", "appdb", "trino"}, live : SUBSET Nat, figures : Seq(Nat)]
  /\ calm \in BOOLEAN
  /\ shown \in Nat

\* The latest run overlapped with none, it is done, and none has started since.
Resting == (\A r \in Runs : Idle(r)) /\ \E r \in alone : pc[r] = "done"

ViewInit ==
  /\ Init
  /\ phase = "answered" /\ route = "none"
  /\ live = {} /\ statement = "none" /\ rows = <<>>
  /\ answer = NoAnswer
  /\ calm = FALSE /\ shown = 0

-----------------------------------------------------------------------------
\* The newest version among the rows of a table, which are in the order of
\* their inserts.
Newest(figures, default) == IF figures = <<>> THEN default ELSE figures[Len(figures)]

\* A variant that keeps the figures of Trino for later requests.
AskOnce(p) ==
  /\ phase = "answered"
  /\ route' = p
  /\ phase' = "reply"
  /\ statement' = IF answer.kind = "trino" THEN "executed" ELSE "queued"
  /\ rows' = answer.figures
  /\ answer' = NoAnswer
  /\ calm' = Resting
  /\ shown' = Newest(answer.figures, shown)
  /\ UNCHANGED live

\* Only the bootstrap view needs appdb; both post a statement to Trino.
Ask(p) ==
  /\ phase = "answered"
  /\ route' = p
  /\ IF p = "/api/bootstrap"
     THEN phase' = "row" /\ UNCHANGED statement
     ELSE phase' = "reply" /\ statement' = "queued"
  /\ answer' = NoAnswer
  /\ calm' = Resting
  /\ shown' = Newest(answer.figures, shown)
  /\ UNCHANGED <<live, rows>>

\* One statement reads every section of the view, so of one moment.
LoadRow ==
  /\ phase = "row"
  /\ live' = {version}
  /\ phase' = "reply" /\ statement' = "queued"
  /\ UNCHANGED <<route, rows, answer, calm, shown>>

\* A request that took longer than the server's WriteTimeout of 15 s runs to
\* its end all the same, and then has no connection to write its answer to.
Answer(a) ==
  /\ phase' = "answered" /\ answer' \in {a, Error}
  /\ route' = "none" /\ live' = {} /\ statement' = "none" /\ rows' = <<>>
  /\ UNCHANGED <<calm, shown>>

\* No row, an empty section or one that does not decode.
LoadRowFails == phase = "row" /\ Answer(Error)

\* Trino executes a statement when it gets to it, if ever.
Execute ==
  /\ statement = "queued"
  /\ statement' = "executed" /\ rows' = serving[Campaign]
  /\ UNCHANGED <<phase, route, live, answer, calm, shown>>

\* While the statement is not executed, a page has a nextUri and no data.
Page ==
  /\ phase = "reply" /\ statement = "queued"
  /\ phase' = "next"
  /\ UNCHANGED <<route, live, statement, rows, answer, calm, shown>>

\* query() asks again where the page tells it to.
Follow ==
  /\ phase = "next"
  /\ phase' = "reply"
  /\ UNCHANGED <<route, live, statement, rows, answer, calm, shown>>

\* A page without a nextUri ends the loop; the statement has one row, and it
\* has come with this page or the one before.  Trino's figures replace the
\* analytics section, the other sections stay as appdb had them.
LastPage ==
  /\ phase = "reply" /\ statement = "executed"
  /\ Answer([kind |-> "trino", live |-> live, figures |-> rows])

\* A variant that asks for a page again, as often as it takes.
RetryPage ==
  /\ phase = "reply"
  /\ phase' = "next"
  /\ UNCHANGED <<route, live, statement, rows, answer, calm, shown>>

\* An error in a page, also after the data, a status of 400 or more, or the
\* client's 15 s for one HTTP request: Load keeps the analytics section of
\* appdb, a text without figures.
TrinoFails ==
  /\ phase = "reply"
  /\ Answer(IF route = "/api/bootstrap" THEN [kind |-> "appdb", live |-> live, figures |-> <<>>]
            ELSE Error)

\* The caller closes its connection, which cancels the request's context.
GiveUp == phase \in Asking /\ Answer(Error)

Progress == LoadRow \/ Page \/ Follow \/ LastPage \/ TrinoFails

Serve == (\E p \in Routes : Ask(p)) \/ Progress \/ LoadRowFails \/ Execute \/ GiveUp

\* A step of the refresh job; a start ends the rest.
Refresh ==
  /\ Next
  /\ calm' = (calm /\ \A r \in Runs : pc'[r] \notin Active)
  /\ UNCHANGED <<request, shown>>

ViewNext == Refresh \/ (Serve /\ UNCHANGED vars)

ViewSpec == ViewInit /\ [][ViewNext]_<<vars, viewVars>>

\* Postgres answers, an HTTP request to Trino ends within the client's 15 s,
\* and query() goes on.  When Trino executes a statement is its own affair.
FairViewSpec == ViewSpec /\ Fairness /\ WF_viewVars(Progress)

-----------------------------------------------------------------------------
\* Where the refresh job rests, the sections of an answer belong together,
\* though they are read from two systems one after the other: Trino's figures
\* are the published mart, not the zeros of a table between TRUNCATE and
\* INSERT, nor an earlier run's, nor twice, and whatever the live figures of
\* appdb are ahead of them came after the start of the latest run.
CalmViewIsCurrent ==
  /\ calm /\ answer.kind = "trino" =>
       /\ answer.figures = <<mart[Campaign]>>
       /\ since <= mart[Campaign]
       /\ \A v \in answer.live : mart[Campaign] <= v /\ v <= version
  /\ calm /\ answer.kind = "appdb" => \A v \in answer.live : since <= v /\ v <= version

\* A caller gets zeros while a table is empty, or figures at least as new as
\* any caller before it got, whatever runs overlapped or failed meanwhile.
ViewsNeverGoBack == answer.kind = "trino" => shown <= Newest(answer.figures, shown)

\* Every request is answered, however often Trino has it ask again, unless
\* Trino never gets to its statement: nothing but the caller ends it then.
EveryViewAnswered ==
  \/ <>[](phase # "answered" /\ statement = "queued")
  \/ phase # "answered" ~> phase = "answered"
=============================================================================
