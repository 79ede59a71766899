--------------------------- MODULE SubscriberStore ---------------------------
(***************************************************************************)
(* createSubscriber of AppDBRepository (internal/adapters/content): unlike *)
(* the campaign operations it runs in one transaction, on a connection of  *)
(* a pool.  Transactions are READ COMMITTED: a statement sees what others  *)
(* had committed when it began, and its own transaction's writes.  The     *)
(* upsert locks the subscriber's row until the end; an insert of a filter  *)
(* label waits for the transaction that is adding the same label, and      *)
(* Postgres aborts one of the transactions that wait for each other.       *)
(***************************************************************************)
EXTENDS SubscriberIdentity, Naturals

CONSTANTS
  Requests,     \* request handlers; each serves one command
  Subscribers,  \* subscriber identifiers
  Labels,       \* filter labels
  SeedLabels,   \* labels 02_platform_bootstrap.sql inserts, in their order
  Catalogue,    \* commands: what names a subscriber, its segments and labels
  PoolSize      \* db.SetMaxOpenConns

ASSUME PoolAssumption == PoolSize \in Nat \ {0}
ASSUME LabelsAssumption == SeedLabels \in Seq(Labels) /\ IsInjective(SeedLabels)

\* metadataStrings never returns an empty list.
ASSUME CatalogueAssumption ==
  \A c \in Catalogue :
    /\ \A s \in Seconds : resolveSubscriberID(c, s) \in Subscribers
    /\ c.segments # <<>> /\ c.filters # <<>>
    /\ c.filters \in Seq(Labels)

VARIABLES
  subscribers,  \* display_order of the rows of platform_subscriber, else 0
  emails,       \* their addresses; Missing is the one made of the identifier
  filters,      \* display_order of the rows of platform_filter, else 0
  tags,         \* rows of the tables of segments and of filter assignments
  command,      \* what each handler was called with, unless it left nothing
  subscriberID, \* the subscriber it resolved that to, else ""
  pc,           \* its next statement, or how it ended
  tx            \* its transaction

\* Observation only: the labels a label's number was computed from.
VARIABLE seen

tables == <<subscribers, emails, filters, tags>>
vars   == <<tables, command, subscriberID, pc, tx, seen>>

Statements ==
  {"lookup", "next", "upsert", "clearSegments", "clearFilters", "addSegments",
   "lookupFilter", "nextFilter", "addFilter", "assign", "commit"}

\* What a handler that has not been called was called with.
NoCommand == [subject |-> Missing, subscriberId |-> Missing, email |-> Missing, name |-> Missing,
              segments |-> <<>>, filters |-> <<>>]

\* A transaction that holds no connection, no lock and no uncommitted row.
NoTx ==
  [open |-> FALSE, order |-> 0, row |-> 0, at |-> 1, deleted |-> {}, inserted |-> {},
   labels |-> [l \in Labels |-> 0], saw |-> [l \in Labels |-> {}]]

Tag(kind, s, label) == [kind |-> kind, subscriber |-> s, label |-> label]

SegmentTags(s, c) == {Tag("segment", s, g) : g \in ToSet(c.segments)}
FilterTags(s, c)  == {Tag("filter", s, l) : l \in ToSet(c.filters)}

AllTags == UNION {SegmentTags(s, c) \cup FilterTags(s, c) : s \in Subscribers, c \in Catalogue}

TypeOK ==
  /\ subscribers \in [Subscribers -> Nat]
  /\ emails \in [Subscribers -> {c.email : c \in Catalogue} \cup {Missing}]
  /\ filters \in [Labels -> Nat]
  /\ tags \subseteq AllTags
  /\ command \in [Requests -> Catalogue \cup {NoCommand}]
  /\ subscriberID \in [Requests -> Subscribers \cup {""}]
  /\ pc \in [Requests -> Statements \cup {"idle", "queued", "stored", "failed"}]
  /\ \A r \in Requests :
       /\ tx[r].open = (pc[r] \in Statements)
       /\ tx[r].order \in Nat /\ tx[r].row \in Nat
       /\ pc[r] \in Statements => tx[r].at \in 1 .. Len(command[r].filters)
       /\ tx[r].deleted \cup tx[r].inserted \subseteq AllTags
       /\ tx[r].labels \in [Labels -> Nat]
  /\ seen \in [Labels -> SUBSET Labels]

Init ==
  /\ subscribers = [s \in Subscribers |-> 0]
  /\ emails = [s \in Subscribers |-> Missing]
  /\ filters = [l \in Labels |->
                  IF l \in ToSet(SeedLabels)
                  THEN CHOOSE i \in DOMAIN SeedLabels : SeedLabels[i] = l ELSE 0]
  /\ tags = {}
  /\ command = [r \in Requests |-> NoCommand]
  /\ subscriberID = [r \in Requests |-> ""]
  /\ pc = [r \in Requests |-> "idle"]
  /\ tx = [r \in Requests |-> NoTx]
  /\ seen = [l \in Labels |-> {}]

-----------------------------------------------------------------------------
Subscriber(r) == subscriberID[r]
Label(r)      == command[r].filters[tx[r].at]

\* The order of a label as r's transaction sees it.
Seen(r, l) == IF tx[r].labels[l] # 0 THEN tx[r].labels[l] ELSE filters[l]

\* r has upserted its subscriber and not ended.
HoldsRow(r, s) == tx[r].row # 0 /\ Subscriber(r) = s

\* Whom r waits for, at the statements that can wait.
Blockers(r) ==
  {q \in Requests \ {r} :
     \/ pc[r] = "upsert" /\ HoldsRow(q, Subscriber(r))
     \/ pc[r] = "addFilter" /\ tx[q].labels[Label(r)] # 0}

\* The transactions that wait for each other in a circle.
Deadlocked ==
  UNION {S \in SUBSET Requests :
           \A r \in S : /\ \E q \in S : q \in Blockers(r)
                        /\ \E q \in S : r \in Blockers(q)}

Step(r, from, to) ==
  /\ pc[r] = from
  /\ pc' = [pc EXCEPT ![r] = to]
  /\ UNCHANGED <<tables, command, subscriberID, seen>>

\* The handler answers with an error and is gone; nothing was committed.
Return(r) ==
  /\ pc' = [pc EXCEPT ![r] = "failed"]
  /\ tx' = [tx EXCEPT ![r] = NoTx]
  /\ command' = [command EXCEPT ![r] = NoCommand]
  /\ subscriberID' = [subscriberID EXCEPT ![r] = ""]
  /\ UNCHANGED <<tables, seen>>

\* coalesce(max(display_order), 0) + 1
IsNext(n, orders) == n \in {1} \cup {o + 1 : o \in orders} /\ \A o \in orders : o < n

Arrive(r, c) ==
  /\ pc[r] = "idle"
  /\ pc' = [pc EXCEPT ![r] = "queued"]
  /\ command' = [command EXCEPT ![r] = c]
  /\ UNCHANGED <<tables, subscriberID, tx, seen>>

\* BeginTx waits for a connection, so requests reach resolveSubscriberID in
\* any order, and the clock may be set back.
Begin(r) ==
  /\ pc[r] = "queued"
  /\ Cardinality({q \in Requests : tx[q].open}) < PoolSize
  /\ pc' = [pc EXCEPT ![r] = "lookup"]
  /\ \E s \in Seconds :
       subscriberID' = [subscriberID EXCEPT ![r] = resolveSubscriberID(command[r], s)]
  /\ tx' = [tx EXCEPT ![r].open = TRUE]
  /\ UNCHANGED <<tables, command, seen>>

LookupSubscriber(r) ==
  /\ pc[r] = "lookup"
  /\ Step(r, "lookup", IF subscribers[Subscriber(r)] = 0 THEN "next" ELSE "upsert")
  /\ tx' = [tx EXCEPT ![r].order = subscribers[Subscriber(r)]]

NextSubscriber(r) ==
  /\ Step(r, "next", "upsert")
  /\ \E n \in 1 .. Cardinality(Subscribers) + 1 :
       /\ IsNext(n, {subscribers[s] : s \in Subscribers})
       /\ tx' = [tx EXCEPT ![r].order = n]

\* A variant that leaves a row that is already there, and so does not lock it.
UpsertOrNothing(r) ==
  /\ Step(r, "upsert", "clearSegments")
  /\ subscribers[Subscriber(r)] # 0 \/ Blockers(r) = {}
  /\ tx' = [tx EXCEPT ![r].row = IF subscribers[Subscriber(r)] = 0 THEN tx[r].order ELSE 0]

\* The row found is updated in place: its display_order stays.
Upsert(r) ==
  /\ Step(r, "upsert", "clearSegments")
  /\ Blockers(r) = {}
  /\ tx' = [tx EXCEPT ![r].row = IF subscribers[Subscriber(r)] = 0
                                 THEN tx[r].order ELSE subscribers[Subscriber(r)]]

TagsOf(s, kind) == {t \in tags : t.subscriber = s /\ t.kind = kind}

ClearSegments(r) ==
  /\ Step(r, "clearSegments", "clearFilters")
  /\ tx' = [tx EXCEPT ![r].deleted = @ \cup TagsOf(Subscriber(r), "segment")]

ClearFilters(r) ==
  /\ Step(r, "clearFilters", "addSegments")
  /\ tx' = [tx EXCEPT ![r].deleted = @ \cup TagsOf(Subscriber(r), "filter")]

AddSegments(r) ==
  /\ Step(r, "addSegments", "lookupFilter")
  /\ IsInjective(command[r].segments)
  /\ tx' = [tx EXCEPT ![r].inserted = @ \cup SegmentTags(Subscriber(r), command[r])]

\* A variant that returns the error and leaves the transaction open.
KeepOnRepeatedSegment(r) ==
  /\ ~IsInjective(command[r].segments)
  /\ Step(r, "addSegments", "failed")
  /\ UNCHANGED tx

\* A segment named twice is a duplicate key.
RefuseRepeatedSegment(r) ==
  /\ pc[r] = "addSegments"
  /\ ~IsInjective(command[r].segments)
  /\ Return(r)

LookupFilter(r) ==
  /\ pc[r] = "lookupFilter"
  /\ Step(r, "lookupFilter", IF Seen(r, Label(r)) = 0 THEN "nextFilter" ELSE "assign")
  /\ UNCHANGED tx

\* A variant that asks on another connection, outside the transaction.
NextFilterOutside(r) ==
  /\ Step(r, "nextFilter", "addFilter")
  /\ \E n \in 1 .. Cardinality(Labels) + 1 :
       /\ IsNext(n, {filters[l] : l \in Labels})
       /\ tx' = [tx EXCEPT ![r].order = n,
                           ![r].saw[Label(r)] = {l \in Labels : Seen(r, l) # 0}]

NextFilter(r) ==
  /\ Step(r, "nextFilter", "addFilter")
  /\ \E n \in 1 .. Cardinality(Labels) + 1 :
       /\ IsNext(n, {Seen(r, l) : l \in Labels})
       /\ tx' = [tx EXCEPT ![r].order = n,
                           ![r].saw[Label(r)] = {l \in Labels : Seen(r, l) # 0}]

\* A variant whose conflict clause renumbers the label.
AddFilterRenumbering(r) ==
  /\ Step(r, "addFilter", "assign")
  /\ Blockers(r) = {}
  /\ tx' = [tx EXCEPT ![r].labels[Label(r)] = tx[r].order]

\* on conflict do nothing, once nobody else is adding the label.
AddFilter(r) ==
  /\ Step(r, "addFilter", "assign")
  /\ Blockers(r) = {}
  /\ tx' = [tx EXCEPT ![r].labels[Label(r)] = IF filters[Label(r)] = 0 THEN tx[r].order ELSE 0]

\* The foreign key needs the label.
AssignFilter(r) ==
  /\ pc[r] = "assign"
  /\ LET last == tx[r].at = Len(command[r].filters) IN
       /\ Step(r, "assign", IF last THEN "commit" ELSE "lookupFilter")
       /\ Seen(r, Label(r)) # 0
       /\ tx' = [tx EXCEPT ![r].inserted = @ \cup {Tag("filter", Subscriber(r), Label(r))},
                           ![r].at = IF last THEN @ ELSE @ + 1]

\* The commit takes effect; its reply may be lost.
Commit(r) ==
  /\ pc[r] = "commit"
  /\ subscribers' = [subscribers EXCEPT ![Subscriber(r)] = IF @ = 0 THEN tx[r].row ELSE @]
  /\ emails' = [emails EXCEPT ![Subscriber(r)] = command[r].email]
  /\ filters' = [l \in Labels |-> Seen(r, l)]
  /\ tags' = (tags \ tx[r].deleted) \cup tx[r].inserted
  /\ seen' = [l \in Labels |-> IF tx[r].labels[l] # 0 THEN tx[r].saw[l] ELSE seen[l]]
  /\ pc' \in {[pc EXCEPT ![r] = "stored"], [pc EXCEPT ![r] = "failed"]}
  /\ tx' = [tx EXCEPT ![r] = NoTx]
  /\ UNCHANGED <<command, subscriberID>>

Rollback(r) == pc[r] \in Statements /\ Return(r)

\* Postgres breaks the circle after its deadlock_timeout.
AbortDeadlocked(r) == Blockers(r) # {} /\ r \in Deadlocked /\ Rollback(r)

\* A statement fails, the request is cancelled or the connection is lost,
\* also while waiting for one.
Fail(r) == Rollback(r) \/ (pc[r] = "queued" /\ Return(r))

Handle(r) ==
  \/ Begin(r)
  \/ LookupSubscriber(r) \/ NextSubscriber(r) \/ Upsert(r)
  \/ ClearSegments(r) \/ ClearFilters(r) \/ AddSegments(r) \/ RefuseRepeatedSegment(r)
  \/ LookupFilter(r) \/ NextFilter(r) \/ AddFilter(r) \/ AssignFilter(r)
  \/ Commit(r)
  \/ AbortDeadlocked(r)

Next == \E r \in Requests : (\E c \in Catalogue : Arrive(r, c)) \/ Handle(r) \/ Fail(r)

Spec == Init /\ [][Next]_vars

\* Handlers are scheduled, Postgres answers, and looks for deadlocks.
FairSpec == Spec /\ \A r \in Requests : WF_vars(Handle(r))

-----------------------------------------------------------------------------
\* A subscriber's address, segments and filter labels are those of one
\* command, never a mixture, though the commands of one subscriber replace
\* each other's rows in several statements; and a stored command left such a
\* subscriber.
SubscriberIsWhole ==
  /\ \A s \in Subscribers :
       LET rows == {t \in tags : t.subscriber = s} IN
       IF subscribers[s] = 0 THEN rows = {}
       ELSE \E r \in Requests :
              /\ pc[r] \in {"stored", "failed"} /\ Subscriber(r) = s
              /\ emails[s] = command[r].email
              /\ rows = SegmentTags(s, command[r]) \cup FilterTags(s, command[r])
  /\ \A r \in Requests : pc[r] = "stored" => subscribers[Subscriber(r)] # 0

\* A label comes after every label its transaction could see when it was
\* numbered, those the same command added before it included.
LabelsNumberedInTurn ==
  \A l \in Labels : filters[l] # 0 =>
    \A m \in seen[l] : filters[m] \in 1 .. filters[l] - 1

\* Every command is answered and its connection returned, though commands
\* that name the same new labels in different orders deadlock: a handler
\* serves one command, so from some time on none is under way.
EveryCommandEnds ==
  <>[](\A r \in Requests : pc[r] \in {"idle", "stored", "failed"} /\ ~tx[r].open)

-----------------------------------------------------------------------------
(* The same, seen from outside.                                            *)

UnderWay(r) == pc[r] \in Statements \cup {"queued"}

Table == INSTANCE SubscriberTable WITH
       NoAddress <- Missing,
       Resolves  <- [c \in Catalogue |-> {resolveSubscriberID(c, s) : s \in Seconds}],
       rows      <- [s \in Subscribers |->
                       [email |-> emails[s],
                        segments |-> {t.label : t \in TagsOf(s, "segment")},
                        labels |-> {t.label : t \in TagsOf(s, "filter")}]],
       places    <- subscribers,
       numbers   <- filters,
       called    <- [r \in Requests |-> IF UnderWay(r) THEN command[r] ELSE NoCommand],
       phase     <- [r \in Requests |-> IF UnderWay(r) THEN "running" ELSE pc[r]]

\* The statements of createSubscriber, between those of the others and with
\* every way to end, come to one replacement at one instant or to none: no
\* label is renumbered, no row is moved and no other subscriber is touched.
ImplementsTable == Table!Spec
=============================================================================
