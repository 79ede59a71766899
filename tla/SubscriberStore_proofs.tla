------------------------ MODULE SubscriberStore_proofs ------------------------
(***************************************************************************)
(* The properties of SubscriberStore, for every set of handlers,           *)
(* subscribers, labels and commands, and every size of the pool.           *)
(*                                                                         *)
(* The invariant has parts that rest on Types alone and not on each other. *)
(* Resolved keeps which identifier a handler works on.  LabelInv needs     *)
(* that one transaction at a time adds a label (AddsAlone), or a commit    *)
(* could change a number another had counted from.  RowInv follows a       *)
(* transaction through its deletes and inserts (Progress); it stays true   *)
(* while others commit because the upsert has locked the row (OneWriter).  *)
(* AllReady says that the labels a command has dealt with have a number,   *)
(* and no others, which the step Commit of the refinement needs.           *)
(***************************************************************************)
EXTENDS SubscriberStore, FiniteSetTheorems, TLAPS

Transactions ==
  [open : BOOLEAN, order : Nat, row : Nat, at : Nat,
   deleted : SUBSET AllTags, inserted : SUBSET AllTags,
   labels : [Labels -> Nat], saw : [Labels -> SUBSET Labels]]

Stages == Statements \cup {"idle", "queued", "stored", "failed"}

\* What a handler has at hand: a command once it is called, a subscriber
\* and a transaction only while it is at a statement.
AtHand(r) ==
  /\ pc[r] \in Statements \cup {"queued", "stored"} => command[r] \in Catalogue
  /\ pc[r] \in Statements \cup {"stored"} => subscriberID[r] \in Subscribers
  /\ pc[r] \in Statements => tx[r].open /\ tx[r].at \in 1 .. Len(command[r].filters)
  /\ pc[r] \notin Statements => tx[r] = NoTx

Types ==
  /\ subscribers \in [Subscribers -> Nat]
  /\ emails \in [Subscribers -> {c.email : c \in Catalogue} \cup {Missing}]
  /\ filters \in [Labels -> Nat]
  /\ tags \subseteq AllTags
  /\ command \in [Requests -> Catalogue \cup {NoCommand}]
  /\ subscriberID \in [Requests -> Subscribers \cup {""}]
  /\ pc \in [Requests -> Stages]
  /\ tx \in [Requests -> Transactions]
  /\ seen \in [Labels -> SUBSET Labels]
  /\ \A r \in Requests : AtHand(r)

-----------------------------------------------------------------------------
\* A command of the catalogue names a subscriber, labels and no other tags.
LEMMA CommandTags ==
  ASSUME NEW c \in Catalogue
  PROVE  /\ \A s \in Seconds : resolveSubscriberID(c, s) \in Subscribers
         /\ c.filters \in Seq(Labels) /\ Len(c.filters) \in Nat \ {0}
         /\ \A i \in 1 .. Len(c.filters) : c.filters[i] \in Labels
         /\ \A s \in Subscribers : SegmentTags(s, c) \cup FilterTags(s, c) \subseteq AllTags
         /\ \A s \in Subscribers, i \in 1 .. Len(c.filters) :
              Tag("filter", s, c.filters[i]) \in FilterTags(s, c)
  <1>1. c.filters \in Seq(Labels) /\ c.filters # <<>>
    BY CatalogueAssumption
  <1>2. Len(c.filters) \in Nat \ {0} /\ \A i \in 1 .. Len(c.filters) : c.filters[i] \in Labels
    BY <1>1
  <1>3. \A s \in Subscribers : SegmentTags(s, c) \cup FilterTags(s, c) \subseteq AllTags
    <2> TAKE s \in Subscribers
    <2> DEFINE T == {SegmentTags(x, d) \cup FilterTags(x, d) : x \in Subscribers, d \in Catalogue}
    <2>1. SegmentTags(s, c) \cup FilterTags(s, c) \in T
      OBVIOUS
    <2>2. AllTags = UNION T
      BY DEF AllTags
    <2> HIDE DEF T
    <2> QED
      BY <2>1, <2>2
  <1>4. ToSet(c.filters) = {c.filters[i] : i \in 1 .. Len(c.filters)}
    BY <1>1 DEF ToSet
  <1>5. \A s \in Subscribers, i \in 1 .. Len(c.filters) :
          Tag("filter", s, c.filters[i]) \in FilterTags(s, c)
    BY <1>4 DEF FilterTags
  <1> QED
    BY <1>1, <1>2, <1>3, <1>5, CatalogueAssumption

\* A handler without a transaction has an empty one.
LEMMA NoTxType == NoTx \in Transactions
  BY DEF NoTx, Transactions

\* The seeded tables have their types.
LEMMA InitTypes == Init => Types
  <1> SUFFICES ASSUME Init PROVE Types
    OBVIOUS
  <1>1. filters \in [Labels -> Nat]
    <2> SUFFICES ASSUME NEW l \in ToSet(SeedLabels)
                 PROVE  (CHOOSE i \in DOMAIN SeedLabels : SeedLabels[i] = l) \in Nat
      BY DEF Init
    <2>1. \E i \in DOMAIN SeedLabels : SeedLabels[i] = l
      BY LabelsAssumption DEF ToSet
    <2>2. DOMAIN SeedLabels \subseteq Nat
      BY LabelsAssumption
    <2> QED
      BY <2>1, <2>2
  <1>2. /\ subscribers \in [Subscribers -> Nat] /\ tags \subseteq AllTags
        /\ emails \in [Subscribers -> {c.email : c \in Catalogue} \cup {Missing}]
        /\ command \in [Requests -> Catalogue \cup {NoCommand}]
        /\ subscriberID \in [Requests -> Subscribers \cup {""}]
        /\ pc \in [Requests -> Stages]
        /\ seen \in [Labels -> SUBSET Labels]
    BY DEF Init, Stages
  <1>3. tx \in [Requests -> Transactions]
    BY NoTxType DEF Init
  <1>4. \A r \in Requests : AtHand(r)
    BY DEF Init, AtHand, Statements
  <1> QED
    BY <1>1, <1>2, <1>3, <1>4 DEF Types

\* What a step of a handler at a statement does to the others, and what it
\* keeps of its own.
LEMMA StepFrame ==
  ASSUME Types, NEW r \in Requests, NEW from \in Statements, NEW to \in Statements,
         Step(r, from, to),
         tx' \in [Requests -> Transactions], \A q \in Requests \ {r} : tx'[q] = tx[q],
         tx'[r].open, tx'[r].at \in 1 .. Len(command[r].filters)
  PROVE  Types'
  <1>1. /\ pc' \in [Requests -> Stages] /\ pc'[r] = to /\ \A q \in Requests \ {r} : pc'[q] = pc[q]
        /\ UNCHANGED <<tables, command, subscriberID, seen>> /\ pc[r] \in Statements
    BY DEF Step, Types, Stages
  <1>2. ASSUME NEW q \in Requests PROVE AtHand(q)'
    <2>1. CASE q = r
      BY <1>1, <2>1 DEF AtHand, Types
    <2>2. CASE q # r
      BY <1>1, <2>2 DEF AtHand, Types
    <2> QED
      BY <2>1, <2>2
  <1> QED
    BY <1>1, <1>2 DEF Types, tables

\* A handler that returns with an error leaves every type as it was.
LEMMA ReturnTypes ==
  ASSUME Types, NEW r \in Requests, Return(r)
  PROVE  Types'
  <1>1. \A q \in Requests : AtHand(q)'
    BY DEF Types, AtHand, Return, Statements
  <1>2. tx' \in [Requests -> Transactions]
    BY NoTxType DEF Types, Return
  <1> QED
    BY <1>1, <1>2 DEF Types, Return, tables, Stages

\* What is seen of a label has the type of a number.
LEMMA SeenType ==
  ASSUME Types, NEW r \in Requests
  PROVE  \A l \in Labels : Seen(r, l) \in Nat
  BY DEF Types, Transactions, Seen

\* Every step keeps the types.
LEMMA TypesStep ==
  ASSUME Types, [Next]_vars
  PROVE  Types'
  <1>1. CASE UNCHANGED vars
    BY <1>1 DEF vars, tables, Types, AtHand
  <1>2. CASE Next
    <2> PICK r \in Requests : (\E c \in Catalogue : Arrive(r, c)) \/ Handle(r) \/ Fail(r)
      BY <1>2 DEF Next
    <2>0. /\ AtHand(r) /\ tx[r] \in Transactions
          /\ \A c \in Catalogue : Len(c.filters) \in Nat \ {0}
      BY CommandTags DEF Types
    <2>1. CASE \E c \in Catalogue : Arrive(r, c)
      <3> PICK c \in Catalogue : Arrive(r, c)
        BY <2>1
      <3>1. \A q \in Requests : AtHand(q)'
        BY DEF Types, AtHand, Arrive, Statements
      <3> QED
        BY <3>1 DEF Types, Arrive, tables, Stages
    <2>2. CASE Begin(r)
      <3>1. PICK s \in Seconds :
              subscriberID' = [subscriberID EXCEPT ![r] = resolveSubscriberID(command[r], s)]
        BY <2>2 DEF Begin
      <3>2. command[r] \in Catalogue /\ tx[r] = NoTx
        BY <2>0, <2>2 DEF Begin, AtHand, Statements
      <3>3. /\ subscriberID' \in [Requests -> Subscribers \cup {""}] /\ subscriberID'[r] \in Subscribers
            /\ \A q \in Requests \ {r} : subscriberID'[q] = subscriberID[q]
        BY <3>1, <3>2, CommandTags DEF Types
      <3>4. /\ tx' \in [Requests -> Transactions] /\ tx'[r].open /\ tx'[r].at = 1
            /\ \A q \in Requests \ {r} : tx'[q] = tx[q]
        <4>1. tx[r].open \in BOOLEAN /\ tx[r].at = 1 /\ tx' = [tx EXCEPT ![r].open = TRUE]
          BY <2>2, <3>2 DEF Begin, NoTx
        <4>2. tx \in [Requests -> Transactions]
          BY DEF Types
        <4>3. tx' = [tx EXCEPT ![r] = [tx[r] EXCEPT !.open = TRUE]]
          BY <4>1, <4>2 DEF Transactions
        <4>4. [tx[r] EXCEPT !.open = TRUE] \in Transactions
          BY <4>2 DEF Transactions
        <4> QED
          BY <4>1, <4>2, <4>3, <4>4 DEF Transactions
      <3>5. /\ pc' \in [Requests -> Stages] /\ pc'[r] \in Statements
            /\ \A q \in Requests \ {r} : pc'[q] = pc[q]
            /\ UNCHANGED <<tables, command, seen>>
        BY <2>2 DEF Begin, Types, Stages, Statements
      <3>6. ASSUME NEW q \in Requests PROVE AtHand(q)'
        <4>0. 1 \in 1 .. Len(command'[r].filters)
          BY <2>0, <3>2, <3>5
        <4>1. CASE q = r
          BY <4>0, <3>2, <3>3, <3>4, <3>5, <4>1 DEF AtHand
        <4>2. CASE q # r
          BY <3>3, <3>4, <3>5, <4>2 DEF AtHand, Types
        <4> QED
          BY <4>1, <4>2
      <3> QED
        BY <3>3, <3>4, <3>5, <3>6 DEF Types, tables
    <2>3. CASE LookupSubscriber(r)
      BY <2>0, <2>3, StepFrame DEF LookupSubscriber, AtHand, Types, Transactions, Statements, Subscriber
    <2>4. CASE NextSubscriber(r)
      <3>1. PICK n \in Nat : tx' = [tx EXCEPT ![r].order = n]
        <4>0. subscribers \in [Subscribers -> Nat]
          BY DEF Types
        <4>1. \A s \in Subscribers : subscribers[s] + 1 \in Nat
          BY <4>0
        <4> QED
          BY <2>4, <4>1 DEF NextSubscriber, IsNext
      <3>2. Step(r, "next", "upsert") /\ pc[r] = "next"
        BY <2>4 DEF NextSubscriber, Step
      <3> QED
        BY <2>0, <3>1, <3>2, StepFrame DEF AtHand, Types, Transactions, Statements
    <2>5. CASE Upsert(r)
      BY <2>0, <2>5, StepFrame DEF Upsert, AtHand, Types, Transactions, Statements, Subscriber, Step
    <2>6. CASE ClearSegments(r)
      BY <2>0, <2>6, StepFrame DEF ClearSegments, AtHand, Types, Transactions, Statements, Step, TagsOf
    <2>7. CASE ClearFilters(r)
      BY <2>0, <2>7, StepFrame DEF ClearFilters, AtHand, Types, Transactions, Statements, Step, TagsOf
    <2>8. CASE AddSegments(r)
      <3>1. SegmentTags(Subscriber(r), command[r]) \subseteq AllTags
        BY <2>0, <2>8, CommandTags DEF AddSegments, Step, AtHand, Statements, Subscriber
      <3> QED
        BY <2>0, <2>8, <3>1, StepFrame DEF AddSegments, AtHand, Types, Transactions, Statements, Step
    <2>9. CASE LookupFilter(r)
      BY <2>0, <2>9, StepFrame DEF LookupFilter, AtHand, Types, Statements
    <2>10. CASE NextFilter(r)
      <3>1. PICK n \in Nat :
              tx' = [tx EXCEPT ![r].order = n, ![r].saw[Label(r)] = {l \in Labels : Seen(r, l) # 0}]
        BY <2>10, SeenType DEF NextFilter, IsNext
      <3>2. Step(r, "nextFilter", "addFilter") /\ pc[r] = "nextFilter"
        BY <2>10 DEF NextFilter, Step
      <3>3. Label(r) \in Labels
        BY <2>0, <3>2, CommandTags DEF AtHand, Label, Statements
      <3>4. {l \in Labels : Seen(r, l) # 0} \in SUBSET Labels
        OBVIOUS
      <3> HIDE DEF Seen
      <3> QED
        BY <2>0, <3>1, <3>2, <3>3, <3>4, StepFrame DEF AtHand, Types, Transactions, Statements
    <2>11. CASE AddFilter(r)
      BY <2>0, <2>11, StepFrame DEF AddFilter, AtHand, Types, Transactions, Statements, Step
    <2>12. CASE AssignFilter(r)
      <3>1. pc[r] \in Statements /\ command[r] \in Catalogue /\ Subscriber(r) \in Subscribers
        BY <2>0, <2>12 DEF AssignFilter, AtHand, Statements, Subscriber
      <3>2. Tag("filter", Subscriber(r), Label(r)) \in AllTags
        BY <2>0, <3>1, CommandTags DEF AtHand, Label
      <3> QED
        <4> DEFINE to == IF tx[r].at = Len(command[r].filters) THEN "commit" ELSE "lookupFilter"
                   at == IF tx[r].at = Len(command[r].filters) THEN tx[r].at ELSE tx[r].at + 1
        <4>1. /\ Step(r, "assign", to) /\ pc[r] = "assign"
              /\ tx' = [tx EXCEPT ![r].inserted = @ \cup {Tag("filter", Subscriber(r), Label(r))}, ![r].at = at]
          BY <2>12 DEF AssignFilter
        <4>2. to \in Statements /\ at \in 1 .. Len(command[r].filters)
          BY <2>0, <3>1 DEF AtHand, Statements
        <4> HIDE DEF to, at
        <4>3. at \in Nat /\ tx[r].inserted \cup {Tag("filter", Subscriber(r), Label(r))} \in SUBSET AllTags
          BY <2>0, <3>1, <3>2, <4>2 DEF Transactions
        <4> HIDE DEF Tag, Label, Subscriber, AllTags
        <4>4. /\ tx' \in [Requests -> Transactions] /\ \A q \in Requests \ {r} : tx'[q] = tx[q]
              /\ tx'[r].open = tx[r].open /\ tx'[r].at = at
          BY <2>0, <4>1, <4>3 DEF Types, Transactions
        <4> QED
          BY <2>0, <3>1, <4>1, <4>2, <4>4, StepFrame DEF AtHand, Statements
    <2>13. CASE Commit(r)
      <3>1. /\ pc[r] \in Statements /\ command[r] \in Catalogue /\ Subscriber(r) \in Subscribers
            /\ pc'[r] \in {"stored", "failed"} /\ pc' \in [Requests -> Stages]
            /\ \A q \in Requests \ {r} : pc'[q] = pc[q]
            /\ UNCHANGED <<command, subscriberID>>
        BY <2>0, <2>13 DEF Commit, AtHand, Statements, Subscriber, Types, Stages
      <3>2. subscribers' \in [Subscribers -> Nat]
        BY <2>0, <2>13, <3>1 DEF Commit, Types, Transactions
      <3>3. emails' \in [Subscribers -> {c.email : c \in Catalogue} \cup {Missing}]
        BY <2>13, <3>1 DEF Commit, Types
      <3>4. filters' \in [Labels -> Nat]
        BY <2>13, SeenType DEF Commit
      <3>5. tags' \subseteq AllTags
        BY <2>0, <2>13 DEF Commit, Types, Transactions
      <3>6. seen' \in [Labels -> SUBSET Labels]
        BY <2>0, <2>13 DEF Commit, Types, Transactions
      <3>7. /\ tx' \in [Requests -> Transactions] /\ tx'[r] = NoTx
            /\ \A q \in Requests \ {r} : tx'[q] = tx[q]
        BY <2>13, NoTxType DEF Commit, Types
      <3>8. \A q \in Requests : AtHand(q)'
        BY <3>1, <3>7 DEF AtHand, Types, Statements
      <3> QED
        BY <3>1, <3>2, <3>3, <3>4, <3>5, <3>6, <3>7, <3>8 DEF Types
    <2>14. CASE RefuseRepeatedSegment(r) \/ AbortDeadlocked(r) \/ Fail(r)
      BY <2>14, ReturnTypes DEF RefuseRepeatedSegment, AbortDeadlocked, Fail, Rollback
    <2> QED
      BY <2>1, <2>2, <2>3, <2>4, <2>5, <2>6, <2>7, <2>8, <2>9, <2>10, <2>11, <2>12, <2>13, <2>14 DEF Handle
  <1> QED
    BY <1>1, <1>2

-----------------------------------------------------------------------------
(* Whom a command is about.                                                *)

\* The subscriber a handler works on is the one its command resolves to.
Resolved ==
  \A r \in Requests : pc[r] \in Statements \cup {"stored"} =>
    \E s \in Seconds : subscriberID[r] = resolveSubscriberID(command[r], s)

\* No step changes which identifier a handler works on.
LEMMA ResolvedStep ==
  ASSUME Types, Resolved, [Next]_vars
  PROVE  Resolved'
  <1>1. CASE UNCHANGED vars
    BY <1>1 DEF vars, Resolved
  <1>2. CASE Next
    <2> PICK r \in Requests : (\E c \in Catalogue : Arrive(r, c)) \/ Handle(r) \/ Fail(r)
      BY <1>2 DEF Next
    <2> HIDE DEF resolveSubscriberID, Seconds
    <2>1. CASE Begin(r)
      BY <2>1 DEF Begin, Types, Resolved
    <2>2. CASE \E c \in Catalogue : Arrive(r, c)
      BY <2>2 DEF Arrive, Types, Resolved, Statements
    <2>3. CASE \/ LookupSubscriber(r) \/ NextSubscriber(r) \/ Upsert(r)
               \/ ClearSegments(r) \/ ClearFilters(r) \/ AddSegments(r)
               \/ LookupFilter(r) \/ NextFilter(r) \/ AddFilter(r) \/ AssignFilter(r)
      <3>1. \E from \in Statements, to \in Statements : Step(r, from, to)
        BY <2>3 DEF LookupSubscriber, NextSubscriber, Upsert, ClearSegments, ClearFilters, AddSegments,
             LookupFilter, NextFilter, AddFilter, AssignFilter, Statements
      <3> QED
        BY <3>1 DEF Step, Types, Resolved
    <2>4. CASE Commit(r)
      BY <2>4 DEF Commit, Types, Resolved, Statements
    <2>5. CASE RefuseRepeatedSegment(r) \/ AbortDeadlocked(r) \/ Fail(r)
      BY <2>5 DEF RefuseRepeatedSegment, AbortDeadlocked, Fail, Rollback, Return, Types, Resolved, Statements
    <2> QED
      BY <2>1, <2>2, <2>3, <2>4, <2>5 DEF Handle
  <1> QED
    BY <1>1, <1>2

-----------------------------------------------------------------------------
(* Labels.                                                                 *)

\* A label is added by one transaction at a time, and is in none of the
\* filters others have committed.
AddsAlone ==
  \A r \in Requests, l \in Labels : tx[r].labels[l] # 0 =>
    filters[l] = 0 /\ \A q \in Requests \ {r} : tx[q].labels[l] = 0

Before(r, m, n) == Seen(r, m) \in 1 .. n - 1

\* The numbers a transaction has given and the one it is about to give.
NumbersHeld(r) ==
  /\ \A l \in Labels : tx[r].labels[l] # 0 => \A m \in tx[r].saw[l] : Before(r, m, tx[r].labels[l])
  /\ pc[r] \in {"nextFilter", "addFilter"} => tx[r].labels[Label(r)] = 0
  /\ pc[r] = "addFilter" =>
       tx[r].order > 0 /\ \A m \in tx[r].saw[Label(r)] : Before(r, m, tx[r].order)

LabelInv == AddsAlone /\ (\A r \in Requests : NumbersHeld(r)) /\ LabelsNumberedInTurn

\* What the labels see of a step: r is the only one to move, the numbers it
\* has given and the committed ones stay, and it does not come to number.
LEMMA LabelsKept ==
  ASSUME Types, LabelInv, NEW r \in Requests,
         \A q \in Requests \ {r} : UNCHANGED <<pc[q], tx[q], command[q]>>,
         UNCHANGED <<filters, seen>>,
         UNCHANGED <<tx[r].labels, tx[r].saw>>,
         pc'[r] \notin {"nextFilter", "addFilter"}
  PROVE  LabelInv'
  <1>1. \A q \in Requests, l \in Labels : tx'[q].labels = tx[q].labels /\ tx'[q].saw = tx[q].saw
    OBVIOUS
  <1>2. AddsAlone'
    BY <1>1 DEF LabelInv, AddsAlone
  <1>3. \A q \in Requests : \A m, n : Before(q, m, n)' <=> Before(q, m, n)
    BY DEF Before, Seen
  <1>4. ASSUME NEW q \in Requests PROVE NumbersHeld(q)'
    BY <1>1, <1>3 DEF LabelInv, NumbersHeld, Label
  <1>5. LabelsNumberedInTurn'
    BY DEF LabelInv, LabelsNumberedInTurn
  <1> QED
    BY <1>2, <1>4, <1>5 DEF LabelInv

\* A handler that has ended, or has yet to begin, holds no number.
LEMMA LabelsLeft ==
  ASSUME Types, LabelInv, NEW r \in Requests,
         \A q \in Requests \ {r} : UNCHANGED <<pc[q], tx[q], command[q]>>,
         UNCHANGED <<filters, seen>>,
         \A l \in Labels : tx'[r].labels[l] = 0,
         pc'[r] \notin {"nextFilter", "addFilter"}
  PROVE  LabelInv'
  <1>1. AddsAlone'
    BY DEF LabelInv, AddsAlone
  <1>2. \A q \in Requests \ {r} : \A m, n : Before(q, m, n)' <=> Before(q, m, n)
    BY DEF Before, Seen
  <1>3. ASSUME NEW q \in Requests PROVE NumbersHeld(q)'
    <2>1. CASE q = r
      BY <2>1 DEF NumbersHeld
    <2>2. CASE q # r
      BY <1>2, <2>2 DEF LabelInv, NumbersHeld, Label
    <2> QED
      BY <2>1, <2>2
  <1>4. LabelsNumberedInTurn'
    BY DEF LabelInv, LabelsNumberedInTurn
  <1> QED
    BY <1>1, <1>3, <1>4 DEF LabelInv

\* A commit gives a number only to labels that had none, and none that
\* another transaction is adding.
LEMMA CommitLabels ==
  ASSUME Types, LabelInv, NEW r \in Requests, Commit(r)
  PROVE  LabelInv'
  <1>1. /\ \A q \in Requests \ {r} : UNCHANGED <<pc[q], tx[q], command[q]>>
        /\ tx'[r] = NoTx /\ pc'[r] \in {"stored", "failed"}
        /\ filters' = [l \in Labels |-> Seen(r, l)]
        /\ seen' = [l \in Labels |-> IF tx[r].labels[l] # 0 THEN tx[r].saw[l] ELSE seen[l]]
    BY DEF Commit, Types
  <1>2. \A l \in Labels : /\ tx[r].labels[l] # 0 => filters[l] = 0 /\ filters'[l] = tx[r].labels[l]
                          /\ tx[r].labels[l] = 0 => filters'[l] = filters[l]
    BY <1>1 DEF LabelInv, AddsAlone, Seen
  <1>3. \A l \in Labels : tx'[r].labels[l] = 0
    BY <1>1 DEF NoTx
  <1>4. AddsAlone'
    BY <1>1, <1>2, <1>3 DEF LabelInv, AddsAlone
  <1>5. ASSUME NEW q \in Requests \ {r}, NEW m \in Labels, NEW n, Before(q, m, n)
        PROVE  Before(q, m, n)'
    <2>1. Seen(q, m) # 0
      BY <1>5 DEF Before
    <2>2. Seen(q, m)' = Seen(q, m)
      BY <1>1, <1>2, <2>1 DEF Seen
    <2> QED
      BY <1>5, <2>2 DEF Before
  <1>6. ASSUME NEW q \in Requests PROVE NumbersHeld(q)'
    <2>1. CASE q = r
      BY <1>1, <1>3, <2>1 DEF NumbersHeld
    <2>2. CASE q # r
      <3>1. tx[q] \in Transactions /\ AtHand(q)
        BY DEF Types
      <3>2. pc[q] = "addFilter" => Label(q) \in Labels
        BY <3>1, CommandTags DEF AtHand, Statements, Label
      <3>3. NumbersHeld(q)
        BY DEF LabelInv
      <3> QED
        BY <1>1, <1>5, <2>2, <3>1, <3>2, <3>3 DEF NumbersHeld, Label, Transactions
    <2> QED
      BY <2>1, <2>2
  <1>7. LabelsNumberedInTurn'
    <2> SUFFICES ASSUME NEW l \in Labels, filters'[l] # 0, NEW m \in seen'[l]
                 PROVE  filters'[m] \in 1 .. filters'[l] - 1
      BY DEF LabelsNumberedInTurn
    <2>1. CASE tx[r].labels[l] # 0
      <3>0. tx[r].saw \in [Labels -> SUBSET Labels]
        BY DEF Types, Transactions
      <3>1. m \in tx[r].saw[l] /\ m \in Labels
        BY <1>1, <2>1, <3>0
      <3>2. Before(r, m, tx[r].labels[l])
        BY <2>1, <3>1 DEF LabelInv, NumbersHeld
      <3> QED
        BY <1>1, <1>2, <2>1, <3>1, <3>2 DEF Before
    <2>2. CASE tx[r].labels[l] = 0
      <3>1. m \in seen[l] /\ m \in Labels /\ filters'[l] = filters[l]
        BY <1>1, <1>2, <2>2 DEF Types
      <3>2. filters[m] \in 1 .. filters[l] - 1
        BY <3>1 DEF LabelInv, LabelsNumberedInTurn
      <3>3. filters'[m] = filters[m]
        BY <1>2, <3>1, <3>2
      <3> QED
        BY <3>1, <3>2, <3>3
    <2> QED
      BY <2>1, <2>2
  <1> QED
    BY <1>4, <1>6, <1>7 DEF LabelInv

\* A handler comes to number a label only after it found none.
LEMMA LookupFilterLabels ==
  ASSUME Types, LabelInv, NEW r \in Requests, LookupFilter(r)
  PROVE  LabelInv'
  <1>1. CASE Seen(r, Label(r)) # 0
    BY <1>1, LabelsKept DEF LookupFilter, Step, Types, tables
  <1>2. CASE Seen(r, Label(r)) = 0
    <2>1. /\ UNCHANGED <<tx, filters, seen, command>> /\ pc'[r] = "nextFilter"
          /\ \A q \in Requests \ {r} : pc'[q] = pc[q]
      BY <1>2 DEF LookupFilter, Step, Types, tables
    <2>2. tx[r].labels[Label(r)] = 0
      BY <1>2 DEF Seen
    <2>3. \A q \in Requests : \A m, n : Before(q, m, n)' <=> Before(q, m, n)
      BY <2>1 DEF Before, Seen
    <2>4. ASSUME NEW q \in Requests PROVE NumbersHeld(q)'
      <3>1. CASE q = r
        BY <2>1, <2>2, <2>3, <3>1 DEF LabelInv, NumbersHeld, Label
      <3>2. CASE q # r
        BY <2>1, <2>3, <3>2 DEF LabelInv, NumbersHeld, Label
      <3> QED
        BY <3>1, <3>2
    <2>5. AddsAlone' /\ LabelsNumberedInTurn'
      BY <2>1 DEF LabelInv, AddsAlone, LabelsNumberedInTurn
    <2> QED
      BY <2>4, <2>5 DEF LabelInv
  <1> QED
    BY <1>1, <1>2

\* The number is computed from every label the transaction sees.
LEMMA NextFilterLabels ==
  ASSUME Types, LabelInv, NEW r \in Requests, NextFilter(r)
  PROVE  LabelInv'
  <1> DEFINE Found == {l \in Labels : Seen(r, l) # 0}
  <1>1. PICK n \in Nat : /\ IsNext(n, {Seen(r, l) : l \in Labels})
                         /\ tx' = [tx EXCEPT ![r].order = n, ![r].saw[Label(r)] = Found]
    BY SeenType DEF NextFilter, IsNext
  <1>2. /\ pc[r] = "nextFilter" /\ pc'[r] = "addFilter" /\ \A q \in Requests \ {r} : pc'[q] = pc[q]
        /\ UNCHANGED <<command, filters, seen>>
    BY DEF NextFilter, Step, Types, tables
  <1>3. tx[r] \in Transactions /\ AtHand(r)
    BY DEF Types
  <1>4. Label(r) \in Labels /\ tx[r].labels[Label(r)] = 0
    BY <1>2, <1>3, CommandTags DEF AtHand, Label, Statements, LabelInv, NumbersHeld
  <1>5. \A m \in Found : Seen(r, m) \in 1 .. n - 1
    BY <1>1, SeenType DEF IsNext
  <1>6. n > 0
    BY <1>1, <1>4, SeenType DEF IsNext
  <1> HIDE DEF Found
  <1>7. /\ tx'[r].order = n /\ tx'[r].labels = tx[r].labels
        /\ tx'[r].saw = [tx[r].saw EXCEPT ![Label(r)] = Found]
        /\ \A q \in Requests \ {r} : tx'[q] = tx[q]
    BY <1>1, <1>3 DEF Types, Transactions
  <1>8. \A q \in Requests : \A m, k : Before(q, m, k)' <=> Before(q, m, k)
    BY <1>2, <1>7 DEF Before, Seen
  <1>9. ASSUME NEW q \in Requests PROVE NumbersHeld(q)'
    <2>1. CASE q # r
      BY <1>2, <1>7, <1>8, <2>1 DEF LabelInv, NumbersHeld, Label
    <2>2. CASE q = r
      <3>0. tx'[r].at = tx[r].at /\ tx'[r].saw[Label(r)] = Found
        BY <1>1, <1>3, <1>4, <1>7 DEF Transactions, Types
      <3>1. Label(r)' = Label(r) /\ tx'[r].saw[Label(r)] = Found
        BY <1>2, <3>0 DEF Label
      <3>2. \A m \in Found : Before(r, m, n)
        BY <1>5 DEF Before
      <3>3. \A l \in Labels \ {Label(r)} : tx'[r].saw[l] = tx[r].saw[l]
        BY <1>3, <1>7 DEF Transactions
      <3> QED
        BY <1>2, <1>4, <1>6, <1>7, <1>8, <2>2, <3>1, <3>2, <3>3 DEF LabelInv, NumbersHeld
    <2> QED
      BY <2>1, <2>2
  <1>10. AddsAlone' /\ LabelsNumberedInTurn'
    BY <1>2, <1>7 DEF LabelInv, AddsAlone, LabelsNumberedInTurn
  <1> QED
    BY <1>9, <1>10 DEF LabelInv

\* A label is added once nobody else is adding it, and left if meanwhile
\* somebody has.
LEMMA AddFilterLabels ==
  ASSUME Types, LabelInv, NEW r \in Requests, AddFilter(r)
  PROVE  LabelInv'
  <1> DEFINE n == IF filters[Label(r)] = 0 THEN tx[r].order ELSE 0
  <1>1. /\ pc[r] = "addFilter" /\ pc'[r] = "assign" /\ \A q \in Requests \ {r} : pc'[q] = pc[q]
        /\ UNCHANGED <<command, filters, seen>> /\ Blockers(r) = {}
        /\ tx' = [tx EXCEPT ![r].labels[Label(r)] = n]
    BY DEF AddFilter, Step, Types, tables
  <1>2. tx[r] \in Transactions /\ AtHand(r) /\ NumbersHeld(r)
    BY DEF Types, LabelInv
  <1>3. Label(r) \in Labels /\ tx[r].labels[Label(r)] = 0 /\ tx[r].order > 0
    BY <1>1, <1>2, CommandTags DEF AtHand, Label, Statements, NumbersHeld
  <1>4. \A q \in Requests \ {r} : tx[q].labels[Label(r)] = 0
    BY <1>1 DEF Blockers
  <1>5. n # 0 => n = tx[r].order /\ filters[Label(r)] = 0
    OBVIOUS
  <1> HIDE DEF n
  <1>6. /\ tx'[r].labels = [tx[r].labels EXCEPT ![Label(r)] = n] /\ tx'[r].saw = tx[r].saw
        /\ \A q \in Requests \ {r} : tx'[q] = tx[q]
    BY <1>1, <1>2 DEF Types, Transactions
  <1>7. /\ tx'[r].labels[Label(r)] = n
        /\ \A l \in Labels \ {Label(r)} : tx'[r].labels[l] = tx[r].labels[l]
    BY <1>2, <1>3, <1>6 DEF Transactions
  <1>8. AddsAlone'
    BY <1>1, <1>3, <1>4, <1>5, <1>6, <1>7 DEF LabelInv, AddsAlone
  \* Its own label had no number the transaction saw: no other stands on it.
  <1>9. ASSUME NEW m \in Labels, NEW k, Before(r, m, k) PROVE Before(r, m, k)'
    <2>1. CASE m = Label(r)
      <3>1. filters[m] # 0
        BY <1>3, <1>9, <2>1 DEF Before, Seen
      <3> QED
        BY <1>1, <1>3, <1>5, <1>7, <1>9, <2>1, <3>1 DEF Before, Seen
    <2>2. CASE m # Label(r)
      BY <1>1, <1>7, <1>9, <2>2 DEF Before, Seen
    <2> QED
      BY <2>1, <2>2
  <1>10. ASSUME NEW q \in Requests PROVE NumbersHeld(q)'
    <2>1. CASE q # r
      <3>1. \A m, k : Before(q, m, k)' <=> Before(q, m, k)
        BY <1>1, <1>6, <2>1 DEF Before, Seen
      <3> QED
        BY <1>1, <1>6, <2>1, <3>1 DEF LabelInv, NumbersHeld, Label
    <2>2. CASE q = r
      <3>1. SUFFICES ASSUME NEW l \in Labels, tx'[r].labels[l] # 0, NEW m \in tx[r].saw[l]
                     PROVE  Before(r, m, tx[r].labels[l])'
        BY <1>1, <1>6, <2>2 DEF NumbersHeld
      <3>2. m \in Labels
        BY <1>2 DEF Transactions
      <3>3. Before(r, m, tx'[r].labels[l])
        BY <1>1, <1>2, <1>5, <1>7, <3>1 DEF NumbersHeld
      <3> QED
        BY <1>9, <3>2, <3>3 DEF Before, Seen
    <2> QED
      BY <2>1, <2>2
  <1>11. LabelsNumberedInTurn'
    BY <1>1 DEF LabelInv, LabelsNumberedInTurn
  <1> QED
    BY <1>8, <1>10, <1>11 DEF LabelInv

\* The statements on the subscriber and its tags leave the labels alone.
LEMMA OtherFields ==
  ASSUME Types, NEW r \in Requests, NEW x,
         \/ tx' = [tx EXCEPT ![r].order = x]
         \/ tx' = [tx EXCEPT ![r].row = x]
         \/ tx' = [tx EXCEPT ![r].deleted = x]
         \/ tx' = [tx EXCEPT ![r].inserted = x]
  PROVE  /\ UNCHANGED <<tx[r].labels, tx[r].saw, tx[r].open, tx[r].at>>
         /\ \A q \in Requests \ {r} : tx'[q] = tx[q]
  <1>1. tx \in [Requests -> Transactions]
    BY DEF Types
  <1>2. CASE tx' = [tx EXCEPT ![r].order = x]
    BY <1>1, <1>2 DEF Transactions
  <1>3. CASE tx' = [tx EXCEPT ![r].row = x]
    BY <1>1, <1>3 DEF Transactions
  <1>4. CASE tx' = [tx EXCEPT ![r].deleted = x]
    BY <1>1, <1>4 DEF Transactions
  <1>5. CASE tx' = [tx EXCEPT ![r].inserted = x]
    BY <1>1, <1>5 DEF Transactions
  <1> QED
    BY <1>2, <1>3, <1>4, <1>5

\* The seeded labels are numbered in turn.
LEMMA InitLabels == Init => LabelInv
  <1> SUFFICES ASSUME Init PROVE LabelInv
    OBVIOUS
  <1>1. \A r \in Requests : tx[r] = NoTx /\ pc[r] = "idle"
    BY DEF Init
  <1>2. AddsAlone /\ \A r \in Requests : NumbersHeld(r)
    BY <1>1 DEF AddsAlone, NumbersHeld, NoTx
  <1> QED
    BY <1>2 DEF Init, LabelInv, LabelsNumberedInTurn

\* Every step keeps the numbers of labels.
LEMMA LabelsStep ==
  ASSUME Types, LabelInv, [Next]_vars
  PROVE  LabelInv'
  <1>1. CASE UNCHANGED vars
    BY <1>1 DEF vars, tables, LabelInv, AddsAlone, NumbersHeld, Before, Seen, Label, LabelsNumberedInTurn
  <1>2. CASE Next
    <2> PICK r \in Requests : (\E c \in Catalogue : Arrive(r, c)) \/ Handle(r) \/ Fail(r)
      BY <1>2 DEF Next
    <2>0. tx[r] \in Transactions /\ AtHand(r)
      BY DEF Types
    <2>1. CASE (\E c \in Catalogue : Arrive(r, c)) \/ Begin(r)
      <3>1. tx[r] = NoTx
        BY <2>0, <2>1 DEF Arrive, Begin, AtHand, Statements
      <3>2. /\ \A q \in Requests \ {r} : UNCHANGED <<pc[q], tx[q], command[q]>>
            /\ UNCHANGED <<filters, seen>> /\ pc'[r] \notin {"nextFilter", "addFilter"}
        BY <2>1 DEF Arrive, Begin, Types, tables
      <3>3. tx'[r].labels = tx[r].labels
        <4>1. CASE \E c \in Catalogue : Arrive(r, c)
          BY <4>1 DEF Arrive
        <4>2. CASE Begin(r)
          <5>1. tx' = [tx EXCEPT ![r].open = TRUE]
            BY <4>2 DEF Begin
          <5> QED
            BY <2>0, <5>1 DEF Types, Transactions
        <4> QED
          BY <2>1, <4>1, <4>2
      <3> QED
        BY <3>1, <3>2, <3>3, LabelsLeft DEF NoTx
    <2>2. CASE LookupSubscriber(r) \/ NextSubscriber(r) \/ Upsert(r)
      <3>1. /\ \A q \in Requests \ {r} : UNCHANGED <<pc[q], tx[q], command[q]>>
            /\ UNCHANGED <<filters, seen>> /\ pc'[r] \notin {"nextFilter", "addFilter"}
        BY <2>2 DEF LookupSubscriber, NextSubscriber, Upsert, Step, Types, tables
      <3>2. UNCHANGED <<tx[r].labels, tx[r].saw>>
        BY <2>2, OtherFields DEF LookupSubscriber, NextSubscriber, Upsert
      <3> QED
        BY <3>1, <3>2, LabelsKept
    <2>3. CASE ClearSegments(r) \/ ClearFilters(r) \/ AddSegments(r)
      <3>1. /\ \A q \in Requests \ {r} : UNCHANGED <<pc[q], tx[q], command[q]>>
            /\ UNCHANGED <<filters, seen>> /\ pc'[r] \notin {"nextFilter", "addFilter"}
        BY <2>3 DEF ClearSegments, ClearFilters, AddSegments, Step, Types, tables
      <3>2. UNCHANGED <<tx[r].labels, tx[r].saw>>
        BY <2>3, OtherFields DEF ClearSegments, ClearFilters, AddSegments
      <3> QED
        BY <3>1, <3>2, LabelsKept
    <2>4. CASE AssignFilter(r)
      <3>1. /\ \A q \in Requests \ {r} : UNCHANGED <<pc[q], tx[q], command[q]>>
            /\ UNCHANGED <<filters, seen>> /\ pc'[r] \notin {"nextFilter", "addFilter"}
        BY <2>4 DEF AssignFilter, Step, Types, tables
      <3>2. UNCHANGED <<tx[r].labels, tx[r].saw>>
        BY <2>0, <2>4 DEF AssignFilter, Types, Transactions
      <3> QED
        BY <3>1, <3>2, LabelsKept
    <2>5. CASE RefuseRepeatedSegment(r) \/ AbortDeadlocked(r) \/ Fail(r)
      <3>1. Return(r)
        BY <2>5 DEF RefuseRepeatedSegment, AbortDeadlocked, Fail, Rollback
      <3> QED
        BY <3>1, LabelsLeft DEF Return, Types, NoTx, tables
    <2> QED
      BY <2>1, <2>2, <2>3, <2>4, <2>5, LookupFilterLabels, NextFilterLabels, AddFilterLabels, CommitLabels
      DEF Handle
  <1> QED
    BY <1>1, <1>2

-----------------------------------------------------------------------------
(* Rows.                                                                   *)

Ended   == {"stored", "failed"}
Adding  == {"addSegments", "lookupFilter", "nextFilter", "addFilter", "assign", "commit"}
Writing == {"clearSegments", "clearFilters"} \cup Adding

Own(s) == {t \in tags : t.subscriber = s}

\* The filter tags of the labels before the n-th.
TagsBefore(s, c, n) == {Tag("filter", s, c.filters[i]) : i \in 1 .. n - 1}

\* A transaction holds its subscriber's row from the upsert on ...
RowHeld(r) ==
  /\ pc[r] = "upsert" => tx[r].order # 0
  /\ tx[r].row # 0 <=> pc[r] \in Writing

\* ... and no two hold one.
OneWriter ==
  \A r, q \in {p \in Requests : pc[p] \in Writing} : r # q => subscriberID[r] # subscriberID[q]

\* How far a transaction has replaced its subscriber's tags.
Progress(r) ==
  /\ pc[r] \in {"lookup", "next", "upsert", "clearSegments"} => tx[r].deleted = {}
  /\ pc[r] = "clearFilters" => tx[r].deleted = TagsOf(subscriberID[r], "segment")
  /\ pc[r] \in Adding => tx[r].deleted = Own(subscriberID[r])
  /\ pc[r] \in Statements \ (Adding \ {"addSegments"}) => tx[r].inserted = {} /\ tx[r].at = 1
  /\ pc[r] \in {"lookupFilter", "nextFilter", "addFilter", "assign"} =>
       tx[r].inserted = SegmentTags(subscriberID[r], command[r])
                          \cup TagsBefore(subscriberID[r], command[r], tx[r].at)
  /\ pc[r] = "commit" =>
       tx[r].inserted = SegmentTags(subscriberID[r], command[r])
                          \cup FilterTags(subscriberID[r], command[r])

\* The command a subscriber is made of.
MadeOf(s, r) ==
  /\ pc[r] \in Ended /\ subscriberID[r] = s
  /\ emails[s] = command[r].email
  /\ Own(s) = SegmentTags(s, command[r]) \cup FilterTags(s, command[r])

WholeRows ==
  /\ \A s \in Subscribers :
       /\ subscribers[s] = 0 => Own(s) = {}
       /\ subscribers[s] # 0 => \E r \in Requests : MadeOf(s, r)
  /\ \A r \in Requests : pc[r] = "stored" => subscribers[subscriberID[r]] # 0

RowInv == (\A r \in Requests : RowHeld(r) /\ Progress(r)) /\ OneWriter /\ WholeRows

\* Rows made of one command each are whole subscribers.
LEMMA Whole == WholeRows => SubscriberIsWhole
  <1> DEFINE Rows(s) == {t \in tags : t.subscriber = s}
  <1>1. \A s : Rows(s) = Own(s)
    BY DEF Own
  <1> HIDE DEF Rows
  <1>2. SubscriberIsWhole <=>
          /\ \A s \in Subscribers :
               IF subscribers[s] = 0 THEN Rows(s) = {}
               ELSE \E r \in Requests :
                      /\ pc[r] \in {"stored", "failed"} /\ Subscriber(r) = s
                      /\ emails[s] = command[r].email
                      /\ Rows(s) = SegmentTags(s, command[r]) \cup FilterTags(s, command[r])
          /\ \A r \in Requests : pc[r] = "stored" => subscribers[Subscriber(r)] # 0
    BY DEF SubscriberIsWhole, Rows
  <1> HIDE DEF SegmentTags, FilterTags
  <1> QED
    BY <1>1, <1>2 DEF WholeRows, MadeOf, Subscriber, Ended

\* Another handler's transaction stands where it stood while its
\* subscriber's tags do.
LEMMA OthersKept ==
  ASSUME NEW q \in Requests, RowHeld(q), Progress(q),
         UNCHANGED <<pc[q], tx[q], command[q], subscriberID[q]>>,
         pc[q] \in Writing => UNCHANGED Own(subscriberID[q])
  PROVE  RowHeld(q)' /\ Progress(q)'
  <1>1. RowHeld(q)'
    BY DEF RowHeld
  <1>2. \A s, k : TagsOf(s, k) = {t \in Own(s) : t.kind = k} /\ TagsOf(s, k)' = {t \in Own(s)' : t.kind = k}
    BY DEF TagsOf, Own
  <1>3. pc[q] = "clearFilters" => UNCHANGED TagsOf(subscriberID[q], "segment")
    BY <1>2 DEF Writing
  <1>4. Progress(q)'
    <2> HIDE DEF TagsOf, Own
    <2> QED
      BY <1>3 DEF Progress, Writing, Adding, SegmentTags, FilterTags, TagsBefore
  <1> QED
    BY <1>1, <1>4

\* A step that commits nothing, by a handler that has not ended.
LEMMA RowsKept ==
  ASSUME Types, RowInv, NEW r \in Requests, UNCHANGED tables,
         \A q \in Requests \ {r} : UNCHANGED <<pc[q], tx[q], command[q], subscriberID[q]>>,
         pc[r] \notin Ended, pc'[r] # "stored",
         pc'[r] \in Writing => pc[r] \in Writing /\ subscriberID'[r] = subscriberID[r],
         RowHeld(r)', Progress(r)'
  PROVE  RowInv'
  <1>1. ASSUME NEW q \in Requests PROVE RowHeld(q)' /\ Progress(q)'
    <2>1. CASE q = r
      BY <2>1
    <2>2. CASE q # r
      <3>1. UNCHANGED Own(subscriberID[q])
        BY <2>2 DEF Own, tables
      <3>2. RowHeld(q) /\ Progress(q)
        BY DEF RowInv
      <3> QED
        BY <2>2, <3>1, <3>2, OthersKept
    <2> QED
      BY <2>1, <2>2
  <1>2. OneWriter'
    BY DEF RowInv, OneWriter
  <1>3. WholeRows'
    <2>1. \A s : Own(s)' = Own(s)
      BY DEF Own, tables
    <2>2. ASSUME NEW s, NEW q \in Requests, MadeOf(s, q) PROVE MadeOf(s, q)'
      <3>1. q # r
        BY <2>2 DEF MadeOf
      <3> QED
        BY <2>1, <2>2, <3>1 DEF MadeOf, tables, SegmentTags, FilterTags
    <2> HIDE DEF MadeOf, Own
    <2> QED
      BY <2>1, <2>2 DEF RowInv, WholeRows, tables
  <1> QED
    BY <1>1, <1>2, <1>3 DEF RowInv

\* A tag is a segment or a filter of the subscriber it is made for.
LEMMA TagKinds ==
  /\ \A t \in AllTags : t.kind \in {"segment", "filter"}
  /\ \A s, c : \A t \in SegmentTags(s, c) \cup FilterTags(s, c) : t.subscriber = s
  <1>1. \A s, c : \A t \in SegmentTags(s, c) \cup FilterTags(s, c) :
          t.subscriber = s /\ t.kind \in {"segment", "filter"}
    BY DEF SegmentTags, FilterTags, Tag
  <1>2. \A t \in AllTags : \E s \in Subscribers, c \in Catalogue : t \in SegmentTags(s, c) \cup FilterTags(s, c)
    <2> DEFINE T == {SegmentTags(x, d) \cup FilterTags(x, d) : x \in Subscribers, d \in Catalogue}
    <2>1. \A U \in T : \E s \in Subscribers, c \in Catalogue : U = SegmentTags(s, c) \cup FilterTags(s, c)
      OBVIOUS
    <2>2. AllTags = UNION T
      BY DEF AllTags
    <2> HIDE DEF T
    <2> QED
      BY <2>1, <2>2
  <1> QED
    BY <1>1, <1>2

\* A handler that has returned, or has yet to be at a statement.
LEMMA RowsLeft ==
  ASSUME NEW r \in Requests, tx'[r] = NoTx, pc'[r] \notin Statements
  PROVE  RowHeld(r)' /\ Progress(r)'
  BY DEF RowHeld, Progress, NoTx, Statements, Writing, Adding

\* The statements before the upsert write nothing.
LEMMA RowsBefore ==
  ASSUME Types, RowInv, NEW r \in Requests, Begin(r) \/ LookupSubscriber(r) \/ NextSubscriber(r)
  PROVE  RowInv'
  <1>0. tx \in [Requests -> Transactions] /\ AtHand(r)
    BY DEF Types
  <1>1. CASE Begin(r)
    <2>1. tx[r] = NoTx /\ tx' = [tx EXCEPT ![r].open = TRUE] /\ pc'[r] = "lookup" /\ pc[r] = "queued"
      BY <1>0, <1>1 DEF Begin, Types, AtHand, Statements
    <2>2. tx'[r].row = 0 /\ tx'[r].deleted = {} /\ tx'[r].inserted = {} /\ tx'[r].at = 1
      BY <1>0, <2>1 DEF NoTx, Transactions
    <2>3. /\ UNCHANGED tables
          /\ \A q \in Requests \ {r} : UNCHANGED <<pc[q], tx[q], command[q], subscriberID[q]>>
      BY <1>1 DEF Begin, Types
    <2>4. RowHeld(r)' /\ Progress(r)'
      BY <2>1, <2>2 DEF RowHeld, Progress, Writing, Adding
    <2> QED
      BY <2>1, <2>3, <2>4, RowsKept DEF Ended, Writing, Adding
  <1>2. CASE LookupSubscriber(r) \/ NextSubscriber(r)
    <2>1. PICK n : /\ tx' = [tx EXCEPT ![r].order = n] /\ pc[r] \in {"lookup", "next"}
                   /\ (pc'[r] = "upsert" /\ n # 0) \/ pc'[r] = "next"
      <3>1. CASE LookupSubscriber(r)
        BY <3>1 DEF LookupSubscriber, Step, Types
      <3>2. CASE NextSubscriber(r)
        <4>1. subscribers \in [Subscribers -> Nat] /\ pc \in [Requests -> Stages]
          BY DEF Types
        <4>2. \A s \in Subscribers : subscribers[s] + 1 # 0
          BY <4>1
        <4>3. PICK n : /\ tx' = [tx EXCEPT ![r].order = n]
                       /\ n \in {1} \cup {o + 1 : o \in {subscribers[s] : s \in Subscribers}}
          BY <3>2 DEF NextSubscriber, IsNext
        <4>4. pc[r] = "next" /\ pc'[r] = "upsert"
          BY <3>2, <4>1 DEF NextSubscriber, Step
        <4>5. n # 0
          <5>1. n = 1 \/ \E s \in Subscribers : n = subscribers[s] + 1
            BY <4>3
          <5> QED
            BY <4>2, <5>1
        <4> QED
          BY <4>3, <4>4, <4>5
      <3> QED
        BY <1>2, <3>1, <3>2
    <2>2. tx'[r].order = n /\ tx'[r] = [tx[r] EXCEPT !.order = n] /\ \A q \in Requests \ {r} : tx'[q] = tx[q]
      BY <1>0, <2>1 DEF Transactions
    <2>3. UNCHANGED <<tx[r].row, tx[r].deleted, tx[r].inserted, tx[r].at>>
      BY <1>0, <2>2 DEF Transactions
    <2>4. UNCHANGED <<tables, command, subscriberID>> /\ \A q \in Requests \ {r} : pc'[q] = pc[q]
      BY <1>2 DEF LookupSubscriber, NextSubscriber, Step, Types
    <2>5. RowHeld(r) /\ Progress(r)
      BY DEF RowInv
    <2>6. RowHeld(r)' /\ Progress(r)'
      BY <2>1, <2>2, <2>3, <2>5 DEF RowHeld, Progress, Writing, Adding, Statements
    <2> QED
      BY <2>1, <2>2, <2>4, <2>6, RowsKept DEF Ended, Writing, Adding
  <1> QED
    BY <1>1, <1>2

\* The upsert waits for whoever holds the row.
LEMMA UpsertRows ==
  ASSUME Types, RowInv, NEW r \in Requests, Upsert(r)
  PROVE  RowInv'
  <1>0. tx \in [Requests -> Transactions] /\ AtHand(r) /\ RowHeld(r) /\ Progress(r)
    BY DEF Types, RowInv
  <1> DEFINE n == IF subscribers[Subscriber(r)] = 0 THEN tx[r].order ELSE subscribers[Subscriber(r)]
  <1>1. /\ pc[r] = "upsert" /\ pc'[r] = "clearSegments" /\ tx' = [tx EXCEPT ![r].row = n]
        /\ UNCHANGED <<tables, command, subscriberID>> /\ \A q \in Requests \ {r} : pc'[q] = pc[q]
        /\ Blockers(r) = {}
    BY DEF Upsert, Step, Types
  <1>2. n # 0
    BY <1>0, <1>1 DEF RowHeld
  <1> HIDE DEF n
  <1>3. /\ tx'[r].row = n /\ UNCHANGED <<tx[r].deleted, tx[r].inserted, tx[r].at>>
        /\ \A q \in Requests \ {r} : tx'[q] = tx[q]
    BY <1>0, <1>1 DEF Transactions
  <1>4. \A q \in Requests \ {r} : pc[q] \in Writing => subscriberID[q] # subscriberID[r]
    BY <1>1 DEF Blockers, HoldsRow, Subscriber, RowInv, RowHeld
  <1>5. RowHeld(r)' /\ Progress(r)'
    BY <1>0, <1>1, <1>2, <1>3 DEF RowHeld, Progress, Writing, Adding, Statements
  <1>6. ASSUME NEW q \in Requests PROVE RowHeld(q)' /\ Progress(q)'
    <2>1. RowHeld(q) /\ Progress(q)
      BY DEF RowInv
    <2>2. UNCHANGED Own(subscriberID[q])
      BY <1>1 DEF Own, tables
    <2>3. q # r => UNCHANGED <<pc[q], tx[q], command[q], subscriberID[q]>>
      BY <1>1, <1>3
    <2> QED
      BY <1>5, <2>1, <2>2, <2>3, OthersKept
  <1>7. OneWriter'
    BY <1>1, <1>4 DEF RowInv, OneWriter
  <1>8. WholeRows'
    BY <1>1 DEF RowInv, WholeRows, MadeOf, Own, tables, SegmentTags, FilterTags, Ended
  <1> QED
    BY <1>6, <1>7, <1>8 DEF RowInv

\* The deletes take the subscriber's tags, of both kinds.
LEMMA ClearRows ==
  ASSUME Types, RowInv, NEW r \in Requests, ClearSegments(r) \/ ClearFilters(r)
  PROVE  RowInv'
  <1>0. tx \in [Requests -> Transactions] /\ RowHeld(r) /\ Progress(r) /\ tags \subseteq AllTags
    BY DEF Types, RowInv
  <1>1. /\ UNCHANGED <<tables, command, subscriberID>> /\ \A q \in Requests \ {r} : pc'[q] = pc[q]
        /\ \/ /\ pc[r] = "clearSegments" /\ pc'[r] = "clearFilters"
              /\ tx' = [tx EXCEPT ![r].deleted = @ \cup TagsOf(subscriberID[r], "segment")]
           \/ /\ pc[r] = "clearFilters" /\ pc'[r] = "addSegments"
              /\ tx' = [tx EXCEPT ![r].deleted = @ \cup TagsOf(subscriberID[r], "filter")]
    BY DEF ClearSegments, ClearFilters, Step, Types, Subscriber
  <1>2. Own(subscriberID[r]) = TagsOf(subscriberID[r], "segment") \cup TagsOf(subscriberID[r], "filter")
    BY <1>0, TagKinds DEF Own, TagsOf
  <1>3. \A s, k : TagsOf(s, k)' = TagsOf(s, k) /\ Own(s)' = Own(s)
    BY <1>1 DEF TagsOf, Own, tables
  <1> HIDE DEF TagsOf, Own
  <1>4. /\ tx'[r].deleted = tx[r].deleted \cup TagsOf(subscriberID[r], IF pc[r] = "clearSegments"
                                                                     THEN "segment" ELSE "filter")
        /\ UNCHANGED <<tx[r].row, tx[r].inserted, tx[r].at>> /\ \A q \in Requests \ {r} : tx'[q] = tx[q]
    BY <1>0, <1>1 DEF Transactions
  <1>5. RowHeld(r)' /\ Progress(r)'
    BY <1>0, <1>1, <1>2, <1>3, <1>4 DEF RowHeld, Progress, Writing, Adding, Statements
  <1> QED
    BY <1>1, <1>4, <1>5, RowsKept DEF Ended, Writing, Adding

\* The inserts add the segments, then the filters one by one.
LEMMA AddRows ==
  ASSUME Types, RowInv, NEW r \in Requests, AddSegments(r) \/ AssignFilter(r)
  PROVE  RowInv'
  <1>0. /\ tx \in [Requests -> Transactions] /\ AtHand(r)
        /\ RowHeld(r) /\ Progress(r)
    BY DEF Types, RowInv
  <1>1. /\ UNCHANGED <<tables, command, subscriberID>> /\ \A q \in Requests \ {r} : pc'[q] = pc[q]
        /\ pc[r] \in {"addSegments", "assign"} /\ pc'[r] \in {"lookupFilter", "commit"}
    BY DEF AddSegments, AssignFilter, Step, Types
  <1>2. \A s : Own(s)' = Own(s)
    BY <1>1 DEF Own, tables
  <1> HIDE DEF SegmentTags, FilterTags, TagsBefore, Own
  <1>3. \A s, c, n : /\ SegmentTags(s, c)' = SegmentTags(s, c) /\ FilterTags(s, c)' = FilterTags(s, c)
                     /\ TagsBefore(s, c, n)' = TagsBefore(s, c, n)
    BY DEF SegmentTags, FilterTags, TagsBefore
  <1>4. CASE AddSegments(r)
    <2>1. /\ tx' = [tx EXCEPT ![r].inserted = @ \cup SegmentTags(subscriberID[r], command[r])]
          /\ pc[r] = "addSegments" /\ pc'[r] = "lookupFilter"
      BY <1>4 DEF AddSegments, Step, Types, Subscriber
    <2>2. /\ tx'[r].inserted = tx[r].inserted \cup SegmentTags(subscriberID[r], command[r])
          /\ UNCHANGED <<tx[r].row, tx[r].deleted, tx[r].at>> /\ \A q \in Requests \ {r} : tx'[q] = tx[q]
      BY <1>0, <2>1 DEF Transactions
    <2>3. TagsBefore(subscriberID[r], command[r], 1) = {}
      BY DEF TagsBefore
    <2>4. tx[r].at = 1 /\ tx[r].inserted = {} /\ tx[r].deleted = Own(subscriberID[r]) /\ tx[r].row # 0
      BY <1>0, <2>1 DEF RowHeld, Progress, Writing, Adding, Statements
    <2>5. RowHeld(r)' /\ Progress(r)'
      BY <1>1, <1>2, <2>1, <2>2, <2>3, <2>4 DEF RowHeld, Progress, Writing, Adding, Statements
    <2> QED
      BY <1>1, <2>2, <2>5, RowsKept DEF Ended, Writing, Adding
  <1>5. CASE AssignFilter(r)
    <2> PICK s, c : s = subscriberID[r] /\ c = command[r]
      OBVIOUS
    <2> DEFINE last == tx[r].at = Len(c.filters)
               tag  == Tag("filter", s, c.filters[tx[r].at])
    <2>1. /\ tx' = [tx EXCEPT ![r].inserted = @ \cup {tag}, ![r].at = IF last THEN @ ELSE @ + 1]
          /\ pc[r] = "assign" /\ pc'[r] = IF last THEN "commit" ELSE "lookupFilter"
      BY <1>5 DEF AssignFilter, Step, Types, Subscriber, Label
    <2>2. /\ tx[r].at \in 1 .. Len(c.filters) /\ c \in Catalogue
          /\ Len(c.filters) \in Nat /\ c.filters \in Seq(Labels)
      BY <1>0, <2>1, CommandTags DEF AtHand, Statements
    <2>3. TagsBefore(s, c, tx[r].at + 1) = TagsBefore(s, c, tx[r].at) \cup {tag}
      <3>1. 1 .. tx[r].at + 1 - 1 = (1 .. tx[r].at - 1) \cup {tx[r].at}
        BY <2>2
      <3> HIDE DEF Tag
      <3> QED
        BY <3>1 DEF TagsBefore
    <2>4. last => TagsBefore(s, c, tx[r].at + 1) = FilterTags(s, c)
      <3>1. ToSet(c.filters) = {c.filters[i] : i \in 1 .. Len(c.filters)}
        BY <2>2 DEF ToSet
      <3>2. last => 1 .. tx[r].at + 1 - 1 = 1 .. Len(c.filters)
        BY <2>2
      <3> HIDE DEF Tag
      <3> QED
        BY <3>1, <3>2 DEF TagsBefore, FilterTags
    <2>5. /\ tx[r].inserted = SegmentTags(s, c) \cup TagsBefore(s, c, tx[r].at)
          /\ tx[r].deleted = Own(s) /\ tx[r].row # 0
      BY <1>0, <2>1 DEF RowHeld, Progress, Writing, Adding
    <2> HIDE DEF tag, last
    <2>6. /\ tx'[r].inserted = tx[r].inserted \cup {tag}
          /\ tx'[r].at = IF last THEN tx[r].at ELSE tx[r].at + 1
          /\ UNCHANGED <<tx[r].row, tx[r].deleted>> /\ \A q \in Requests \ {r} : tx'[q] = tx[q]
      BY <1>0, <2>1 DEF Transactions
    <2>7. tx'[r].inserted = SegmentTags(s, c) \cup TagsBefore(s, c, tx[r].at + 1)
      BY <2>3, <2>5, <2>6
    <2>8. /\ pc'[r] = "commit" => tx'[r].inserted = SegmentTags(s, c) \cup FilterTags(s, c)
          /\ pc'[r] = "lookupFilter" => tx'[r].at = tx[r].at + 1
      BY <2>1, <2>4, <2>6, <2>7
    <2>9. subscriberID'[r] = s /\ command'[r] = c
      BY <1>1
    <2>10. RowHeld(r)' /\ Progress(r)'
      BY <1>1, <1>2, <2>5, <2>6, <2>7, <2>8, <2>9 DEF RowHeld, Progress, Writing, Adding, Statements
    <2> QED
      BY <1>1, <2>1, <2>6, <2>10, RowsKept DEF Ended, Writing, Adding
  <1> QED
    BY <1>4, <1>5

\* The statements on the labels leave the subscriber's tags alone.
LEMMA LabelRows ==
  ASSUME Types, RowInv, NEW r \in Requests, LookupFilter(r) \/ NextFilter(r) \/ AddFilter(r)
  PROVE  RowInv'
  <1>0. tx \in [Requests -> Transactions] /\ RowHeld(r) /\ Progress(r)
    BY DEF Types, RowInv
  <1>1. /\ UNCHANGED <<tables, command, subscriberID>> /\ \A q \in Requests \ {r} : pc'[q] = pc[q]
        /\ pc[r] \in {"lookupFilter", "nextFilter", "addFilter"}
        /\ pc'[r] \in {"nextFilter", "addFilter", "assign"}
    BY DEF LookupFilter, NextFilter, AddFilter, Step, Types
  <1>2. /\ UNCHANGED <<tx[r].row, tx[r].deleted, tx[r].inserted, tx[r].at>>
        /\ \A q \in Requests \ {r} : tx'[q] = tx[q]
    <2>1. CASE LookupFilter(r)
      BY <2>1 DEF LookupFilter
    <2>2. CASE NextFilter(r)
      <3>1. \E n, x : tx' = [tx EXCEPT ![r].order = n, ![r].saw[Label(r)] = x]
        BY <2>2 DEF NextFilter
      <3> QED
        BY <1>0, <3>1 DEF Transactions
    <2>3. CASE AddFilter(r)
      <3>1. \E n : tx' = [tx EXCEPT ![r].labels[Label(r)] = n]
        BY <2>3 DEF AddFilter
      <3> QED
        BY <1>0, <3>1 DEF Transactions
    <2> QED
      BY <2>1, <2>2, <2>3
  <1>3. \A s : Own(s)' = Own(s)
    BY <1>1 DEF Own, tables
  <1>4. \A s, c, n : SegmentTags(s, c)' = SegmentTags(s, c) /\ TagsBefore(s, c, n)' = TagsBefore(s, c, n)
    BY DEF SegmentTags, TagsBefore
  <1> HIDE DEF Own, SegmentTags, FilterTags, TagsBefore
  <1>5. RowHeld(r)' /\ Progress(r)'
    BY <1>0, <1>1, <1>2, <1>3, <1>4 DEF RowHeld, Progress, Writing, Adding, Statements
  <1> QED
    BY <1>1, <1>2, <1>5, RowsKept DEF Ended, Writing, Adding

\* The commit puts the tags of one command in the place of the subscriber's
\* and touches no other's.
LEMMA CommitRows ==
  ASSUME Types, RowInv, NEW r \in Requests, Commit(r)
  PROVE  RowInv'
  <1> PICK s, c : s = subscriberID[r] /\ c = command[r]
    OBVIOUS
  <1> DEFINE new == SegmentTags(s, c) \cup FilterTags(s, c)
  <1>0. AtHand(r) /\ RowHeld(r) /\ Progress(r) /\ WholeRows /\ subscribers \in [Subscribers -> Nat]
    BY DEF Types, RowInv
  <1>1. /\ pc[r] = "commit" /\ pc'[r] \in Ended /\ tx'[r] = NoTx
        /\ \A q \in Requests \ {r} : pc'[q] = pc[q] /\ tx'[q] = tx[q]
        /\ UNCHANGED <<command, subscriberID>>
        /\ subscribers' = [subscribers EXCEPT ![s] = IF @ = 0 THEN tx[r].row ELSE @]
        /\ emails' = [emails EXCEPT ![s] = c.email]
        /\ tags' = (tags \ tx[r].deleted) \cup tx[r].inserted
    BY DEF Commit, Types, Ended, Subscriber
  <1>2. /\ s \in Subscribers /\ tx[r].row # 0
        /\ tx[r].deleted = Own(s) /\ tx[r].inserted = new
    BY <1>0, <1>1 DEF AtHand, RowHeld, Progress, Writing, Adding, Statements
  <1>3. \A t \in new : t.subscriber = s
    BY TagKinds
  <1> HIDE DEF new
  <1>4. tags' = (tags \ Own(s)) \cup new
    BY <1>1, <1>2
  <1>5. Own(s)' = new
    BY <1>3, <1>4 DEF Own
  <1>6. \A x : x # s => Own(x)' = Own(x)
    BY <1>3, <1>4 DEF Own
  <1>7. ASSUME NEW q \in Requests \ {r} PROVE RowHeld(q)' /\ Progress(q)'
    <2>1. pc[q] \in Writing => subscriberID[q] # s
      BY <1>1 DEF RowInv, OneWriter, Writing, Adding
    <2>2. RowHeld(q) /\ Progress(q)
      BY DEF RowInv
    <2>3. pc[q] \in Writing => UNCHANGED Own(subscriberID[q])
      BY <1>1, <1>6, <2>1
    <2> QED
      BY <1>1, <2>2, <2>3, OthersKept
  <1>8. RowHeld(r)' /\ Progress(r)'
    BY <1>1, RowsLeft DEF Ended, Statements
  <1>9. OneWriter'
    BY <1>1 DEF RowInv, OneWriter, Ended, Writing, Adding
  <1>10. MadeOf(s, r)'
    <2>1. pc'[r] \in Ended /\ subscriberID'[r] = s /\ command'[r] = c
      BY <1>1
    <2>2. emails'[s] = c.email
      BY <1>1, <1>2 DEF Types
    <2>3. Own(s)' = SegmentTags(s, c) \cup FilterTags(s, c)
      BY <1>5 DEF new
    <2> QED
      BY <2>1, <2>2, <2>3 DEF MadeOf, SegmentTags, FilterTags
  <1>11. ASSUME NEW x \in Subscribers \ {s}, NEW q \in Requests, MadeOf(x, q) PROVE MadeOf(x, q)'
    <2>1. q # r
      BY <1>1, <1>11 DEF MadeOf, Ended
    <2>2. emails'[x] = emails[x]
      BY <1>1 DEF Types
    <2> QED
      BY <1>1, <1>6, <1>11, <2>1, <2>2 DEF MadeOf, SegmentTags, FilterTags
  <1>12. \A x \in Subscribers : /\ subscribers[x] # 0 => subscribers'[x] # 0
                                /\ x # s => subscribers'[x] = subscribers[x]
    BY <1>0, <1>1
  <1>13. subscribers'[s] # 0
    BY <1>0, <1>1, <1>2
  <1>14. \A x \in Subscribers :
           /\ subscribers'[x] = 0 => Own(x)' = {}
           /\ subscribers'[x] # 0 => \E q \in Requests : MadeOf(x, q)'
    BY <1>0, <1>6, <1>10, <1>11, <1>12, <1>13 DEF WholeRows
  <1>15. ASSUME NEW q \in Requests, pc'[q] = "stored" PROVE subscribers'[subscriberID'[q]] # 0
    <2>1. CASE q = r
      BY <1>1, <1>13, <2>1
    <2>2. CASE q # r
      <3>1. pc[q] = "stored" /\ subscriberID[q] \in Subscribers /\ subscribers[subscriberID[q]] # 0
        BY <1>0, <1>1, <1>15, <2>2 DEF WholeRows, Types, AtHand
      <3> QED
        BY <1>1, <1>12, <3>1
    <2> QED
      BY <2>1, <2>2
  <1>16. WholeRows'
    BY <1>14, <1>15 DEF WholeRows
  <1> QED
    BY <1>7, <1>8, <1>9, <1>16 DEF RowInv

\* Before the first command no subscriber has a row.
LEMMA InitRows == Init => RowInv
  <1> SUFFICES ASSUME Init PROVE RowInv
    OBVIOUS
  <1>1. \A r \in Requests : tx[r] = NoTx /\ pc[r] = "idle"
    BY DEF Init
  <1>2. \A r \in Requests : RowHeld(r) /\ Progress(r)
    BY <1>1 DEF RowHeld, Progress, NoTx, Statements, Writing, Adding
  <1>3. OneWriter
    BY <1>1 DEF OneWriter, Writing, Adding
  <1>4. WholeRows
    BY <1>1 DEF Init, WholeRows, Own
  <1> QED
    BY <1>2, <1>3, <1>4 DEF RowInv

\* Every step keeps what rows are made of.
LEMMA RowsStep ==
  ASSUME Types, RowInv, [Next]_vars
  PROVE  RowInv'
  <1>1. CASE UNCHANGED vars
    BY <1>1 DEF vars, tables, RowInv, RowHeld, Progress, OneWriter, WholeRows, MadeOf, Own, TagsOf,
       SegmentTags, FilterTags, TagsBefore
  <1>2. CASE Next
    <2> PICK r \in Requests : (\E c \in Catalogue : Arrive(r, c)) \/ Handle(r) \/ Fail(r)
      BY <1>2 DEF Next
    <2>1. CASE \E c \in Catalogue : Arrive(r, c)
      <3>1. /\ UNCHANGED <<tables, subscriberID, tx>> /\ pc[r] = "idle" /\ pc'[r] = "queued"
            /\ \A q \in Requests \ {r} : UNCHANGED <<pc[q], tx[q], command[q], subscriberID[q]>>
        BY <2>1 DEF Arrive, Types
      <3>2. tx'[r] = NoTx
        BY <3>1 DEF Types, AtHand, Statements
      <3>3. RowHeld(r)' /\ Progress(r)'
        BY <3>1, <3>2, RowsLeft DEF Statements
      <3> QED
        BY <3>1, <3>3, RowsKept DEF Ended, Writing, Adding
    <2>2. CASE RefuseRepeatedSegment(r) \/ AbortDeadlocked(r) \/ Fail(r)
      <3>1. Return(r) /\ pc[r] \in Statements \cup {"queued"}
        BY <2>2 DEF RefuseRepeatedSegment, AbortDeadlocked, Fail, Rollback, Statements
      <3>2. /\ UNCHANGED tables /\ tx'[r] = NoTx /\ pc'[r] = "failed"
            /\ \A q \in Requests \ {r} : UNCHANGED <<pc[q], tx[q], command[q], subscriberID[q]>>
        BY <3>1 DEF Return, Types
      <3>3. RowHeld(r)' /\ Progress(r)'
        BY <3>2, RowsLeft DEF Statements
      <3> QED
        BY <3>1, <3>2, <3>3, RowsKept DEF Ended, Writing, Adding, Statements
    <2> QED
      BY <2>1, <2>2, RowsBefore, UpsertRows, ClearRows, AddRows, LabelRows, CommitRows DEF Handle
  <1> QED
    BY <1>1, <1>2

-----------------------------------------------------------------------------
(* What a transaction has when it commits.                                 *)

\* A transaction adds labels of its command only, and has every label it
\* passed: none is left out at the commit.
Ready(r) ==
  /\ \A l \in Labels : tx[r].labels[l] # 0 => l \in ToSet(command[r].filters)
  /\ \A i \in 1 .. tx[r].at - 1 : Seen(r, command[r].filters[i]) # 0
  /\ pc[r] = "commit" => tx[r].at = Len(command[r].filters) /\ Seen(r, Label(r)) # 0

AllReady == \A r \in Requests : Ready(r)

\* A label that is there for one transaction is there whatever others do.
LEMMA ReadyKept ==
  ASSUME NEW q \in Requests, Ready(q), AtHand(q), UNCHANGED <<pc[q], tx[q], command[q]>>,
         \A l \in Labels : filters[l] # 0 => filters'[l] # 0
  PROVE  Ready(q)'
  <1>1. CASE pc[q] \notin Statements
    BY <1>1 DEF Ready, AtHand, NoTx, Statements
  <1>2. CASE pc[q] \in Statements
    <2>1. command[q] \in Catalogue /\ tx[q].at \in 1 .. Len(command[q].filters)
      BY <1>2 DEF AtHand
    <2>2. \A i \in 1 .. Len(command[q].filters) : command[q].filters[i] \in Labels
      BY <2>1, CommandTags
    <2>3. Len(command[q].filters) \in Nat
      BY <2>1, CommandTags
    <2>4. \A l \in Labels : Seen(q, l) # 0 => Seen(q, l)' # 0
      BY DEF Seen
    <2>5. \A i \in 1 .. tx[q].at - 1 : command[q].filters[i] \in Labels
      BY <2>1, <2>2, <2>3
    <2>6. Label(q)' = Label(q) /\ Label(q) \in Labels
      BY <2>1, <2>2 DEF Label
    <2> HIDE DEF Seen
    <2> QED
      BY <2>4, <2>5, <2>6 DEF Ready
  <1> QED
    BY <1>1, <1>2

\* A handler without a transaction has added no label.
LEMMA ReadyLeft ==
  ASSUME NEW r \in Requests, tx'[r].labels = NoTx.labels, tx'[r].at = 1, pc'[r] # "commit"
  PROVE  Ready(r)'
  BY DEF Ready, NoTx

\* A statement that is not about labels, by a handler that goes on.
LEMMA ReadyElsewhere ==
  ASSUME NEW r \in Requests, Ready(r), UNCHANGED <<filters, command>>,
         UNCHANGED <<tx[r].labels, tx[r].at>>, pc'[r] # "commit"
  PROVE  Ready(r)'
  BY DEF Ready, Seen

\* An added label joins those the transaction has.
LEMMA ReadyAdded ==
  ASSUME Types, LabelInv, NEW r \in Requests, Ready(r), AddFilter(r)
  PROVE  Ready(r)'
  <1> DEFINE n == IF filters[Label(r)] = 0 THEN tx[r].order ELSE 0
  <1>1. /\ pc[r] = "addFilter" /\ pc'[r] = "assign" /\ UNCHANGED <<command, filters>>
        /\ tx' = [tx EXCEPT ![r].labels[Label(r)] = n]
    BY DEF AddFilter, Step, Types, tables
  <1>2. tx[r] \in Transactions /\ AtHand(r) /\ NumbersHeld(r) /\ tx \in [Requests -> Transactions]
    BY DEF Types, LabelInv
  <1>3. /\ command[r] \in Catalogue /\ tx[r].at \in 1 .. Len(command[r].filters)
        /\ tx[r].order > 0 /\ tx[r].labels[Label(r)] = 0
    BY <1>1, <1>2 DEF AtHand, Statements, NumbersHeld
  <1>4. /\ Label(r) \in ToSet(command[r].filters) /\ Label(r) \in Labels
        /\ Len(command[r].filters) \in Nat
        /\ \A i \in 1 .. Len(command[r].filters) : command[r].filters[i] \in Labels
    BY <1>3, CommandTags DEF Label, ToSet
  <1>5. filters[Label(r)] = 0 => n # 0
    BY <1>2, <1>3 DEF Transactions
  <1> HIDE DEF n
  <1>6. /\ tx'[r].labels = [tx[r].labels EXCEPT ![Label(r)] = n] /\ tx'[r].at = tx[r].at
    BY <1>1, <1>2 DEF Transactions
  <1>7. /\ tx'[r].labels[Label(r)] = n
        /\ \A l \in Labels \ {Label(r)} : tx'[r].labels[l] = tx[r].labels[l]
    BY <1>2, <1>4, <1>6 DEF Transactions
  <1>8. \A l \in Labels : Seen(r, l) # 0 => Seen(r, l)' # 0
    BY <1>1, <1>3, <1>5, <1>7 DEF Seen
  <1>9. \A i \in 1 .. tx[r].at - 1 : command[r].filters[i] \in Labels
    BY <1>3, <1>4
  <1> QED
    <2> HIDE DEF Seen, Label
    <2> QED
      BY <1>1, <1>4, <1>6, <1>7, <1>8, <1>9 DEF Ready

\* A label is assigned once the transaction has it.
LEMMA ReadyAssigned ==
  ASSUME Types, NEW r \in Requests, Ready(r), AssignFilter(r)
  PROVE  Ready(r)'
  <1> DEFINE last == tx[r].at = Len(command[r].filters)
             tag  == Tag("filter", Subscriber(r), Label(r))
             at   == IF last THEN tx[r].at ELSE tx[r].at + 1
  <1>1. /\ pc[r] = "assign" /\ pc'[r] = IF last THEN "commit" ELSE "lookupFilter"
        /\ UNCHANGED <<command, filters>> /\ Seen(r, Label(r)) # 0
        /\ tx' = [tx EXCEPT ![r].inserted = @ \cup {tag}, ![r].at = at]
    BY DEF AssignFilter, Step, Types, tables
  <1>2. tx \in [Requests -> Transactions] /\ AtHand(r)
    BY DEF Types
  <1>3. tx[r].at \in 1 .. Len(command[r].filters) /\ Len(command[r].filters) \in Nat
    BY <1>1, <1>2, CommandTags DEF AtHand, Statements
  <1> HIDE DEF tag
  <1>4. /\ tx'[r].labels = tx[r].labels /\ tx'[r].at = at
    <2> HIDE DEF at
    <2> QED
      BY <1>1, <1>2 DEF Transactions
  <1>5. \A l : Seen(r, l)' = Seen(r, l)
    BY <1>1, <1>4 DEF Seen
  <1>6. last => Label(r)' = Label(r)
    BY <1>1, <1>4 DEF Label
  <1>7. ASSUME NEW i \in 1 .. at - 1 PROVE Seen(r, command[r].filters[i]) # 0
    <2>1. CASE i \in 1 .. tx[r].at - 1
      BY <2>1 DEF Ready
    <2>2. CASE i \notin 1 .. tx[r].at - 1
      <3>1. i = tx[r].at
        BY <1>3, <2>2
      <3> QED
        BY <1>1, <3>1 DEF Label
    <2> QED
      BY <2>1, <2>2
  <1> QED
    <2> HIDE DEF Seen, Label
    <2> QED
      BY <1>1, <1>4, <1>5, <1>6, <1>7 DEF Ready

\* Every step keeps transactions ready.
LEMMA ReadyStep ==
  ASSUME Types, LabelInv, AllReady, [Next]_vars
  PROVE  AllReady'
  <1>1. CASE UNCHANGED vars
    BY <1>1 DEF vars, tables, AllReady, Ready, Seen, Label
  <1>2. CASE Next
    <2> PICK r \in Requests : (\E c \in Catalogue : Arrive(r, c)) \/ Handle(r) \/ Fail(r)
      BY <1>2 DEF Next
    <2>0. tx[r] \in Transactions /\ AtHand(r) /\ Ready(r) /\ tx \in [Requests -> Transactions]
      BY DEF Types, AllReady
    <2> SUFFICES /\ Ready(r)'
                 /\ \A q \in Requests \ {r} : UNCHANGED <<pc[q], tx[q], command[q]>>
                 /\ \A l \in Labels : filters[l] # 0 => filters'[l] # 0
      BY ReadyKept DEF AllReady, Types
    <2>1. CASE (\E c \in Catalogue : Arrive(r, c)) \/ Begin(r)
      <3>1. tx[r] = NoTx
        BY <2>0, <2>1 DEF Arrive, Begin, AtHand, Statements
      <3>2. /\ \A q \in Requests \ {r} : UNCHANGED <<pc[q], tx[q], command[q]>>
            /\ UNCHANGED filters /\ pc'[r] # "commit"
        BY <2>1 DEF Arrive, Begin, Types, tables
      <3>3. tx'[r].labels = NoTx.labels /\ tx'[r].at = 1
        <4>1. CASE \E c \in Catalogue : Arrive(r, c)
          BY <3>1, <4>1 DEF Arrive, NoTx
        <4>2. CASE Begin(r)
          <5>1. tx' = [tx EXCEPT ![r].open = TRUE]
            BY <4>2 DEF Begin
          <5>2. tx'[r].labels = tx[r].labels /\ tx'[r].at = tx[r].at
            BY <2>0, <5>1 DEF Transactions
          <5> QED
            BY <3>1, <5>2 DEF NoTx
        <4> QED
          BY <2>1, <4>1, <4>2
      <3> QED
        BY <3>2, <3>3, ReadyLeft
    <2>2. CASE \/ LookupSubscriber(r) \/ NextSubscriber(r) \/ Upsert(r)
               \/ ClearSegments(r) \/ ClearFilters(r) \/ AddSegments(r)
      <3>1. /\ \A q \in Requests \ {r} : UNCHANGED <<pc[q], command[q]>>
            /\ UNCHANGED <<filters, command>> /\ pc'[r] # "commit"
        BY <2>2 DEF LookupSubscriber, NextSubscriber, Upsert, ClearSegments, ClearFilters, AddSegments,
           Step, Types, tables
      <3>2. UNCHANGED <<tx[r].labels, tx[r].at>> /\ \A q \in Requests \ {r} : tx'[q] = tx[q]
        BY <2>2, OtherFields DEF LookupSubscriber, NextSubscriber, Upsert, ClearSegments, ClearFilters,
           AddSegments
      <3> QED
        BY <2>0, <3>1, <3>2, ReadyElsewhere
    <2>3. CASE LookupFilter(r) \/ NextFilter(r)
      <3>1. /\ \A q \in Requests \ {r} : UNCHANGED <<pc[q], command[q]>>
            /\ UNCHANGED <<filters, command>> /\ pc'[r] # "commit"
        BY <2>3 DEF LookupFilter, NextFilter, Step, Types, tables
      <3>2. UNCHANGED <<tx[r].labels, tx[r].at>> /\ \A q \in Requests \ {r} : tx'[q] = tx[q]
        <4>1. CASE LookupFilter(r)
          BY <4>1 DEF LookupFilter
        <4>2. CASE NextFilter(r)
          <5>1. \E n, x : tx' = [tx EXCEPT ![r].order = n, ![r].saw[Label(r)] = x]
            BY <4>2 DEF NextFilter
          <5> QED
            BY <2>0, <5>1 DEF Transactions
        <4> QED
          BY <2>3, <4>1, <4>2
      <3> QED
        BY <2>0, <3>1, <3>2, ReadyElsewhere
    <2>4. CASE AddFilter(r) \/ AssignFilter(r)
      <3>1. UNCHANGED filters /\ \A q \in Requests \ {r} : UNCHANGED <<pc[q], command[q]>>
        BY <2>4 DEF AddFilter, AssignFilter, Step, Types, tables
      <3>2. \E x : tx' = [tx EXCEPT ![r] = x]
        BY <2>4 DEF AddFilter, AssignFilter
      <3>3. \A q \in Requests \ {r} : tx'[q] = tx[q]
        BY <2>0, <3>2
      <3>4. \A q \in Requests \ {r} : UNCHANGED <<pc[q], tx[q], command[q]>>
        BY <3>1, <3>3
      <3>5. Ready(r)'
        BY <2>0, <2>4, ReadyAdded, ReadyAssigned
      <3> HIDE DEF Ready
      <3> QED
        BY <3>1, <3>4, <3>5
    <2>5. CASE Commit(r)
      <3>1. /\ \A q \in Requests \ {r} : UNCHANGED <<pc[q], tx[q], command[q]>>
            /\ tx'[r] = NoTx /\ pc'[r] # "commit" /\ filters' = [l \in Labels |-> Seen(r, l)]
        BY <2>5 DEF Commit, Types
      <3>2. \A l \in Labels : filters[l] # 0 => filters'[l] # 0
        BY <3>1 DEF Seen
      <3> QED
        BY <3>1, <3>2, ReadyLeft DEF NoTx
    <2>6. CASE RefuseRepeatedSegment(r) \/ AbortDeadlocked(r) \/ Fail(r)
      <3>1. Return(r)
        BY <2>6 DEF RefuseRepeatedSegment, AbortDeadlocked, Fail, Rollback
      <3> QED
        BY <3>1, ReadyLeft DEF Return, Types, NoTx, tables
    <2> QED
      BY <2>1, <2>2, <2>3, <2>4, <2>5, <2>6 DEF Handle
  <1> QED
    BY <1>1, <1>2

-----------------------------------------------------------------------------
StoreInv == Types /\ Resolved /\ LabelInv /\ RowInv /\ AllReady

\* The inductive invariant holds in every reachable state.
THEOREM SubscriberInvariant == Spec => []StoreInv
  <1>1. Init => StoreInv
    <2>1. Init => Resolved
      BY DEF Init, Resolved, Statements
    <2>2. Init => AllReady
      <3> SUFFICES ASSUME Init PROVE AllReady
        OBVIOUS
      <3>1. \A r \in Requests : tx[r] = NoTx /\ pc[r] = "idle"
        BY DEF Init
      <3> QED
        BY <3>1 DEF AllReady, Ready, NoTx
    <2> QED
      BY <2>1, <2>2, InitTypes, InitLabels, InitRows DEF StoreInv
  <1>2. StoreInv /\ [Next]_vars => StoreInv'
    BY TypesStep, ResolvedStep, LabelsStep, RowsStep, ReadyStep DEF StoreInv
  <1> QED
    BY <1>1, <1>2, PTL DEF Spec

\* createSubscriber keeps every column and every transaction in its type; a
\* transaction is open exactly while its handler is at a statement.
THEOREM SubscriberTypes == Spec => []TypeOK
  <1>1. StoreInv => TypeOK
    <2> SUFFICES ASSUME StoreInv PROVE TypeOK
      OBVIOUS
    <2>1. Types
      BY DEF StoreInv
    <2>2. ASSUME NEW r \in Requests
          PROVE  /\ tx[r].open = (pc[r] \in Statements)
                 /\ tx[r].order \in Nat /\ tx[r].row \in Nat
                 /\ pc[r] \in Statements => tx[r].at \in 1 .. Len(command[r].filters)
                 /\ tx[r].deleted \cup tx[r].inserted \subseteq AllTags
                 /\ tx[r].labels \in [Labels -> Nat]
      <3>1. tx[r] \in Transactions /\ AtHand(r)
        BY <2>1 DEF Types
      <3>2. tx[r].open = (pc[r] \in Statements)
        BY <3>1 DEF AtHand, NoTx, Transactions
      <3> QED
        BY <3>1, <3>2 DEF AtHand, Transactions
    <2> QED
      BY <2>1, <2>2 DEF Types, TypeOK, Stages
  <1> QED
    BY <1>1, SubscriberInvariant, PTL

\* createSubscriber replaces a subscriber's address, segments and labels
\* together, whatever other handlers commit meanwhile.
THEOREM SubscribersWhole == Spec => []SubscriberIsWhole
  <1>1. StoreInv => SubscriberIsWhole
    BY Whole DEF StoreInv, RowInv
  <1> QED
    BY <1>1, SubscriberInvariant, PTL

\* A new filter label is numbered after the labels its transaction saw.
THEOREM LabelsInTurn == Spec => []LabelsNumberedInTurn
  BY SubscriberInvariant, PTL DEF StoreInv, LabelInv

-----------------------------------------------------------------------------
(* One replacement at one instant.                                         *)

\* What the tables hold of a subscriber, and what a command puts there.
Stored(s) ==
  [email |-> emails[s], segments |-> {t.label : t \in TagsOf(s, "segment")},
   labels |-> {t.label : t \in TagsOf(s, "filter")}]

\* Untouched tags and address are an untouched row.
LEMMA StoredUnchanged ==
  ASSUME NEW s, UNCHANGED <<emails[s], Own(s)>>
  PROVE  Stored(s)' = Stored(s)
  <1>1. \A k : TagsOf(s, k) = {t \in Own(s) : t.kind = k} /\ TagsOf(s, k)' = {t \in Own(s)' : t.kind = k}
    BY DEF TagsOf, Own
  <1> HIDE DEF TagsOf, Own
  <1>2. UNCHANGED <<TagsOf(s, "segment"), TagsOf(s, "filter")>>
    BY <1>1
  <1> QED
    BY <1>2 DEF Stored

\* The tags of one command are its segments and its labels.
LEMMA StoredMade ==
  ASSUME NEW s, NEW c,
         emails'[s] = c.email, Own(s)' = SegmentTags(s, c) \cup FilterTags(s, c)
  PROVE  Stored(s)' = Table!Contents(c)
  <1>1. \A k : TagsOf(s, k)' = {t \in Own(s)' : t.kind = k}
    BY DEF TagsOf, Own
  <1>2. /\ \A t \in SegmentTags(s, c) : t.kind = "segment"
        /\ \A t \in FilterTags(s, c) : t.kind = "filter"
    BY DEF SegmentTags, FilterTags, Tag
  <1>3. /\ {t.label : t \in SegmentTags(s, c)} = ToSet(c.segments)
        /\ {t.label : t \in FilterTags(s, c)} = ToSet(c.filters)
    <2>1. \A k, l : Tag(k, s, l).label = l
      BY DEF Tag
    <2> HIDE DEF Tag, ToSet
    <2> QED
      BY <2>1 DEF SegmentTags, FilterTags
  <1> HIDE DEF TagsOf, Own, SegmentTags, FilterTags
  <1>4. TagsOf(s, "segment")' = SegmentTags(s, c) /\ TagsOf(s, "filter")' = FilterTags(s, c)
    <2>1. \A k, t : t \in TagsOf(s, k)' <=> t \in SegmentTags(s, c) \cup FilterTags(s, c) /\ t.kind = k
      BY <1>1
    <2>2. \A t : t \in TagsOf(s, "segment")' <=> t \in SegmentTags(s, c)
      BY <1>2, <2>1
    <2>3. \A t : t \in TagsOf(s, "filter")' <=> t \in FilterTags(s, c)
      BY <1>2, <2>1
    <2>4. TagsOf(s, "segment")' \subseteq SegmentTags(s, c) /\ SegmentTags(s, c) \subseteq TagsOf(s, "segment")'
      BY <2>2
    <2>5. TagsOf(s, "filter")' \subseteq FilterTags(s, c) /\ FilterTags(s, c) \subseteq TagsOf(s, "filter")'
      BY <2>3
    <2> QED
      BY <2>4, <2>5
  <1>5. Table!Contents(c) = [email |-> c.email, segments |-> ToSet(c.segments), labels |-> ToSet(c.filters)]
    BY DEF Table!Contents, Table!ToSet, ToSet
  <1> QED
    BY <1>3, <1>4, <1>5 DEF Stored

\* The seeded tables are a table without subscribers.
LEMMA MapsInit == Init /\ Types => Table!Init
  <1> SUFFICES ASSUME Init, Types PROVE Table!Init
    OBVIOUS
  <1>1. \A s \in Subscribers : Stored(s) = Table!Nothing
    BY DEF Init, Stored, TagsOf, Table!Nothing
  <1>2. \A r \in Requests : ~UnderWay(r)
    BY DEF Init, UnderWay, Statements
  <1>3. filters \in [Labels -> Nat]
    BY DEF Types
  <1> QED
    BY <1>1, <1>2, <1>3 DEF Init, Table!Init, Stored

\* A commit is one replacement.
LEMMA MapsCommit ==
  ASSUME Types, Resolved, LabelInv, RowInv, AllReady, NEW r \in Requests, Commit(r)
  PROVE  Table!Store(r)
  <1> PICK s, c : s = subscriberID[r] /\ c = command[r]
    OBVIOUS
  <1> DEFINE called == [q \in Requests |-> IF UnderWay(q) THEN command[q] ELSE NoCommand]
             phase  == [q \in Requests |-> IF UnderWay(q) THEN "running" ELSE pc[q]]
             rows   == [x \in Subscribers |-> Stored(x)]
  <1>1. /\ pc[r] = "commit" /\ tx'[r] = NoTx /\ pc'[r] \in {"stored", "failed"}
        /\ pc' = [pc EXCEPT ![r] = pc'[r]]
        /\ UNCHANGED <<command, subscriberID>>
        /\ subscribers' = [subscribers EXCEPT ![s] = IF @ = 0 THEN tx[r].row ELSE @]
        /\ emails' = [emails EXCEPT ![s] = c.email]
        /\ tags' = (tags \ tx[r].deleted) \cup tx[r].inserted
        /\ filters' = [l \in Labels |-> Seen(r, l)]
    BY DEF Commit, Types, Subscriber
  <1>2. /\ s \in Subscribers /\ c \in Catalogue /\ tx[r].row # 0 /\ tx[r].deleted = Own(s)
        /\ tx[r].inserted = SegmentTags(s, c) \cup FilterTags(s, c)
        /\ tx[r].at \in 1 .. Len(c.filters)
    <2>1. AtHand(r) /\ RowHeld(r) /\ Progress(r)
      BY DEF Types, RowInv
    <2> QED
      BY <1>1, <2>1 DEF AtHand, RowHeld, Progress, Writing, Adding, Statements
  <1>3. \A t \in SegmentTags(s, c) \cup FilterTags(s, c) : t.subscriber = s
    BY TagKinds
  <1> HIDE DEF SegmentTags, FilterTags
  <1>4. Own(s)' = SegmentTags(s, c) \cup FilterTags(s, c) /\ \A x : x # s => Own(x)' = Own(x)
    BY <1>1, <1>2, <1>3 DEF Own
  <1>5. Stored(s)' = Table!Contents(c)
    BY <1>1, <1>2, <1>4, StoredMade DEF Types
  <1>6. \A x \in Subscribers \ {s} : Stored(x)' = Stored(x)
    BY <1>1, <1>4, StoredUnchanged DEF Types
  <1>7. rows' = [rows EXCEPT ![s] = Table!Contents(c)]
    <2> HIDE DEF Stored, Table!Contents
    <2> QED
      BY <1>2, <1>5, <1>6
  <1>8. s \in {resolveSubscriberID(c, second) : second \in Seconds}
    BY <1>1 DEF Resolved, Statements
  <1>9. Table!Number(subscribers, subscribers', {s})
    BY <1>1, <1>2 DEF Types, Table!Number, Table!Numbered
  <1>10. Table!Number(filters, filters', ToSet(c.filters))
    <2>1. Ready(r) /\ filters \in [Labels -> Nat] /\ tx[r].labels \in [Labels -> Nat]
      BY DEF AllReady, Types, Transactions
    <2>2. \A l \in Labels : filters[l] # 0 => filters'[l] = filters[l]
      BY <1>1, <2>1 DEF LabelInv, AddsAlone, Seen
    <2>3. \A l \in Labels : filters'[l] # 0 => filters[l] # 0 \/ l \in ToSet(c.filters)
      BY <1>1, <2>1 DEF Seen, Ready
    <2>4. c.filters \in Seq(Labels) /\ Len(c.filters) \in Nat /\ \A i \in 1 .. Len(c.filters) : c.filters[i] \in Labels
      BY <1>2, CommandTags
    <2>5. \A i \in 1 .. Len(c.filters) : Seen(r, c.filters[i]) # 0
      <3> TAKE i \in 1 .. Len(c.filters)
      <3>1. tx[r].at = Len(c.filters)
        BY <1>1, <2>1 DEF Ready
      <3>2. CASE i = tx[r].at
        BY <1>1, <2>1, <3>2 DEF Ready, Label
      <3>3. CASE i # tx[r].at
        <4>1. i \in 1 .. tx[r].at - 1
          BY <2>4, <3>1, <3>3
        <4> QED
          BY <2>1, <4>1 DEF Ready
      <3> QED
        BY <3>2, <3>3
    <2>6. ToSet(c.filters) = {c.filters[i] : i \in 1 .. Len(c.filters)}
      BY <2>4 DEF ToSet
    <2>7. \A l \in ToSet(c.filters) : l \in Labels /\ filters'[l] # 0
      <3> HIDE DEF Seen
      <3> QED
        BY <1>1, <2>4, <2>5, <2>6
    <2>8. DOMAIN filters = Labels /\ DOMAIN filters' = Labels
      BY <1>1, <2>1
    <2> HIDE DEF ToSet
    <2> QED
      BY <2>2, <2>3, <2>7, <2>8 DEF Table!Number, Table!Numbered
  <1>11. /\ UnderWay(r) /\ ~UnderWay(r)'
         /\ \A q \in Requests \ {r} : UnderWay(q)' = UnderWay(q) /\ pc'[q] = pc[q]
    BY <1>1 DEF UnderWay, Statements, Types
  <1>12. /\ called[r] = c /\ phase[r] = "running"
         /\ called' = [called EXCEPT ![r] = NoCommand] /\ phase' = [phase EXCEPT ![r] = pc'[r]]
    <2> HIDE DEF UnderWay
    <2> QED
      BY <1>1, <1>11
  <1>13. Table!ToSet(c.filters) = ToSet(c.filters)
    BY DEF Table!ToSet, ToSet
  <1>14. [d \in Catalogue |-> {resolveSubscriberID(d, second) : second \in Seconds}][c]
           = {resolveSubscriberID(c, second) : second \in Seconds}
    BY <1>2
  <1> QED
    BY <1>1, <1>2, <1>7, <1>8, <1>9, <1>10, <1>12, <1>13, <1>14 DEF Table!Store, Table!End, Stored

\* A call, a return with an error and a commit are steps of the table; what
\* lies between is seen by nobody.
LEMMA MapsNext ==
  ASSUME StoreInv, [Next]_vars
  PROVE  [Table!Next]_(Table!tableVars)
  <1>0. Types /\ Resolved /\ LabelInv /\ RowInv /\ AllReady
    BY DEF StoreInv
  <1>1. CASE UNCHANGED vars
    BY <1>1 DEF vars, tables, Table!tableVars, UnderWay, TagsOf
  <1>2. CASE Next
    <2> PICK r \in Requests : (\E c \in Catalogue : Arrive(r, c)) \/ Handle(r) \/ Fail(r)
      BY <1>2 DEF Next
    <2>1. CASE \E c \in Catalogue : Arrive(r, c)
      <3> PICK c \in Catalogue : Arrive(r, c)
        BY <2>1
      <3>1. /\ pc[r] = "idle" /\ pc' = [pc EXCEPT ![r] = "queued"] /\ command' = [command EXCEPT ![r] = c]
            /\ UNCHANGED <<subscribers, emails, filters, tags>>
        BY DEF Arrive, tables
      <3>2. \A s, k : TagsOf(s, k)' = TagsOf(s, k)
        BY <3>1 DEF TagsOf
      <3>3. /\ ~UnderWay(r) /\ UnderWay(r)'
            /\ \A q \in Requests \ {r} : UnderWay(q)' = UnderWay(q) /\ pc'[q] = pc[q] /\ command'[q] = command[q]
        BY <1>0, <3>1 DEF UnderWay, Statements, Types
      <3>4. pc \in [Requests -> Stages] /\ command'[r] = c
        BY <1>0, <3>1 DEF Types
      <3> HIDE DEF UnderWay, TagsOf
      <3>5. Table!Call(r, c)
        BY <3>1, <3>2, <3>3, <3>4 DEF Table!Call
      <3> QED
        BY <3>5 DEF Table!Next
    <2>2. CASE Commit(r)
      BY <1>0, <2>2, MapsCommit DEF Table!Next
    <2>3. CASE RefuseRepeatedSegment(r) \/ AbortDeadlocked(r) \/ Fail(r)
      <3>1. Return(r) /\ pc[r] \in Statements \cup {"queued"}
        BY <2>3 DEF RefuseRepeatedSegment, AbortDeadlocked, Fail, Rollback, Statements
      <3>2. /\ pc' = [pc EXCEPT ![r] = "failed"] /\ command' = [command EXCEPT ![r] = NoCommand]
            /\ UNCHANGED <<subscribers, emails, filters, tags>>
        BY <3>1 DEF Return, tables
      <3>3. \A s, k : TagsOf(s, k)' = TagsOf(s, k)
        BY <3>2 DEF TagsOf
      <3>4. /\ UnderWay(r) /\ ~UnderWay(r)'  /\ pc'[r] = "failed"
            /\ \A q \in Requests \ {r} : UnderWay(q)' = UnderWay(q) /\ pc'[q] = pc[q] /\ command'[q] = command[q]
        BY <1>0, <3>1, <3>2 DEF UnderWay, Statements, Types
      <3> HIDE DEF UnderWay, TagsOf
      <3>5. Table!Fail(r)
        BY <3>2, <3>3, <3>4 DEF Table!Fail, Table!End
      <3> QED
        BY <3>5 DEF Table!Next
    <2>4. ASSUME ~(\E c \in Catalogue : Arrive(r, c)), ~Commit(r),
                 ~(RefuseRepeatedSegment(r) \/ AbortDeadlocked(r) \/ Fail(r))
          PROVE  UNCHANGED Table!tableVars
      <3>1. UNCHANGED <<tables, command>> /\ UnderWay(r) /\ UnderWay(r)'
            /\ \A q \in Requests \ {r} : pc'[q] = pc[q]
        BY <1>0, <2>4 DEF Handle, Begin, LookupSubscriber, NextSubscriber, Upsert, ClearSegments,
           ClearFilters, AddSegments, LookupFilter, NextFilter, AddFilter, AssignFilter, Step,
           Statements, UnderWay, Types
      <3>2. \A q \in Requests \ {r} : UnderWay(q)' = UnderWay(q)
        BY <3>1 DEF UnderWay
      <3>3. \A s, k : TagsOf(s, k)' = TagsOf(s, k)
        BY <3>1 DEF TagsOf, tables
      <3> HIDE DEF UnderWay, TagsOf
      <3> QED
        BY <3>1, <3>2, <3>3 DEF tables, Table!tableVars
    <2> QED
      BY <2>1, <2>2, <2>3, <2>4
  <1> QED
    BY <1>1, <1>2

\* createSubscriber implements one replacement at one instant, or none.
THEOREM StoreImplementsTable == Spec => ImplementsTable
  <1>1. Init => Table!Init
    BY InitTypes, MapsInit
  <1>2. StoreInv /\ [Next]_vars => [Table!Next]_(Table!tableVars)
    BY MapsNext
  <1> QED
    BY <1>1, <1>2, SubscriberInvariant, PTL DEF Spec, ImplementsTable, Table!Spec

-----------------------------------------------------------------------------
(* How far a transaction is from its end.                                  *)

\* The statements from each one to the commit, for the last label; a label
\* before that takes four more.
Distance ==
  [queued |-> 12, lookup |-> 11, next |-> 10, upsert |-> 9, clearSegments |-> 8, clearFilters |-> 7,
   addSegments |-> 6, lookupFilter |-> 5, nextFilter |-> 4, addFilter |-> 3, assign |-> 2, commit |-> 1]

StepsLeft(r) ==
  IF UnderWay(r) THEN Distance[pc[r]] + 4 * (Len(command[r].filters) - tx[r].at) ELSE 0

\* A handler's own steps bring it nearer its end, nobody else's step changes
\* what it has to do.
Nearer(r) ==
  UnderWay(r) => /\ StepsLeft(r) \in 1 .. 8 + 4 * Len(command[r].filters)
                 /\ StepsLeft(r)' < StepsLeft(r) \/ UNCHANGED <<pc[r], tx[r], command[r]>>

\* Counting down by labels and statements.
LEMMA Countdown ==
  ASSUME NEW n \in Nat, NEW a \in 1 .. n, NEW d \in 1 .. 12
  PROVE  /\ d + 4 * (n - a) \in 1 .. 8 + 4 * n
         /\ \A e \in 1 .. 12 : e < d => e + 4 * (n - a) < d + 4 * (n - a)
  OBVIOUS

\* Going on to the next label is nearer than having this one to assign.
LEMMA OneLabelLess ==
  ASSUME NEW n \in Nat, NEW a \in 1 .. n
  PROVE  5 + 4 * (n - (a + 1)) < 2 + 4 * (n - a)
  OBVIOUS

\* What a handler that is under way has before it.
LEMMA Remaining ==
  ASSUME Types, NEW r \in Requests, UnderWay(r)
  PROVE  /\ Len(command[r].filters) \in Nat /\ tx[r].at \in 1 .. Len(command[r].filters)
         /\ Distance[pc[r]] \in 1 .. 12
         /\ StepsLeft(r) = Distance[pc[r]] + 4 * (Len(command[r].filters) - tx[r].at)
         /\ StepsLeft(r) \in 1 .. 8 + 4 * Len(command[r].filters)
  <1>1. AtHand(r) /\ pc[r] \in Statements \cup {"queued"} /\ "queued" \notin Statements
    BY DEF Types, UnderWay, Statements
  <1>2. command[r] \in Catalogue /\ Len(command[r].filters) \in Nat \ {0}
    BY <1>1, CommandTags DEF AtHand
  <1>3. tx[r].at \in 1 .. Len(command[r].filters)
    <2>1. CASE pc[r] \in Statements
      BY <1>1, <2>1 DEF AtHand
    <2>2. CASE pc[r] = "queued"
      <3>1. tx[r].at = 1
        BY <1>1, <2>2 DEF AtHand, NoTx
      <3> QED
        BY <1>2, <3>1
    <2> QED
      BY <1>1, <2>1, <2>2
  <1>4. Distance[pc[r]] \in 1 .. 12
    BY <1>1 DEF Distance, Statements
  <1>5. StepsLeft(r) = Distance[pc[r]] + 4 * (Len(command[r].filters) - tx[r].at)
    BY DEF StepsLeft
  <1> HIDE DEF StepsLeft, Distance
  <1>6. StepsLeft(r) \in 1 .. 8 + 4 * Len(command[r].filters)
    BY <1>2, <1>3, <1>4, <1>5, Countdown
  <1> QED
    BY <1>2, <1>3, <1>4, <1>5, <1>6

\* A statement nearer the commit, for the same label, is a step less.
LEMMA NearerBy ==
  ASSUME Types, NEW r \in Requests, NEW to \in Statements, UnderWay(r), pc'[r] = to,
         command' = command, tx'[r].at = tx[r].at, Distance[to] < Distance[pc[r]]
  PROVE  StepsLeft(r)' < StepsLeft(r)
  <1>1. /\ Len(command[r].filters) \in Nat /\ tx[r].at \in 1 .. Len(command[r].filters)
        /\ Distance[pc[r]] \in 1 .. 12
        /\ StepsLeft(r) = Distance[pc[r]] + 4 * (Len(command[r].filters) - tx[r].at)
    BY Remaining
  <1>2. StepsLeft(r)' = Distance[to] + 4 * (Len(command[r].filters) - tx[r].at)
    BY DEF StepsLeft, UnderWay
  <1>3. Distance[to] \in 1 .. 12
    BY DEF Distance, Statements
  <1> HIDE DEF StepsLeft, Distance
  <1> QED
    BY <1>1, <1>2, <1>3, Countdown

\* Every step of a handler is one of its way.
LEMMA NearerStep ==
  ASSUME Types, NEW r \in Requests, UnderWay(r), Handle(r) \/ Fail(r)
  PROVE  StepsLeft(r)' < StepsLeft(r)
  <1>0. tx \in [Requests -> Transactions] /\ pc \in [Requests -> Stages]
    BY DEF Types
  <1>1. CASE Begin(r)
    <2>1. /\ pc[r] = "queued" /\ pc'[r] = "lookup" /\ command' = command /\ tx' = [tx EXCEPT ![r].open = TRUE]
      BY <1>0, <1>1 DEF Begin
    <2>2. tx'[r].at = tx[r].at
      BY <1>0, <2>1 DEF Transactions
    <2> QED
      BY <2>1, <2>2, NearerBy DEF Distance, Statements
  <1>2. ASSUME NEW from \in Statements, NEW to \in Statements, Step(r, from, to),
               tx'[r].at = tx[r].at, Distance[to] < Distance[from]
        PROVE  StepsLeft(r)' < StepsLeft(r)
    <2>1. pc[r] = from /\ pc'[r] = to /\ command' = command
      BY <1>0, <1>2 DEF Step
    <2> QED
      BY <1>2, <2>1, NearerBy
  <1>3. CASE LookupSubscriber(r) \/ NextSubscriber(r) \/ Upsert(r)
    <2>1. tx'[r].at = tx[r].at
      BY <1>3, OtherFields DEF LookupSubscriber, NextSubscriber, Upsert
    <2>2. CASE LookupSubscriber(r)
      BY <1>2, <2>1, <2>2 DEF LookupSubscriber, Distance, Statements
    <2>3. CASE NextSubscriber(r)
      BY <1>2, <2>1, <2>3 DEF NextSubscriber, Distance, Statements
    <2>4. CASE Upsert(r)
      BY <1>2, <2>1, <2>4 DEF Upsert, Distance, Statements
    <2> QED
      BY <1>3, <2>2, <2>3, <2>4
  <1>4. CASE ClearSegments(r) \/ ClearFilters(r) \/ AddSegments(r)
    <2>1. tx'[r].at = tx[r].at
      BY <1>0, <1>4 DEF ClearSegments, ClearFilters, AddSegments, Transactions
    <2>2. CASE ClearSegments(r)
      BY <1>2, <2>1, <2>2 DEF ClearSegments, Distance, Statements
    <2>3. CASE ClearFilters(r)
      BY <1>2, <2>1, <2>3 DEF ClearFilters, Distance, Statements
    <2>4. CASE AddSegments(r)
      BY <1>2, <2>1, <2>4 DEF AddSegments, Distance, Statements
    <2> QED
      BY <1>4, <2>2, <2>3, <2>4
  <1>5. CASE LookupFilter(r)
    BY <1>2, <1>5 DEF LookupFilter, Distance, Statements
  <1>6. CASE NextFilter(r)
    <2>1. tx'[r].at = tx[r].at
      BY <1>0, <1>6 DEF NextFilter, Transactions
    <2> QED
      BY <1>2, <1>6, <2>1 DEF NextFilter, Distance, Statements
  <1>7. CASE AddFilter(r)
    <2>1. tx'[r].at = tx[r].at
      BY <1>0, <1>7 DEF AddFilter, Transactions
    <2> QED
      BY <1>2, <1>7, <2>1 DEF AddFilter, Distance, Statements
  <1>8. CASE AssignFilter(r)
    <2> DEFINE n == Len(command[r].filters)
    <2>1. /\ pc[r] = "assign" /\ command' = command
          /\ Step(r, "assign", IF tx[r].at = n THEN "commit" ELSE "lookupFilter")
          /\ pc'[r] = IF tx[r].at = n THEN "commit" ELSE "lookupFilter"
      BY <1>0, <1>8 DEF AssignFilter, Step
    <2>2. tx'[r].at = IF tx[r].at = n THEN tx[r].at ELSE tx[r].at + 1
      BY <1>0, <1>8 DEF AssignFilter, Transactions
    <2>3. CASE tx[r].at = n
      BY <1>2, <2>1, <2>2, <2>3 DEF Distance, Statements
    <2>4. CASE tx[r].at # n
      <3>1. StepsLeft(r)' = Distance["lookupFilter"] + 4 * (n - (tx[r].at + 1))
        BY <2>1, <2>2, <2>4 DEF StepsLeft, UnderWay, Statements
      <3>2. /\ n \in Nat /\ tx[r].at \in 1 .. n
            /\ StepsLeft(r) = Distance["assign"] + 4 * (n - tx[r].at)
        BY <2>1, Remaining
      <3>3. Distance["lookupFilter"] = 5 /\ Distance["assign"] = 2
        BY DEF Distance
      <3> HIDE DEF n, StepsLeft, Distance
      <3>4. StepsLeft(r)' = 5 + 4 * (n - (tx[r].at + 1)) /\ StepsLeft(r) = 2 + 4 * (n - tx[r].at)
        BY <3>1, <3>2, <3>3
      <3>5. 5 + 4 * (n - (tx[r].at + 1)) < 2 + 4 * (n - tx[r].at)
        BY <3>2, OneLabelLess
      <3> QED
        BY <3>4, <3>5
    <2> QED
      BY <2>3, <2>4
  <1>9. CASE Commit(r) \/ Return(r)
    <2>1. pc'[r] \in {"stored", "failed"}
      BY <1>0, <1>9 DEF Commit, Return
    <2>2. StepsLeft(r)' = 0
      BY <2>1 DEF StepsLeft, UnderWay, Statements
    <2>3. StepsLeft(r) \in 1 .. 8 + 4 * Len(command[r].filters) /\ Len(command[r].filters) \in Nat
      BY Remaining
    <2> QED
      BY <2>2, <2>3
  <1> QED
    BY <1>1, <1>3, <1>4, <1>5, <1>6, <1>7, <1>8, <1>9
       DEF Handle, Fail, Rollback, RefuseRepeatedSegment, AbortDeadlocked

\* createSubscriber has at most 8 + 4n steps to go for n labels, and no other
\* transaction can give it more, whatever labels it adds or numbers it takes:
\* it ends unless it waits for a connection, a row or a label for ever, which
\* EveryCommandEnds excludes.
THEOREM StepsRunOut == Spec => [][\A r \in Requests : Nearer(r)]_vars
  <1>1. Types /\ Next => \A r \in Requests : Nearer(r)
    <2> SUFFICES ASSUME Types, Next, NEW r \in Requests, UnderWay(r)
                 PROVE  /\ StepsLeft(r) \in 1 .. 8 + 4 * Len(command[r].filters)
                        /\ StepsLeft(r)' < StepsLeft(r) \/ UNCHANGED <<pc[r], tx[r], command[r]>>
      BY DEF Nearer
    <2>1. StepsLeft(r) \in 1 .. 8 + 4 * Len(command[r].filters)
      BY Remaining
    <2> PICK q \in Requests : (\E c \in Catalogue : Arrive(q, c)) \/ Handle(q) \/ Fail(q)
      BY DEF Next
    <2>2. CASE q # r
      <3>1. UNCHANGED <<pc[r], tx[r], command[r]>>
        BY <2>2 DEF Arrive, Handle, Fail, Rollback, Return, RefuseRepeatedSegment, AbortDeadlocked, Begin,
           LookupSubscriber, NextSubscriber, Upsert, ClearSegments, ClearFilters, AddSegments, LookupFilter,
           NextFilter, AddFilter, AssignFilter, Commit, Step, Types
      <3> QED
        BY <2>1, <3>1
    <2>3. CASE q = r
      <3>1. ~\E c \in Catalogue : Arrive(r, c)
        BY DEF Arrive, UnderWay, Statements
      <3> QED
        BY <2>1, <2>3, <3>1, NearerStep
    <2> QED
      BY <2>2, <2>3
  <1>2. Spec => []Types
    BY SubscriberInvariant, PTL DEF StoreInv
  <1> QED
    BY <1>1, <1>2, PTL DEF Spec

-----------------------------------------------------------------------------
(* Not everybody waits.                                                    *)

\* A handler waits for a connection, or for another transaction's locks
\* without being one of a circle that Postgres breaks.
Waits(r) ==
  IF pc[r] = "queued" THEN Cardinality({q \in Requests : tx[q].open}) >= PoolSize
  ELSE Blockers(r) # {} /\ r \notin Deadlocked

SomebodyGoes ==
  (\E r \in Requests : UnderWay(r)) => \E r \in Requests : UnderWay(r) /\ ~Waits(r)

\* Where everybody of a finite set waits for somebody of it, some of them
\* wait in circles: take a smallest such set.
LEMMA CircleExists ==
  ASSUME NEW S, IsFiniteSet(S), S # {}, NEW B, \A r \in S : B[r] \cap (S \ {r}) # {}
  PROVE  \E C \in SUBSET S : /\ C # {}
                             /\ \A r \in C : (\E q \in C : q \in B[r]) /\ (\E q \in C : r \in B[q])
  <1> DEFINE Closed(C) == C # {} /\ \A r \in C : B[r] \cap (C \ {r}) # {}
             All == {C \in SUBSET S : Closed(C)}
  <1>1. S \in All /\ All \subseteq SUBSET S
    OBVIOUS
  <1>2. IsWellFoundedOn(StrictSubsetOrdering(S), SUBSET S)
    BY FS_StrictSubsetOrderingWellFounded, FS_FiniteSubsetsOfFinite
  <1>3. PICK C \in All : \A D \in All : <<D, C>> \notin StrictSubsetOrdering(S)
    <2> HIDE DEF All
    <2> QED
      BY <1>1, <1>2, WFMin
  <1>4. ASSUME NEW r \in C PROVE \E q \in C : r \in B[q]
    <2> SUFFICES ASSUME \A q \in C : r \notin B[q] PROVE FALSE
      OBVIOUS
    <2> DEFINE D == C \ {r}
    <2>1. D # {} /\ \A q \in D : B[q] \cap (D \ {q}) # {}
      OBVIOUS
    <2>2. D \in All
      BY <1>3, <2>1
    <2>3. <<D, C>> \in StrictSubsetOrdering(S)
      BY <1>1, <1>3, <2>2 DEF StrictSubsetOrdering
    <2> QED
      BY <1>3, <2>2, <2>3
  <1>5. C \in SUBSET S /\ C # {} /\ \A r \in C : \E q \in C : q \in B[r]
    BY <1>1, <1>3
  <1> QED
    <2> HIDE DEF All
    <2> QED
      BY <1>4, <1>5

\* Only an open transaction is waited for.
LEMMA BlockersAreOpen ==
  ASSUME Types, NEW r \in Requests, NEW q \in Blockers(r), pc[r] \in Statements
  PROVE  q \in Requests \ {r} /\ pc[q] \in Statements
  <1>1. q \in Requests \ {r} /\ AtHand(q) /\ AtHand(r)
    BY DEF Blockers, Types
  <1>2. tx[q] # NoTx
    <2>1. Label(r) \in Labels
      BY <1>1, CommandTags DEF AtHand, Label
    <2> QED
      BY <2>1 DEF Blockers, HoldsRow, NoTx
  <1> QED
    BY <1>1, <1>2 DEF AtHand

\* Handlers wait for connections, for a subscriber's row and for each other's
\* new labels, and some handler under way does not wait, or waits in a circle
\* that Postgres breaks: neither the pool nor the locks of createSubscriber
\* can stop all of them.
THEOREM NobodyStopsAll ==
  ASSUME IsFiniteSet(Requests)
  PROVE  Spec => []SomebodyGoes
  <1>1. Types => SomebodyGoes
    <2> SUFFICES ASSUME Types, NEW p \in Requests, UnderWay(p),
                        \A r \in Requests : UnderWay(r) => Waits(r)
                 PROVE  FALSE
      BY DEF SomebodyGoes
    <2> DEFINE Open == {q \in Requests : tx[q].open}
    <2>1. Open = {q \in Requests : pc[q] \in Statements}
      <3>1. ASSUME NEW q \in Requests PROVE tx[q].open <=> pc[q] \in Statements
        <4>1. AtHand(q)
          BY DEF Types
        <4> QED
          BY <4>1 DEF AtHand, NoTx
      <3> QED
        BY <3>1
    <2>2. IsFiniteSet(Open)
      BY FS_Subset
    <2>3. Open # {}
      <3>1. CASE pc[p] = "queued"
        <4>1. Cardinality(Open) >= PoolSize
          BY <3>1 DEF Waits
        <4> QED
          BY <4>1, FS_EmptySet, PoolAssumption
      <3>2. CASE pc[p] # "queued"
        BY <2>1, <3>2 DEF UnderWay
      <3> QED
        BY <3>1, <3>2
    <2>4. \A r \in Open : Blockers(r) # {} /\ r \notin Deadlocked
      BY <2>1 DEF UnderWay, Waits, Statements
    <2>5. \A r \in Open : Blockers(r) \cap (Open \ {r}) # {}
      BY <2>1, <2>4, BlockersAreOpen
    <2>6. PICK C \in SUBSET Open :
            C # {} /\ \A r \in C : (\E q \in C : q \in Blockers(r)) /\ (\E q \in C : r \in Blockers(q))
      <3> DEFINE B == [r \in Open |-> Blockers(r)]
      <3>1. \A r \in Open : B[r] = Blockers(r)
        OBVIOUS
      <3> HIDE DEF Open, B
      <3>2. \A r \in Open : B[r] \cap (Open \ {r}) # {}
        BY <2>5, <3>1
      <3>3. PICK C \in SUBSET Open :
              C # {} /\ \A r \in C : (\E q \in C : q \in B[r]) /\ (\E q \in C : r \in B[q])
        BY <2>2, <2>3, <3>2, CircleExists
      <3>4. \A r \in C : (\E q \in C : q \in Blockers(r)) /\ (\E q \in C : r \in Blockers(q))
        BY <3>1, <3>3
      <3> QED
        BY <3>3, <3>4
    <2>7. C \subseteq Deadlocked
      <3> HIDE DEF Blockers
      <3> QED
        BY <2>6 DEF Deadlocked
    <2> QED
      BY <2>4, <2>6, <2>7
  <1>2. Spec => []Types
    BY SubscriberInvariant, PTL DEF StoreInv
  <1> QED
    BY <1>1, <1>2, PTL
=============================================================================
