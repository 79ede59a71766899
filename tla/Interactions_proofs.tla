------------------------- MODULE Interactions_proofs -------------------------
(***************************************************************************)
(* What an answer and an event say of the store, for every set of requests *)
(* and every catalogue of commands.                                        *)
(*                                                                         *)
(* The service drives the campaign store only through its calls, so        *)
(* ServiceSpec implements the store's Spec and every theorem about the     *)
(* store holds here.  The invariant of the service adds what has happened  *)
(* by the time a request publishes (Recorded), is acknowledged or waits    *)
(* for the reply to its second post (Progressed), and what a post stands   *)
(* for wherever it is (Sent).                                              *)
(***************************************************************************)
EXTENDS Interactions, CampaignStore_proofs

Known == DOMAIN command

\* A request that has not brought a command has done nothing.
Fresh ==
  \A r \in Requests :
    /\ stage[r] = "waiting" => r \notin Known
    /\ r \notin Known =>
         /\ pc[r] = "idle" /\ stage[r] \in {"waiting", "answered"}
         /\ posting[r] = "none" /\ acked[r] = {} /\ answer[r] # "accepted"

\* The store works for a request on the campaign its command names.
OnTarget ==
  \A r \in Requests : pc[r] # "idle" =>
    /\ Stores(r)
    /\ pc[r] \in Statements \cup {"stored"} => target[r] = StoredCampaign(command[r])

\* The command of r took effect in the store.
Recorded(r) ==
  /\ Stores(r) => pc[r] = "stored"
  /\ StoreOperation(command[r]) = AddSubscriber => r \in subscribers

Consistent(r) ==
  /\ stage[r] = "publishing" \/ acked[r] # {} \/ posting[r] # "none" \/ answer[r] = "accepted"
       => Recorded(r)
  /\ \A ch \in acked[r] : PostOf(r, ch) \in published
  /\ posting[r] = "email" => "analytics" \notin Waiting(r)
  /\ answer[r] = "accepted" => Waiting(r) = {}

Progressed == \A r \in Known : Consistent(r)

Sent ==
  \A p \in outbox \cup published :
    /\ Recorded(p.request)
    /\ p.channel = "email" => "analytics" \notin Waiting(p.request)

ServiceInv == ServiceTypeOK /\ Fresh /\ OnTarget /\ Progressed /\ Sent

-----------------------------------------------------------------------------
\* The operations of the store are different ones.
LEMMA OperationsDiffer ==
  /\ AddSubscriber \notin {CreateBrief, LaunchTest} /\ <<>> \notin {CreateBrief, LaunchTest}
  /\ AddSubscriber # <<>>
  BY DEF AddSubscriber, CreateBrief, LaunchTest

\* Record touches the store only through createCampaign, scheduleCampaign
\* and what these do next.
LEMMA StoreCalls == [ServiceNext]_vars => [Next]_storeVars
  <1> SUFFICES ASSUME [ServiceNext]_vars PROVE [Next]_storeVars
    OBVIOUS
  <1>1. ASSUME NEW r \in Requests, NEW c \in Catalogue, RecordCreate(r, c) \/ RecordLaunch(r, c)
        PROVE  Next
    <2>1. Call(r)
      BY <1>1 DEF RecordCreate, RecordLaunch, Call, BeginCreate, BeginSchedule
    <2> QED
      BY <2>1 DEF Next
  <1>2. ASSUME NEW r \in Requests, StoreStep(r) PROVE Next
    BY <1>2 DEF StoreStep, Next
  <1>3. ASSUME NEW r \in Requests, NEW c \in Catalogue,
               RecordInvalid(r, c) \/ RecordSubscriber(r, c) \/ RecordOther(r, c)
        PROVE  UNCHANGED storeVars
    BY <1>3 DEF RecordInvalid, RecordSubscriber, RecordOther
  <1>4. ASSUME NEW r \in Requests, Reject(r) \/ Publish(r) PROVE UNCHANGED storeVars
    BY <1>4 DEF Reject, Publish, Post, Acknowledged, PostFailed, Accept, AcceptLate
  <1>5. ASSUME NEW p \in outbox, Take(p) \/ Lose(p) PROVE UNCHANGED storeVars
    BY <1>5 DEF Take, Lose
  <1>6. CASE Tick
    BY <1>6 DEF Tick
  <1>7. CASE UNCHANGED vars
    BY <1>7 DEF vars
  <1> QED
    BY <1>1, <1>2, <1>3, <1>4, <1>5, <1>6, <1>7 DEF ServiceNext, Record

\* Beside everything the service does, the store behaves as specified.
THEOREM ServiceImplementsStore == ServiceSpec => Spec
  <1>1. ServiceInit => Init
    BY DEF ServiceInit
  <1> QED
    BY <1>1, StoreCalls, PTL DEF ServiceSpec, Spec

\* Beside validation, posts and time-outs the commands take effect as the
\* table of campaigns promises: at one instant and before their success.
THEOREM ServiceImplementsTable == ServiceSpec => ImplementsTable
  BY ServiceImplementsStore, StoreImplementsTable

-----------------------------------------------------------------------------
\* Before any request the invariant holds.
LEMMA InitServiceInv == ServiceInit => ServiceInv
  <1> SUFFICES ASSUME ServiceInit PROVE ServiceInv
    OBVIOUS
  <1>1. DOMAIN command = {}
    BY DEF ServiceInit
  <1>2. ServiceTypeOK
    <2>1. TypeOK
      BY InitIInv DEF ServiceInit, IInv
    <2>2. second \in 1 .. MaxSecond
      BY MaxSecondAssumption DEF ServiceInit
    <2> QED
      BY <1>1, <2>1, <2>2 DEF ServiceInit, ServiceTypeOK, Stages, Answers
  <1>3. Fresh /\ OnTarget
    BY <1>1 DEF ServiceInit, Init, Fresh, OnTarget, Known
  <1>4. Progressed /\ Sent
    BY <1>1 DEF ServiceInit, Progressed, Consistent, Sent, Known
  <1> QED
    BY <1>2, <1>3, <1>4 DEF ServiceInv

\* A command that arrives leaves the others' alone.
LEMMA ArriveAdds ==
  ASSUME NEW r \in Requests, NEW n, Arrive(r, n), ServiceInv
  PROVE  /\ r \notin Known /\ Known' = Known \cup {r} /\ command'[r] = n
         /\ \A q \in Known : q # r /\ command'[q] = command[q]
         /\ pc[r] = "idle" /\ posting[r] = "none" /\ acked[r] = {} /\ answer[r] # "accepted"
         /\ stage[r] = "waiting"
  BY DEF Arrive, ServiceInv, Fresh, Known

\* What a client named stays named.
LEMMA IdentifiedGrows ==
  ASSUME ServiceInv, [ServiceNext]_vars
  PROVE  identified \subseteq identified' /\ identified' \subseteq Requests
  <1>1. ASSUME NEW r \in Requests, Record(r)
        PROVE  identified' \in {identified, identified \cup {r}}
    BY <1>1 DEF Record
  <1>2. ~(\E r \in Requests : Record(r)) => UNCHANGED identified
    BY DEF ServiceNext, Reject, StoreStep, Publish, Post, Acknowledged, PostFailed, Accept,
       AcceptLate, Take, Lose, Tick, vars, serviceVars
  <1> QED
    BY <1>1, <1>2 DEF ServiceInv, ServiceTypeOK

\* Whatever a new command does at once, the others keep what they have.
LEMMA ArriveKeeps ==
  ASSUME ServiceInv, TypeOK', identified' \subseteq Requests, NEW r \in Requests, NEW n, Arrive(r, n), Unposted, UNCHANGED second,
         NEW s \in {"storing", "publishing", "answered"}, stage' = [stage EXCEPT ![r] = s],
         NEW a \in Answers \ {"accepted"}, answer' = [answer EXCEPT ![r] = a],
         subscribers \subseteq subscribers', subscribers' \subseteq Requests,
         \A q \in Requests \ {r} : pc'[q] = pc[q] /\ target'[q] = target[q],
         pc'[r] # "idle" =>
           Stores(r)' /\ (pc'[r] \in Statements \cup {"stored"} => target'[r] = StoredCampaign(n)),
         s = "publishing" => Recorded(r)'
  PROVE  ServiceInv'
  <1> DEFINE K == DOMAIN command
  <1>1. /\ r \notin K /\ Known' = K \cup {r} /\ command'[r] = n /\ K \subseteq Requests
        /\ \A q \in K : q # r /\ command'[q] = command[q]
        /\ posting[r] = "none" /\ acked[r] = {}
    BY ArriveAdds DEF Known, ServiceInv, ServiceTypeOK
  <1>2. /\ stage'[r] = s /\ answer'[r] = a
        /\ \A q \in Requests \ {r} : stage'[q] = stage[q] /\ answer'[q] = answer[q]
        /\ UNCHANGED <<posting, acked, outbox, published, second>>
    BY DEF ServiceInv, ServiceTypeOK, Unposted
  <1>3. \A q \in K : /\ Stores(q)' <=> Stores(q)
                     /\ Recorded(q) => Recorded(q)'
                     /\ Waiting(q)' = Waiting(q)
                     /\ \A ch : PostOf(q, ch)' = PostOf(q, ch)
    BY <1>1, <1>2 DEF Stores, Recorded, Waiting, PostOf
  <1>4. \A p \in outbox \cup published : p.request \in K /\ p.channel \in Channels
    BY DEF ServiceInv, ServiceTypeOK
  <1> HIDE DEF K
  <1>5. ServiceTypeOK'
    BY <1>1, <1>2, <1>4 DEF ServiceInv, ServiceTypeOK, Stages, Answers, Known
  <1>6. Fresh'
    BY <1>1, <1>2 DEF ServiceInv, Fresh, Known, K
  <1>7. OnTarget'
    <2>1. \A q \in Requests : q # r /\ pc'[q] # "idle" => q \in K
      BY DEF ServiceInv, Fresh, Known, K
    <2> QED
      BY <1>1, <1>3, <2>1 DEF ServiceInv, OnTarget
  <1>8. Progressed'
    BY <1>1, <1>2, <1>3 DEF ServiceInv, Progressed, Consistent, Known, K
  <1>9. Sent'
    BY <1>2, <1>3, <1>4 DEF ServiceInv, Sent
  <1> QED
    BY <1>5, <1>6, <1>7, <1>8, <1>9 DEF ServiceInv

\* A call of the store gets its handler to a first statement or refuses it.
LEMMA CallKeeps ==
  ASSUME ServiceInv, TypeOK', identified' \subseteq Requests, NEW r \in Requests, NEW n, Arrive(r, n), Stores(r)',
         NEW op, NEW first \in {"lookup", "schedule"},
         \/ Begin(r, op, StoredCampaign(n), first)
         \/ Begin(r, op, NoCampaign, "failed"),
         AfterStore(r), Unposted, UNCHANGED <<second, subscribers>>
  PROVE  ServiceInv'
  <1>1. /\ pc'[r] \in {first, "failed"}
        /\ pc'[r] = first => target'[r] = StoredCampaign(n)
        /\ \A q \in Requests \ {r} : pc'[q] = pc[q] /\ target'[q] = target[q]
    BY DEF Begin, ServiceInv, ServiceTypeOK, TypeOK
  <1>2. PICK s \in {"storing", "answered"} :
          /\ stage' = [stage EXCEPT ![r] = s]
          /\ answer' = [answer EXCEPT ![r] = IF s = "answered" THEN "failed" ELSE @]
    BY <1>1 DEF AfterStore
  <1>3. answer[r] \in Answers \ {"accepted"} /\ "failed" \in Answers \ {"accepted"}
    BY ArriveAdds DEF ServiceInv, ServiceTypeOK, Answers
  <1>4. PICK a \in Answers \ {"accepted"} : answer' = [answer EXCEPT ![r] = a]
    BY <1>2, <1>3 DEF ServiceInv, ServiceTypeOK
  <1>5. subscribers' \subseteq Requests
    BY DEF ServiceInv, ServiceTypeOK
  <1> QED
    BY <1>1, <1>2, <1>4, <1>5, ArriveKeeps DEF Statements

\* A command on its way into the store keeps the invariant.
LEMMA RecordKeeps ==
  ASSUME ServiceInv, TypeOK', identified' \subseteq Requests, NEW r \in Requests, Record(r)
  PROVE  ServiceInv'
  <1>1. PICK c \in Catalogue :
          \/ RecordInvalid(r, c) \/ RecordCreate(r, c) \/ RecordLaunch(r, c)
          \/ RecordSubscriber(r, c) \/ RecordOther(r, c)
    BY DEF Record
  <1> DEFINE n == Normalize(c, second)
  <1>2. /\ stage \in [Requests -> Stages] /\ answer \in [Requests -> Answers]
        /\ subscribers \subseteq Requests
    BY DEF ServiceInv, ServiceTypeOK
  <1>3. "failed" \in Answers \ {"accepted"}
    BY DEF Answers
  <1>4. CASE RecordInvalid(r, c)
    <2>1. /\ Arrive(r, c) /\ Unposted /\ UNCHANGED <<second, subscribers, pc, target>>
          /\ stage' = [stage EXCEPT ![r] = "answered"] /\ answer' = [answer EXCEPT ![r] = "failed"]
      BY <1>4 DEF RecordInvalid, Fail, storeVars, handlers
    <2>2. pc'[r] = "idle"
      BY <2>1, ArriveAdds
    <2> QED
      BY <1>2, <1>3, <2>1, <2>2, ArriveKeeps
  <1>5. CASE RecordCreate(r, c)
    <2>1. Arrive(r, n) /\ StoreOperation(n) = CreateBrief
      BY <1>5 DEF RecordCreate
    <2>2. Stores(r)'
      BY <2>1, ArriveAdds DEF Stores
    <2>3. /\ AfterStore(r) /\ Unposted /\ UNCHANGED <<second, subscribers>>
          /\ \/ Begin(r, "create", StoredCampaign(n), "lookup")
             \/ Begin(r, "create", NoCampaign, "failed")
      BY <1>5 DEF RecordCreate, BeginCreate, RefuseUnnamed
    <2> HIDE DEF n
    <2> QED
      BY <2>1, <2>2, <2>3, CallKeeps
  <1>6. CASE RecordLaunch(r, c)
    <2>1. Arrive(r, n) /\ StoreOperation(n) = LaunchTest
      BY <1>6 DEF RecordLaunch
    <2>2. Stores(r)'
      BY <2>1, ArriveAdds DEF Stores
    <2>3. /\ AfterStore(r) /\ Unposted /\ UNCHANGED <<second, subscribers>>
          /\ \/ Begin(r, "schedule", StoredCampaign(n), "schedule")
             \/ Begin(r, "schedule", NoCampaign, "failed")
      BY <1>6 DEF RecordLaunch, BeginSchedule, RefuseUnnamed
    <2> HIDE DEF n
    <2> QED
      BY <2>1, <2>2, <2>3, CallKeeps
  <1>7. CASE RecordSubscriber(r, c)
    <2>1. /\ Arrive(r, n) /\ StoreOperation(n) = AddSubscriber
          /\ Unposted /\ UNCHANGED <<second, pc, target>>
      BY <1>7 DEF RecordSubscriber, storeVars, handlers
    <2> HIDE DEF n
    <2>2. pc'[r] = "idle" /\ command'[r] = n /\ answer[r] \in Answers \ {"accepted"}
      BY <1>2, <2>1, ArriveAdds
    <2>3. ~Stores(r)'
      BY <2>1, <2>2, OperationsDiffer DEF Stores
    <2>4. CASE subscribers' = subscribers \cup {r} /\ stage' = [stage EXCEPT ![r] = "publishing"]
               /\ UNCHANGED answer
      <3>1. Recorded(r)'
        BY <2>3, <2>4 DEF Recorded
      <3>2. answer' = [answer EXCEPT ![r] = answer[r]]
        BY <1>2, <2>4
      <3> QED
        BY <1>2, <2>1, <2>2, <2>4, <3>1, <3>2, ArriveKeeps
    <2>5. CASE subscribers' \in {subscribers, subscribers \cup {r}} /\ Fail(r)
      BY <1>2, <1>3, <2>1, <2>2, <2>5, ArriveKeeps DEF Fail
    <2> QED
      BY <1>7, <2>4, <2>5 DEF RecordSubscriber
  <1>8. CASE RecordOther(r, c)
    <2>1. /\ Arrive(r, n) /\ StoreOperation(n) = <<>>
          /\ Unposted /\ UNCHANGED <<second, subscribers, answer, pc, target>>
          /\ stage' = [stage EXCEPT ![r] = "publishing"]
      BY <1>8 DEF RecordOther, storeVars, handlers
    <2> HIDE DEF n
    <2>2. pc'[r] = "idle" /\ command'[r] = n /\ answer[r] \in Answers \ {"accepted"}
      BY <1>2, <2>1, ArriveAdds
    <2>3. Recorded(r)'
      BY <2>1, <2>2, OperationsDiffer DEF Stores, Recorded
    <2>4. answer' = [answer EXCEPT ![r] = answer[r]]
      BY <1>2, <2>1
    <2> QED
      BY <1>2, <2>1, <2>2, <2>3, <2>4, ArriveKeeps
  <1> QED
    BY <1>1, <1>4, <1>5, <1>6, <1>7, <1>8

-----------------------------------------------------------------------------
\* A step that takes nothing back and sends nothing keeps what was recorded.
LEMMA RecordedKeeps ==
  ASSUME ServiceInv, UNCHANGED command, subscribers \subseteq subscribers',
         \A r \in Requests : pc[r] = "stored" => pc'[r] = "stored"
  PROVE  \A r \in Known : /\ r \in Requests /\ (Stores(r)' <=> Stores(r))
                          /\ (Recorded(r) => Recorded(r)')
                          /\ \A ch : PostOf(r, ch)' = PostOf(r, ch)
  BY DEF ServiceInv, ServiceTypeOK, Known, Stores, Recorded, PostOf

\* The store's own steps: a request publishes only once its command took
\* effect, and one that was given up never publishes.
LEMMA StoreStepKeeps ==
  ASSUME ServiceInv, TypeOK', identified' \subseteq Requests, NEW r \in Requests, StoreStep(r)
  PROVE  ServiceInv'
  <1>1. /\ AfterStore(r) /\ Unposted /\ UNCHANGED <<second, command, subscribers>>
        /\ Statement(r) \/ Abandon(r) \/ Drop(r)
    BY DEF StoreStep
  <1>2. /\ pc[r] \in Statements /\ UNCHANGED target
        /\ pc' = [pc EXCEPT ![r] = pc'[r]] /\ pc'[r] # "idle"
        /\ pc'[r] \in Statements \cup {"stored"} => pc[r] \in Statements
    BY <1>1 DEF ServiceInv, ServiceTypeOK, TypeOK, Statement, Abandon, Drop, LookupOrder, NextOrder,
         InsertCampaign, OverwriteCampaign, SeedAnalytics, ScheduleCampaign, ScheduleMissing, GoOn, Statements
  <1>3. \A q \in Requests : q # r => pc'[q] = pc[q]
    BY <1>2 DEF ServiceInv, ServiceTypeOK, TypeOK
  <1>4. r \in Known /\ Stores(r) /\ target[r] = StoredCampaign(command[r])
    BY <1>2 DEF ServiceInv, Fresh, OnTarget, Statements
  <1>5. PICK s \in {"storing", "publishing", "answered"} :
          /\ stage' = [stage EXCEPT ![r] = s]
          /\ s = "publishing" => pc'[r] = "stored"
          /\ answer' = [answer EXCEPT ![r] = IF s = "answered" THEN "failed" ELSE @]
    <2> DEFINE S == CASE pc'[r] = "stored" -> "publishing"
                      [] r \in abandoned' -> "answered"
                      [] OTHER             -> "storing"
    <2>1. S \in {"storing", "publishing", "answered"} /\ (S = "publishing" => pc'[r] = "stored")
      BY <1>2
    <2>2. /\ stage' = [stage EXCEPT ![r] = S]
          /\ answer' = [answer EXCEPT ![r] = IF S = "answered" THEN "failed" ELSE @]
      BY <1>1 DEF AfterStore
    <2> HIDE DEF S
    <2> QED
      BY <2>1, <2>2
  <1>6. /\ stage'[r] = s /\ (answer'[r] = answer[r] \/ answer'[r] = "failed")
        /\ \A q \in Requests \ {r} : stage'[q] = stage[q] /\ answer'[q] = answer[q]
        /\ UNCHANGED <<posting, acked, outbox, published, second>>
        /\ stage' \in [Requests -> Stages] /\ answer' \in [Requests -> Answers]
    BY <1>1, <1>5 DEF ServiceInv, ServiceTypeOK, Unposted, Stages, Answers
  <1>7. \A q \in Requests : pc[q] = "stored" => pc'[q] = "stored"
    BY <1>2, <1>3 DEF Statements
  <1>8. \A q \in Known : /\ q \in Requests /\ (Stores(q)' <=> Stores(q))
                         /\ Recorded(q) => Recorded(q)'
                         /\ \A ch : PostOf(q, ch)' = PostOf(q, ch)
                         /\ Waiting(q)' = Waiting(q)
    BY <1>1, <1>6, <1>7, RecordedKeeps DEF Waiting, Known
  <1>9. Known' = Known
    BY <1>1 DEF Known
  <1>10. ~Recorded(r) /\ (s = "publishing" => Recorded(r)')
    <2>1. ~Recorded(r)
      BY <1>2, <1>4 DEF Recorded, Statements
    <2>2. StoreOperation(command[r]) # AddSubscriber
      BY <1>4, OperationsDiffer DEF Stores
    <2> QED
      BY <1>1, <1>5, <2>1, <2>2 DEF Recorded
  <1>11. ServiceTypeOK'
    BY <1>1, <1>6 DEF ServiceInv, ServiceTypeOK
  <1>12. Fresh'
    BY <1>3, <1>4, <1>6, <1>9 DEF ServiceInv, Fresh
  <1>13. OnTarget'
    <2>1. \A q \in Requests : q # r /\ pc[q] # "idle" => q \in Known
      BY DEF ServiceInv, Fresh
    <2> QED
      BY <1>1, <1>2, <1>3, <1>4, <1>8, <2>1 DEF ServiceInv, OnTarget
  <1>14. Progressed'
    <2> SUFFICES ASSUME NEW q \in Known PROVE Consistent(q)'
      BY <1>9 DEF Progressed
    <2>1. CASE q # r
      BY <1>6, <1>8, <2>1 DEF ServiceInv, Progressed, Consistent
    <2>2. acked[r] = {} /\ posting[r] = "none" /\ answer[r] # "accepted"
      BY <1>4, <1>10 DEF ServiceInv, Progressed, Consistent
    <2>3. CASE q = r
      BY <1>6, <1>10, <2>2, <2>3 DEF Consistent
    <2> QED
      BY <2>1, <2>3
  <1>15. Sent'
    BY <1>6, <1>8, <1>9 DEF ServiceInv, ServiceTypeOK, Sent, Known
  <1> QED
    BY <1>11, <1>12, <1>13, <1>14, <1>15 DEF ServiceInv

\* What holds of a request and of a post carries over to a step that leaves
\* the store and the commands alone and forgets no acknowledged post.
LEMMA QuietStep ==
  ASSUME ServiceInv, identified' \subseteq Requests, UNCHANGED <<storeVars, second, command, subscribers>>,
         stage' \in [Requests -> Stages], posting' \in [Requests -> Channels \cup {"none"}],
         acked' \in [Requests -> SUBSET Channels], answer' \in [Requests -> Answers],
         outbox' \cup published' \subseteq outbox \cup published \cup {PostOf(q, ch) : q \in Known, ch \in Channels},
         \A r \in Requests : stage'[r] = "waiting" => stage[r] = "waiting",
         \A r \in Requests \ Known :
           /\ stage'[r] = stage[r] /\ posting'[r] = posting[r]
           /\ acked'[r] = acked[r] /\ answer'[r] = answer[r],
         \A r \in Known : Consistent(r)',
         \A p \in outbox' \cup published' :
           Recorded(p.request) /\ (p.channel = "email" => "analytics" \notin Waiting(p.request)'),
         \A r \in Known : Recorded(r) => Recorded(r)'
  PROVE  ServiceInv'
  <1>1. Known' = Known /\ Known \subseteq Requests
    BY DEF Known, ServiceInv, ServiceTypeOK
  <1>2. \A p \in outbox' \cup published' : p.request \in Known /\ p.channel \in Channels
    BY DEF ServiceInv, ServiceTypeOK, PostOf, Known
  <1>3. ServiceTypeOK'
    <2>1. TypeOK'
      BY DEF ServiceInv, ServiceTypeOK, TypeOK, storeVars, tables, handlers, observed
    <2> QED
      BY <1>1, <1>2, <2>1 DEF ServiceInv, ServiceTypeOK, Known
  <1>4. Fresh'
    BY <1>1 DEF ServiceInv, Fresh, storeVars, handlers
  <1>5. OnTarget'
    BY DEF ServiceInv, OnTarget, Stores, storeVars, handlers
  <1>6. Progressed'
    BY <1>1 DEF Progressed
  <1>7. Sent'
    BY <1>2 DEF Sent
  <1> QED
    BY <1>3, <1>4, <1>5, <1>6, <1>7 DEF ServiceInv

\* The posts of a request and what becomes of them.
LEMMA PublishKeeps ==
  ASSUME ServiceInv, identified' \subseteq Requests, NEW r \in Requests, Publish(r)
  PROVE  ServiceInv'
  <1>1. UNCHANGED <<storeVars, second, command, subscribers, published>>
    BY DEF Publish, Post, Acknowledged, PostFailed, Accept, AcceptLate
  <1>2. /\ stage \in [Requests -> Stages] /\ posting \in [Requests -> Channels \cup {"none"}]
        /\ acked \in [Requests -> SUBSET Channels] /\ answer \in [Requests -> Answers]
        /\ "answered" \in Stages /\ {"accepted", "failed"} \subseteq Answers
        /\ Channels = {"analytics", "email"} /\ Known \subseteq Requests
    BY DEF ServiceInv, ServiceTypeOK, Stages, Answers, Channels, Known
  <1>3. /\ stage[r] = "publishing" /\ r \in Known /\ Recorded(r)
        /\ \A q \in Known : Consistent(q)
    <2>1. stage[r] = "publishing"
      BY DEF Publish, Post, Acknowledged, PostFailed, Accept, AcceptLate
    <2> QED
      BY <2>1 DEF ServiceInv, Fresh, Progressed, Consistent
  <1>4. \A q \in Known : /\ Recorded(q) => Recorded(q)'
                         /\ \A ch : PostOf(q, ch)' = PostOf(q, ch)
                         /\ RequiredChannels(command'[q]) = RequiredChannels(command[q])
    BY <1>1 DEF Recorded, Stores, PostOf, storeVars, handlers
  <1>5. \A p \in outbox \cup published :
          p.request \in Known /\ Recorded(p.request)
          /\ (p.channel = "email" => "analytics" \notin Waiting(p.request))
    BY DEF ServiceInv, ServiceTypeOK, Sent, Known
  <1>6. ASSUME NEW ch \in Channels, Post(r, ch) PROVE ServiceInv'
    <2>1. /\ ch \in Waiting(r) /\ (ch = "email" => "analytics" \notin Waiting(r)) /\ posting[r] = "none"
          /\ posting' = [posting EXCEPT ![r] = ch] /\ outbox' = outbox \cup {PostOf(r, ch)}
          /\ UNCHANGED <<stage, acked, answer>>
      BY <1>6 DEF Post
    <2>2. \A q \in Known : Waiting(q)' = Waiting(q)
      BY <1>4, <2>1 DEF Waiting
    <2>3. ASSUME NEW q \in Known PROVE Consistent(q)'
      BY <1>1, <1>2, <1>3, <1>4, <2>1, <2>2 DEF Consistent
    <2>4. ASSUME NEW p \in outbox' \cup published'
          PROVE  Recorded(p.request) /\ (p.channel = "email" => "analytics" \notin Waiting(p.request)')
      <3>1. CASE p \in outbox \cup published
        BY <1>5, <2>2, <3>1
      <3>2. CASE p = PostOf(r, ch)
        <4>1. p.request = r /\ p.channel = ch
          BY <3>2 DEF PostOf
        <4> QED
          BY <1>3, <2>1, <2>2, <4>1
      <3> QED
        BY <1>1, <2>1, <3>1, <3>2
    <2>5. outbox' \cup published' \subseteq outbox \cup published \cup {PostOf(q, c) : q \in Known, c \in Channels}
      BY <1>1, <1>3, <2>1
    <2>6. posting' \in [Requests -> Channels \cup {"none"}] /\ \A q \in Requests \ Known : posting'[q] = posting[q]
      BY <1>2, <1>3, <2>1
    <2> QED
      BY <1>1, <1>2, <1>4, <2>1, <2>3, <2>4, <2>5, <2>6, QuietStep
  <1>7. CASE Acknowledged(r)
    <2>1. /\ posting[r] # "none" /\ PostOf(r, posting[r]) \in published
          /\ acked' = [acked EXCEPT ![r] = @ \cup {posting[r]}] /\ posting' = [posting EXCEPT ![r] = "none"]
          /\ UNCHANGED <<stage, outbox, answer>>
      BY <1>7 DEF Acknowledged
    <2>2. /\ acked'[r] = acked[r] \cup {posting[r]} /\ posting'[r] = "none" /\ posting[r] \in Channels
          /\ \A q \in Requests : q # r => acked'[q] = acked[q] /\ posting'[q] = posting[q]
          /\ acked' \in [Requests -> SUBSET Channels] /\ posting' \in [Requests -> Channels \cup {"none"}]
      BY <1>2, <2>1
    <2>3. \A q \in Known : Waiting(q)' \subseteq Waiting(q)
      BY <1>2, <1>4, <2>2 DEF Waiting
    <2>4. ASSUME NEW q \in Known PROVE Consistent(q)'
      <3>1. CASE q = r
        <4>1. \A ch \in acked'[r] : PostOf(r, ch)' \in published'
          BY <1>1, <1>3, <1>4, <2>1, <2>2 DEF Consistent
        <4> QED
          BY <1>3, <1>4, <2>1, <2>2, <2>3, <3>1, <4>1 DEF Consistent
      <3>2. CASE q # r
        BY <1>1, <1>2, <1>3, <1>4, <2>1, <2>2, <2>3, <3>2 DEF Consistent
      <3> QED
        BY <3>1, <3>2
    <2>5. \A p \in outbox' \cup published' :
            Recorded(p.request) /\ (p.channel = "email" => "analytics" \notin Waiting(p.request)')
      BY <1>1, <1>5, <2>1, <2>3
    <2> QED
      BY <1>1, <1>2, <1>3, <1>4, <2>1, <2>2, <2>4, <2>5, QuietStep
  \* The three ways in which a request ends.
  <1>8. ASSUME NEW a \in {"accepted", "failed"}, a = "accepted" => Waiting(r) = {},
               stage' = [stage EXCEPT ![r] = "answered"], answer' = [answer EXCEPT ![r] = a],
               UNCHANGED <<posting, acked, outbox>>
        PROVE  ServiceInv'
    <2>1. \A q \in Known : Waiting(q)' = Waiting(q)
      BY <1>4, <1>8 DEF Waiting
    <2>2. ASSUME NEW q \in Known PROVE Consistent(q)'
      <3>1. stage'[q] = "publishing" => stage[q] = "publishing"
        BY <1>2, <1>8
      <3>2. answer'[q] = "accepted" => answer[q] = "accepted" \/ (q = r /\ Waiting(r) = {})
        BY <1>2, <1>8
      <3> QED
        BY <1>1, <1>3, <1>4, <1>8, <2>1, <3>1, <3>2 DEF Consistent
    <2>3. \A p \in outbox' \cup published' :
            Recorded(p.request) /\ (p.channel = "email" => "analytics" \notin Waiting(p.request)')
      BY <1>1, <1>5, <1>8, <2>1
    <2>4. /\ stage' \in [Requests -> Stages] /\ answer' \in [Requests -> Answers]
          /\ \A q \in Requests : stage'[q] = "waiting" => stage[q] = "waiting"
          /\ \A q \in Requests \ Known : stage'[q] = stage[q] /\ answer'[q] = answer[q]
      BY <1>2, <1>3, <1>8
    <2> QED
      BY <1>1, <1>2, <1>4, <1>8, <2>2, <2>3, <2>4, QuietStep
  <1>9. CASE PostFailed(r) \/ AcceptLate(r)
    BY <1>8, <1>9 DEF PostFailed, AcceptLate, Fail
  <1>10. CASE Accept(r)
    BY <1>8, <1>10 DEF Accept
  <1> QED
    BY <1>6, <1>7, <1>9, <1>10 DEF Publish

\* A request that is no command, the way of a post, and the clock.
LEMMA OtherKeeps ==
  ASSUME ServiceInv, identified' \subseteq Requests,
         \/ \E r \in Requests : Reject(r)
         \/ \E p \in outbox : Take(p) \/ Lose(p)
         \/ Tick
         \/ UNCHANGED vars
  PROVE  ServiceInv'
  <1> USE DEF storeVars, tables, handlers, observed
  <1>1. /\ stage \in [Requests -> Stages] /\ answer \in [Requests -> Answers]
        /\ posting \in [Requests -> Channels \cup {"none"}] /\ acked \in [Requests -> SUBSET Channels]
        /\ Known \subseteq Requests /\ \A q \in Known : Consistent(q)
        /\ \A p \in outbox \cup published :
             p.request \in Known /\ Recorded(p.request)
             /\ (p.channel = "email" => "analytics" \notin Waiting(p.request))
    BY DEF ServiceInv, ServiceTypeOK, Progressed, Sent, Known
  <1>2. ASSUME UNCHANGED <<storeVars, command, subscribers, acked>>
        PROVE  \A q \in Known : /\ Recorded(q) => Recorded(q)'
                                /\ \A ch : PostOf(q, ch)' = PostOf(q, ch)
                                /\ Waiting(q)' = Waiting(q)
    BY <1>2 DEF Recorded, Stores, PostOf, Waiting
  <1>3. ASSUME NEW r \in Requests, Reject(r) PROVE ServiceInv'
    <2>1. /\ stage[r] = "waiting" /\ stage' = [stage EXCEPT ![r] = "answered"]
          /\ answer' = [answer EXCEPT ![r] = "rejected"]
          /\ UNCHANGED <<storeVars, second, command, subscribers, posting, acked, outbox, published>>
          /\ r \notin Known
      BY <1>3 DEF Reject, Unposted, ServiceInv, Fresh
    <2>2. ServiceTypeOK'
      BY <1>1, <2>1 DEF ServiceInv, ServiceTypeOK, TypeOK, Stages, Answers
    <2>3. Fresh' /\ OnTarget'
      BY <1>1, <2>1 DEF ServiceInv, Fresh, OnTarget, Known, Stores
    <2>4. ASSUME NEW q \in Known PROVE Consistent(q)'
      BY <1>1, <1>2, <2>1 DEF Consistent
    <2>5. Progressed' /\ Sent'
      BY <1>1, <1>2, <2>1, <2>4 DEF Progressed, Sent, Known
    <2> QED
      BY <2>2, <2>3, <2>5 DEF ServiceInv
  <1>4. ASSUME NEW p \in outbox, Take(p) \/ Lose(p) PROVE ServiceInv'
    <2>1. /\ outbox' \cup published' \subseteq outbox \cup published /\ published \subseteq published'
          /\ UNCHANGED <<storeVars, second, command, stage, subscribers, posting, acked, answer>>
      BY <1>4 DEF Take, Lose
    <2>2. ServiceTypeOK'
      BY <2>1 DEF ServiceInv, ServiceTypeOK, TypeOK
    <2>3. Fresh' /\ OnTarget'
      BY <2>1 DEF ServiceInv, Fresh, OnTarget, Known, Stores
    <2>4. ASSUME NEW q \in Known PROVE Consistent(q)'
      BY <1>1, <1>2, <2>1 DEF Consistent
    <2>5. Progressed' /\ Sent'
      BY <1>1, <1>2, <2>1, <2>4 DEF Progressed, Sent, Known
    <2> QED
      BY <2>2, <2>3, <2>5 DEF ServiceInv
  <1>5. CASE Tick \/ UNCHANGED vars
    <2>1. /\ UNCHANGED <<storeVars, command, stage, subscribers, posting, acked, outbox, published, answer>>
          /\ second' \in 1 .. MaxSecond
      BY <1>5, MaxSecondAssumption DEF Tick, vars, serviceVars, ServiceInv, ServiceTypeOK
    <2>2. ServiceTypeOK'
      BY <2>1 DEF ServiceInv, ServiceTypeOK, TypeOK
    <2>3. Fresh' /\ OnTarget'
      BY <2>1 DEF ServiceInv, Fresh, OnTarget, Known, Stores
    <2>4. ASSUME NEW q \in Known PROVE Consistent(q)'
      BY <1>1, <1>2, <2>1 DEF Consistent
    <2>5. Progressed' /\ Sent'
      BY <1>1, <1>2, <2>1, <2>4 DEF Progressed, Sent, Known
    <2> QED
      BY <2>2, <2>3, <2>5 DEF ServiceInv
  <1> QED
    BY <1>3, <1>4, <1>5

-----------------------------------------------------------------------------
\* Every step of the service keeps its invariant.
LEMMA ServiceKeeps ==
  ASSUME ServiceInv, TypeOK', [ServiceNext]_vars
  PROVE  ServiceInv'
  BY IdentifiedGrows, RecordKeeps, StoreStepKeeps, PublishKeeps, OtherKeeps DEF ServiceNext

\* What requests and posts stand for holds in every reachable state.
THEOREM ServiceInvariant == ServiceSpec => []ServiceInv
  <1>1. ServiceInv /\ TypeOK' /\ [ServiceNext]_vars => ServiceInv'
    BY ServiceKeeps
  <1> QED
    BY InitServiceInv, <1>1, ServiceImplementsStore, TypeCorrect, PTL DEF ServiceSpec

\* Requests, commands and posts keep their types.
THEOREM ServiceTypes == ServiceSpec => []ServiceTypeOK
  BY ServiceInvariant, PTL DEF ServiceInv

\* What the store holds of a command that was recorded.
LEMMA RecordedIsStored ==
  ASSUME ServiceInv, SuccessIsDurable, NEW r \in Known, Recorded(r), Stores(r)
  PROVE  pc[r] = "stored" /\ target[r] = StoredCampaign(command[r]) /\ target[r] \in campaigns
  BY DEF ServiceInv, ServiceTypeOK, OnTarget, Recorded, SuccessIsDurable, Known

\* A 202 means that the store and every channel have the command's effects,
\* whatever else the service was doing.
THEOREM AcceptedComplete == ServiceSpec => []AcceptedIsComplete
  <1>1. ServiceInv /\ SuccessIsDurable => AcceptedIsComplete
    <2> SUFFICES ASSUME ServiceInv, SuccessIsDurable, NEW r \in Known, answer[r] = "accepted"
                 PROVE  /\ Stores(r) => pc[r] = "stored" /\ StoredCampaign(command[r]) \in campaigns
                        /\ StoreOperation(command[r]) = AddSubscriber => r \in subscribers
                        /\ \A ch \in RequiredChannels(command[r]) : PostOf(r, ch) \in published
      BY DEF AcceptedIsComplete, Known
    <2>1. Recorded(r) /\ Waiting(r) = {} /\ \A ch \in acked[r] : PostOf(r, ch) \in published
      BY DEF ServiceInv, Progressed, Consistent
    <2> QED
      BY <2>1, RecordedIsStored DEF Recorded, Waiting
  <1> QED
    BY <1>1, ServiceInvariant, ServiceImplementsStore, SuccessDurable, PTL

\* An event in a topic implies what the service does before it posts it,
\* also when the post arrived after its caller was told of a failure.
THEOREM EffectsOrdered == ServiceSpec => []EffectsInOrder
  <1>1. ServiceInv /\ SuccessIsDurable => EffectsInOrder
    <2> SUFFICES ASSUME ServiceInv, SuccessIsDurable, NEW p \in published
                 PROVE  /\ Stores(p.request) =>
                             pc[p.request] = "stored" /\ target[p.request] \in campaigns
                        /\ p.channel = "email" /\ shouldPublishAnalytics(command[p.request]) =>
                             PostOf(p.request, "analytics") \in published
      BY DEF EffectsInOrder
    <2>1. /\ p.request \in Known /\ Recorded(p.request) /\ Consistent(p.request)
          /\ p.channel = "email" => "analytics" \notin Waiting(p.request)
      BY DEF ServiceInv, ServiceTypeOK, Sent, Progressed, Known
    <2>2. shouldPublishAnalytics(command[p.request]) => "analytics" \in RequiredChannels(command[p.request])
      BY DEF RequiredChannels, Channels
    <2> QED
      BY <2>1, <2>2, RecordedIsStored DEF Waiting, Consistent
  <1> QED
    BY <1>1, ServiceInvariant, ServiceImplementsStore, SuccessDurable, PTL

-----------------------------------------------------------------------------
(* What events and rows are named.                                         *)

\* The defaults leave a command one, with its action and identifiers.
LEMMA DefaultCommand ==
  ASSUME NEW c, IsCommand(c), NEW d, d = WithDefaults(c)
  PROVE  /\ IsCommand(d) /\ d.action = c.action
         /\ d.campaignId = c.campaignId /\ d.subjectId = c.subjectId
  <1>1. PICK e : d = [c EXCEPT !.eventKind = e]
    BY DEF WithDefaults
  <1>2. PICK f, a, t, s, i : c = [surface |-> f, action |-> a, eventKind |-> c.eventKind,
                                  subjectType |-> t, subjectId |-> s, campaignId |-> i]
    BY DEF IsCommand
  <1>3. d = [surface |-> f, action |-> a, eventKind |-> e,
             subjectType |-> t, subjectId |-> s, campaignId |-> i]
    BY <1>1, <1>2
  <1>4. /\ c.surface = f /\ c.action = a /\ c.subjectId = s /\ c.campaignId = i
        /\ d.surface = f /\ d.action = a /\ d.subjectId = s /\ d.campaignId = i
        /\ d.eventKind = e /\ d.subjectType = t
    BY <1>2, <1>3
  <1> QED
    BY <1>3, <1>4 DEF IsCommand

\* Normalising a command leaves it one.
LEMMA NormalCommand ==
  ASSUME NEW c, IsCommand(c), NEW s
  PROVE  IsCommand(Normalize(c, s)) /\ Normalize(c, s).action = c.action
  <1>1. IsText(deriveCampaignID(WithDefaults(c), s))
    BY DEF deriveCampaignID, buildCampaignID, Trim, Plain, IsText
  <1>2. IsCommand(WithDefaults(c)) /\ WithDefaults(c).action = c.action
    BY DefaultCommand
  <1> HIDE DEF WithDefaults
  <1>3. /\ IsCommand(WithCampaign(WithDefaults(c), s))
        /\ WithCampaign(WithDefaults(c), s).action = c.action
    BY <1>1, <1>2 DEF WithCampaign, IsCommand
  <1> HIDE DEF WithCampaign
  <1>4. ASSUME NEW d, IsCommand(d) PROVE IsCommand(WithSubject(d)) /\ WithSubject(d).action = d.action
    BY <1>4 DEF WithSubject, IsCommand
  <1> QED
    BY <1>3, <1>4 DEF Normalize

\* A post carries the identifiers its command had when it was recorded.
Named ==
  /\ \A r \in Known : IsCommand(command[r])
  /\ \A p \in outbox \cup published :
       /\ p.campaign = EventCampaign(p.channel, command[p.request])
       /\ p.subject = command[p.request].subjectId

\* What a step does to commands and posts.
LEMMA StepPosts ==
  ASSUME ServiceInv, [ServiceNext]_vars
  PROVE  /\ \A q \in Known : q \in Known' /\ command'[q] = command[q]
         /\ \A q \in Known' \ Known : \E c \in Catalogue : command'[q] \in {c, Normalize(c, second)}
         /\ outbox' \cup published' \subseteq
              outbox \cup published \cup {PostOf(q, ch) : q \in Known, ch \in Channels}
  <1>1. ASSUME NEW r \in Requests, Record(r)
        PROVE  /\ \A q \in Known : q \in Known' /\ command'[q] = command[q]
               /\ \A q \in Known' \ Known : \E c \in Catalogue : command'[q] \in {c, Normalize(c, second)}
               /\ UNCHANGED <<outbox, published>>
    <2>1. PICK c \in Catalogue : /\ Arrive(r, c) \/ Arrive(r, Normalize(c, second))
                                 /\ UNCHANGED <<outbox, published>>
      BY <1>1 DEF Record, RecordInvalid, RecordCreate, RecordLaunch, RecordSubscriber, RecordOther, Unposted
    <2>2. PICK n \in {c, Normalize(c, second)} : Arrive(r, n)
      BY <2>1
    <2> QED
      BY <2>1, <2>2, ArriveAdds
  <1>2. ASSUME NEW r \in Requests, NEW ch \in Channels, Post(r, ch)
        PROVE  /\ UNCHANGED command /\ r \in Known
               /\ outbox' \cup published' = outbox \cup published \cup {PostOf(r, ch)}
    BY <1>2 DEF Post, ServiceInv, Fresh
  <1>3. ASSUME NEW r \in Requests,
               Reject(r) \/ StoreStep(r) \/ Acknowledged(r) \/ PostFailed(r) \/ Accept(r) \/ AcceptLate(r)
        PROVE  UNCHANGED <<command, outbox, published>>
    BY <1>3 DEF Reject, StoreStep, Unposted, Acknowledged, PostFailed, Accept, AcceptLate
  <1>4. ASSUME NEW p \in outbox, Take(p) \/ Lose(p)
        PROVE  UNCHANGED command /\ outbox' \cup published' \subseteq outbox \cup published
    BY <1>4 DEF Take, Lose
  <1>5. CASE Tick \/ UNCHANGED vars
    BY <1>5 DEF Tick, vars, serviceVars, Known
  <1> QED
    BY <1>1, <1>2, <1>3, <1>4, <1>5 DEF ServiceNext, Publish, Known

\* Every step keeps what posts are named.
LEMMA NamedStep ==
  ASSUME ServiceInv, Named, [ServiceNext]_vars
  PROVE  Named'
  <1>1. /\ \A q \in Known : q \in Known' /\ command'[q] = command[q]
        /\ \A q \in Known' \ Known : \E c \in Catalogue : command'[q] \in {c, Normalize(c, second)}
        /\ outbox' \cup published' \subseteq
             outbox \cup published \cup {PostOf(q, ch) : q \in Known, ch \in Channels}
    BY StepPosts
  <1>2. \A q \in Known' : IsCommand(command'[q])
    BY <1>1, NormalCommand, CatalogueAssumption DEF Named
  <1>3. ASSUME NEW p \in outbox' \cup published'
        PROVE  /\ p.request \in Known
               /\ p.campaign = EventCampaign(p.channel, command[p.request])
               /\ p.subject = command[p.request].subjectId
    <2>1. CASE p \in outbox \cup published
      BY <2>1 DEF Named, ServiceInv, ServiceTypeOK, Known
    <2>2. CASE \E q \in Known, ch \in Channels : p = PostOf(q, ch)
      BY <2>2 DEF PostOf
    <2> QED
      BY <1>1, <2>1, <2>2
  <1> QED
    BY <1>1, <1>2, <1>3 DEF Named, EventCampaign, firstNonEmpty

\* Both events of a stored campaign name its row, to the letter unless the
\* command put blanks around an identifier: firstNonEmpty returns a text as it
\* stands.
THEOREM EventsNameRows == ServiceSpec => []EventsNameStoredCampaign
  <1>1. ServiceInit => Named
    BY DEF ServiceInit, Named, Known
  <1>2. ServiceInv /\ Named /\ [ServiceNext]_vars => Named'
    BY NamedStep
  <1>3. ServiceInv /\ Named /\ SuccessIsDurable => EventsNameStoredCampaign
    <2> SUFFICES ASSUME ServiceInv, Named, SuccessIsDurable, NEW p \in published, Stores(p.request)
                 PROVE  /\ NamedBy(p).word = target[p.request]
                        /\ Unpadded(p.request) => NamedBy(p) = Plain(target[p.request])
                        /\ p.channel = "email" => ~IsBlank(p.campaign)
      BY DEF EventsNameStoredCampaign
    <2> PICK c : c = command[p.request]
      OBVIOUS
    <2>1. /\ p.request \in Known /\ p.campaign = EventCampaign(p.channel, c) /\ p.subject = c.subjectId
          /\ IsCommand(c)
      BY DEF ServiceInv, ServiceTypeOK, Named, Known
    <2>2. target[p.request] = StoredCampaign(c) /\ target[p.request] \in campaigns
      BY <2>1, RecordedIsStored DEF ServiceInv, Sent
    <2>3. StoredCampaign(c) # <<>>
      BY <2>2, NoCampaignAssumption, EmptyIsNoCampaign DEF ServiceInv, ServiceTypeOK, TypeOK
    <2>4. IsText(c.campaignId) /\ IsText(c.subjectId)
      BY <2>1 DEF IsCommand
    <2>5. NamedBy(p) = IF IsBlank(c.campaignId) THEN c.subjectId ELSE c.campaignId
      BY <2>1, <2>3 DEF NamedBy, EventCampaign, StoredCampaign, firstNonEmpty, IsBlank
    <2>6. NamedBy(p).word = StoredCampaign(c)
      BY <2>5 DEF StoredCampaign, IsBlank
    <2>7. Unpadded(p.request) => NamedBy(p) = Plain(StoredCampaign(c))
      BY <2>4, <2>5, <2>6 DEF Unpadded, IsText, Plain
    <2>8. p.channel = "email" => ~IsBlank(p.campaign)
      BY <2>1, <2>3 DEF EventCampaign, StoredCampaign, firstNonEmpty, IsBlank
    <2> QED
      BY <2>2, <2>6, <2>7, <2>8
  <1> QED
    BY <1>1, <1>2, <1>3, ServiceInvariant, ServiceImplementsStore, SuccessDurable, PTL DEF ServiceSpec

-----------------------------------------------------------------------------
\* Only padding gets a placeholder past Record that the client did not name.
LEMMA DerivedIdentifier ==
  ASSUME NEW c \in Catalogue, NEW s,
         StoreOperation(Normalize(c, s)) = CreateBrief,
         StoredCampaign(Normalize(c, s)) # <<>>,
         isCampaignPlaceholder(Plain(StoredCampaign(Normalize(c, s))))
  PROVE  ~IsBlank(c.campaignId) \/ Normalize(c, s).action.padded
  <1> SUFFICES ASSUME IsBlank(c.campaignId), ~c.action.padded PROVE FALSE
    BY NormalCommand, CatalogueAssumption
  <1> PICK d : d = WithDefaults(c)
    OBVIOUS
  <1> PICK w : w = WithCampaign(d, s)
    OBVIOUS
  <1> PICK n : n = Normalize(c, s) /\ n = WithSubject(w)
    BY DEF Normalize
  <1>0. IsCommand(c)
    BY CatalogueAssumption
  <1>1. n.action.word = CreateBrief /\ n.action = c.action
    BY <1>0, NormalCommand DEF StoreOperation, CreateBrief
  <1>2. c.action = Plain(CreateBrief)
    BY <1>0, <1>1 DEF IsCommand, IsText, Plain
  <1>3. /\ IsCommand(d) /\ d.action = Plain(CreateBrief)
        /\ d.campaignId = c.campaignId /\ d.subjectId = c.subjectId
    BY <1>0, <1>2, DefaultCommand
  <1>4. /\ w.subjectId = d.subjectId /\ w.action = d.action
        /\ w.campaignId = IF d.campaignId = Empty THEN deriveCampaignID(d, s) ELSE d.campaignId
    BY <1>3 DEF WithCampaign, requiresCampaignIdentity, IsCommand
  <1>5. IsCommand(w)
    <2>1. IsText(deriveCampaignID(d, s))
      BY DEF deriveCampaignID, buildCampaignID, Trim, Plain, IsText
    <2> HIDE DEF deriveCampaignID
    <2> QED
      BY <1>3, <2>1 DEF WithCampaign, IsCommand
  <1>6. /\ n.campaignId = w.campaignId
        /\ n.subjectId = IF isCampaignPlaceholder(w.subjectId) THEN w.campaignId ELSE w.subjectId
    BY <1>3, <1>4, <1>5 DEF WithSubject, IsCommand
  <1>7. CASE c.campaignId = Empty
    <2>1. IsBlank(c.campaignId)
      BY <1>7 DEF Empty, IsBlank, Plain
    <2>2. n.campaignId = IF ~isCampaignPlaceholder(c.subjectId) THEN Trim(c.subjectId)
                         ELSE Plain(Append(CreateBrief, s))
      BY <1>3, <1>4, <1>6, <1>7, <2>1 DEF deriveCampaignID, buildCampaignID, IsBlank, Plain
    <2>3. Append(CreateBrief, s) \notin {<<>>, <<"new-brief">>, <<"new-campaign">>}
      BY DEF CreateBrief
    <2>4. n.campaignId.word \notin {<<>>, <<"new-brief">>, <<"new-campaign">>}
      BY <2>2, <2>3 DEF isCampaignPlaceholder, Trim, Plain
    <2> QED
      BY <2>4 DEF StoredCampaign, IsBlank, isCampaignPlaceholder, Plain
  <1>8. CASE c.campaignId # Empty
    <2>1. n.campaignId = c.campaignId
      BY <1>3, <1>4, <1>6, <1>8
    <2> QED
      BY <1>3, <1>4, <1>6, <2>1 DEF StoredCampaign, IsBlank, isCampaignPlaceholder, Plain
  <1> QED
    BY <1>7, <1>8

\* A campaign is seeded or some request's, and a request creates one under a
\* placeholder only if its client named it or its action was padded.
Derived ==
  /\ \A c \in campaigns \ SeedCampaigns : \E r \in Known : operation[r] = "create" /\ target[r] = c
  /\ \A r \in Known :
       operation[r] = "create" /\ target[r] \in CampaignIds /\ isCampaignPlaceholder(Plain(target[r]))
         => r \in identified \/ command[r].action.padded

\* A row that a store step adds is named by a create at its upsert, and a
\* handler that has begun keeps its operation and its target.
LEMMA StoreAdds ==
  ASSUME TypeOK, Errand, [Next]_storeVars
  PROVE  /\ \A c \in campaigns' \ campaigns :
              \E r \in Requests : pc[r] = "upsert" /\ operation[r] = "create" /\ target[r] = c
         /\ \A q \in Requests : pc[q] # "idle" => operation'[q] = operation[q] /\ target'[q] = target[q]
  <1>1. CASE UNCHANGED storeVars
    BY <1>1 DEF storeVars, tables, handlers
  <1>2. CASE Next
    <2> PICK r \in Requests : Call(r) \/ Statement(r) \/ Abandon(r) \/ Drop(r)
      BY <1>2 DEF Next
    <2>1. CASE InsertCampaign(r)
      BY <2>1 DEF InsertCampaign, Errand
    <2>2. CASE Call(r)
      BY <2>2 DEF Call, BeginCreate, BeginSchedule, RefuseUnnamed, Begin, TypeOK, tables
    <2>3. CASE ~InsertCampaign(r) /\ ~Call(r)
      BY <2>3 DEF Statement, LookupOrder, NextOrder, OverwriteCampaign, SeedAnalytics,
           ScheduleCampaign, ScheduleMissing, Abandon, Drop, tables
    <2> QED
      BY <2>1, <2>2, <2>3
  <1> QED
    BY <1>1, <1>2

\* Only a request that brings a create begins one, on the campaign its
\* command names once it is normalised.
LEMMA CreateBegins ==
  ASSUME ServiceInv, [ServiceNext]_vars, NEW q \in Requests, pc[q] = "idle",
         operation'[q] = "create", operation[q] # "create"
  PROVE  /\ q \notin Known
         /\ \E c \in Catalogue :
              /\ command'[q] = Normalize(c, second)
              /\ StoreOperation(Normalize(c, second)) = CreateBrief
              /\ target'[q] \in {NoCampaign, StoredCampaign(Normalize(c, second))}
              /\ IsBlank(c.campaignId) \/ q \in identified'
  <1> USE DEF ServiceInv, ServiceTypeOK, TypeOK
  <1>1. ASSUME NEW r \in Requests, NEW n, NEW op, NEW t, NEW first, Begin(r, op, t, first), Arrive(r, n)
        PROVE  q = r /\ op = "create" /\ target'[r] = t /\ command'[r] = n /\ r \notin Known
    <2>1. q = r /\ op = "create" /\ target'[r] = t
      BY <1>1 DEF Begin
    <2> QED
      BY <1>1, <2>1, ArriveAdds
  <1>2. ASSUME NEW r \in Requests, NEW c \in Catalogue, RecordCreate(r, c),
               identified' = IF IsBlank(c.campaignId) THEN identified ELSE identified \cup {r}
        PROVE  /\ q \notin Known
               /\ IsBlank(c.campaignId) \/ q \in identified'
               /\ command'[q] = Normalize(c, second)
               /\ StoreOperation(Normalize(c, second)) = CreateBrief
               /\ target'[q] \in {NoCampaign, StoredCampaign(Normalize(c, second))}
    <2> PICK n : n = Normalize(c, second)
      OBVIOUS
    <2>1. Arrive(r, n) /\ StoreOperation(n) = CreateBrief
      BY <1>2 DEF RecordCreate
    <2>2. PICK t \in {NoCampaign, StoredCampaign(n)}, first \in {"lookup", "failed"} :
            Begin(r, "create", t, first)
      BY <1>2 DEF RecordCreate, BeginCreate, RefuseUnnamed
    <2>3. q = r /\ q \notin Known /\ command'[q] = n /\ target'[q] = t
      BY <1>1, <2>1, <2>2
    <2>4. IsBlank(c.campaignId) \/ q \in identified'
      BY <1>2, <2>3
    <2> QED
      BY <2>1, <2>2, <2>3, <2>4
  <1>3. ASSUME NEW r \in Requests, NEW c \in Catalogue, RecordLaunch(r, c)
        PROVE  FALSE
    <2> PICK n : n = Normalize(c, second)
      OBVIOUS
    <2>1. PICK t \in {NoCampaign, StoredCampaign(n)}, first \in {"schedule", "failed"} :
            Begin(r, "schedule", t, first)
      BY <1>3 DEF RecordLaunch, BeginSchedule, RefuseUnnamed
    <2>2. Arrive(r, n)
      BY <1>3 DEF RecordLaunch
    <2> QED
      BY <1>1, <2>1, <2>2
  <1>4. ASSUME NEW r \in Requests, NEW c \in Catalogue,
               RecordInvalid(r, c) \/ RecordSubscriber(r, c) \/ RecordOther(r, c)
        PROVE  FALSE
    BY <1>4 DEF RecordInvalid, RecordSubscriber, RecordOther, storeVars, handlers
  <1>5. ASSUME NEW r \in Requests, StoreStep(r) PROVE FALSE
    BY <1>5 DEF StoreStep, Statement, LookupOrder, NextOrder, InsertCampaign, OverwriteCampaign,
         SeedAnalytics, ScheduleCampaign, ScheduleMissing, Abandon, Drop
  <1>6. ASSUME NEW r \in Requests, Reject(r) \/ Publish(r) PROVE FALSE
    BY <1>6 DEF Reject, Publish, Post, Acknowledged, PostFailed, Accept, AcceptLate, storeVars, handlers
  <1>7. ASSUME NEW p \in outbox, Take(p) \/ Lose(p) PROVE FALSE
    BY <1>7 DEF Take, Lose, storeVars, handlers
  <1>8. ~Tick /\ ~UNCHANGED vars
    BY DEF Tick, vars, storeVars, handlers
  <1> QED
    BY <1>2, <1>3, <1>4, <1>5, <1>6, <1>7, <1>8 DEF ServiceNext, Record

\* Every step keeps the origin of the campaigns.
LEMMA DerivedStep ==
  ASSUME ServiceInv, Errand, Derived, [ServiceNext]_vars
  PROVE  Derived'
  <1>1. /\ \A c \in campaigns' \ campaigns :
              \E r \in Requests : pc[r] = "upsert" /\ operation[r] = "create" /\ target[r] = c
        /\ \A q \in Requests : pc[q] # "idle" => operation'[q] = operation[q] /\ target'[q] = target[q]
    BY StoreCalls, StoreAdds DEF ServiceInv, ServiceTypeOK
  <1>2. \A q \in Known : q \in Known' /\ command'[q] = command[q]
    BY StepPosts
  <1>3. \A q \in Requests : pc[q] # "idle" => q \in Known
    BY DEF ServiceInv, Fresh
  <1>4. \A q \in Requests : pc[q] = "idle" => operation[q] # "create"
    BY DEF Errand
  <1>5. Known \subseteq Requests /\ Known' \subseteq Requests
    <2>1. TypeOK'
      BY StoreCalls, TypeStep DEF ServiceInv, ServiceTypeOK
    <2>2. ServiceInv'
      BY <2>1, ServiceKeeps
    <2> QED
      BY <2>2 DEF ServiceInv, ServiceTypeOK, Known
  <1>4a. identified \subseteq identified'
    BY IdentifiedGrows
  <1>6. ASSUME NEW c \in campaigns' \ SeedCampaigns
        PROVE  \E r \in Known' : operation'[r] = "create" /\ target'[r] = c
    <2>1. PICK r \in Requests : pc[r] # "idle" /\ operation[r] = "create" /\ target[r] = c
      BY <1>1, <1>4, <1>5 DEF Derived
    <2> QED
      BY <1>1, <1>2, <1>3, <2>1
  <1>7. ASSUME NEW r \in Known', operation'[r] = "create", target'[r] \in CampaignIds,
               isCampaignPlaceholder(Plain(target'[r]))
        PROVE  r \in identified' \/ command'[r].action.padded
    <2>1. CASE pc[r] # "idle"
      BY <1>1, <1>2, <1>3, <1>5, <1>7, <1>4a, <2>1 DEF Derived
    <2>2. CASE pc[r] = "idle"
      <3>1. PICK c \in Catalogue :
              /\ command'[r] = Normalize(c, second)
              /\ StoreOperation(Normalize(c, second)) = CreateBrief
              /\ target'[r] \in {NoCampaign, StoredCampaign(Normalize(c, second))}
              /\ IsBlank(c.campaignId) \/ r \in identified'
        BY <1>4, <1>5, <1>7, <2>2, CreateBegins
      <3>2. target'[r] = StoredCampaign(Normalize(c, second)) /\ target'[r] # <<>>
        BY <1>7, <3>1, NoCampaignAssumption, EmptyIsNoCampaign
      <3> QED
        BY <1>7, <3>1, <3>2, DerivedIdentifier
    <2> QED
      BY <2>1, <2>2
  <1> QED
    BY <1>6, <1>7 DEF Derived, isCampaignPlaceholder, Plain

\* A row that was not seeded has a placeholder for its identifier only where
\* the client gave it as the campaign, or blanks around the action kept Record
\* from replacing it.
THEOREM PlaceholdersHaveCause == ServiceSpec => []PlaceholderHasCause
  <1>1. ServiceInit => Derived
    BY DEF ServiceInit, Init, Derived, Known
  <1>2. ServiceInv /\ IInv /\ Derived /\ [ServiceNext]_vars => Derived'
    BY DerivedStep DEF IInv, Purpose
  <1>3. ServiceInv /\ Derived => PlaceholderHasCause
    BY DEF ServiceInv, ServiceTypeOK, TypeOK, Derived, PlaceholderHasCause, Known
  <1> QED
    BY <1>1, <1>2, <1>3, ServiceInvariant, ServiceImplementsStore, InductiveInvariant, PTL DEF ServiceSpec
=============================================================================
