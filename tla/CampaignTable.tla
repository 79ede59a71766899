---------------------------- MODULE CampaignTable ----------------------------
(***************************************************************************)
(* What creating and launching campaigns promises, without saying how.  A  *)
(* request takes effect at one instant and at most once, possibly after    *)
(* its caller was told it failed, but never before it was told of success. *)
(* A create puts the campaign in the table, or the brief in the place of   *)
(* the one that is there, and completes it with an analytics row; a launch *)
(* schedules a campaign that is there.  Each touches its own campaign only *)
(* and moves none.                                                         *)
(***************************************************************************)
EXTENDS Naturals

CONSTANTS Requests, CampaignIds, NoCampaign, BriefStatuses

VARIABLES
  present,   \* the campaigns in the table
  place,     \* where the console shows them; 0 for those that are not there
  status,
  complete,  \* those with an analytics row
  asked,     \* what each request asks for, and for which campaign
  stage,     \* whether it may still have effects
  answer

tableVars == <<present, place, status, complete, asked, stage, answer>>

Kinds == {"create", "schedule"}

NotAsked == [kind |-> "none", campaign |-> NoCampaign]

Init ==
  /\ present \subseteq CampaignIds /\ complete = present
  /\ place \in [CampaignIds -> Nat]
  /\ \A c \in CampaignIds : c \in present <=> place[c] > 0
  /\ DOMAIN status = CampaignIds
  /\ asked = [r \in Requests |-> NotAsked]
  /\ stage = [r \in Requests |-> "idle"]
  /\ answer = [r \in Requests |-> "none"]

Call(r, kind, c) ==
  /\ stage[r] = "idle"
  /\ asked' = [asked EXCEPT ![r] = [kind |-> kind, campaign |-> c]]
  /\ stage' = [stage EXCEPT ![r] = "pending"]
  /\ UNCHANGED <<present, place, status, complete, answer>>

Refuse(r, kind) ==
  /\ stage[r] = "idle"
  /\ asked' = [asked EXCEPT ![r] = [kind |-> kind, campaign |-> NoCampaign]]
  /\ stage' = [stage EXCEPT ![r] = "over"]
  /\ answer' = [answer EXCEPT ![r] = "error"]
  /\ UNCHANGED <<present, place, status, complete>>

\* A request whose caller has its error does not go on.
Put(r, c) ==
  /\ stage[r] = "pending" /\ asked[r] = [kind |-> "create", campaign |-> c]
  /\ present' = present \cup {c}
  /\ place' = [place EXCEPT ![c] = place'[c]]
  /\ IF c \in present THEN place'[c] = place[c] ELSE place'[c] > 0
  /\ \E s \in BriefStatuses : status' = [status EXCEPT ![c] = s]
  /\ stage' = [stage EXCEPT ![r] = IF answer[r] = "none" THEN "half" ELSE "over"]
  /\ UNCHANGED <<complete, asked, answer>>

Finish(r) ==
  /\ stage' = [stage EXCEPT ![r] = "over"]
  /\ answer' = [answer EXCEPT ![r] = IF @ = "none" THEN "success" ELSE @]

Complete(r) ==
  /\ stage[r] = "half"
  /\ complete' = complete \cup {asked[r].campaign}
  /\ Finish(r)
  /\ UNCHANGED <<present, place, status, asked>>

Launch(r, c) ==
  /\ stage[r] = "pending" /\ asked[r] = [kind |-> "schedule", campaign |-> c]
  /\ c \in present
  /\ status' = [status EXCEPT ![c] = "Scheduled"]
  /\ Finish(r)
  /\ UNCHANGED <<present, place, complete, asked>>

\* The caller gets an error, or the request ends without further effect, of
\* which its caller knows.
Fail(r) ==
  /\ stage[r] \in {"pending", "half"} /\ answer[r] \in {"none", "error"}
  /\ answer' = [answer EXCEPT ![r] = "error"]
  /\ stage' \in {stage, [stage EXCEPT ![r] = "over"]}
  /\ UNCHANGED <<present, place, status, complete, asked>>

Next ==
  \E r \in Requests :
    \/ \E kind \in Kinds : Refuse(r, kind) \/ \E c \in CampaignIds : Call(r, kind, c)
    \/ \E c \in CampaignIds : Put(r, c) \/ Launch(r, c)
    \/ Complete(r) \/ Fail(r)

Spec == Init /\ [][Next]_tableVars
=============================================================================
