--------------------------- MODULE SubscriberTable ---------------------------
(***************************************************************************)
(* What adding a subscriber promises, without saying how.  A request takes *)
(* effect at one instant or not at all.  The effect is that one subscriber *)
(* the command may be about has the address, segments and labels of the    *)
(* command and nothing of what it had; the other subscribers keep theirs.  *)
(* Places and numbers of labels are given once.  A request that reported   *)
(* success took effect; one that reported an error may have.               *)
(***************************************************************************)
EXTENDS Naturals, SequencesExt

CONSTANTS
  Requests, Subscribers, Labels, Catalogue,
  NoCommand,  \* what a request that is not under way carries
  NoAddress,
  Resolves    \* the subscribers each command may be about

VARIABLES
  rows,     \* what is stored of each subscriber
  places,   \* its display order, 0 while it is not there
  numbers,  \* the display order of each label, 0 while it is not there
  called,   \* the command of each request under way
  phase

tableVars == <<rows, places, numbers, called, phase>>

Nothing     == [email |-> NoAddress, segments |-> {}, labels |-> {}]
Contents(c) == [email |-> c.email, segments |-> ToSet(c.segments), labels |-> ToSet(c.filters)]

Init ==
  /\ rows = [s \in Subscribers |-> Nothing]
  /\ places = [s \in Subscribers |-> 0]
  /\ numbers \in [Labels -> Nat]
  /\ called = [r \in Requests |-> NoCommand]
  /\ phase = [r \in Requests |-> "idle"]

Numbered(f) == {x \in DOMAIN f : f[x] # 0}

\* Whatever has a number keeps it, and of the rest exactly S gets one.
Number(old, new, S) ==
  /\ Numbered(new) = Numbered(old) \cup S
  /\ \A x \in Numbered(old) : new[x] = old[x]

Call(r, c) ==
  /\ phase[r] = "idle"
  /\ phase' = [phase EXCEPT ![r] = "running"]
  /\ called' = [called EXCEPT ![r] = c]
  /\ UNCHANGED <<rows, places, numbers>>

End(r, how) ==
  /\ phase[r] = "running"
  /\ phase' = [phase EXCEPT ![r] = how]
  /\ called' = [called EXCEPT ![r] = NoCommand]

Store(r) ==
  /\ End(r, "stored") \/ End(r, "failed")
  /\ \E s \in Resolves[called[r]] :
       /\ rows' = [rows EXCEPT ![s] = Contents(called[r])]
       /\ Number(places, places', {s})
  /\ Number(numbers, numbers', ToSet(called[r].filters))

Fail(r) ==
  /\ End(r, "failed")
  /\ UNCHANGED <<rows, places, numbers>>

Next == \E r \in Requests : (\E c \in Catalogue : Call(r, c)) \/ Store(r) \/ Fail(r)

Spec == Init /\ [][Next]_tableVars
=============================================================================
