-------------------------- MODULE MCSubscriberStore --------------------------
(***************************************************************************)
(* Three handlers over two connections.  Commands that name Ada by subject *)
(* and by address, one that names nobody and one that names Bob.  Two of   *)
(* them name two new labels in opposite orders, so that both kinds of wait *)
(* and a deadlock happen; one repeats a segment.                           *)
(***************************************************************************)
EXTENDS SubscriberStore

Command(subject, email, name, segments, labels) ==
  [subject |-> subject, subscriberId |-> Missing, email |-> email, name |-> name,
   segments |-> segments, filters |-> labels]

Ada        == Text("Ada", "ada")
AdaAtHome  == Text("ada@home", "ada")
NobodyHome == Text("@home", "")
Bob        == Text("bob", "bob")

MCbuildEntityID == <<"subscriber-1", "subscriber-2">>

MCSubscribers == {"ada", "bob", "new-subscriber"} \cup Range(MCbuildEntityID)
MCLabels      == {"Newly Verified", "Gold", "Board"}
MCSeedLabels  == <<"Newly Verified">>

MCCatalogue ==
  { Command(Ada, Missing, Missing, <<"Priority Review">>, <<"Gold", "Board">>),
    Command(Placeholder, AdaAtHome, Bob, <<"Partners">>, <<"Newly Verified">>),
    Command(Placeholder, NobodyHome, Missing, <<"Partners">>, <<"Board", "Gold">>),
    Command(Missing, Missing, Bob, <<"Partners", "Partners">>, <<"Newly Verified">>) }

=============================================================================
