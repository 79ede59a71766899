-------------------------- MODULE SubscriberIdentity --------------------------
(***************************************************************************)
(* Which subscriber an add-subscriber command is about: resolveSubscriberID *)
(* of internal/adapters/content.  The console names nobody: its command    *)
(* has the subject "new-subscriber" and no metadata.  Other clients name a *)
(* subscriber by the subject, by subscriberId, by email or by name.        *)
(*                                                                         *)
(* A text is what the client wrote, without surrounding blanks, and the    *)
(* slug of it or of what it has before "@"; "" is a missing one.           *)
(***************************************************************************)
EXTENDS SequencesExt

CONSTANT buildEntityID  \* the identifier made in a second; it has no fraction

ASSUME EntityAssumption == IsInjective(buildEntityID) /\ "" \notin Range(buildEntityID)

Seconds == DOMAIN buildEntityID

Text(text, slug) == [text |-> text, slug |-> slug]
Missing          == Text("", "")
Placeholder      == Text("new-subscriber", "new-subscriber")

Candidates(c) == <<c.subject, c.subscriberId, c.email, c.name>>

\* The placeholder is compared as it is written, before it is slugified.
Names(t) == t \notin {Missing, Placeholder} /\ t.slug # ""

\* The first text that names somebody does.
resolveSubscriberID(c, second) ==
  LET i == SelectInSeq(Candidates(c), Names) IN
  IF i = 0 THEN buildEntityID[second] ELSE Candidates(c)[i].slug
=============================================================================
