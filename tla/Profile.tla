------------------------------- MODULE Profile -------------------------------
(***************************************************************************)
(* What is remembered of a user between the sessions: the travel            *)
(* preferences, here the list of hotel brands, which the onboarding form    *)
(* extends (core/onboarding.py) and a turn replaces (store._apply), and the *)
(* personal profile, which the settings page edits under a revision         *)
(* (context/user_profile_repository.py).  A turn reads both.                *)
(***************************************************************************)
EXTENDS Naturals

CONSTANTS
  OnboardingAnswers,  \* POSTs of the onboarding form, each with a brand of its own
  BrandTurns,         \* turns whose memory agent commits hotel brands
  ProfilePages,       \* settings pages with the profile open
  MaxRevision,        \* bound
  NoBrands            \* not a set: nothing read yet

ASSUME ProfileAssumption == MaxRevision \in Nat \ {0} /\ OnboardingAnswers \cap BrandTurns = {}

VARIABLES
  brands,    \* user_travel_preferences.hotel_brands, and its mirror
  userLease, \* who holds the lease of the user's settings
  writing,   \* the answers and turns: where they are, what they have read
  lapsed,    \* the answers that work on without the lease
  saved,     \* the row of user_personal_profiles
  page,      \* what each page has read
  facts      \* what each turn knows of the user

pfVars == <<brands, userLease, writing, lapsed, saved, page, facts>>

Writers == OnboardingAnswers \cup BrandTurns
BrandSets == SUBSET Writers
Texts == ProfilePages \cup {"default"}
Profiles == [text : Texts, status : {"pending", "completed", "skipped"}, revision : 0..MaxRevision]
NoProfile == [text |-> "default", status |-> "pending", revision |-> 0]

PFTypeOK ==
  /\ brands \in BrandSets /\ userLease \subseteq OnboardingAnswers
  /\ writing \in [Writers -> [at : {"new", "waiting", "in", "read", "done"}, seen : BrandSets \cup {NoBrands}]]
  /\ lapsed \subseteq OnboardingAnswers
  /\ saved \in Profiles /\ page \in [ProfilePages -> Profiles]
  /\ facts \in [BrandTurns -> [brands : BrandSets \cup {NoBrands}, profile : Texts \cup {"none"}]]

PFInit ==
  /\ brands = {} /\ userLease = {} /\ lapsed = {}
  /\ writing = [a \in Writers |-> [at |-> "new", seen |-> NoBrands]]
  /\ saved = NoProfile /\ page = [g \in ProfilePages |-> NoProfile]
  /\ facts = [t \in BrandTurns |-> [brands |-> NoBrands, profile |-> "none"]]
-----------------------------------------------------------------------------
IsAt(a, at) == writing[a].at = at
Go(a, at, seen) == writing' = [writing EXCEPT ![a] = [at |-> at, seen |-> seen]]
SavedProfile == <<saved, page>>

(* An answer of the onboarding form (user_state_scope, save_answer).       *)

\* A mutant of LeaseFree: the answers are not serialised.
AlwaysFree == TRUE
LeaseFree == userLease = {}

\* An empty answer is skipped.
AnswerComes(a) ==
  /\ IsAt(a, "new") /\ \E at \in {"waiting", "done"} : Go(a, at, NoBrands)
  /\ UNCHANGED <<brands, userLease, lapsed, facts, SavedProfile>>
AnswerEnters(a) ==
  /\ IsAt(a, "waiting") /\ LeaseFree /\ userLease' = {a} /\ Go(a, "in", NoBrands)
  /\ UNCHANGED <<brands, lapsed, facts, SavedProfile>>
AnswerTimesOut(a) ==
  /\ IsAt(a, "waiting") /\ ~LeaseFree /\ Go(a, "done", NoBrands)
  /\ UNCHANGED <<brands, userLease, lapsed, facts, SavedProfile>>
AnswerReads(a) ==
  /\ IsAt(a, "in") /\ Go(a, "read", brands)
  /\ UNCHANGED <<brands, userLease, lapsed, facts, SavedProfile>>
AnswerWrites(a) ==
  /\ IsAt(a, "read") /\ brands' = writing[a].seen \cup {a} /\ Go(a, "done", NoBrands)
  /\ userLease' = userLease \ {a}
  /\ UNCHANGED <<lapsed, facts, SavedProfile>>
\* The write is refused as unsafe or the database fails.
AnswerFails(a) ==
  /\ writing[a].at \in {"in", "read"} /\ Go(a, "done", NoBrands) /\ userLease' = userLease \ {a}
  /\ UNCHANGED <<brands, lapsed, facts, SavedProfile>>
\* The lease expires, or the request is cancelled, which gives it up: the thread
\* that reads and writes goes on.
LeaseLapses(a) ==
  /\ a \in userLease /\ userLease' = {} /\ lapsed' = lapsed \cup {a}
  /\ UNCHANGED <<brands, writing, facts, SavedProfile>>

-----------------------------------------------------------------------------
(* A turn (Turn.user_profile, apply_changes, update_user_profile).         *)

\* Neither read is a reason to fail: without its preferences a turn knows no
\* brands, without the profile it knows the preferences.
TurnStarts(t) ==
  /\ IsAt(t, "new") /\ Go(t, "waiting", NoBrands)
  /\ \E known \in {brands, {}} : facts' = [facts EXCEPT ![t].brands = known]
  /\ UNCHANGED <<brands, userLease, lapsed, SavedProfile>>
\* Only a completed profile is used.
ProfileFor == IF saved.status = "completed" THEN saved.text ELSE "default"
TurnReadsProfile(t) ==
  /\ IsAt(t, "waiting") /\ Go(t, "in", NoBrands)
  /\ \E known \in {ProfileFor, "none"} : facts' = [facts EXCEPT ![t].profile = known]
  /\ UNCHANGED <<brands, userLease, lapsed, SavedProfile>>
TurnReadsBrands(t) ==
  /\ IsAt(t, "in") /\ Go(t, "read", brands)
  /\ UNCHANGED <<brands, userLease, lapsed, facts, SavedProfile>>
\* The list comes from the words of the user and from what was saved; one that says
\* nothing new is not written.  What the turn knows is what it read and wrote.
TurnWrites(t) ==
  /\ IsAt(t, "read") /\ Go(t, "done", NoBrands)
  /\ \E kept \in {writing[t].seen, {}}, own \in {{t}, {}} :
       /\ brands' = IF kept \cup own = writing[t].seen THEN brands ELSE kept \cup own
       /\ facts' = [facts EXCEPT ![t].brands = kept \cup own]
  /\ UNCHANGED <<userLease, lapsed, SavedProfile>>

-----------------------------------------------------------------------------
(* The settings page (UserProfileRepository).                              *)

OpenPage(g) ==
  /\ page' = [page EXCEPT ![g] = saved] /\ page' # page
  /\ UNCHANGED <<brands, userLease, writing, lapsed, saved, facts>>

\* A mutant of IsCurrent: the UPDATE forgets the revision.
RowIsThere(g) == (page[g].revision = 0) = (saved.revision = 0)
IsCurrent(g) == page[g].revision = saved.revision
\* A save, or a skip, which keeps what was saved; else a conflict.  The page takes
\* the answer over, unless it was lost.
WriteProfile(g) ==
  /\ IsCurrent(g) /\ saved.revision < MaxRevision
  /\ \E new \in {[text |-> g, status |-> "completed"], [text |-> saved.text, status |-> "skipped"]} :
       saved' = [text |-> new.text, status |-> new.status, revision |-> saved.revision + 1]
  /\ page' \in {page, [page EXCEPT ![g] = saved']}
  /\ UNCHANGED <<brands, userLease, writing, lapsed, facts>>

PFNext ==
  \/ \E a \in OnboardingAnswers :
       \/ AnswerComes(a) \/ AnswerEnters(a) \/ AnswerTimesOut(a) \/ AnswerReads(a)
       \/ AnswerWrites(a) \/ AnswerFails(a) \/ LeaseLapses(a)
  \/ \E t \in BrandTurns :
       TurnStarts(t) \/ TurnReadsProfile(t) \/ TurnReadsBrands(t) \/ TurnWrites(t)
  \/ \E g \in ProfilePages : OpenPage(g) \/ WriteProfile(g)

PFSpec == PFInit /\ [][PFNext]_pfVars
-----------------------------------------------------------------------------
(* Properties.                                                             *)

\* What a save replaces its author has read.  Until a turn commits a list or an
\* answer loses its lease no brand disappears (a turn and an answer may lose each
\* other's brands: they hold different leases); the text of a profile is only
\* replaced from a page that shows it (manager.py:684,
\* user_profile_repository.py:44).
SavesKeepOthers ==
  [][ /\ brands \subseteq brands' \/ lapsed # {} \/ \E t \in BrandTurns : writing'[t].at = "done"
      /\ saved'.text # saved.text => page[saved'.text].text = saved.text ]_pfVars
=============================================================================
