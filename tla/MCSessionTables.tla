--------------------------- MODULE MCSessionTables ---------------------------
(***************************************************************************)
(* What is stored of a user: the sessions with their requests, the          *)
(* settings, and the trip.  They share no state and are checked in one run: *)
(* `part` is chosen in the first state and the others do not move.          *)
(***************************************************************************)
EXTENDS SessionTables, Profile, TripIntake, TLC
VARIABLE part
storedVars == <<part, vars, pfVars, tiVars>>

OneSession == [r \in Requests |-> CHOOSE s \in Sessions : TRUE]
Symmetry == Permutations(Turns) \cup Permutations(Deleters)

StoredInit ==
  /\ part \in {"sessions", "deletions", "answers", "pages", "trip"} /\ Init /\ PFInit /\ TIInit
  /\ part # "trip" => home = {}
\* Three begins beside one deletion at a time, or two, one after the other, beside
\* two deletions.
Busy(A) == {a \in A : ~At(a, "idle")}
SessionsNext == Next /\ Cardinality(Busy(Deleters)') <= 1
DeletionsNext == Next /\ clock' <= 2 /\ Cardinality(Busy(Turns)') <= 1
\* The answers and the pages share nothing; a turn runs beside either.
AnswersNext == PFNext /\ UNCHANGED SavedProfile
PagesNext == PFNext /\ \A a \in OnboardingAnswers : writing'[a].at = "new"
\* A user is done with the settings and the questions.
SettingsAreDone ==
  /\ \/ part = "answers" /\ ~ENABLED AnswersNext
     \/ part = "pages" /\ ~ENABLED PagesNext
  /\ UNCHANGED storedVars
StoredNext ==
  /\ UNCHANGED part
  /\ \/ part = "sessions" /\ SessionsNext /\ UNCHANGED <<pfVars, tiVars>>
     \/ part = "deletions" /\ DeletionsNext /\ UNCHANGED <<pfVars, tiVars>>
     \/ part = "answers" /\ AnswersNext /\ UNCHANGED <<vars, tiVars>>
     \/ part = "pages" /\ PagesNext /\ UNCHANGED <<vars, tiVars>>
     \/ part = "trip" /\ TINext /\ UNCHANGED <<vars, pfVars>>
     \/ SettingsAreDone
StoredSpec == StoredInit /\ [][StoredNext]_storedVars

\* The types of the three parts.
StoredTypes == TypeOK /\ PFTypeOK /\ TITypeOK
=============================================================================
