----------------------------- MODULE TripIntake -----------------------------
(***************************************************************************)
(* What a trip is known by, and the card that asks for the rest: the quick  *)
(* form, the answers to the card and what an agent extracts from the words  *)
(* of the user pass one gate (agent_runtime/validation.py) and are merged   *)
(* into the stored trip (Turn.invoke_main, store._apply); the card is made  *)
(* from what is stored (core/trip_intake.py, trip_intake_document.py).      *)
(***************************************************************************)
EXTENDS Naturals, FiniteSets, Functions

CONSTANTS
  Cities,   \* cities, each with one place to work at, which has its name
  LastDay,  \* bound: days are 1..LastDay
  MaxDays,  \* the gate: a trip is shorter than 90 days
  MaxFields \* bound: fields an agent or the card gives at once

ASSUME TripIntakeAssumption ==
  /\ LastDay \in Nat \ {0} /\ MaxDays \in Nat \ {0} /\ MaxFields \in Nat
  /\ \E c, d \in Cities : c # d

VARIABLES
  trip,  \* the fields that are known, a function from some of Fields
  home   \* the home city of the user, or none

tiVars == <<trip, home>>

\* No trip ends before day MaxDays, so that each has a day to start.
Days == 1..LastDay
Values == [origin |-> Cities, destination |-> Cities, start_date |-> Days, end_date |-> MaxDays..LastDay,
           duration_days |-> 1..MaxDays, trip_purpose |-> {1}, work_location |-> Cities,
           work_location_verified |-> Cities, hotels_excluded |-> BOOLEAN]
\* What an agent may write (TRIP_FIELDS).
Proposable == {"origin", "destination", "start_date", "end_date", "duration_days",
               "trip_purpose", "work_location"}
Has(t, key) == key \in DOMAIN t
\* One dictionary over another.
Merged(t, sub) == [k \in DOMAIN t \cup DOMAIN sub |-> IF Has(sub, k) THEN sub[k] ELSE t[k]]
Without(t, keys) == Restrict(t, DOMAIN t \ keys)
SameField(t, u, key) == Has(t, key) = Has(u, key) /\ (Has(t, key) => t[key] = u[key])
Fillings(keys) == {f \in [keys -> UNION {Values[k] : k \in keys}] : \A k \in keys : f[k] \in Values[k]}

TITypeOK ==
  /\ DOMAIN trip \subseteq DOMAIN Values /\ \A k \in DOMAIN trip : trip[k] \in Values[k]
  /\ home \subseteq Cities /\ Cardinality(home) <= 1

TIInit == trip = <<>> /\ home \in {{}} \cup {{c} : c \in Cities}
-----------------------------------------------------------------------------
(* The gate (validated_changes).                                           *)

Spans(t) == Has(t, "start_date") /\ Has(t, "end_date")
Length(t) == (t.end_date - t.start_date) + 1
DatesFit(t) ==
  Spans(t) => /\ t.start_date <= t.end_date /\ Length(t) <= MaxDays
              /\ Has(t, "duration_days") => t.duration_days = Length(t)
Gate(old, sub) == DatesFit(Merged(old, sub))

(* The card (evaluate_trip_intake, build_trip_intake_document).            *)

\* The home city is where a trip starts from, unless the trip says otherwise.
FromHome(t) == IF Has(t, "origin") \/ home = {} THEN t
               ELSE Merged(t, [origin |-> CHOOSE c \in home : TRUE])
RoundTrip(t) == Has(t, "origin") /\ Has(t, "destination") /\ t.origin = t.destination
Lacking(t) ==
  {k \in {"origin", "destination", "start_date", "trip_purpose"} : ~Has(t, k)}
  \cup (IF Has(t, "end_date") \/ Has(t, "duration_days") THEN {} ELSE {"duration_days"})
\* A field in conflict is asked for again.
Missing(t) ==
  Lacking(t) \cup (IF RoundTrip(t) THEN {"destination"} ELSE {})
             \cup (IF DatesFit(t) THEN {} ELSE {"duration_days"})

Anchored(t) ==
  /\ Has(t, "work_location_verified") /\ Has(t, "destination") /\ Has(t, "work_location")
  /\ t.work_location_verified = t.destination /\ t.work_location = t.work_location_verified
HotelsWanted(t) == ~(Has(t, "hotels_excluded") /\ t.hotels_excluded)
PlanningReady(t) == Missing(t) = {} /\ ~RoundTrip(t) /\ DatesFit(t)
CardStatus(t) ==
  CASE RoundTrip(t) \/ ~DatesFit(t) -> "needs_clarification"
    [] PlanningReady(t) /\ (HotelsWanted(t) => Anchored(t)) -> "ready_to_plan"
    [] OTHER -> "collecting_required"

-----------------------------------------------------------------------------
(* Changes.  They compare with the stored trip even where it is replaced.  *)

Moves(sub) == Has(sub, "destination") /\ ~SameField(sub, trip, "destination")
Relocates(sub) == Has(sub, "work_location") /\ ~SameField(sub, trip, "work_location")
\* A mutant of Forgotten: a new destination leaves the verified place alone.
ForgottenByName(sub) == IF Relocates(sub) THEN {"work_location_verified"} ELSE {}
\* The fields a change makes None: another city or place loses the verified one.
Forgotten(sub) ==
  (IF Moves(sub) \/ Relocates(sub) THEN {"work_location_verified"} ELSE {})
  \cup (IF Moves(sub) /\ ~Has(sub, "work_location") THEN {"work_location"} ELSE {})

\* A new trip starts from nothing, an update from what is stored.
Commit(old, sub, forgotten) ==
  /\ Gate(old, sub) /\ trip' = Merged(Without(old, forgotten), sub) /\ UNCHANGED home

\* Of the card one field alone is an answer only if it cannot be small talk; an
\* agent reads the rest of what users say.
Propose(old) ==
  \E keys \in SUBSET Proposable : /\ Cardinality(keys) \in 1..MaxFields
    /\ \E sub \in Fillings(keys) : Commit(old, sub, Forgotten(sub))
UpdateTrip == Propose(trip)
NewTrip == trip # <<>> /\ Propose(<<>>)
CancelTrip == trip # <<>> /\ trip' = <<>> /\ UNCHANGED home

\* The quick form gives all the fields, and a place of the destination that was
\* looked up again, or none.
SubmitForm ==
  \E c, d \in Cities, from \in Days, to \in MaxDays..LastDay, excluded \in BOOLEAN, placed \in BOOLEAN :
    /\ from <= to /\ (to - from) + 1 <= MaxDays
    /\ LET basic == [origin |-> c, destination |-> d, start_date |-> from, end_date |-> to,
                     duration_days |-> (to - from) + 1, trip_purpose |-> 1]
           place == [work_location |-> d, work_location_verified |-> d]
           sub == IF placed THEN Merged(basic, place) ELSE basic
       IN  /\ Gate(trip, sub)
           /\ trip' = Merged(Without(trip, Forgotten(sub) \cup DOMAIN place),
                           Merged(sub, [hotels_excluded |-> excluded]))
    /\ UNCHANGED home

\* A preference of the user.
MoveHome == home' \in {{c} : c \in Cities} /\ home' # home /\ UNCHANGED trip

TINext == UpdateTrip \/ NewTrip \/ CancelTrip \/ SubmitForm \/ MoveHome
TISpec == TIInit /\ [][TINext]_tiVars
-----------------------------------------------------------------------------
(* Properties.                                                             *)

\* Whatever changes came in whatever order: the stored dates agree, and a verified
\* place is the stored place, in the stored city (validation.py:94-100,
\* engine.py:1054-1065).
TripIsSound ==
  /\ DatesFit(trip)
  /\ Has(trip, "work_location_verified") => Anchored(trip)

\* The card is never a dead end: there are answers to exactly the fields it asks for
\* that pass the gate and leave nothing to ask (trip_intake_document.py:168,
\* "N more fields and the plan can be made").
CardCompletes ==
  LET asked == Missing(FromHome(trip))
  IN  /\ CardStatus(FromHome(trip)) = "ready_to_plan" => asked = {}
      /\ CardStatus(FromHome(trip)) = "needs_clarification" => asked # {}
      /\ \E c, d \in Cities, from \in Days, days \in 1..MaxDays :
           LET all == [origin |-> c, destination |-> d, start_date |-> from,
                       duration_days |-> days, trip_purpose |-> 1]
               sub == Restrict(all, asked)
           IN  Gate(trip, sub) /\ PlanningReady(FromHome(Merged(trip, sub)))

\* At any time what is stored can be planned with, or completed by the card
\* (validation.py:37-101, core/trip_intake.py:69-184).
TripCanBePlanned == TripIsSound /\ CardCompletes
=============================================================================
