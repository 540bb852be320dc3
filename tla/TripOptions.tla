---------------------------- MODULE TripOptions ----------------------------
(***************************************************************************)
(* The board of trains and hotels that prepare_trip_options collects        *)
(* (agent_runtime/trip_options.py).  Trains, hotels and the origin are      *)
(* looked up together, weather and the way from the station after them,     *)
(* each under a deadline.  The lookups ask 12306 and AMap, retry, and       *)
(* share the budget of external calls of the turn.                          *)
(***************************************************************************)
EXTENDS Naturals, FiniteSets, Sequences, Functions

CONSTANTS
  Brands,       \* the preferred hotel brands that are looked up, in order
  Pairs,        \* how many pairs of stations the two cities have
  Endpoints,     \* how many paths of leftTicket are tried
  StationTries, \* how often the table of stations is fetched
  MaxExternal, MaxPerType, \* the limits of the budget
  Wishes,       \* bound: the sets of capabilities a user may exclude
  Known,        \* bound: the lookups whose answer may be cached at the start
  Flaky         \* bound: the lookups whose first request may be lost

ASSUME TripOptionsAssumption ==
  /\ Pairs \in Nat \ {0} /\ Endpoints \in Nat \ {0} /\ StationTries \in Nat \ {0}
  /\ MaxExternal \in Nat /\ MaxPerType \in Nat
  /\ Brands \in Seq(STRING) /\ Len(Brands) <= 2
  /\ Range(Brands) \cap {"around", "origin", "adcode", "live", "forecast", "station", "route"} = {}

VARIABLES
  wish,   \* what is excluded, whether the place of work is known, the day past
  calls,  \* the budget: external calls so far, by type
  cache,  \* answers of AMap that are fresh
  look,   \* the lookups at AMap
  table,  \* what the train backend keeps: its session and its stations
  train,  \* where the train query is
  answer, \* what 12306 said of each pair of stations
  task,   \* the coroutines
  board

toVars == <<wish, calls, cache, look, table, train, answer, task, board>>

First == {"trains", "hotels", "origin"}
Tasks == First \cup {"weather", "commute"}
Hotels == <<"around">> \o Brands
Of(t) == CASE t = "hotels"  -> Range(Hotels)
           [] t = "origin"  -> {"origin"}
           [] t = "weather" -> {"adcode", "live", "forecast"}
           [] t = "commute" -> {"station", "route"}
           [] OTHER         -> {}
Asks == UNION {Of(t) : t \in Tasks}
AMapTries == 2
Said == {"some", "nothing"}

ASSUME KnownAssumption == Known \subseteq Asks

TOTypeOK ==
  /\ wish.excluded \in Wishes /\ wish.anchor \in BOOLEAN /\ wish.past \in BOOLEAN
  /\ calls \in [{"amap", "train"} -> 0..MaxPerType] /\ calls.amap + calls.train <= MaxExternal
  /\ DOMAIN cache \subseteq Asks /\ \A l \in DOMAIN cache : cache[l] \in Said
  /\ look \in [Asks -> [at : {"none", "ask", "failed", "over"} \cup Said,
                           tries : 0 .. AMapTries - 1]]
  /\ table \in {"cold", "warm", "full"}
  /\ train \in [at : {"start", "warm", "stations", "pairs"}, tries : 0 .. StationTries - 1,
                pair : 1..Pairs + 1, suffix : 1..Endpoints]
  /\ answer \in [1..Pairs -> {"none", "rows", "empty", "failed"}]
  /\ task \in [Tasks -> {"running", "done", "late"}]
  /\ board.train \in {"needs_input", "excluded", "ready", "empty", "unavailable"}
  /\ board.hotel \in {"needs_input", "excluded", "ready", "empty", "unavailable"}
  /\ board.trains \subseteq 1..Pairs /\ board.hotels \subseteq Range(Hotels)
  /\ board.extras \subseteq {"point", "weather", "commute"} /\ board.notes \subseteq {"weather", "commute"}

\* prepare_options sends the user to the form first when hotels are wanted and
\* the place of work is not known.
TOInit ==
  /\ wish \in [excluded : Wishes, anchor : BOOLEAN, past : BOOLEAN]
  /\ "nearby_hotels" \in wish.excluded \/ wish.anchor
  /\ calls = [amap |-> 0, train |-> 0]
  /\ cache \in UNION {[S -> Said] : S \in SUBSET Known}
  /\ look = [l \in Asks |-> [at |-> "none", tries |-> 0]]
  /\ table \in {"cold", "warm", "full"}
  /\ train = [at |-> "start", tries |-> 0, pair |-> 1, suffix |-> 1]
  /\ answer = [p \in 1..Pairs |-> "none"]
  /\ task = [t \in Tasks |-> "running"]
  /\ board = [train |-> "needs_input", hotel |-> "needs_input", trains |-> {}, hotels |-> {},
              extras |-> {}, notes |-> {}]
-----------------------------------------------------------------------------
(* The budget and the requests.                                            *)

Affordable(type) == calls.amap + calls.train < MaxExternal /\ calls[type] < MaxPerType
Consume(type) == calls' = [calls EXCEPT ![type] = @ + 1]

Is(l, at) == look[l].at = at
HasAnswer(l) == look[l].at \in Said
Broken(l) == look[l].at \in {"failed", "over"}
SetLook(l, at) == look' = [look EXCEPT ![l].at = at]
Request(L) == look' = [l \in Asks |-> IF l \in L THEN [at |-> "ask", tries |-> 0] ELSE look[l]]

Hit(l) ==
  /\ Is(l, "ask") /\ look[l].tries = 0 /\ l \in DOMAIN cache /\ SetLook(l, cache[l])
  /\ UNCHANGED <<wish, calls, cache, table, train, answer, task, board>>

\* A request and its answer are one step: between them the coroutines share only
\* the budget, which is taken before the request.  Connection errors and 5xx are
\* tried once more; a refusal is not.
Pays(l) ==
  /\ Is(l, "ask") /\ (look[l].tries > 0 \/ l \notin DOMAIN cache)
  /\ Affordable("amap") /\ Consume("amap")
  /\ UNCHANGED <<wish, table, train, answer, task, board>>

Reply(l) ==
  /\ Pays(l)
  /\ \E x \in Said :
       /\ SetLook(l, x)
       /\ cache' = [k \in DOMAIN cache \cup {l} |-> IF k = l THEN x ELSE cache[k]]
Lost(l) ==
  /\ Pays(l) /\ look[l].tries + 1 < AMapTries /\ l \in Flaky
  /\ look' = [look EXCEPT ![l].tries = @ + 1]
  /\ UNCHANGED cache
Refused(l) == Pays(l) /\ SetLook(l, "failed") /\ UNCHANGED cache

Over(l) ==
  /\ Is(l, "ask") /\ (look[l].tries > 0 \/ l \notin DOMAIN cache)
  /\ ~Affordable("amap") /\ SetLook(l, "over")
  /\ UNCHANGED <<wish, calls, cache, table, train, answer, task, board>>

-----------------------------------------------------------------------------
(* The coroutines.                                                         *)

Runs(t) ==
  /\ task[t] = "running"
  /\ t \in First \/ \A f \in First : task[f] # "running"
Wants(kind) == kind \notin wish.excluded
Closes(t, b) == Runs(t) /\ task' = [task EXCEPT ![t] = "done"] /\ board' = b

Note(kind) == [board EXCEPT !.notes = @ \cup {kind}]
Extra(kind) == [board EXCEPT !.extras = @ \cup {kind}]

\* Trains.
NoTrains == [board EXCEPT !.train = "unavailable"]
TrainsSkipped ==
  /\ train.at = "start"
  /\ \/ ~Wants("train") /\ Closes("trains", [board EXCEPT !.train = "excluded"])
     \/ Wants("train") /\ wish.past /\ Closes("trains", board)
  /\ UNCHANGED <<wish, calls, cache, look, table, train, answer>>

TrainsBegin ==
  /\ Runs("trains") /\ train.at = "start" /\ Wants("train") /\ ~wish.past
  /\ train' = [train EXCEPT !.at = CASE table = "full" -> "pairs" [] table = "warm" -> "stations"
                                     [] OTHER -> "warm"]
  /\ UNCHANGED <<wish, calls, cache, look, table, answer, task, board>>

Fetching(at) == Runs("trains") /\ train.at = at /\ train.pair <= Pairs
Fetched(at) == Fetching(at) /\ Affordable("train") /\ Consume("train")
GoesOn == UNCHANGED <<task, board>> /\ UNCHANGED <<wish, cache, look>>

Warmed ==
  /\ Fetched("warm") /\ table' = "warm" /\ train' = [train EXCEPT !.at = "stations"]
  /\ GoesOn /\ UNCHANGED answer
StationsRead ==
  /\ Fetched("stations") /\ table' = "full" /\ train' = [train EXCEPT !.at = "pairs"]
  /\ GoesOn /\ UNCHANGED answer
StationsLost ==
  /\ Fetched("stations") /\ train.tries + 1 < StationTries
  /\ train' = [train EXCEPT !.tries = @ + 1]
  /\ GoesOn /\ UNCHANGED <<table, answer>>

\* The warm-up or the table failed, or the table has no station of a city.
TrainsFail ==
  /\ \/ Fetched("warm") \/ Fetched("stations")
     \/ Fetching("pairs") /\ train.pair = 1 /\ train.suffix = 1 /\ UNCHANGED calls
  /\ Closes("trains", NoTrains)
  /\ UNCHANGED <<wish, cache, look, table, train, answer>>

\* ExecutionLimitExceeded is not taken for a failure of one path or pair.
TrainsOver ==
  /\ \E at \in {"warm", "stations", "pairs"} : Fetching(at)
  /\ ~Affordable("train") /\ Closes("trains", NoTrains)
  /\ UNCHANGED <<wish, calls, cache, look, table, train, answer>>

NextPair(x) ==
  /\ answer' = [answer EXCEPT ![train.pair] = x]
  /\ train' = [train EXCEPT !.pair = @ + 1, !.suffix = 1]

\* An empty list is an answer and ends the polling of this pair.
Tickets ==
  /\ Fetched("pairs") /\ (NextPair("rows") \/ NextPair("empty"))
  /\ GoesOn /\ UNCHANGED table
NoTickets ==
  /\ Fetched("pairs")
  /\ IF train.suffix < Endpoints
       THEN train' = [train EXCEPT !.suffix = @ + 1] /\ UNCHANGED answer
       ELSE NextPair("failed")
  /\ GoesOn /\ UNCHANGED table

PairsWith(x) == {p \in 1..Pairs : answer[p] = x}
TrainBoard ==
  IF PairsWith("failed") = 1..Pairs THEN NoTrains
  ELSE [board EXCEPT !.trains = PairsWith("rows"),
                     !.train = IF PairsWith("rows") = {} THEN "empty" ELSE "ready"]
TrainsEnd ==
  /\ train.pair > Pairs /\ Closes("trains", TrainBoard)
  /\ UNCHANGED <<wish, calls, cache, look, table, train, answer>>

\* Hotels: around the place of work, then of each brand.
NoHotels == [board EXCEPT !.hotel = "unavailable"]
HotelsSkipped ==
  /\ ~Wants("nearby_hotels") /\ Closes("hotels", [board EXCEPT !.hotel = "excluded"])
  /\ UNCHANGED <<wish, calls, cache, look, table, train, answer>>

\* Only an AMapError of a brand is caught.
HotelsGoOn(i) ==
  i > 1 => HasAnswer("around") /\ ~Is(Hotels[i - 1], "over")
HotelsAsk ==
  /\ Runs("hotels") /\ Wants("nearby_hotels")
  /\ \E i \in DOMAIN Hotels :
       /\ Is(Hotels[i], "none") /\ HotelsGoOn(i)
       /\ \A j \in 1 .. i - 1 : HasAnswer(Hotels[j]) \/ Broken(Hotels[j])
       /\ Request({Hotels[i]})
  /\ UNCHANGED <<wish, calls, cache, table, train, answer, task, board>>
HotelBoard ==
  LET found == {l \in Of("hotels") : Is(l, "some")}
  IN  [board EXCEPT !.hotels = found, !.hotel = IF found = {} THEN "empty" ELSE "ready"]
\* A mutant of HotelsBroken: the error of a brand is not caught.
BrandIsNeeded == \E l \in Of("hotels") : Broken(l)
HotelsBroken == Broken("around") \/ \E l \in Of("hotels") : Is(l, "over")
HotelsEnd ==
  /\ \/ HotelsBroken /\ Closes("hotels", NoHotels)
     \/ /\ \A l \in Of("hotels") : HasAnswer(l) \/ Broken(l)
        /\ ~HotelsBroken /\ Closes("hotels", HotelBoard)
  /\ UNCHANGED <<wish, calls, cache, look, table, train, answer>>

\* The point of the origin is for the map; without it the map has one end.
OriginAsk ==
  /\ Runs("origin") /\ wish.anchor /\ Is("origin", "none") /\ Request({"origin"})
  /\ UNCHANGED <<wish, calls, cache, table, train, answer, task, board>>
OriginEnd ==
  /\ \/ (~wish.anchor \/ Broken("origin") \/ Is("origin", "nothing")) /\ Closes("origin", board)
     \/ Is("origin", "some") /\ Closes("origin", Extra("point"))
  /\ UNCHANGED <<wish, calls, cache, look, table, train, answer>>

\* The two reports are requested together; when one fails the other goes on
\* without anyone waiting for it.
WeatherAsk ==
  /\ Runs("weather") /\ Wants("weather")
  /\ \/ Is("adcode", "none") /\ Request({"adcode"})
     \/ Is("adcode", "some") /\ Is("live", "none") /\ Request({"live", "forecast"})
  /\ UNCHANGED <<wish, calls, cache, table, train, answer, task, board>>
WeatherEnd ==
  /\ \/ ~Wants("weather") /\ Closes("weather", board)
     \/ /\ Is("adcode", "nothing") \/ \E l \in Of("weather") : Broken(l)
        /\ Closes("weather", Note("weather"))
     \/ HasAnswer("live") /\ HasAnswer("forecast") /\ Closes("weather", Extra("weather"))
  /\ UNCHANGED <<wish, calls, cache, look, table, train, answer>>

CanCommute == wish.anchor /\ board.trains # {}
CommuteAsk ==
  /\ Runs("commute") /\ Wants("local_transport") /\ CanCommute
  /\ \/ Is("station", "none") /\ Request({"station"})
     \/ Is("station", "some") /\ Is("route", "none") /\ Request({"route"})
  /\ UNCHANGED <<wish, calls, cache, table, train, answer, task, board>>

\* A station or a place without a city code has no route.
CommuteEnd ==
  /\ \/ ~Wants("local_transport") /\ Closes("commute", board)
     \/ /\ Wants("local_transport")
        /\ \/ ~CanCommute \/ Is("station", "nothing") \/ Is("route", "nothing")
           \/ Broken("station") \/ Broken("route")
           \/ Is("station", "some") /\ Is("route", "none")
        /\ Closes("commute", Note("commute"))
     \/ Is("route", "some") /\ Closes("commute", Extra("commute"))
  /\ UNCHANGED <<wish, calls, cache, look, table, train, answer>>

\* wait_for cancels the coroutine and what it awaits; answers of pairs that have
\* come are lost with it.
Started(t) ==
  \/ t = "trains" /\ train.at # "start"
  \/ \E l \in Of(t) : ~Is(l, "none")
Deadline(t) ==
  /\ Runs(t) /\ Started(t) /\ task' = [task EXCEPT ![t] = "late"]
  /\ look' = [l \in Asks |-> IF l \in Of(t) THEN [at |-> "none", tries |-> 0] ELSE look[l]]
  /\ board' = CASE t = "trains" -> NoTrains
                [] t = "hotels" -> NoHotels
                [] t = "origin" -> board
                [] OTHER        -> Note(t)
  /\ UNCHANGED <<wish, calls, cache, table, train, answer>>

Finished == \A t \in Tasks : task[t] # "running"

TONext ==
  \/ \E l \in Asks : Hit(l) \/ Reply(l) \/ Lost(l) \/ Refused(l) \/ Over(l)
  \/ TrainsSkipped \/ TrainsBegin \/ Warmed \/ StationsRead \/ StationsLost
  \/ TrainsFail \/ TrainsOver \/ Tickets \/ NoTickets \/ TrainsEnd
  \/ HotelsSkipped \/ HotelsAsk \/ HotelsEnd
  \/ OriginAsk \/ OriginEnd \/ WeatherAsk \/ WeatherEnd \/ CommuteAsk \/ CommuteEnd
  \/ \E t \in Tasks : Deadline(t)

TOSpec == TOInit /\ [][TONext]_toVars
-----------------------------------------------------------------------------
(* Properties.                                                             *)

\* options_output.
Outcome ==
  LET statuses == {board.train, board.hotel}
  IN  IF "needs_input" \in statuses THEN "waiting_input"
      ELSE IF statuses \cap {"unavailable", "empty"} # {} THEN "partial" ELSE "completed"

\* What ends a part before its lookups have ended: its own deadline, or the end
\* of the budget while it still has something to ask.  What it found is dropped.
TrainsCut == task["trains"] = "late" \/ (train.pair <= Pairs /\ ~Affordable("train"))
HotelsCut == task["hotels"] = "late" \/ \E l \in Of("hotels") : Is(l, "over")

HonestTrains ==
  /\ board.train \in {"ready", "empty"} => board.trains = PairsWith("rows")
  /\ board.train = "empty" => PairsWith("empty") # {}
  /\ board.train = "unavailable" => TrainsCut \/ PairsWith("rows") = {}
  /\ board.train = "excluded" <=> ~Wants("train")

HonestHotels ==
  /\ board.hotel \in {"ready", "empty"} => board.hotels = {l \in Of("hotels") : Is(l, "some")}
  /\ board.hotel = "unavailable" <=> HotelsCut \/ Is("around", "failed")
  /\ board.hotel = "excluded" <=> ~Wants("nearby_hotels")

\* The finished board says of each part what its providers said in time
\* ("Facts survive even if another provider fails", trip_options.py:1).  Found
\* trains and hotels are on it although another part fails, a pair of stations
\* fails or a brand is refused; only the end of the budget or of the deadline in
\* the middle of their own part drops them, and that part is then called
\* unavailable.  So hotels found near by are lost to the end of the budget in a
\* brand's lookup, which is no AMapError, although amap.py:140 says that the
\* failure of a brand's lookup must not discard them.  A part is called empty only
\* on an answer, a wanted extra is there or noted, and the outcome is completed
\* only with rows for everything asked.
BoardIsHonest ==
  Finished =>
    /\ HonestTrains /\ HonestHotels
    /\ board.hotel = "ready" <=> board.hotels # {}
    /\ board.train = "ready" <=> board.trains # {}
    /\ \A k \in {"weather", "commute"} :
         (k \in board.extras \/ k \in board.notes) <=>
           Wants(IF k = "commute" THEN "local_transport" ELSE k)
    /\ "commute" \in board.extras => board.trains # {} /\ wish.anchor /\ Is("route", "some")
    /\ Outcome = "completed" =>
         /\ Wants("train") => board.trains # {}
         /\ Wants("nearby_hotels") => board.hotels # {}
=============================================================================
