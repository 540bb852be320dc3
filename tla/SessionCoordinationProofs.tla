---------------------- MODULE SessionCoordinationProofs ----------------------
(***************************************************************************)
(* Proofs about SessionCoordination, for every number of processes,        *)
(* sessions, scopes and slots, and every TTL, interval and lateness that   *)
(* the assumption allows.  What a step does to the leases, to the slots and *)
(* to one scope is stated once (LeaseStep, SlotStep, ScopeStep).           *)
(***************************************************************************)
EXTENDS SessionCoordination, FiniteSetTheorems, TLAPS

Active(p) == scopes[p].pc \notin {"new", "ended"}

\* A scope under way knows what it is for.
Known == \A p \in Scopes :
    /\ Active(p) => /\ scopes[p].kind \in Kinds /\ scopes[p].worker \in Workers
                    /\ scopes[p].session \in Sessions
    /\ ~Active(p) => scopes[p].kind = Nobody

\* A held key has time left, its scope has that key, and a session key has its
\* entry in the sorted set, with the same time left.
LeasesSound ==
    /\ \A k \in LeaseKeys : keys[k] = Free \/ (keys[k].token \in Scopes /\ keys[k].left > 0)
    /\ \A k \in LeaseKeys : \A p \in Scopes : keys[k].token = p =>
            ~At(p, "new") /\ (Active(p) => KeyFor(p) = k)
    /\ \A s \in Sessions : keys[s] # Free => keys[s] \in activity

SlotsSound == IsFiniteSet(slots) /\ SlotsBounded

\* The lease of a scope, and its slot, have at least the time left that remains of
\* their TTL since the last beat.
HasTime(p) ==
    /\ keys[KeyFor(p)].token = p /\ keys[KeyFor(p)].left + scopes[p].beat >= TTL
    /\ At(p, "working") /\ scopes[p].kind = "turn" =>
        \E e \in slots : e.token = p /\ e.left + scopes[p].beat >= TTL

\* A turn that works knows of its slot, and what is on time has time.
Timed == \A p \in Scopes : Beating(p) =>
    /\ At(p, "working") /\ scopes[p].kind = "turn" => scopes[p].slot
    /\ OnTime(p) => HasTime(p)

IInv == SCTypeOK /\ Known /\ LeasesSound /\ HistoryExcludes /\ SlotsSound /\ Timed

-----------------------------------------------------------------------------
(* The operators. *)

\* The keys of a scope under way.
LEMMA KeyTypes ==
    ASSUME Known, NEW p \in Scopes, Active(p)
    PROVE  /\ KeyFor(p) \in LeaseKeys
           /\ Shared(p) => KeyFor(p) \in Sessions
           /\ scopes[p].kind = "clear" => KeyFor(p) = History
           /\ scopes[p].kind = "settings" => KeyFor(p) = User
           /\ KeyFor(p) \in Sessions => Shared(p)
           /\ Shared(p) \/ scopes[p].kind \in {"clear", "settings"}
BY CoordinationAssumption DEF Known, KeyFor, KeyOf, LeaseKeys, Shared

\* History, User and the sessions are different keys.
LEMMA KeysDiffer ==
    /\ History \in LeaseKeys /\ User \in LeaseKeys /\ Sessions \subseteq LeaseKeys
    /\ History # User /\ History \notin Sessions /\ User \notin Sessions
BY CoordinationAssumption DEF LeaseKeys

\* What a script grants.
LEMMA GrantedType ==
    ASSUME NEW p \in Scopes
    PROVE  /\ Granted(p) \in Lease /\ Granted(p) \in Member
           /\ Granted(p).token = p /\ Granted(p).left = TTL /\ TTL > 0
           /\ Granted(p) # Free
BY CoordinationAssumption DEF Granted, Lease, Member, Free

LEMMA FreeType == Free \in Lease /\ Free.token = Nobody /\ Free.left = 0 /\ Nobody \notin Scopes
BY CoordinationAssumption DEF Free, Lease

\* A heartbeat that has just beaten.
LEMMA ZeroBeat == 0 \in 0..TTL
BY CoordinationAssumption

LEMMA NewScopeType ==
    /\ NewScope \in Scope /\ NewScope.pc = "new" /\ NewScope.kind = Nobody
    /\ [NewScope EXCEPT !.pc = "ended"] \in Scope
    /\ [NewScope EXCEPT !.pc = "ended"].pc = "ended"
    /\ [NewScope EXCEPT !.pc = "ended"].kind = Nobody
BY ZeroBeat DEF NewScope, Scope

-----------------------------------------------------------------------------
(* What a step other than a tick does to leases, slots and scopes. *)

Locks(q) == At(q, "locking") /\ DoLock(q)
Renews(q) == Beating(q) /\ DoRenew(q)
Unlocks(q) == At(q, "unlocking") /\ scopes'[q].pc = "ended" /\ DoUnlock(q)

LeaseStep ==
    \/ UNCHANGED <<keys, activity>>
    \/ \E q \in Scopes : Locks(q) \/ Renews(q) \/ Unlocks(q)

SlotStep ==
    \/ UNCHANGED slots
    \/ \E q \in Scopes : \/ At(q, "slotting") /\ DoSlot(q)
                         \/ Beating(q) /\ DoRenewSlot(q)
                         \/ At(q, "freeing") /\ DoFreeSlot(q)

\* A step that is no tick changes the leases in one of these ways.
LEMMA LeaseSteps ==
    ASSUME SCTypeOK, [SCNext]_scVars, ~Tick
    PROVE  LeaseStep
<1>1. CASE UNCHANGED <<keys, activity>>
    BY <1>1 DEF LeaseStep
<1>2. ASSUME NEW p \in Scopes, Lock(p) \/ LockRefused(p) \/ LockUnknown(p)
      PROVE  LeaseStep
    BY <1>1, <1>2 DEF Lock, LockRefused, LockUnknown, LeaseStep, Locks
<1>3. ASSUME NEW p \in Scopes, Renew(p) \/ LoseLock(p)
      PROVE  LeaseStep
    BY <1>1, <1>3 DEF Renew, LoseLock, LeaseStep, Renews
<1>4. ASSUME NEW p \in Scopes, Unlock(p) \/ CancelRelease(p)
      PROVE  LeaseStep
  <2>1. scopes'[p].pc = "ended"
    BY <1>4, NewScopeType DEF Unlock, CancelRelease, End, SCTypeOK
  <2>2. QED  BY <1>1, <1>4, <2>1 DEF Unlock, CancelRelease, LeaseStep, Unlocks
<1>5. QED
  <2>1. ASSUME NEW p \in Scopes,
               \/ Starts(p) \/ Dequeue(p) \/ LeaveQueue(p) \/ TakeSlot(p) \/ NoSlot(p)
               \/ Leave(p) \/ FreeSlot(p) \/ AwaitSlot(p)
        PROVE  LeaseStep
    BY <1>1, <2>1 DEF Starts, Enter, Dequeue, LeaveQueue, TakeSlot, NoSlot, Leave, FreeSlot,
        AwaitSlot
  <2>2. ASSUME NEW w \in Workers, ProcessDies(w)
        PROVE  LeaseStep
    BY <1>1, <2>2 DEF ProcessDies
  <2>3. QED  BY <1>1, <1>2, <1>3, <1>4, <2>1, <2>2 DEF SCNext, Goes, Beats, scVars

\* The same for the slots.
LEMMA SlotSteps ==
    ASSUME SCTypeOK, [SCNext]_scVars, ~Tick
    PROVE  SlotStep
<1>1. CASE UNCHANGED slots
    BY <1>1 DEF SlotStep
<1>2. ASSUME NEW p \in Scopes, TakeSlot(p) \/ NoSlot(p) \/ AwaitSlot(p)
      PROVE  SlotStep
    BY <1>1, <1>2 DEF TakeSlot, NoSlot, AwaitSlot, SlotStep
<1>3. ASSUME NEW p \in Scopes, Renew(p) \/ LoseLock(p)
      PROVE  SlotStep
    BY <1>1, <1>3 DEF Renew, LoseLock, SlotStep
<1>4. ASSUME NEW p \in Scopes, FreeSlot(p) \/ CancelRelease(p)
      PROVE  SlotStep
    BY <1>1, <1>4 DEF FreeSlot, CancelRelease, SlotStep
<1>5. QED
  <2>1. ASSUME NEW p \in Scopes,
               \/ Starts(p) \/ Dequeue(p) \/ LeaveQueue(p) \/ Leave(p) \/ Unlock(p)
               \/ Lock(p) \/ LockRefused(p) \/ LockUnknown(p)
        PROVE  SlotStep
    BY <1>1, <2>1 DEF Starts, Enter, Dequeue, LeaveQueue, Leave, Unlock, Lock, LockRefused,
        LockUnknown
  <2>2. ASSUME NEW w \in Workers, ProcessDies(w)
        PROVE  SlotStep
    BY <1>1, <2>2 DEF ProcessDies
  <2>3. QED  BY <1>1, <1>2, <1>3, <1>4, <2>1, <2>2 DEF SCNext, Goes, Beats, scVars

ScopeEnds(p) == scopes'[p].pc = "ended" /\ scopes'[p].kind = Nobody

ScopeEnters(p) ==
    /\ At(p, "new") /\ scopes'[p].pc \in {"queued", "locking"}
    /\ scopes'[p].kind \in Kinds /\ scopes'[p].worker \in Workers
    /\ scopes'[p].session \in Sessions

\* The scope goes on, but does not beat.
ScopeGoesOn(p) ==
    /\ Active(p)
    /\ scopes'[p].pc \notin {"new", "ended"}
    /\ scopes'[p].pc \in {"slotting", "working"} => scopes'[p].lost
    /\ scopes'[p].kind = scopes[p].kind /\ scopes'[p].worker = scopes[p].worker
    /\ scopes'[p].session = scopes[p].session

ScopeStep(p) ==
    /\ scopes'[p] \in Scope
    /\ \/ scopes'[p] = scopes[p]
       \/ ScopeEnds(p) \/ ScopeEnters(p) \/ ScopeGoesOn(p)
       \/ Lock(p) \/ TakeSlot(p) \/ Renew(p)

Shapes ==
    /\ scopes' = [p \in Scopes |-> scopes'[p]]
    /\ local' \in [Workers -> [LeaseKeys -> Scopes \union {Nobody}]]

\* A scope that ends.
LEMMA EndStep ==
    ASSUME SCTypeOK, NEW p \in Scopes, End(p)
    PROVE  /\ scopes' = [q \in Scopes |-> scopes'[q]]
           /\ scopes'[p] \in Scope /\ ScopeEnds(p)
           /\ \A q \in Scopes \ {p} : scopes'[q] = scopes[q]
<1> DEFINE ended == [NewScope EXCEPT !.pc = "ended"]
<1>1. ended \in Scope /\ ended.pc = "ended" /\ ended.kind = Nobody
    BY NewScopeType
<1>2. scopes' = [scopes EXCEPT ![p] = ended]
    BY DEF End
<1> HIDE DEF ended
<1>3. QED  BY <1>1, <1>2 DEF SCTypeOK, ScopeEnds

\* The local locks keep their type.
LEMMA LocalType ==
    ASSUME SCTypeOK, NEW x \in Scopes \union {Nobody}, NEW w, NEW k,
           local' = [local EXCEPT ![w][k] = x]
    PROVE  local' \in [Workers -> [LeaseKeys -> Scopes \union {Nobody}]]
BY DEF SCTypeOK

\* A step that is no tick changes a scope in one of these ways.
LEMMA ScopeSteps ==
    ASSUME SCTypeOK, Known, [SCNext]_scVars, ~Tick
    PROVE  Shapes /\ \A p \in Scopes : ScopeStep(p)
<1> DEFINE Goal == Shapes /\ \A p \in Scopes : ScopeStep(p)
<1>1. \A p \in Scopes : scopes[p] \in Scope
    BY DEF SCTypeOK
\* The step changes the scope of p only, and well.
<1>2. ASSUME NEW p \in Scopes, NEW c \in Scope, scopes' = [scopes EXCEPT ![p] = c],
             ScopeStep(p), local' \in [Workers -> [LeaseKeys -> Scopes \union {Nobody}]]
      PROVE  Goal
    BY <1>1, <1>2 DEF Shapes, ScopeStep, SCTypeOK
<1>3. ASSUME NEW p \in Scopes, Starts(p)
      PROVE  Goal
  <2>1. PICK kind \in Kinds, w \in Workers, s \in Sessions : Enter(p, kind, w, s)
    BY <1>3 DEF Starts
  <2>2. local' \in [Workers -> [LeaseKeys -> Scopes \union {Nobody}]]
    <3>1. CASE local' = local
      BY <3>1 DEF SCTypeOK
    <3>2. QED  BY <2>1, <3>1, LocalType DEF Enter
  <2>3. CASE scopes' = [scopes EXCEPT ![p] = [NewScope EXCEPT !.pc = "ended"]]
    BY <2>2, <2>3, <1>2, NewScopeType, EndStep DEF End, ScopeStep
  <2>4. ASSUME NEW pc \in {"queued", "locking"},
               scopes' = [scopes EXCEPT ![p] = [NewScope EXCEPT !.kind = kind,
                             !.worker = w, !.session = s, !.pc = pc]]
        PROVE  Goal
    <3> DEFINE c == [NewScope EXCEPT !.kind = kind, !.worker = w, !.session = s, !.pc = pc]
    <3>1. /\ c \in Scope /\ c.pc = pc /\ c.kind = kind /\ c.worker = w /\ c.session = s
      BY ZeroBeat DEF NewScope, Scope
    <3> HIDE DEF c
    <3>2. scopes' = [scopes EXCEPT ![p] = c] /\ scopes'[p] = c
      BY <2>4 DEF c, SCTypeOK
    <3>3. At(p, "new")
      BY <2>1 DEF Enter
    <3>4. QED  BY <1>2, <2>2, <3>1, <3>2, <3>3 DEF ScopeStep, ScopeEnters
  <2>5. QED  BY <2>1, <2>3, <2>4 DEF Enter
<1>4. ASSUME NEW p \in Scopes, End(p), UnlockLocal(p) \/ local' = local
      PROVE  Goal
  <2>1. local' \in [Workers -> [LeaseKeys -> Scopes \union {Nobody}]]
    BY <1>4, LocalType DEF UnlockLocal, SCTypeOK
  <2>2. QED  BY <1>1, <1>4, <2>1, EndStep DEF Shapes, ScopeStep
<1>5. ASSUME NEW p \in Scopes, Dequeue(p)
      PROVE  Goal
  <2>1. local' \in [Workers -> [LeaseKeys -> Scopes \union {Nobody}]]
    BY <1>5, LocalType DEF Dequeue
  <2> DEFINE c == [scopes[p] EXCEPT !.pc = "locking"]
  <2>2. scopes' = [scopes EXCEPT ![p] = c] /\ scopes'[p] = c
    BY <1>5 DEF Dequeue, SCTypeOK
  <2>3. c \in Scope /\ c.pc = "locking" /\ c.kind = scopes[p].kind
            /\ c.worker = scopes[p].worker /\ c.session = scopes[p].session
    BY <1>1 DEF Scope
  <2> HIDE DEF c
  <2>4. QED  BY <1>2, <1>5, <2>1, <2>2, <2>3 DEF ScopeStep, ScopeGoesOn, Dequeue, Active, At
<1>6. ASSUME NEW p \in Scopes, NoSlot(p) \/ Leave(p)
      PROVE  Goal
  <2>1. local' \in [Workers -> [LeaseKeys -> Scopes \union {Nobody}]]
    BY <1>6 DEF NoSlot, Leave, SCTypeOK
  <2> DEFINE c == Freeing(scopes[p])
  <2>2. scopes' = [scopes EXCEPT ![p] = c] /\ scopes'[p] = c
    BY <1>6 DEF NoSlot, Leave, SCTypeOK
  <2>3. c \in Scope /\ c.pc = "freeing" /\ c.kind = scopes[p].kind
            /\ c.worker = scopes[p].worker /\ c.session = scopes[p].session
    BY <1>1, ZeroBeat DEF Scope, Freeing
  <2> HIDE DEF c
  <2>4. QED  BY <1>2, <1>6, <2>1, <2>2, <2>3
                DEF ScopeStep, ScopeGoesOn, NoSlot, Leave, Active, At
<1>7. ASSUME NEW p \in Scopes, FreeSlot(p)
      PROVE  Goal
  <2>1. local' \in [Workers -> [LeaseKeys -> Scopes \union {Nobody}]]
    BY <1>7 DEF FreeSlot, SCTypeOK
  <2> DEFINE c == [scopes[p] EXCEPT !.pc = "unlocking", !.slot = FALSE]
  <2>2. scopes' = [scopes EXCEPT ![p] = c] /\ scopes'[p] = c
    BY <1>7 DEF FreeSlot, SCTypeOK
  <2>3. c \in Scope /\ c.pc = "unlocking" /\ c.kind = scopes[p].kind
            /\ c.worker = scopes[p].worker /\ c.session = scopes[p].session
    BY <1>1 DEF Scope
  <2> HIDE DEF c
  <2>4. QED  BY <1>2, <1>7, <2>1, <2>2, <2>3 DEF ScopeStep, ScopeGoesOn, FreeSlot, Active, At
<1>8. ASSUME NEW p \in Scopes, LoseLock(p)
      PROVE  Goal
  <2>1. local' \in [Workers -> [LeaseKeys -> Scopes \union {Nobody}]]
    BY <1>8 DEF LoseLock, SCTypeOK
  <2> DEFINE c == [scopes[p] EXCEPT !.lost = TRUE, !.beat = 0]
  <2>2. scopes' = [scopes EXCEPT ![p] = c] /\ scopes'[p] = c
    BY <1>8 DEF LoseLock, SCTypeOK
  <2>3. c \in Scope /\ c.pc = scopes[p].pc /\ c.lost /\ c.kind = scopes[p].kind
            /\ c.worker = scopes[p].worker /\ c.session = scopes[p].session
    BY <1>1, ZeroBeat DEF Scope
  <2> HIDE DEF c
  <2>4. QED  BY <1>2, <1>8, <2>1, <2>2, <2>3
                DEF ScopeStep, ScopeGoesOn, LoseLock, Active, Beating
<1>9. ASSUME NEW p \in Scopes, Lock(p)
      PROVE  Goal
  <2>1. local' \in [Workers -> [LeaseKeys -> Scopes \union {Nobody}]]
    BY <1>9 DEF Lock, SCTypeOK
  <2> DEFINE c == [scopes[p] EXCEPT !.beat = 0,
                      !.pc = IF scopes[p].kind = "turn" THEN "slotting" ELSE "working"]
  <2>2. scopes' = [scopes EXCEPT ![p] = c] /\ scopes'[p] = c
    BY <1>9 DEF Lock, SCTypeOK
  <2>3. c \in Scope
    BY <1>1, ZeroBeat DEF Scope
  <2> HIDE DEF c
  <2>4. QED  BY <1>2, <1>9, <2>1, <2>2, <2>3 DEF ScopeStep
<1>10. ASSUME NEW p \in Scopes, TakeSlot(p) \/ Renew(p)
       PROVE  Goal
  <2>1. local' \in [Workers -> [LeaseKeys -> Scopes \union {Nobody}]]
    BY <1>10 DEF TakeSlot, Renew, SCTypeOK
  <2> DEFINE c == [scopes[p] EXCEPT !.pc = "working", !.slot = TRUE]
             d == [scopes[p] EXCEPT !.beat = 0]
  <2>2. c \in Scope /\ d \in Scope
    BY <1>1, ZeroBeat DEF Scope
  <2>3. scopes' = [scopes EXCEPT ![p] = c] \/ scopes' = [scopes EXCEPT ![p] = d]
    BY <1>10 DEF TakeSlot, Renew, SCTypeOK
  <2> HIDE DEF c, d
  <2>4. scopes'[p] \in Scope
    BY <2>2, <2>3 DEF SCTypeOK
  <2>5. QED  BY <1>2, <1>10, <2>1, <2>2, <2>3, <2>4 DEF ScopeStep
<1>11. ASSUME NEW w \in Workers, ProcessDies(w)
       PROVE  Goal
  <2>1. local' \in [Workers -> [LeaseKeys -> Scopes \union {Nobody}]]
    BY <1>11 DEF ProcessDies, SCTypeOK
  <2>2. scopes' = [p \in Scopes |-> scopes'[p]]
    BY <1>11 DEF ProcessDies
  <2>3. \A p \in Scopes : scopes'[p] = scopes[p]
            \/ scopes'[p] = [NewScope EXCEPT !.pc = "ended"]
    BY <1>11 DEF ProcessDies
  <2>4. QED  BY <1>1, <2>1, <2>2, <2>3, NewScopeType DEF Shapes, ScopeStep, ScopeEnds
<1>12. CASE scopes' = scopes /\ local' = local
    BY <1>1, <1>12 DEF Shapes, ScopeStep, SCTypeOK
<1>13. ASSUME NEW p \in Scopes,
              \/ LeaveQueue(p) \/ LockRefused(p) \/ LockUnknown(p) \/ Unlock(p)
              \/ CancelRelease(p)
       PROVE  Goal
    BY <1>4, <1>13 DEF LeaveQueue, LockRefused, LockUnknown, Unlock, CancelRelease
<1>14. ASSUME NEW p \in Scopes, AwaitSlot(p)
       PROVE  Goal
    BY <1>12, <1>14 DEF AwaitSlot
<1>15. QED
    BY <1>3, <1>5, <1>6, <1>7, <1>8, <1>9, <1>10, <1>11, <1>12, <1>13, <1>14
       DEF SCNext, Goes, Beats, scVars

\* A scope that has begun keeps what it is for until it ends.
LEMMA ScopeKept ==
    ASSUME SCTypeOK, NEW p \in Scopes, ScopeStep(p), ~At(p, "new")
    PROVE  /\ scopes'[p].pc # "new"
           /\ scopes'[p].pc # "ended" =>
                /\ Active(p)
                /\ scopes'[p].kind = scopes[p].kind /\ scopes'[p].worker = scopes[p].worker
                /\ scopes'[p].session = scopes[p].session
<1>1. CASE scopes'[p] = scopes[p]
    BY <1>1 DEF Active, At
<1>2. CASE ScopeEnds(p) \/ ScopeEnters(p) \/ ScopeGoesOn(p)
    BY <1>2 DEF ScopeEnds, ScopeEnters, ScopeGoesOn, At
<1>3. CASE Lock(p) \/ TakeSlot(p)
  <2>1. Active(p)
    BY <1>3 DEF Lock, TakeSlot, At, Active
  <2>2. scopes[p] \in Scope
    BY DEF SCTypeOK
  <2>3. CASE Lock(p)
    <3> DEFINE pc == IF scopes[p].kind = "turn" THEN "slotting" ELSE "working"
    <3>1. scopes'[p] = [scopes[p] EXCEPT !.beat = 0, !.pc = pc]
      BY <2>3 DEF Lock, SCTypeOK
    <3>2. pc \notin {"new", "ended"}
      OBVIOUS
    <3> HIDE DEF pc
    <3>3. QED  BY <2>1, <2>2, <3>1, <3>2 DEF Scope
  <2>4. CASE TakeSlot(p)
    <3>1. scopes'[p] = [scopes[p] EXCEPT !.pc = "working", !.slot = TRUE]
      BY <2>4 DEF TakeSlot, SCTypeOK
    <3>2. QED  BY <2>1, <2>2, <3>1 DEF Scope
  <2>5. QED  BY <1>3, <2>3, <2>4
<1>4. CASE Renew(p)
  <2>1. Active(p)
    BY <1>4 DEF Renew, Beating, Active
  <2>2. scopes[p] \in Scope
    BY DEF SCTypeOK
  <2>3. scopes'[p] = [scopes[p] EXCEPT !.beat = 0]
    BY <1>4 DEF Renew, SCTypeOK
  <2>4. QED  BY <2>1, <2>2, <2>3 DEF Scope, Active
<1>5. QED  BY <1>1, <1>2, <1>3, <1>4 DEF ScopeStep

\* What a tick does to a scope.
LEMMA ScopeTick ==
    ASSUME SCTypeOK, Tick, NEW p \in Scopes
    PROVE  /\ scopes'[p] \in Scope
           /\ scopes'[p] = [scopes[p] EXCEPT !.beat = scopes'[p].beat]
           /\ scopes'[p].pc = scopes[p].pc /\ scopes'[p].kind = scopes[p].kind
           /\ scopes'[p].worker = scopes[p].worker /\ scopes'[p].session = scopes[p].session
           /\ scopes'[p].lost = scopes[p].lost /\ scopes'[p].slot = scopes[p].slot
           /\ Beating(p) /\ OnTime(p) => scopes'[p].beat = scopes[p].beat + 1
           /\ ~(Beating(p) /\ OnTime(p)) => scopes'[p] = scopes[p]
<1>1. scopes[p] \in Scope
    BY DEF SCTypeOK
<1>2. CASE Beating(p) /\ OnTime(p)
  <2>1. scopes'[p] = [scopes[p] EXCEPT !.beat = @ + 1]
    BY <1>2 DEF Tick
  <2>2. scopes[p].beat + 1 \in 0..TTL
    BY <1>1, <1>2, CoordinationAssumption DEF Scope, OnTime
  <2>3. QED  BY <1>1, <1>2, <2>1, <2>2 DEF Scope
<1>3. CASE ~(Beating(p) /\ OnTime(p))
  <2>1. scopes'[p] = scopes[p]
    BY <1>3 DEF Tick
  <2>2. QED  BY <1>1, <1>3, <2>1 DEF Scope
<1>4. QED  BY <1>2, <1>3

\* What a tick does to a lease and to an entry.
LEMMA AgedType ==
    ASSUME NEW l \in Lease
    PROVE  /\ Aged(l) \in Lease
           /\ l.left # 1 => Aged(l).token = l.token
           /\ l.left = 1 => Aged(l) = Free
           /\ l.left = 0 => Aged(l) = l
           /\ l.left > 1 => Aged(l) = [l EXCEPT !.left = l.left - 1]
<1>1. CASE l.left = 0
    BY <1>1 DEF Aged, Lease
<1>2. CASE l.left = 1
    BY <1>2, FreeType DEF Aged, Lease
<1>3. CASE l.left > 1
  <2>1. l.left - 1 \in 0..TTL
    BY <1>3, CoordinationAssumption DEF Lease
  <2>2. Aged(l) = [l EXCEPT !.left = l.left - 1]
    BY <1>3, CoordinationAssumption DEF Aged, Lease
  <2>3. QED  BY <1>3, <2>1, <2>2 DEF Lease
<1>4. QED  BY <1>1, <1>2, <1>3, CoordinationAssumption DEF Lease

LEMMA OlderType ==
    ASSUME NEW E \in SUBSET Member
    PROVE  /\ Older(E) \subseteq Member
           /\ \A e \in E : e.left > 0 => [e EXCEPT !.left = e.left - 1] \in Older(E)
           /\ Live(E) = {} => Live(Older(E)) = {}
<1> DEFINE F(e) == [e EXCEPT !.left = IF @ = 0 THEN 0 ELSE @ - 1]
<1>1. Older(E) = {F(e) : e \in E}
    BY DEF Older
<1>2. \A e \in E : F(e) \in Member
  <2>1. TAKE e \in E
  <2>2. e \in Member /\ (IF e.left = 0 THEN 0 ELSE e.left - 1) \in 0..TTL
    BY CoordinationAssumption DEF Member
  <2>3. QED  BY <2>2 DEF Member
<1>3. \A e \in E : e.left > 0 => F(e) = [e EXCEPT !.left = e.left - 1]
    BY CoordinationAssumption DEF Member
<1>4. \A e \in E : ~(e.left > 0) => ~(F(e).left > 0)
    BY CoordinationAssumption DEF Member
<1> HIDE DEF F
<1>5. QED  BY <1>1, <1>2, <1>3, <1>4 DEF Live

-----------------------------------------------------------------------------
(* The invariant is inductive. *)

LEMMA InitSound == SCInit => IInv
<1> SUFFICES ASSUME SCInit PROVE IInv
    OBVIOUS
<1>1. SCTypeOK
  <2>1. scopes \in [Scopes -> Scope]
    BY NewScopeType DEF SCInit
  <2>2. keys \in [LeaseKeys -> Lease]
    BY FreeType DEF SCInit
  <2>3. QED  BY <2>1, <2>2 DEF SCInit, SCTypeOK
<1>2. \A p \in Scopes : scopes[p].pc = "new" /\ scopes[p].kind = Nobody
    BY NewScopeType DEF SCInit
<1>3. Known /\ Timed
    BY <1>2 DEF Known, Active, Timed, Beating
<1>4. LeasesSound /\ HistoryExcludes
    BY FreeType, KeysDiffer DEF SCInit, LeasesSound, HistoryExcludes
<1>5. SlotsSound
    BY FS_EmptySet, CoordinationAssumption DEF SCInit, SlotsSound, SlotsBounded
<1>6. QED  BY <1>1, <1>3, <1>4, <1>5 DEF IInv

LEMMA TypePreserved == SCTypeOK /\ Known /\ [SCNext]_scVars => SCTypeOK'
<1> SUFFICES ASSUME SCTypeOK, Known, [SCNext]_scVars PROVE SCTypeOK'
    OBVIOUS
<1>1. CASE Tick
  <2>1. \A p \in Scopes : scopes'[p] \in Scope
    BY <1>1, ScopeTick
  <2>2. scopes' \in [Scopes -> Scope]
    BY <1>1, <2>1 DEF Tick
  <2>3. keys' \in [LeaseKeys -> Lease]
    BY <1>1, AgedType DEF Tick, SCTypeOK
  <2>4. activity' \subseteq Member /\ slots' \subseteq Member
    BY <1>1, OlderType DEF Tick, SCTypeOK
  <2>5. QED  BY <1>1, <2>2, <2>3, <2>4 DEF Tick, SCTypeOK
<1>2. CASE ~Tick
  <2>1. Shapes /\ \A p \in Scopes : ScopeStep(p)
    BY <1>2, ScopeSteps
  <2>2. scopes' \in [Scopes -> Scope]
    BY <2>1 DEF Shapes, ScopeStep
  <2>3. LeaseStep /\ SlotStep
    BY <1>2, LeaseSteps, SlotSteps
  <2>4. keys' \in [LeaseKeys -> Lease]
    BY <2>3, GrantedType, FreeType
       DEF LeaseStep, Locks, Renews, Unlocks, DoLock, DoRenew, DoUnlock, SCTypeOK
  <2>5. activity' \subseteq Member
    BY <2>3, GrantedType
       DEF LeaseStep, Locks, Renews, Unlocks, DoLock, DoRenew, DoUnlock, SCTypeOK, Live, Without
  <2>6. slots' \subseteq Member
    BY <2>3, GrantedType
       DEF SlotStep, DoSlot, DoRenewSlot, DoFreeSlot, SCTypeOK, Live, Without
  <2>7. QED  BY <2>1, <2>2, <2>4, <2>5, <2>6 DEF SCTypeOK, Shapes
<1>3. QED  BY <1>1, <1>2

LEMMA KnownPreserved == SCTypeOK /\ Known /\ [SCNext]_scVars => Known'
<1> SUFFICES ASSUME SCTypeOK, Known, [SCNext]_scVars, NEW p \in Scopes
             PROVE  /\ scopes'[p].pc \notin {"new", "ended"} =>
                        /\ scopes'[p].kind \in Kinds /\ scopes'[p].worker \in Workers
                        /\ scopes'[p].session \in Sessions
                    /\ scopes'[p].pc \in {"new", "ended"} => scopes'[p].kind = Nobody
    BY DEF Known, Active
<1>1. CASE Tick
    BY <1>1, ScopeTick DEF Known, Active
<1>2. CASE ~Tick
  <2>1. ScopeStep(p)
    BY <1>2, ScopeSteps
  <2>2. CASE ~At(p, "new") /\ scopes'[p].pc # "ended"
    BY <2>1, <2>2, ScopeKept DEF Known, Active, At
  <2>3. CASE ScopeEnds(p) \/ ScopeEnters(p) \/ scopes'[p] = scopes[p]
    BY <2>3 DEF ScopeEnds, ScopeEnters, Known, Active
  <2>4. CASE ~At(p, "new") /\ scopes'[p].pc = "ended" /\ ~ScopeEnds(p) /\ scopes'[p] # scopes[p]
    <3>1. Lock(p) \/ TakeSlot(p) \/ Renew(p)
      BY <2>1, <2>4 DEF ScopeStep, ScopeEnters, ScopeGoesOn
    <3>2. scopes'[p].pc # "ended"
      BY <3>1 DEF Lock, TakeSlot, Renew, Beating, SCTypeOK, Scope
    <3>3. QED  BY <2>4, <3>2
  <2>5. CASE At(p, "new")
    BY <2>1, <2>3, <2>5 DEF ScopeStep, ScopeGoesOn, Lock, TakeSlot, Renew, Beating, At, Active
  <2>6. QED  BY <2>2, <2>3, <2>4, <2>5
<1>3. QED  BY <1>1, <1>2

\* A lease that is granted was free, and only its own scope renews or frees it.
LEMMA LeaseChanges ==
    ASSUME SCTypeOK, Known, LeaseStep, NEW k \in LeaseKeys
    PROVE  \/ keys'[k] = keys[k]
           \/ \E q \in Scopes :
                /\ k = KeyFor(q) /\ keys'[k] = Granted(q)
                /\ (Locks(q) /\ TryLock(q) /\ keys[k] = Free)
                    \/ (Renews(q) /\ keys[k].token = q)
           \/ \E q \in Scopes :
                k = KeyFor(q) /\ Unlocks(q) /\ keys[k].token = q /\ keys'[k] = Free
<1>1. CASE keys' = keys
    BY <1>1
<1>2. ASSUME NEW q \in Scopes, Locks(q), keys' # keys
      PROVE  TryLock(q) /\ keys' = [keys EXCEPT ![KeyFor(q)] = Granted(q)] /\ keys[KeyFor(q)] = Free
    BY <1>2 DEF Locks, DoLock, TryLock
<1>3. ASSUME NEW q \in Scopes, Renews(q), keys' # keys
      PROVE  keys' = [keys EXCEPT ![KeyFor(q)] = Granted(q)] /\ keys[KeyFor(q)].token = q
    BY <1>3 DEF Renews, DoRenew, Owned
<1>4. ASSUME NEW q \in Scopes, Unlocks(q), keys' # keys
      PROVE  keys' = [keys EXCEPT ![KeyFor(q)] = Free] /\ keys[KeyFor(q)].token = q
    BY <1>4 DEF Unlocks, DoUnlock, Owned
<1>5. QED  BY <1>1, <1>2, <1>3, <1>4 DEF LeaseStep, SCTypeOK

\* A scope that locks, renews or unlocks is under way.
LEMMA ActiveLeases ==
    ASSUME NEW q \in Scopes, Locks(q) \/ Renews(q) \/ Unlocks(q)
    PROVE  Active(q)
BY DEF Locks, Renews, Unlocks, At, Beating, Active

LEMMA LeasesPreserved ==
    SCTypeOK /\ Known /\ LeasesSound /\ HistoryExcludes /\ [SCNext]_scVars
        => LeasesSound' /\ HistoryExcludes'
<1> SUFFICES ASSUME SCTypeOK, Known, LeasesSound, HistoryExcludes, [SCNext]_scVars
             PROVE  LeasesSound' /\ HistoryExcludes'
    OBVIOUS
<1> USE KeysDiffer
<1>1. CASE Tick
  <2>1. ASSUME NEW k \in LeaseKeys
        PROVE  keys'[k] = Free \/ (/\ keys[k] # Free /\ keys[k].left > 1
                                   /\ keys'[k] = [keys[k] EXCEPT !.left = keys[k].left - 1]
                                   /\ keys'[k].token = keys[k].token
                                   /\ keys'[k].token \in Scopes /\ keys'[k].left > 0)
    <3>1. keys[k] \in Lease /\ keys'[k] = Aged(keys[k])
      BY <1>1 DEF Tick, SCTypeOK
    <3>2. CASE keys[k] = Free
      BY <3>1, <3>2, AgedType, FreeType
    <3>3. CASE keys[k].left = 1
      BY <3>1, <3>3, AgedType
    <3>4. CASE keys[k] # Free /\ keys[k].left # 1
      <4>1. keys[k].token \in Scopes /\ keys[k].left > 1
        BY <3>1, <3>4 DEF LeasesSound, Lease
      <4>2. keys'[k] = [keys[k] EXCEPT !.left = keys[k].left - 1]
        BY <3>1, <4>1, AgedType
      <4>3. QED  BY <3>1, <3>4, <4>1, <4>2 DEF Lease
    <3>5. QED  BY <3>2, <3>3, <3>4
  <2>2. ASSUME NEW k \in LeaseKeys, NEW p \in Scopes, keys'[k].token = p
        PROVE  /\ scopes'[p].pc # "new"
               /\ scopes'[p].pc # "ended" => KeyOf(scopes'[p].kind, scopes'[p].session) = k
    <3>1. keys[k].token = p
      BY <2>1, <2>2, FreeType
    <3>2. scopes'[p].pc = scopes[p].pc /\ scopes'[p].kind = scopes[p].kind
            /\ scopes'[p].session = scopes[p].session
      BY <1>1, ScopeTick
    <3>3. QED  BY <3>1, <3>2 DEF LeasesSound, At, Active, KeyFor
  <2>3. ASSUME NEW s \in Sessions, keys'[s] # Free
        PROVE  keys'[s] \in activity'
    BY <1>1, <2>1, <2>3, OlderType DEF Tick, LeasesSound, SCTypeOK
  <2>4. HistoryExcludes'
    BY <1>1, <2>1, OlderType DEF Tick, HistoryExcludes, SCTypeOK
  <2>5. QED  BY <2>1, <2>2, <2>3, <2>4 DEF LeasesSound, At, Active, KeyFor
<1>2. CASE ~Tick
  <2>1. LeaseStep /\ \A p \in Scopes : ScopeStep(p)
    BY <1>2, LeaseSteps, ScopeSteps
  <2>2. ASSUME NEW k \in LeaseKeys
        PROVE  keys'[k] = Free \/ (keys'[k].token \in Scopes /\ keys'[k].left > 0)
    BY <2>1, LeaseChanges, GrantedType DEF LeasesSound
  <2>3. ASSUME NEW k \in LeaseKeys, NEW p \in Scopes, keys'[k].token = p
        PROVE  /\ scopes'[p].pc # "new"
               /\ scopes'[p].pc # "ended" => KeyOf(scopes'[p].kind, scopes'[p].session) = k
    <3>1. ~At(p, "new") /\ (Active(p) => KeyFor(p) = k)
      <4>1. CASE keys[k].token = p
        BY <4>1 DEF LeasesSound
      <4>2. CASE keys[k].token # p
        <5>1. k = KeyFor(p) /\ (Locks(p) \/ Renews(p))
          BY <2>1, <2>3, <4>2, LeaseChanges, GrantedType, FreeType
        <5>2. QED  BY <5>1 DEF Locks, Renews, At, Beating
      <4>3. QED  BY <4>1, <4>2
    <3>2. QED  BY <2>1, <3>1, ScopeKept DEF KeyFor
  <2>4. ASSUME NEW s \in Sessions, keys'[s] # Free
        PROVE  keys'[s] \in activity'
    <3>1. CASE keys'[s] = keys[s]
      <4>1. keys[s] \in activity /\ keys[s].left > 0 /\ keys[s].token \in Scopes
        BY <2>4, <3>1 DEF LeasesSound
      <4>2. ASSUME NEW q \in Scopes, Locks(q)
            PROVE  keys[s] \in activity'
        BY <4>1, <4>2 DEF Locks, DoLock, Live
      <4>3. ASSUME NEW q \in Scopes, Renews(q) \/ Unlocks(q)
            PROVE  keys[s] \in activity'
        <5>1. CASE keys[s].token # q
          BY <4>1, <4>3, <5>1 DEF Renews, Unlocks, DoRenew, DoUnlock, Without
        <5>2. CASE keys[s].token = q
          <6>1. KeyFor(q) = s /\ Owned(q) /\ Shared(q)
            BY <4>3, <5>2, ActiveLeases, KeyTypes DEF LeasesSound, Owned
          <6>2. CASE Unlocks(q)
            BY <2>4, <3>1, <6>1, <6>2 DEF Unlocks, DoUnlock, SCTypeOK
          <6>3. CASE Renews(q)
            BY <3>1, <6>1, <6>3 DEF Renews, DoRenew, SCTypeOK
          <6>4. QED  BY <4>3, <6>2, <6>3
        <5>3. QED  BY <5>1, <5>2
      <4>4. QED  BY <2>1, <3>1, <4>1, <4>2, <4>3 DEF LeaseStep
    <3>2. CASE keys'[s] # keys[s]
      <4>1. PICK q \in Scopes : /\ s = KeyFor(q) /\ keys'[s] = Granted(q)
                                /\ \/ Locks(q) /\ TryLock(q)
                                   \/ Renews(q) /\ keys[s].token = q
        BY <2>1, <2>4, <3>2, LeaseChanges
      <4>2. Shared(q)
        BY <4>1, ActiveLeases, KeyTypes
      <4>3. Granted(q) \in activity'
        BY <4>1, <4>2 DEF Locks, Renews, DoLock, DoRenew, Owned, Shared
      <4>4. QED  BY <4>1, <4>3
    <3>3. QED  BY <3>1, <3>2
  <2>5. HistoryExcludes'
    <3> SUFFICES ASSUME keys'[History] # Free
                 PROVE  Live(activity') = {} /\ \A s \in Sessions : keys'[s] = Free
        BY DEF HistoryExcludes, Live
    <3>1. CASE keys[History] # Free
      <4>1. Live(activity) = {} /\ \A s \in Sessions : keys[s] = Free
        BY <3>1 DEF HistoryExcludes
      <4>2. ASSUME NEW q \in Scopes, Shared(q), Locks(q) \/ Renews(q) \/ Unlocks(q)
            PROVE  ~TryLock(q) /\ ~Owned(q)
        BY <3>1, <4>1, <4>2, ActiveLeases, KeyTypes, FreeType DEF TryLock, Owned
      <4>3. \A s \in Sessions : keys'[s] = Free
        BY <2>1, <4>1, <4>2, LeaseChanges, ActiveLeases, KeyTypes, FreeType
      <4>4. activity' \subseteq activity
        BY <2>1, <4>2
           DEF LeaseStep, Locks, Renews, Unlocks, DoLock, DoRenew, DoUnlock, Live, Without
      <4>5. QED  BY <4>1, <4>3, <4>4 DEF Live
    <3>2. CASE keys[History] = Free
      <4>1. PICK q \in Scopes : KeyFor(q) = History /\ Locks(q) /\ TryLock(q)
        BY <2>1, <3>2, LeaseChanges, FreeType
      <4>2. scopes[q].kind = "clear"
        BY <4>1, ActiveLeases, KeyTypes
      <4>3. Live(activity) = {}
        BY <4>1, <4>2 DEF TryLock
      <4>4. activity' = {}
        BY <4>1, <4>2, <4>3 DEF Locks, DoLock, Shared
      <4>5. \A s \in Sessions : keys[s] = Free
        BY <4>3 DEF LeasesSound, Live
      <4>6. keys' = [keys EXCEPT ![History] = Granted(q)]
        BY <4>1 DEF Locks, DoLock
      <4>7. QED  BY <4>4, <4>5, <4>6 DEF Live, SCTypeOK
    <3>3. QED  BY <3>1, <3>2
  <2>6. QED  BY <2>2, <2>3, <2>4, <2>5 DEF LeasesSound, At, Active, KeyFor
<1>3. QED  BY <1>1, <1>2

\* A set with one more element.
LEMMA OneMore ==
    ASSUME NEW S, IsFiniteSet(S), NEW x
    PROVE  /\ IsFiniteSet(S \union {x})
           /\ Cardinality(S \union {x}) \in Nat /\ Cardinality(S) \in Nat
           /\ Cardinality(S \union {x}) <= Cardinality(S) + 1
<1>1. /\ IsFiniteSet(S \union {x}) /\ Cardinality(S) \in Nat
      /\ Cardinality(S \union {x}) \in {Cardinality(S), Cardinality(S) + 1}
    BY FS_AddElement, FS_CardinalityType
<1>2. QED  BY <1>1

\* The image of a set is not larger than the set.
LEMMA ImageSize ==
    ASSUME NEW S, IsFiniteSet(S), NEW f, f = [x \in S |-> f[x]]
    PROVE  /\ IsFiniteSet({f[x] : x \in S})
           /\ Cardinality({f[x] : x \in S}) <= Cardinality(S)
           /\ Cardinality({f[x] : x \in S}) \in Nat
<1> DEFINE T == {f[x] : x \in S}
<1>1. f \in Surjection(S, T)
    BY DEF Surjection
<1> HIDE DEF T
<1>2. IsFiniteSet(T) /\ Cardinality(T) <= Cardinality(S)
    BY <1>1, FS_Surjection
<1>3. QED  BY <1>2, FS_CardinalityType DEF T

\* Entries that have not expired are a finite set within the slots.
LEMMA LiveSlots ==
    ASSUME SlotsSound
    PROVE  /\ IsFiniteSet(Live(slots)) /\ Cardinality(Live(slots)) <= Cardinality(slots)
           /\ Cardinality(slots) \in Nat /\ Cardinality(Live(slots)) \in Nat
BY FS_Subset, FS_CardinalityType DEF SlotsSound, Live

LEMMA SlotsPreserved == SCTypeOK /\ Known /\ SlotsSound /\ [SCNext]_scVars => SlotsSound'
<1> SUFFICES ASSUME SCTypeOK, Known, SlotsSound, [SCNext]_scVars
             PROVE  IsFiniteSet(slots') /\ Cardinality(slots') <= Slots
    BY DEF SlotsSound, SlotsBounded
<1>1. IsFiniteSet(slots) /\ Cardinality(slots) <= Slots /\ Cardinality(slots) \in Nat
    BY LiveSlots DEF SlotsSound, SlotsBounded
<1>2. Slots \in Nat
    BY CoordinationAssumption
<1>3. ASSUME NEW S \in SUBSET slots
      PROVE  IsFiniteSet(S) /\ Cardinality(S) <= Slots /\ Cardinality(S) \in Nat
    BY <1>1, <1>2, <1>3, FS_Subset, FS_CardinalityType
<1>4. CASE Tick
  <2> DEFINE f == [e \in slots |-> [e EXCEPT !.left = IF @ = 0 THEN 0 ELSE @ - 1]]
  <2>1. slots' = {f[e] : e \in slots} /\ f = [e \in slots |-> f[e]]
    BY <1>4 DEF Tick, Older
  <2> HIDE DEF f
  <2>2. IsFiniteSet(slots') /\ Cardinality(slots') <= Cardinality(slots)
            /\ Cardinality(slots') \in Nat
    BY <1>1, <2>1, ImageSize
  <2>3. QED  BY <1>1, <1>2, <2>2
<1>5. CASE ~Tick
  <2>1. SlotStep
    BY <1>5, SlotSteps
  <2>2. CASE slots' \subseteq slots
    BY <1>3, <2>2
  <2>3. ASSUME NEW q \in Scopes, DoSlot(q), TrySlot
        PROVE  IsFiniteSet(slots') /\ Cardinality(slots') <= Slots
    <3>1. slots' = Live(slots) \union {Granted(q)} /\ Cardinality(Live(slots)) < Slots
      BY <2>3 DEF DoSlot, TrySlot
    <3>2. IsFiniteSet(slots') /\ Cardinality(slots') <= Cardinality(Live(slots)) + 1
            /\ Cardinality(slots') \in Nat /\ Cardinality(Live(slots)) \in Nat
      BY <3>1, LiveSlots, OneMore
    <3>3. QED  BY <1>2, <3>1, <3>2
  <2>4. ASSUME NEW q \in Scopes, DoRenewSlot(q), ~(slots' \subseteq slots)
        PROVE  IsFiniteSet(slots') /\ Cardinality(slots') <= Slots
    <3>1. slots' = Without(slots, q) \union {Granted(q)} /\ HasSlot(q) /\ scopes[q].slot
      BY <2>4 DEF DoRenewSlot
    <3>2. PICK e \in slots : e.token = q
      BY <3>1 DEF HasSlot
    <3>3. Without(slots, q) \subseteq slots \ {e}
      BY <3>2 DEF Without
    <3>4. IsFiniteSet(slots \ {e}) /\ Cardinality(slots \ {e}) = Cardinality(slots) - 1
      BY <1>1, <3>2, FS_RemoveElement
    <3>5. IsFiniteSet(Without(slots, q)) /\ Cardinality(Without(slots, q)) <= Cardinality(slots) - 1
            /\ Cardinality(Without(slots, q)) \in Nat
      BY <3>3, <3>4, FS_Subset, FS_CardinalityType
    <3>6. IsFiniteSet(slots') /\ Cardinality(slots') <= Cardinality(Without(slots, q)) + 1
            /\ Cardinality(slots') \in Nat
      BY <3>1, <3>5, OneMore
    <3>7. QED  BY <1>1, <1>2, <3>5, <3>6
  <2>5. ASSUME NEW q \in Scopes, (DoSlot(q) /\ ~TrySlot) \/ DoFreeSlot(q)
        PROVE  slots' \subseteq slots
    BY <2>5 DEF DoSlot, DoFreeSlot, Live, Without
  <2>6. QED  BY <2>1, <2>2, <2>3, <2>4, <2>5 DEF SlotStep
<1>6. QED  BY <1>4, <1>5

\* The leases of a scope that beats outlast a step that is no tick.
LEMMA TimeKept ==
    ASSUME SCTypeOK, Known, NEW p \in Scopes, Beating(p), OnTime(p), HasTime(p), LeaseStep,
           SlotStep
    PROVE  /\ keys'[KeyFor(p)].token = p /\ keys'[KeyFor(p)].left >= keys[KeyFor(p)].left
           /\ \A e \in slots : e.token = p /\ e.left + scopes[p].beat >= TTL =>
                \E f \in slots' : f.token = p /\ f.left + scopes[p].beat >= TTL
<1>1. /\ p \in Scopes /\ keys[KeyFor(p)].token = p /\ scopes[p] \in Scope
      /\ scopes[p].beat <= Interval + Late /\ Active(p) /\ KeyFor(p) \in LeaseKeys
    BY KeyTypes DEF HasTime, OnTime, SCTypeOK, Beating, Active
<1>2. keys'[KeyFor(p)].token = p /\ keys'[KeyFor(p)].left >= keys[KeyFor(p)].left
  <2>1. keys[KeyFor(p)] \in Lease
    BY <1>1 DEF SCTypeOK
  <2>2. ~Unlocks(p)
    BY <1>1 DEF Unlocks, Beating, At
  <2>3. CASE keys'[KeyFor(p)] = keys[KeyFor(p)]
    BY <1>1, <2>1, <2>3 DEF Lease
  <2>4. CASE keys'[KeyFor(p)] # keys[KeyFor(p)]
    <3>1. keys'[KeyFor(p)] = Granted(p)
      BY <1>1, <2>2, <2>4, LeaseChanges, FreeType
    <3>2. QED  BY <1>1, <2>1, <3>1, GrantedType, CoordinationAssumption DEF Lease
  <2>5. QED  BY <2>3, <2>4
<1>3. ASSUME NEW e \in slots, e.token = p, e.left + scopes[p].beat >= TTL
      PROVE  \E f \in slots' : f.token = p /\ f.left + scopes[p].beat >= TTL
  <2>1. e.left > 0
    BY <1>1, <1>3, CoordinationAssumption DEF SCTypeOK, Member, Scope
  <2>2. ASSUME NEW q \in Scopes, DoSlot(q)
        PROVE  e \in slots'
    BY <2>1, <2>2 DEF DoSlot, Live
  <2>3. ASSUME NEW q \in Scopes, DoRenewSlot(q)
        PROVE  e \in slots' \/ Granted(p) \in slots'
    BY <1>1, <1>3, <2>3 DEF DoRenewSlot, Without
  <2>4. ASSUME NEW q \in Scopes, At(q, "freeing"), DoFreeSlot(q)
        PROVE  e \in slots'
    BY <1>1, <1>3, <2>4 DEF DoFreeSlot, Without, At, Beating
  <2>5. e \in slots' \/ Granted(p) \in slots'
    BY <2>2, <2>3, <2>4 DEF SlotStep
  <2>6. Granted(p).token = p /\ Granted(p).left + scopes[p].beat >= TTL
    BY <1>1, GrantedType, CoordinationAssumption DEF Scope
  <2>7. QED  BY <1>3, <2>5, <2>6
<1>4. QED  BY <1>2, <1>3

LEMMA TimedPreserved == SCTypeOK /\ Known /\ LeasesSound /\ Timed /\ [SCNext]_scVars => Timed'
<1> SUFFICES ASSUME SCTypeOK, Known, LeasesSound, Timed, [SCNext]_scVars, NEW p \in Scopes,
                    scopes'[p].pc \in {"slotting", "working"}, ~scopes'[p].lost
             PROVE  /\ scopes'[p].pc = "working" /\ scopes'[p].kind = "turn" => scopes'[p].slot
                    /\ scopes'[p].beat <= Interval + Late =>
                        /\ keys'[KeyOf(scopes'[p].kind, scopes'[p].session)].token = p
                        /\ keys'[KeyOf(scopes'[p].kind, scopes'[p].session)].left
                                + scopes'[p].beat >= TTL
                        /\ scopes'[p].pc = "working" /\ scopes'[p].kind = "turn" =>
                            \E e \in slots' : e.token = p /\ e.left + scopes'[p].beat >= TTL
    BY DEF Timed, Beating, HasTime, OnTime, KeyFor, At
<1>1. scopes[p] \in Scope /\ Interval \in Nat /\ Late \in Nat /\ TTL \in Nat
        /\ Interval + Late < TTL
    BY CoordinationAssumption DEF SCTypeOK
<1>2. CASE Tick
  <2>1. /\ Beating(p) /\ scopes'[p].pc = scopes[p].pc /\ scopes'[p].kind = scopes[p].kind
        /\ scopes'[p].session = scopes[p].session /\ scopes'[p].slot = scopes[p].slot
    BY <1>2, ScopeTick DEF Beating
  <2>2. scopes'[p].pc = "working" /\ scopes'[p].kind = "turn" => scopes'[p].slot
    BY <2>1 DEF Timed, At
  <2> SUFFICES ASSUME scopes'[p].beat <= Interval + Late
               PROVE  /\ keys'[KeyFor(p)].token = p
                      /\ keys'[KeyFor(p)].left + scopes'[p].beat >= TTL
                      /\ scopes[p].pc = "working" /\ scopes[p].kind = "turn" =>
                            \E e \in slots' : e.token = p /\ e.left + scopes'[p].beat >= TTL
      BY <2>1, <2>2 DEF KeyFor
  <2>3. /\ scopes[p].beat < Interval + Late /\ scopes'[p].beat = scopes[p].beat + 1
        /\ HasTime(p) /\ KeyFor(p) \in LeaseKeys
    <3>1. OnTime(p)
      BY <1>2, ScopeTick DEF OnTime
    <3>2. scopes'[p].beat = scopes[p].beat + 1
      BY <1>2, <2>1, <3>1, ScopeTick
    <3>3. scopes[p].beat < Interval + Late
      BY <1>1, <3>2 DEF Scope
    <3>4. HasTime(p) /\ KeyFor(p) \in LeaseKeys
      BY <2>1, <3>1, KeyTypes DEF Timed, Beating, Active
    <3>5. QED  BY <3>2, <3>3, <3>4
  <2>4. ASSUME NEW l \in 0..TTL, l + scopes[p].beat >= TTL
        PROVE  l > 1 /\ (l - 1) + scopes'[p].beat >= TTL
    BY <1>1, <2>3, <2>4 DEF Scope
  <2>5. /\ keys'[KeyFor(p)].token = p
        /\ keys'[KeyFor(p)].left + scopes'[p].beat >= TTL
    <3>1. keys[KeyFor(p)] \in Lease /\ keys'[KeyFor(p)] = Aged(keys[KeyFor(p)])
      BY <1>2, <2>3 DEF Tick, SCTypeOK
    <3>2. keys[KeyFor(p)].left > 1
      BY <2>3, <2>4, <3>1 DEF HasTime, Lease
    <3>3. keys'[KeyFor(p)] = [keys[KeyFor(p)] EXCEPT !.left = keys[KeyFor(p)].left - 1]
      BY <3>1, <3>2, AgedType
    <3>4. QED  BY <2>3, <2>4, <3>1, <3>3 DEF HasTime, Lease
  <2>6. scopes[p].pc = "working" /\ scopes[p].kind = "turn" =>
            \E e \in slots' : e.token = p /\ e.left + scopes'[p].beat >= TTL
    <3> SUFFICES ASSUME scopes[p].pc = "working", scopes[p].kind = "turn"
                 PROVE  \E e \in slots' : e.token = p /\ e.left + scopes'[p].beat >= TTL
        OBVIOUS
    <3>1. PICK e \in slots : e.token = p /\ e.left + scopes[p].beat >= TTL
      BY <2>3 DEF HasTime, At
    <3>2. e \in Member /\ e.left > 0 /\ (e.left - 1) + scopes'[p].beat >= TTL
      BY <2>4, <3>1 DEF SCTypeOK, Member
    <3>3. [e EXCEPT !.left = e.left - 1] \in slots'
      BY <1>2, <3>2, OlderType DEF Tick, SCTypeOK
    <3>4. QED  BY <3>1, <3>2, <3>3 DEF Member
  <2>7. QED  BY <2>5, <2>6
<1>3. CASE ~Tick
  <2>1. LeaseStep /\ SlotStep /\ ScopeStep(p)
    BY <1>3, LeaseSteps, SlotSteps, ScopeSteps
  <2>2. \/ scopes'[p] = scopes[p] \/ Lock(p) \/ TakeSlot(p) \/ Renew(p)
    BY <2>1 DEF ScopeStep, ScopeEnds, ScopeEnters, ScopeGoesOn
  <2>3. CASE Lock(p)
    <3>1. /\ scopes'[p] = [scopes[p] EXCEPT !.beat = 0,
                !.pc = IF scopes[p].kind = "turn" THEN "slotting" ELSE "working"]
          /\ keys' = [keys EXCEPT ![KeyFor(p)] = Granted(p)]
      BY <2>3 DEF Lock, DoLock, SCTypeOK
    <3>2. KeyFor(p) \in LeaseKeys
      BY <2>3, KeyTypes DEF Lock, At, Active
    <3>3. scopes'[p].beat = 0 /\ scopes'[p].kind = scopes[p].kind
            /\ scopes'[p].session = scopes[p].session
            /\ ~(scopes'[p].pc = "working" /\ scopes'[p].kind = "turn")
      BY <1>1, <3>1 DEF Scope
    <3>4. keys'[KeyFor(p)] = Granted(p)
      BY <3>1, <3>2 DEF SCTypeOK
    <3>5. QED  BY <1>1, <3>3, <3>4, GrantedType DEF KeyFor
  <2>4. CASE scopes'[p] = scopes[p]
    <3>1. /\ Beating(p) /\ KeyFor(p) \in LeaseKeys /\ (OnTime(p) => HasTime(p))
          /\ At(p, "working") /\ scopes[p].kind = "turn" => scopes[p].slot
      BY <2>4, KeyTypes DEF Timed, Beating, Active
    <3> SUFFICES ASSUME OnTime(p)
                 PROVE  /\ keys'[KeyFor(p)].token = p /\ keys'[KeyFor(p)].left + scopes[p].beat >= TTL
                        /\ At(p, "working") /\ scopes[p].kind = "turn" =>
                            \E e \in slots' : e.token = p /\ e.left + scopes[p].beat >= TTL
        BY <2>4, <3>1 DEF KeyFor, OnTime, At
    <3>2. keys'[KeyFor(p)].token = p /\ keys'[KeyFor(p)].left >= keys[KeyFor(p)].left
            /\ keys[KeyFor(p)].left \in Nat /\ keys'[KeyFor(p)].left \in Nat
      BY <2>1, <3>1, TimeKept, TypePreserved DEF SCTypeOK, Lease
    <3>3. At(p, "working") /\ scopes[p].kind = "turn" =>
            \E f \in slots' : f.token = p /\ f.left + scopes[p].beat >= TTL
      BY <2>1, <3>1, TimeKept DEF HasTime
    <3>4. QED  BY <1>1, <3>1, <3>2, <3>3 DEF HasTime, Scope
  <2>5. CASE TakeSlot(p)
    <3>1. scopes'[p] = [scopes[p] EXCEPT !.pc = "working", !.slot = TRUE]
            /\ At(p, "slotting") /\ Granted(p) \in slots' /\ keys' = keys
      BY <2>5 DEF TakeSlot, DoSlot, SCTypeOK
    <3>2. OnTime(p) => HasTime(p)
      BY <1>1, <3>1 DEF Timed, Beating, Scope, At
    <3>3. Granted(p).token = p /\ Granted(p).left + scopes[p].beat >= TTL
      BY <1>1, GrantedType DEF Scope
    <3>4. QED  BY <1>1, <3>1, <3>2, <3>3 DEF HasTime, KeyFor, Scope, OnTime
  <2>6. CASE Renew(p)
    <3>1. scopes'[p] = [scopes[p] EXCEPT !.beat = 0] /\ Beating(p)
            /\ keys' = [keys EXCEPT ![KeyFor(p)] = Granted(p)]
      BY <2>6 DEF Renew, DoRenew, SCTypeOK
    <3>2. /\ At(p, "working") /\ scopes[p].kind = "turn" => scopes[p].slot
          /\ KeyFor(p) \in LeaseKeys
      BY <3>1, KeyTypes DEF Timed, Beating, Active
    <3>3. keys'[KeyFor(p)] = Granted(p)
      BY <3>1, <3>2 DEF SCTypeOK
    <3>4. At(p, "working") /\ scopes[p].kind = "turn" =>
            scopes[p].slot /\ Granted(p) \in slots'
      BY <2>6, <3>2 DEF Renew, DoRenewSlot
    <3>5. QED  BY <1>1, <3>1, <3>3, <3>4, GrantedType DEF KeyFor, Scope, At
  <2>7. QED  BY <2>2, <2>3, <2>4, <2>5, <2>6
<1>4. QED  BY <1>2, <1>3

\* IInv is an inductive invariant.
LEMMA StepSound == IInv /\ [SCNext]_scVars => IInv'
BY TypePreserved, KnownPreserved, LeasesPreserved, SlotsPreserved, TimedPreserved DEF IInv

THEOREM Inductive == SCSpec => []IInv
BY InitSound, StepSound, PTL DEF SCSpec

-----------------------------------------------------------------------------
(* What it gives. *)

\* The variables of _coordination_scope, the local locks and the Redis keys keep
\* their types.
THEOREM TypeCorrect == SCSpec => []SCTypeOK
<1>1. IInv => SCTypeOK
    BY DEF IInv
<1>2. QED  BY <1>1, Inductive, PTL

\* The activity scripts never let the history lease and a session lease be held
\* at once, however late the heartbeats are.
THEOREM HistoryIsExclusive == SCSpec => []HistoryExcludes
<1>1. IInv => HistoryExcludes
    BY DEF IInv
<1>2. QED  BY <1>1, Inductive, PTL

\* The semaphore scripts never hand out more slots than the limit, also when a
\* renewal brings an expired token back.
THEOREM SlotsAreBounded == SCSpec => []SlotsBounded
<1>1. IInv => SlotsBounded
    BY DEF IInv, SlotsSound
<1>2. QED  BY <1>1, Inductive, PTL

\* Two scopes whose heartbeats are on time never work on what excludes them.
THEOREM WorkIsExclusive == SCSpec => []WorkExcludes
<1>1. IInv => WorkExcludes
  <2> SUFFICES ASSUME IInv, NEW p \in Scopes, NEW q \in Scopes, p # q,
                      Works(p), Works(q)
               PROVE  ~Conflict(p, q)
      BY DEF WorkExcludes
  <2>1. ASSUME NEW r \in Scopes, Works(r)
        PROVE  /\ Active(r) /\ KeyFor(r) \in LeaseKeys /\ keys[KeyFor(r)].token = r
               /\ keys[KeyFor(r)] # Free
    <3>1. Beating(r) /\ Active(r) /\ OnTime(r)
      BY <2>1 DEF Works, At, Beating, Active
    <3>2. QED  BY <3>1, KeyTypes, FreeType DEF IInv, Timed, HasTime
  <2>2. KeyFor(p) # KeyFor(q)
    BY <2>1
  <2>3. ASSUME NEW r \in Scopes, NEW t \in Scopes, Works(r), Works(t), Shared(r)
        PROVE  scopes[t].kind # "clear"
    BY <2>1, <2>3, KeyTypes DEF IInv, HistoryExcludes
  <2>4. QED  BY <2>2, <2>3 DEF Conflict
<1>2. QED  BY <1>1, Inductive, PTL

\* No more turns work with their heartbeats on time than the deployment has slots.
THEOREM TurnsAreBounded == SCSpec => []TurnsBounded
<1>1. IInv => TurnsBounded
  <2> DEFINE turns == {p \in Scopes : Works(p) /\ scopes[p].kind = "turn"}
             f == [e \in slots |-> e.token]
  <2> SUFFICES ASSUME IInv
               PROVE  Cardinality(turns) <= Slots
      BY DEF TurnsBounded
  <2>1. turns \subseteq {f[e] : e \in slots}
    BY DEF IInv, Timed, HasTime, Works, Beating, At
  <2>2. f = [e \in slots |-> f[e]]
    OBVIOUS
  <2> HIDE DEF turns, f
  <2>3. /\ IsFiniteSet({f[e] : e \in slots})
        /\ Cardinality({f[e] : e \in slots}) <= Cardinality(slots)
        /\ Cardinality({f[e] : e \in slots}) \in Nat
    BY <2>2, ImageSize DEF IInv, SlotsSound
  <2>4. Cardinality(turns) <= Cardinality({f[e] : e \in slots}) /\ Cardinality(turns) \in Nat
    BY <2>1, <2>3, FS_Subset, FS_CardinalityType
  <2>5. Cardinality(slots) <= Slots /\ Cardinality(slots) \in Nat
    BY LiveSlots DEF IInv, SlotsSound, SlotsBounded
  <2>6. QED  BY <2>3, <2>4, <2>5, CoordinationAssumption
<1>2. QED  BY <1>1, Inductive, PTL

\* A lease passes on only by its expiry or by the release of its own scope.
THEOREM ReleasesAreOwn == SCSpec => OwnReleaseOnly
<1> DEFINE Own == \A k \in LeaseKeys : \A p \in Scopes :
        keys[k].token = p /\ keys'[k].token # p =>
            keys[k].left = 1 \/ (At(p, "unlocking") /\ scopes'[p].pc = "ended")
<1>1. IInv /\ [SCNext]_scVars => [Own]_scVars
  <2> SUFFICES ASSUME IInv, [SCNext]_scVars, NEW k \in LeaseKeys, NEW p \in Scopes,
                      keys[k].token = p, keys'[k].token # p, keys[k].left # 1
               PROVE  At(p, "unlocking") /\ scopes'[p].pc = "ended"
      OBVIOUS
  <2>1. SCTypeOK /\ Known
    BY DEF IInv
  <2>2. ~Tick
    BY <2>1, AgedType DEF Tick, SCTypeOK
  <2>3. Unlocks(p)
    BY <2>1, <2>2, LeaseSteps, LeaseChanges, GrantedType, FreeType
  <2>4. QED  BY <2>3 DEF Unlocks
<1>2. QED  BY <1>1, Inductive, PTL DEF SCSpec, OwnReleaseOnly

\* Scopes exclude each other in the processes and in Redis.
THEOREM ScopesStayExclusive == SCSpec => []ScopesExclude
  BY WorkIsExclusive, HistoryIsExclusive, PTL DEF ScopesExclude
=============================================================================
