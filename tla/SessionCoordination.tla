------------------------- MODULE SessionCoordination -------------------------
(***************************************************************************)
(* The leases one user's requests hold while they work: _coordination_scope *)
(* of webui_new/manager.py over the Lua scripts of                         *)
(* utils/redis_coordination.py.                                            *)
(*                                                                         *)
(* A scope takes the lock of its process, then a lease in Redis, then (a   *)
(* turn only) one of the slots of the deployment; a heartbeat renews lease *)
(* and slot, and sets lock_lost when a renewal fails.  Each script is one  *)
(* atomic step of Redis.  A scope is named by the token it draws (uuid4),  *)
(* so it runs once.  Time passes in ticks; a lease stores the ticks it has *)
(* left.  Deadlines are not counted: a wait may give up at any retry.      *)
(***************************************************************************)
EXTENDS Naturals, FiniteSets

CONSTANTS
    Workers,    \* server processes, each with locks of its own
    Sessions,   \* chat sessions of the user
    Scopes,     \* entries of _coordination_scope, by token
    Kinds,      \* what the scopes may be for, see KeyFor
    History,    \* the key of the history lease
    User,       \* the key of the user lock, for settings
    Slots,      \* global_concurrency_limit
    TTL,        \* distributed_lock_ttl_sec and semaphore_lease_ttl_sec, in ticks
    Interval,   \* lock_heartbeat_interval_sec, in ticks
    Late,       \* ticks a heartbeat may be late and still be on time
    Nobody

ASSUME CoordinationAssumption ==
    /\ Kinds \subseteq {"turn", "operation", "clear", "settings"}
    /\ {History, User} \intersect Sessions = {} /\ History # User
    /\ Nobody \notin Scopes \union Sessions \union Workers
    /\ Slots \in Nat \ {0} /\ TTL \in Nat \ {0} /\ Interval \in Nat \ {0} /\ Late \in Nat
    /\ Interval + Late < TTL

VARIABLES
    scopes,     \* the local variables of each scope
    local,      \* _session_locks and _user_locks of each process
    keys,       \* the string keys of Redis
    activity,   \* the user's :activity sorted set
    slots       \* the hommey:global:semaphore sorted set

scVars == <<scopes, local, keys, activity, slots>>

-----------------------------------------------------------------------------
LeaseKeys == Sessions \union {History, User}

\* A key with left = 0 would have no expiry; an entry of a sorted set with
\* left = 0 is past its score and goes at the next purge.
Lease == [token: Scopes \union {Nobody}, left: 0..TTL]
Member == [token: Scopes, left: 0..TTL]
Free == [token |-> Nobody, left |-> 0]

Scope == [pc: {"new", "queued", "locking", "slotting", "working", "freeing",
               "unlocking", "ended"},
          kind: Kinds \union {Nobody}, worker: Workers \union {Nobody},
          session: Sessions \union {Nobody}, lost: BOOLEAN, beat: 0..TTL, slot: BOOLEAN]

NewScope == [pc |-> "new", kind |-> Nobody, worker |-> Nobody, session |-> Nobody,
             lost |-> FALSE, beat |-> 0, slot |-> FALSE]

\* The lock a scope takes: a turn and an operation share the history, a clear
\* excludes them, settings have a lock of their own.
KeyOf(kind, session) ==
    CASE kind = "clear"    -> History
      [] kind = "settings" -> User
      [] OTHER             -> session

KeyFor(p) == KeyOf(scopes[p].kind, scopes[p].session)
Shared(p) == scopes[p].kind \in {"turn", "operation"}
At(p, pc) == scopes[p].pc = pc

\* A scope that holds its lease keeps a heartbeat until it leaves.
Beating(p) == scopes[p].pc \in {"slotting", "working"} /\ ~scopes[p].lost

\* The last renewal is not too long ago: the process was not paused since.
OnTime(p) == scopes[p].beat <= Interval + Late

Live(entries) == {e \in entries : e.left > 0}
Without(entries, p) == {e \in entries : e.token # p}

UnlockLocal(p) ==
    local' = [local EXCEPT ![scopes[p].worker][KeyFor(p)] = Nobody]

\* asyncio.Lock is fair: nobody passes those who wait.
Queued(w) == \E q \in Scopes : At(q, "queued") /\ scopes[q].worker = w

End(p) == scopes' = [scopes EXCEPT ![p] = [NewScope EXCEPT !.pc = "ended"]]

\* The heartbeat is cancelled before the releases begin.
Freeing(c) == [c EXCEPT !.pc = "freeing", !.lost = FALSE, !.beat = 0]

-----------------------------------------------------------------------------
(* The scripts of redis_coordination.py.  A Try is whether the script would *)
(* grant; a Do is what it changes.                                         *)

Granted(p) == [token |-> p, left |-> TTL]

IgnoresHistory(p) == keys[KeyFor(p)] = Free

\* _ACTIVITY_ACQUIRE_LUA, and _ACQUIRE_LUA for the user lock.
TryLock(p) ==
    /\ scopes[p].kind = "clear" => Live(activity) = {}
    /\ Shared(p) => keys[History] = Free
    /\ keys[KeyFor(p)] = Free

\* The purge is kept when the lock is refused.
DoLock(p) ==
    /\ keys' = IF TryLock(p) THEN [keys EXCEPT ![KeyFor(p)] = Granted(p)] ELSE keys
    /\ activity' = CASE scopes[p].kind = "settings" -> activity
                     [] Shared(p) /\ TryLock(p)     -> Live(activity) \union {Granted(p)}
                     [] OTHER                       -> Live(activity)

Owned(p) == keys[KeyFor(p)].token = p

\* _ACTIVITY_RENEW_LUA and _RENEW_LUA.
DoRenew(p) ==
    /\ keys' = IF Owned(p) THEN [keys EXCEPT ![KeyFor(p)] = Granted(p)] ELSE keys
    /\ activity' = IF Owned(p) /\ Shared(p)
                   THEN Without(activity, p) \union {Granted(p)} ELSE activity

\* _ACTIVITY_RELEASE_LUA and _RELEASE_LUA.
DoUnlock(p) ==
    /\ keys' = IF Owned(p) THEN [keys EXCEPT ![KeyFor(p)] = Free] ELSE keys
    /\ activity' = Without(activity, p)

\* _SEM_ACQUIRE_LUA.
TrySlot == Cardinality(Live(slots)) < Slots
DoSlot(p) == slots' = IF TrySlot THEN Live(slots) \union {Granted(p)} ELSE Live(slots)

\* _SEM_RENEW_LUA: an expired token that no purge took is granted again.
HasSlot(p) == scopes[p].slot => \E e \in slots : e.token = p
DoRenewSlot(p) ==
    slots' = IF scopes[p].slot /\ HasSlot(p)
             THEN Without(slots, p) \union {Granted(p)} ELSE slots

\* _SEM_RELEASE_LUA.
DoFreeSlot(p) == slots' = Without(slots, p)

-----------------------------------------------------------------------------
(* _coordination_scope *)

\* A scope of a busy session or history ends at once; settings wait in line.
Enter(p, kind, w, s) ==
    LET busy == local[w][KeyOf(kind, s)] # Nobody \/ (kind = "settings" /\ Queued(w)) IN
    /\ At(p, "new")
    /\ scopes' = [scopes EXCEPT ![p] =
            IF busy /\ kind # "settings" THEN [NewScope EXCEPT !.pc = "ended"]
            ELSE [NewScope EXCEPT !.kind = kind, !.worker = w, !.session = s,
                                  !.pc = IF busy THEN "queued" ELSE "locking"]]
    /\ local' = IF busy THEN local ELSE [local EXCEPT ![w][KeyOf(kind, s)] = p]
    /\ UNCHANGED <<keys, activity, slots>>

Dequeue(p) ==
    /\ At(p, "queued")
    /\ local[scopes[p].worker][KeyFor(p)] = Nobody
    /\ local' = [local EXCEPT ![scopes[p].worker][KeyFor(p)] = p]
    /\ scopes' = [scopes EXCEPT ![p].pc = "locking"]
    /\ UNCHANGED <<keys, activity, slots>>

QueueForGood(p) == FALSE

\* USER_QUEUE_TIMEOUT, or the client goes away.
LeaveQueue(p) ==
    /\ At(p, "queued")
    /\ End(p)
    /\ UNCHANGED <<local, keys, activity, slots>>

Lock(p) ==
    /\ At(p, "locking") /\ TryLock(p)
    /\ DoLock(p)
    /\ scopes' = [scopes EXCEPT ![p].beat = 0,
            ![p].pc = IF scopes[p].kind = "turn" THEN "slotting" ELSE "working"]
    /\ UNCHANGED <<local, slots>>

\* SESSION_BUSY, HISTORY_BUSY; settings retry until USER_QUEUE_TIMEOUT.
LockRefused(p) ==
    /\ At(p, "locking") /\ ~TryLock(p)
    /\ DoLock(p)
    /\ End(p) /\ UnlockLocal(p)
    /\ UNCHANGED slots

\* REDIS_UNAVAILABLE, or the caller is cancelled: the script ran or did not, and
\* the scope takes the lease for not acquired, so that it will not release it.
LockUnknown(p) ==
    /\ At(p, "locking")
    /\ DoLock(p) \/ UNCHANGED <<keys, activity>>
    /\ End(p) /\ UnlockLocal(p)
    /\ UNCHANGED slots

TakeSlot(p) ==
    /\ At(p, "slotting") /\ TrySlot
    /\ DoSlot(p)
    /\ scopes' = [scopes EXCEPT ![p].pc = "working", ![p].slot = TRUE]
    /\ UNCHANGED <<local, keys, activity>>

\* A refused acquire has purged the expired tokens; it is retried.
AwaitSlot(p) ==
    /\ At(p, "slotting") /\ ~TrySlot
    /\ DoSlot(p)
    /\ UNCHANGED <<scopes, local, keys, activity>>

\* GLOBAL_CONCURRENCY_LIMIT or LOCK_LOST after a refusal, REDIS_UNAVAILABLE, or
\* a cancelled caller; a slot granted without an answer is not remembered.
NoSlot(p) ==
    /\ At(p, "slotting")
    /\ DoSlot(p) \/ UNCHANGED slots
    /\ scopes' = [scopes EXCEPT ![p] = Freeing(@)]
    /\ UNCHANGED <<local, keys, activity>>

\* One round of _heartbeat: both renewals answer True.
Renew(p) ==
    /\ Beating(p) /\ scopes[p].beat >= Interval
    /\ Owned(p) /\ HasSlot(p)
    /\ DoRenew(p) /\ DoRenewSlot(p)
    /\ scopes' = [scopes EXCEPT ![p].beat = 0]
    /\ UNCHANGED local

\* A renewal answers False, or raises with or without its script having run.
LoseLock(p) ==
    /\ Beating(p) /\ scopes[p].beat >= Interval
    /\ DoRenew(p) \/ UNCHANGED <<keys, activity>>
    /\ DoRenewSlot(p) \/ UNCHANGED slots
    /\ scopes' = [scopes EXCEPT ![p].lost = TRUE, ![p].beat = 0]
    /\ UNCHANGED local

\* The work is over: done, cancelled by its client, a timeout or lock_lost (a
\* turn only: a session operation runs to its end and reports LOCK_LOST).
Leave(p) ==
    /\ At(p, "working")
    /\ scopes' = [scopes EXCEPT ![p] = Freeing(@)]
    /\ UNCHANGED <<local, keys, activity, slots>>

\* A release that raises is logged, and the chain of releases goes on.
FreeSlot(p) ==
    /\ At(p, "freeing")
    /\ (scopes[p].slot /\ DoFreeSlot(p)) \/ UNCHANGED slots
    /\ scopes' = [scopes EXCEPT ![p].pc = "unlocking", ![p].slot = FALSE]
    /\ UNCHANGED <<local, keys, activity>>

Unlock(p) ==
    /\ At(p, "unlocking")
    /\ DoUnlock(p) \/ UNCHANGED <<keys, activity>>
    /\ End(p) /\ UnlockLocal(p)
    /\ UNCHANGED slots

\* CancelledError is no Exception: a cancellation that arrives while a release
\* awaits Redis (the client left after the last event) skips the rest of the chain.
CancelRelease(p) ==
    /\ \/ /\ At(p, "freeing") /\ scopes[p].slot
          /\ DoFreeSlot(p) \/ UNCHANGED slots
          /\ UNCHANGED <<keys, activity>>
       \/ /\ At(p, "unlocking")
          /\ DoUnlock(p) \/ UNCHANGED <<keys, activity>>
          /\ UNCHANGED slots
    /\ End(p)
    /\ UNCHANGED local

-----------------------------------------------------------------------------
\* A process dies with its scopes and its locks.
ProcessDies(w) ==
    /\ (\E p \in Scopes : scopes[p].worker = w) \/ (\E k \in LeaseKeys : local[w][k] # Nobody)
    /\ scopes' = [p \in Scopes |->
            IF scopes[p].worker = w THEN [NewScope EXCEPT !.pc = "ended"] ELSE scopes[p]]
    /\ local' = [local EXCEPT ![w] = [k \in LeaseKeys |-> Nobody]]
    /\ UNCHANGED <<keys, activity, slots>>

Aged(l) ==
    CASE l.left = 0 -> l
      [] l.left = 1 -> Free
      [] OTHER      -> [l EXCEPT !.left = @ - 1]

Older(entries) == {[e EXCEPT !.left = IF @ = 0 THEN 0 ELSE @ - 1] : e \in entries}

\* Time passes in Redis and for the heartbeats.  A key goes when it expires, an
\* entry of a sorted set stays until it is purged.
Tick ==
    /\ keys' = [k \in LeaseKeys |-> Aged(keys[k])]
    /\ activity' = Older(activity)
    /\ slots' = Older(slots)
    /\ scopes' = [p \in Scopes |->
            IF Beating(p) /\ OnTime(p)
            THEN [scopes[p] EXCEPT !.beat = @ + 1] ELSE scopes[p]]
    /\ UNCHANGED local

-----------------------------------------------------------------------------
SCInit ==
    /\ scopes = [p \in Scopes |-> NewScope]
    /\ local = [w \in Workers |-> [k \in LeaseKeys |-> Nobody]]
    /\ keys = [k \in LeaseKeys |-> Free]
    /\ activity = {}
    /\ slots = {}

Starts(p) == \E kind \in Kinds, w \in Workers, s \in Sessions : Enter(p, kind, w, s)

Goes(p) ==
    \/ Dequeue(p) \/ LeaveQueue(p)
    \/ Lock(p) \/ LockRefused(p) \/ LockUnknown(p)
    \/ TakeSlot(p) \/ NoSlot(p)
    \/ Leave(p) \/ FreeSlot(p) \/ Unlock(p) \/ CancelRelease(p)

Beats(p) == Renew(p) \/ LoseLock(p)

SCNext ==
    \/ \E p \in Scopes : Starts(p) \/ Goes(p) \/ Beats(p) \/ AwaitSlot(p)
    \/ \E w \in Workers : ProcessDies(w)
    \/ Tick

SCSpec == SCInit /\ [][SCNext]_scVars

\* Every wait of a scope has a deadline and every call returns or raises; the
\* clock of Redis and the timers of a live process advance.
SCFairSpec ==
    /\ SCSpec
    /\ WF_scVars(Tick)
    /\ \A p \in Scopes : WF_scVars(Goes(p)) /\ WF_scVars(Beats(p))

-----------------------------------------------------------------------------
(* Properties *)

SCTypeOK ==
    /\ scopes \in [Scopes -> Scope]
    /\ local \in [Workers -> [LeaseKeys -> Scopes \union {Nobody}]]
    /\ keys \in [LeaseKeys -> Lease]
    /\ activity \subseteq Member
    /\ slots \subseteq Member

\* What two scopes may not do at the same time.
Conflict(p, q) ==
    \/ KeyFor(p) = KeyFor(q)
    \/ scopes[p].kind = "clear" /\ Shared(q)
    \/ Shared(p) /\ scopes[q].kind = "clear"

\* A scope works with a lease it believes to hold, and was not paused.
Works(p) == At(p, "working") /\ ~scopes[p].lost /\ OnTime(p)

\* Two scopes whose heartbeats are on time never work on one session, nor does one
\* work while the other clears the history, over all processes, beside scopes that
\* are paused, and after crashes, lost answers and failed releases.
WorkExcludes == \A p, q \in Scopes :
    p # q /\ Works(p) /\ Works(q) => ~Conflict(p, q)

\* The history lease excludes every session lease in Redis, whatever the
\* processes believe.
HistoryExcludes ==
    keys[History] # Free =>
        /\ Live(activity) = {}
        /\ \A s \in Sessions : keys[s] = Free

\* Work excludes work in the processes, and the history excludes the sessions in
\* Redis (manager.py:745-861, redis_coordination.py:87-175).
ScopesExclude == WorkExcludes /\ HistoryExcludes

\* The deployment never hands out more slots than it has, also when expired
\* tokens are renewed before a purge takes them.
SlotsBounded == Cardinality(slots) <= Slots

\* No more turns work with their heartbeats on time than there are slots.
TurnsBounded == Cardinality({p \in Scopes : Works(p) /\ scopes[p].kind = "turn"}) <= Slots

\* A lease ends by its expiry or when its own scope releases it: a slow scope
\* never takes the lease of the one that came after it.
OwnReleaseOnly ==
    [][\A k \in LeaseKeys : \A p \in Scopes :
        keys[k].token = p /\ keys'[k].token # p =>
            keys[k].left = 1 \/ (At(p, "unlocking") /\ scopes'[p].pc = "ended")]_scVars

\* "The release chain: ... the local lock is always released": no process keeps a
\* lock for a scope that has left it.
LocalLockReleased == \A w \in Workers, k \in LeaseKeys : \A p \in Scopes :
    local[w][k] = p => ~At(p, "ended")

\* Whoever asks is served or refused, so that no scope waits for ever: a scope has
\* its token once, and a time comes at which all that have begun are over.
UnderWay == {p \in Scopes : ~At(p, "new") /\ ~At(p, "ended")}
ScopesEnd == UnderWay # {} ~> UnderWay = {}
=============================================================================
