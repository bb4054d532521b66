---------------------------- MODULE RateLimiter ----------------------------
(***************************************************************************)
(* SlidingWindowRateLimiter of app/api/security.py, as requests meet it: a  *)
(* synchronous dependency, so FastAPI calls allow() from the threads of a   *)
(* pool and nothing locks the buckets.  A bucket is a deque of admission    *)
(* times; a thread that has taken one goes on with it after another thread  *)
(* has evicted it, and between a look at a deque's oldest time and the pop  *)
(* another thread may have popped it already.  `active` says how many       *)
(* threads there are, so that one run compares one thread with several.     *)
(***************************************************************************)
EXTENDS Integers, Sequences, FiniteSets, SequencesExt

CONSTANTS
    Threads,
    Keys,        \* bucket names: route class, client and case
    Limit,
    Window,
    MaxKeys,     \* max_tracked_keys
    MaxTime,     \* bound: the clock
    MaxRequests, \* bound: calls of allow
    None

ASSUME LimiterAssumption ==
    /\ IsFiniteSet(Threads) /\ IsFiniteSet(Keys) /\ None \notin Nat
    /\ Limit \in Nat \ {0} /\ Window \in Nat \ {0} /\ MaxKeys \in Nat \ {0}
    /\ MaxTime \in Nat /\ MaxRequests \in Nat

VARIABLES
    active,    \* the threads of the pool
    clock,
    events,    \* _events: the deque of each tracked key
    deques,    \* the deques ever made, by number
    thread,    \* each thread's place in allow()
    admitted,  \* history: admission times counted in a key's present bucket
    lost,      \* history: of those, the live ones popped by a race
    verdict    \* the last answer: key, time and whether it was admitted

vars == <<active, clock, events, deques, thread, admitted, lost, verdict>>

Rest == [at |-> "rest", key |-> None, now |-> 0, deque |-> 0, chosen |-> {}]

Init ==
    /\ active \in {S \in SUBSET Threads : S # {}}
    /\ clock = 0
    /\ events = [k \in Keys |-> None]
    /\ deques = <<>>
    /\ thread = [t \in Threads |-> Rest]
    /\ admitted = [k \in Keys |-> <<>>]
    /\ lost = [k \in Keys |-> 0]
    /\ verdict = [key |-> None, now |-> 0, ok |-> TRUE, calls |-> 0]

-----------------------------------------------------------------------------
Tracked == {k \in Keys : events[k] # None}

Expired(time, now) == now - time >= Window

(* The places of the times that still count.                                *)
Live(times, now) == {i \in DOMAIN times : ~Expired(times[i], now)}

Within(times, since) == {i \in DOMAIN times : times[i] \in since .. since + Window - 1}

(* What is left once the expired times at the front are popped.             *)
Popped(times, now) ==
    LET n == CHOOSE i \in 0 .. Len(times) :
                 /\ \A j \in 1 .. i : Expired(times[j], now)
                 /\ i = Len(times) \/ ~Expired(times[i + 1], now)
    IN  SubSeq(times, n + 1, Len(times))

Full(k) == Len(deques[events[k]]) >= Limit

Goes(t, at) == thread' = [thread EXCEPT ![t].at = at]

Deletes(gone) ==
    /\ events' = [k \in Keys |-> IF k \in gone THEN None ELSE events[k]]
    /\ admitted' = [k \in Keys |-> IF k \in gone THEN <<>> ELSE admitted[k]]
    /\ lost' = [k \in Keys |-> IF k \in gone THEN 0 ELSE lost[k]]

-----------------------------------------------------------------------------
Tick ==
    /\ clock < MaxTime
    /\ clock' = clock + 1
    /\ UNCHANGED <<active, events, deques, thread, admitted, lost, verdict>>

Call(t, k) ==
    /\ thread[t] = Rest /\ t \in active /\ verdict.calls < MaxRequests
    /\ thread' = [thread EXCEPT ![t] = [Rest EXCEPT !.at = "called", !.key = k, !.now = clock]]
    /\ verdict' = [key |-> None, now |-> 0, ok |-> TRUE, calls |-> verdict.calls + 1]
    /\ UNCHANGED <<active, clock, events, deques, admitted, lost>>

LookPastTheLimit(t) ==
    /\ thread[t].at = "called"
    /\ Goes(t, IF thread[t].key \in Tracked \/ Cardinality(Tracked) <= MaxKeys THEN "take" ELSE "scan")
    /\ UNCHANGED <<active, clock, events, deques, admitted, lost, verdict>>

(* Only an unknown key makes room, and only when the map is full.           *)
Look(t) ==
    /\ thread[t].at = "called"
    /\ Goes(t, IF thread[t].key \in Tracked \/ Cardinality(Tracked) < MaxKeys THEN "take" ELSE "scan")
    /\ UNCHANGED <<active, clock, events, deques, admitted, lost, verdict>>

(* Every bucket is emptied of what has expired; the empty ones are stale.   *)
Scan(t) ==
    /\ thread[t].at = "scan"
    /\ LET now == thread[t].now
           left == [k \in Tracked |-> Popped(deques[events[k]], now)]
       IN  /\ deques' = [i \in DOMAIN deques |->
                            IF \E k \in Tracked : events[k] = i
                            THEN left[CHOOSE k \in Tracked : events[k] = i] ELSE deques[i]]
           /\ thread' = [thread EXCEPT ![t].at = "stale", ![t].chosen = {k \in Tracked : left[k] = <<>>}]
    /\ UNCHANGED <<active, clock, events, admitted, lost, verdict>>

DeleteStale(t) ==
    /\ thread[t].at = "stale" /\ thread[t].chosen \subseteq Tracked
    /\ Deletes(thread[t].chosen)
    /\ thread' = [thread EXCEPT ![t].chosen = {},
           ![t].at = IF Cardinality(Tracked \ thread[t].chosen) < MaxKeys THEN "take" ELSE "sort"]
    /\ UNCHANGED <<active, clock, deques, verdict>>

(* Buckets below the limit before full ones, the least recent first.        *)
Sooner(j, k) ==
    \/ ~Full(j) /\ Full(k)
    \/ Full(j) = Full(k) /\ Last(deques[events[j]]) <= Last(deques[events[k]])

LessRecent(j, k) == Last(deques[events[j]]) <= Last(deques[events[k]])

VictimsByAge(n) ==
    {S \in SUBSET Tracked : Cardinality(S) = n /\ \A j \in S, k \in Tracked \ S : LessRecent(j, k)}

Victims(n) ==
    {S \in SUBSET Tracked : Cardinality(S) = n /\ \A j \in S, k \in Tracked \ S : Sooner(j, k)}

Sort(t) ==
    /\ thread[t].at = "sort" /\ \A k \in Tracked : deques[events[k]] # <<>>
    /\ \E S \in Victims(IF Cardinality(Tracked) < MaxKeys THEN 0
                        ELSE Cardinality(Tracked) - MaxKeys + 1) :
           thread' = [thread EXCEPT ![t].at = "evict", ![t].chosen = S]
    /\ UNCHANGED <<active, clock, events, deques, admitted, lost, verdict>>

Evict(t) ==
    /\ thread[t].at = "evict" /\ thread[t].chosen \subseteq Tracked
    /\ Deletes(thread[t].chosen)
    /\ thread' = [thread EXCEPT ![t].at = "take", ![t].chosen = {}]
    /\ UNCHANGED <<active, clock, deques, verdict>>

(* The map changed under the iteration, a bucket to delete is gone, or one  *)
(* to sort is empty: the request fails, having deleted some of its choice.  *)
EvictionRaises(t) ==
    /\ thread[t].at \in {"scan", "stale", "sort", "evict"}
    /\ \E u \in active \ {t} : TRUE
    /\ \E gone \in SUBSET (thread[t].chosen \cap Tracked) : Deletes(gone)
    /\ thread' = [thread EXCEPT ![t] = Rest]
    /\ UNCHANGED <<active, clock, deques, verdict>>

(* The default dictionary makes the deque of a key it lacks.                *)
Take(t) ==
    LET k == thread[t].key
        known == k \in Tracked
        number == IF known THEN events[k] ELSE Len(deques) + 1
    IN  /\ thread[t].at = "take"
        /\ events' = [events EXCEPT ![k] = number]
        /\ deques' = IF known THEN deques ELSE Append(deques, <<>>)
        /\ thread' = [thread EXCEPT ![t].at = "count", ![t].deque = number]
        /\ UNCHANGED <<active, clock, admitted, lost, verdict>>

Held(t) == deques[thread[t].deque]

Linked(t) == events[thread[t].key] = thread[t].deque

(* allow() looks at the oldest time and, in another step, pops.             *)
SeesExpired(t) ==
    /\ thread[t].at = "count" /\ Held(t) # <<>> /\ Expired(Held(t)[1], thread[t].now)
    /\ Goes(t, "pop")
    /\ UNCHANGED <<active, clock, events, deques, admitted, lost, verdict>>

Pop(t) ==
    /\ thread[t].at = "pop" /\ Held(t) # <<>>
    /\ deques' = [deques EXCEPT ![thread[t].deque] = Tail(@)]
    /\ lost' = IF Linked(t) /\ ~Expired(Held(t)[1], thread[t].now)
               THEN [lost EXCEPT ![thread[t].key] = @ + 1] ELSE lost
    /\ Goes(t, "count")
    /\ UNCHANGED <<active, clock, events, admitted, verdict>>

PopRaises(t) ==
    /\ thread[t].at = "pop" /\ Held(t) = <<>>
    /\ thread' = [thread EXCEPT ![t] = Rest]
    /\ UNCHANGED <<active, clock, events, deques, admitted, lost, verdict>>

Counted(t) ==
    thread[t].at = "count" /\ (Held(t) # <<>> => ~Expired(Held(t)[1], thread[t].now))

Answers(t, ok) ==
    verdict' = [verdict EXCEPT !.key = thread[t].key, !.now = thread[t].now, !.ok = ok]

DenyUnpopped(t) ==
    /\ thread[t].at = "count" /\ Len(Held(t)) >= Limit
    /\ Answers(t, FALSE)
    /\ thread' = [thread EXCEPT ![t] = Rest]
    /\ UNCHANGED <<active, clock, events, deques, admitted, lost>>

Deny(t) ==
    /\ Counted(t) /\ Len(Held(t)) >= Limit
    /\ Answers(t, FALSE)
    /\ thread' = [thread EXCEPT ![t] = Rest]
    /\ UNCHANGED <<active, clock, events, deques, admitted, lost>>

MayAppendLate(t) ==
    /\ Counted(t) /\ Len(Held(t)) <= Limit
    /\ Goes(t, "append")
    /\ UNCHANGED <<active, clock, events, deques, admitted, lost, verdict>>

MayAppend(t) ==
    /\ Counted(t) /\ Len(Held(t)) < Limit
    /\ Goes(t, "append")
    /\ UNCHANGED <<active, clock, events, deques, admitted, lost, verdict>>

Admit(t) ==
    /\ thread[t].at = "append"
    /\ deques' = [deques EXCEPT ![thread[t].deque] = Append(@, thread[t].now)]
    /\ admitted' = IF Linked(t) THEN [admitted EXCEPT ![thread[t].key] = Append(@, thread[t].now)]
                                ELSE admitted
    /\ Answers(t, TRUE)
    /\ thread' = [thread EXCEPT ![t] = Rest]
    /\ UNCHANGED <<active, clock, events, lost>>

Allow(t) ==
    \/ Look(t) \/ Scan(t) \/ DeleteStale(t) \/ Sort(t) \/ Evict(t) \/ EvictionRaises(t)
    \/ Take(t) \/ SeesExpired(t) \/ Pop(t) \/ PopRaises(t) \/ Deny(t) \/ MayAppend(t) \/ Admit(t)

Next == Tick \/ \E t \in Threads : Allow(t) \/ \E k \in Keys : Call(t, k)

Spec == Init /\ [][Next]_vars

-----------------------------------------------------------------------------
TypeOK ==
    /\ active \subseteq Threads
    /\ \A k \in Keys : events[k] \in {None} \cup DOMAIN deques
    /\ \A j, k \in Tracked : j # k => events[j] # events[k]
    /\ \A t \in Threads : thread[t].chosen \subseteq Keys /\ thread[t].key \in Keys \cup {None}
    /\ \A t \in Threads : thread[t].at \in {"count", "pop", "append"} => thread[t].deque \in DOMAIN deques

(* In one life of its bucket a client gets, with one thread, at most its     *)
(* limit in any window.  With several, the last window holds one more for   *)
(* each further thread that had counted before an admission showed, and one *)
(* for each live time that a race popped (SlidingWindowRateLimiter.allow).  *)
WindowRespected ==
    \A k \in Keys :
        /\ Cardinality(Live(admitted[k], clock)) <= Limit + Cardinality(active) - 1 + lost[k]
        /\ Cardinality(active) = 1 =>
              \A since \in 0 .. clock : Cardinality(Within(admitted[k], since)) <= Limit

(* With one thread the map of buckets stays within its cap.  Several pass   *)
(* it: each may hold a key it found there while another evicts that key.    *)
TrackedBounded == Cardinality(active) = 1 => Cardinality(Tracked) <= MaxKeys

(* With one thread a client is refused only after a full window's quota.    *)
RefusalEarned ==
    Cardinality(active) = 1 /\ ~verdict.ok =>
        \/ verdict.key \notin Tracked
        \/ Cardinality(Live(admitted[verdict.key], verdict.now)) >= Limit

(* With one thread a flood of keys with little use never evicts one at its  *)
(* limit (the comment in _evict_expired).                                   *)
ThrottledKept ==
    [][\A t \in Threads : active = {t} =>
          LET Throttled(k) == Cardinality(Live(admitted[k], thread[t].now)) >= Limit
          IN  \A k \in Tracked : Throttled(k) /\ events'[k] = None =>
                  \A j \in Keys : events'[j] # None => Throttled(j)]_vars

(* What the limiter promises whichever threads meet in it: the quota, the   *)
(* cap on the tracked clients, and no refusal that was not earned (allow).  *)
LimitSound == TypeOK /\ WindowRespected /\ TrackedBounded /\ RefusalEarned
=============================================================================
