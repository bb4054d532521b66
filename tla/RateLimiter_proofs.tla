------------------------ MODULE RateLimiter_proofs ------------------------
(***************************************************************************)
(* Proofs about RateLimiter, for any number of clients, keys and threads.   *)
(* Deques are counted by the places of their live times; a thread that is   *)
(* alone sees histories that end with the deques, and threads that meet     *)
(* exceed the limit by what they have counted and popped.                   *)
(***************************************************************************)
EXTENDS RateLimiter, FiniteSetTheorems, SequenceTheorems, FunctionTheorems, WellFoundedInduction, TLAPS

-----------------------------------------------------------------------------
(* Counting the live times of a bucket.                                     *)

(* A set that fits into another when it is moved counts no more than that.   *)
LEMMA Moved ==
    ASSUME NEW S, NEW T, IsFiniteSet(T), NEW n \in Int,
           \A i \in S : i \in Nat /\ i - n \in T
    PROVE  IsFiniteSet(S) /\ Cardinality(S) <= Cardinality(T)
<1> DEFINE f == [i \in S |-> i - n]
<1>1. f \in Injection(S, T)
  <2>1. f \in [S -> T]
    OBVIOUS
  <2>2. \A i, j \in S : f[i] = f[j] => i = j
    OBVIOUS
  <2> QED BY <2>1, <2>2 DEF Injection, IsInjective
<1> QED BY <1>1, FS_Injection

LEMMA LiveCounts ==
    ASSUME NEW s \in Seq(Nat), NEW c \in Nat
    PROVE  IsFiniteSet(Live(s, c)) /\ Cardinality(Live(s, c)) \in 0 .. Len(s)
<1>1. Live(s, c) \in SUBSET (1 .. Len(s)) /\ Len(s) \in Nat
  BY DEF Live
<1>2. IsFiniteSet(1 .. Len(s)) /\ Cardinality(1 .. Len(s)) = Len(s)
  <2>1. 1 \in Int /\ Len(s) \in Int /\ (1 > Len(s) => Len(s) = 0) /\ Len(s) - 1 + 1 = Len(s)
    BY <1>1
  <2>2. /\ IsFiniteSet(1 .. Len(s))
        /\ Cardinality(1 .. Len(s)) = IF 1 > Len(s) THEN 0 ELSE Len(s) - 1 + 1
    BY <2>1, FS_Interval
  <2> QED BY <2>1, <2>2
<1>3. IsFiniteSet(Live(s, c)) /\ Cardinality(Live(s, c)) <= Len(s)
  BY <1>1, <1>2, FS_Subset
<1> QED BY <1>1, <1>3, FS_CardinalityType

LEMMA LiveAppend ==
    ASSUME NEW s \in Seq(Nat), NEW x \in Nat, NEW c \in Nat
    PROVE  Cardinality(Live(Append(s, x), c)) =
               Cardinality(Live(s, c)) + IF Expired(x, c) THEN 0 ELSE 1
<1>1. Append(s, x) \in Seq(Nat) /\ DOMAIN Append(s, x) = 1 .. Len(s) + 1 /\ Len(s) \in Nat
      /\ DOMAIN s = 1 .. Len(s)
  OBVIOUS
<1>2. /\ \A i \in 1 .. Len(s) : Append(s, x)[i] = s[i]
      /\ Append(s, x)[Len(s) + 1] = x
  OBVIOUS
<1>3. Live(Append(s, x), c) = IF Expired(x, c) THEN Live(s, c) ELSE Live(s, c) \cup {Len(s) + 1}
  BY <1>1, <1>2 DEF Live
<1>4. Len(s) + 1 \notin Live(s, c)
  BY <1>1 DEF Live
<1>5. IsFiniteSet(Live(s, c)) /\ Cardinality(Live(s, c)) \in Nat
  BY LiveCounts, <1>1
<1>6. ~Expired(x, c) => Cardinality(Live(s, c) \cup {Len(s) + 1}) = Cardinality(Live(s, c)) + 1
  BY <1>4, <1>5, FS_AddElement
<1> QED BY <1>3, <1>5, <1>6

LEMMA LiveTail ==
    ASSUME NEW s \in Seq(Nat), s # <<>>, NEW c \in Nat
    PROVE  Cardinality(Live(s, c)) <= Cardinality(Live(Tail(s), c)) + IF Expired(s[1], c) THEN 0 ELSE 1
<1>1. /\ Tail(s) \in Seq(Nat) /\ Len(Tail(s)) = Len(s) - 1 /\ Len(s) \in Nat \ {0}
      /\ \A i \in 1 .. Len(s) - 1 : Tail(s)[i] = s[i + 1]
  OBVIOUS
<1>2. DOMAIN Tail(s) = 1 .. Len(s) - 1 /\ DOMAIN s = 1 .. Len(s)
  BY <1>1
<1> DEFINE T == Live(Tail(s), c)
<1>3. IsFiniteSet(T) /\ Cardinality(T) \in Nat
  <2>1. IsFiniteSet(T) /\ Cardinality(T) \in 0 .. Len(Tail(s))
    BY <1>1, LiveCounts
  <2> QED BY <2>1, <1>1
<1>4. ASSUME NEW i \in Live(s, c) \ {1} PROVE i \in Nat /\ i - 1 \in T
  <2>1. i \in 1 .. Len(s) /\ i # 1 /\ ~Expired(s[i], c)
    BY <1>2 DEF Live
  <2>2. i - 1 \in 1 .. Len(s) - 1 /\ (i - 1) + 1 = i
    BY <2>1, <1>1
  <2> QED BY <1>1, <1>2, <2>1, <2>2 DEF Live
<1> HIDE DEF T
<1>5. IsFiniteSet(Live(s, c) \ {1}) /\ Cardinality(Live(s, c) \ {1}) <= Cardinality(T)
  BY <1>3, <1>4, Moved
<1>6. IsFiniteSet(Live(s, c)) /\ Cardinality(Live(s, c)) \in Nat
  BY LiveCounts
<1>7. Cardinality(Live(s, c) \ {1}) =
          IF 1 \in Live(s, c) THEN Cardinality(Live(s, c)) - 1 ELSE Cardinality(Live(s, c))
  BY <1>6, FS_RemoveElement
<1>8. 1 \in Live(s, c) <=> ~Expired(s[1], c)
  BY <1>1, <1>2 DEF Live
<1> QED BY <1>3, <1>5, <1>6, <1>7, <1>8 DEF T

(* A nonempty set of naturals has a least element.                          *)
Below == {p \in Nat \X Nat : p[1] < p[2]}

LEMMA Least ==
    ASSUME NEW T \in SUBSET Nat, T # {}
    PROVE  \E m \in T : \A k \in T : m <= k
<1>1. IsWellFoundedOn(Below, Nat)
  BY NatLessThanWellFounded DEF OpToRel, Below
<1>2. PICK m \in T : \A k \in T : ~(<<k, m>> \in Below)
  BY <1>1, WFMin
<1>3. ASSUME NEW k \in T PROVE m <= k
  <2>1. k \in Nat /\ m \in Nat /\ ~(<<k, m>> \in Below)
    BY <1>2
  <2>2. ~(k < m)
    BY <2>1 DEF Below
  <2> QED BY <2>1, <2>2
<1> QED BY <1>3

(* Popping takes away a run of expired times and nothing else.              *)
LEMMA PoppedSound ==
    ASSUME NEW s \in Seq(Nat), NEW now \in Nat
    PROVE  \E n \in 0 .. Len(s) :
               /\ Popped(s, now) \in Seq(Nat) /\ Len(Popped(s, now)) = Len(s) - n
               /\ \A i \in 1 .. Len(s) - n : Popped(s, now)[i] = s[i + n]
               /\ \A i \in 1 .. n : Expired(s[i], now)
               /\ n = Len(s) \/ ~Expired(s[n + 1], now)
<1> DEFINE Stops == {i \in 0 .. Len(s) : i = Len(s) \/ ~Expired(s[i + 1], now)}
           Good(i) == /\ \A j \in 1 .. i : Expired(s[j], now)
                      /\ i = Len(s) \/ ~Expired(s[i + 1], now)
           n == CHOOSE i \in 0 .. Len(s) : Good(i)
<1>1. Len(s) \in Nat /\ s \in [1 .. Len(s) -> Nat]
  OBVIOUS
<1>2. \A i : i \in Stops <=> i \in 0 .. Len(s) /\ (i = Len(s) \/ ~Expired(s[i + 1], now))
  OBVIOUS
<1> HIDE DEF Stops
<1>3. PICK m \in Stops : \A i \in Stops : m <= i
  <2>1. Stops \in SUBSET Nat /\ Len(s) \in Stops
    BY <1>1, <1>2
  <2> QED BY <2>1, Least
<1>4. m \in 0 .. Len(s)
  BY <1>2
<1>5. ASSUME NEW j \in 1 .. m PROVE Expired(s[j], now)
  <2>1. j - 1 \in 0 .. Len(s) /\ ~(m <= j - 1) /\ (j - 1) + 1 = j
    <3>1. Len(s) \in Nat
      BY <1>1
    <3> QED BY <3>1, <1>4
  <2>2. j - 1 \notin Stops
    BY <1>3, <2>1
  <2> QED BY <1>2, <2>1, <2>2
<1>6. n \in 0 .. Len(s) /\ Good(n)
  <2>1. m \in 0 .. Len(s) /\ Good(m)
    BY <1>2, <1>4, <1>5
  <2> HIDE DEF Good
  <2> QED BY <2>1
<1>7. Popped(s, now) = SubSeq(s, n + 1, Len(s))
  BY DEF Popped
<1> HIDE DEF n
<1>8. n \in 0 .. Len(s)
  BY <1>6
<1>9. /\ SubSeq(s, n + 1, Len(s)) \in Seq(Nat) /\ Len(SubSeq(s, n + 1, Len(s))) = Len(s) - n
      /\ \A i \in 1 .. Len(s) - n : SubSeq(s, n + 1, Len(s))[i] = s[i + n]
  <2> HIDE DEF Good
  <2>1. n + 1 \in Int /\ Len(s) \in Int /\ \A i \in n + 1 .. Len(s) : s[i] \in Nat
    BY <1>1, <1>8
  <2> DEFINE r == SubSeq(s, n + 1, Len(s))
  <2>2. /\ r \in Seq(Nat) /\ Len(r) = IF n + 1 <= Len(s) THEN Len(s) - (n + 1) + 1 ELSE 0
        /\ \A i \in 1 .. Len(s) - (n + 1) + 1 : r[i] = s[(n + 1) + i - 1]
    BY <2>1, SubSeqProperties
  <2> HIDE DEF r
  <2>3. Len(r) = Len(s) - n /\ Len(s) - (n + 1) + 1 = Len(s) - n
    <3>1. Len(s) \in Nat /\ n \in 0 .. Len(s)
      BY <1>1, <1>8
    <3>2. Len(r) = IF n + 1 <= Len(s) THEN Len(s) - (n + 1) + 1 ELSE 0
      BY <2>2
    <3> QED BY <3>1, <3>2
  <2>4. \A i \in 1 .. Len(s) - n : (n + 1) + i - 1 = i + n
    BY <1>1, <1>8
  <2>5. \A i \in 1 .. Len(s) - n : r[i] = s[i + n]
    BY <2>2, <2>3, <2>4
  <2> QED BY <2>2, <2>3, <2>5 DEF r
<1> QED BY <1>6, <1>7, <1>9

LEMMA LivePopped ==
    ASSUME NEW s \in Seq(Nat), NEW now \in Nat, NEW c \in Nat, now <= c
    PROVE  Cardinality(Live(s, c)) <= Cardinality(Live(Popped(s, now), c))
<1> DEFINE r == Popped(s, now)
<1>1. PICK n \in 0 .. Len(s) :
          /\ r \in Seq(Nat) /\ Len(r) = Len(s) - n
          /\ \A i \in 1 .. Len(s) - n : r[i] = s[i + n]
          /\ \A i \in 1 .. n : Expired(s[i], now)
  BY PoppedSound
<1> HIDE DEF r
<1>2. Len(s) \in Nat /\ DOMAIN s = 1 .. Len(s) /\ DOMAIN r = 1 .. Len(s) - n
      /\ s \in [1 .. Len(s) -> Nat]
  BY <1>1
<1>3. ASSUME NEW i \in Live(s, c) PROVE i \in Nat /\ i - n \in Live(r, c)
  <2>1. i \in 1 .. Len(s) /\ ~Expired(s[i], c)
    BY <1>2 DEF Live
  <2>2. ~Expired(s[i], now)
    BY <2>1, <1>2, LimiterAssumption DEF Expired
  <2>3. i - n \in 1 .. Len(s) - n /\ (i - n) + n = i
    BY <2>1, <2>2, <1>1, <1>2
  <2> QED BY <1>1, <1>2, <2>1, <2>3 DEF Live
<1>4. IsFiniteSet(Live(r, c))
  BY <1>1, LiveCounts
<1> QED BY <1>3, <1>4, Moved DEF r

-----------------------------------------------------------------------------
(* The inductive invariant, first part: the state is well formed.           *)

Places == {"rest", "called", "scan", "stale", "sort", "evict", "take", "count", "pop", "append"}

Holding(t) == thread[t].at \in {"count", "pop", "append"}

Buckets ==
    /\ deques \in Seq(Seq(Nat))
    /\ events \in [Keys -> {None} \cup Nat]
    /\ \A k \in Tracked : events[k] \in DOMAIN deques
    /\ \A j, k \in Tracked : j # k => events[j] # events[k]

Histories ==
    /\ admitted \in [Keys -> Seq(Nat)] /\ lost \in [Keys -> Nat]
    /\ verdict \in [key : Keys \cup {None}, now : Nat, ok : BOOLEAN, calls : Nat]

(* A thread that holds a deque counts and pops for that deque's key.        *)
ThreadsSound ==
    /\ thread \in [Threads -> [at : Places, key : Keys \cup {None}, now : Nat, deque : Nat, chosen : SUBSET Keys]]
    /\ \A t \in Threads :
           /\ thread[t].now <= clock
           /\ t \in active \/ thread[t] = Rest
           /\ thread[t].at = "rest" \/ thread[t].key \in Keys
           /\ Holding(t) => thread[t].deque \in DOMAIN deques
           /\ \A k \in Tracked : Holding(t) /\ events[k] = thread[t].deque => thread[t].key = k

Typed ==
    /\ active \in SUBSET Threads /\ active # {} /\ clock \in Nat
    /\ Buckets /\ Histories /\ ThreadsSound

LEMMA InitTyped == Init => Typed
<1> SUFFICES ASSUME Init PROVE Typed
  OBVIOUS
<1>1. Tracked = {}
  BY DEF Init, Tracked
<1>2. Buckets /\ Histories
  BY <1>1, EmptySeq, LimiterAssumption DEF Init, Buckets, Histories
<1>3. ThreadsSound
  BY <1>1 DEF Init, ThreadsSound, Rest, Places, Holding
<1> QED BY <1>2, <1>3 DEF Init, Typed

(* What a thread's step leaves of the well-formedness of all threads, when  *)
(* the step changes its own record only.                                    *)
LEMMA OneThread ==
    ASSUME Typed, NEW t \in Threads, NEW p,
           p \in [at : Places, key : Keys \cup {None}, now : Nat, deque : Nat, chosen : SUBSET Keys],
           thread' = [thread EXCEPT ![t] = p],
           active' = active, clock' = clock, t \in active,
           DOMAIN deques \subseteq DOMAIN deques',
           \A k \in Keys : events'[k] # None /\ events'[k] # events[k] =>
               events'[k] \notin DOMAIN deques /\ k = p.key,
           p.now <= clock,
           p.at = "rest" \/ p.key \in Keys,
           p.at \in {"count", "pop", "append"} =>
               /\ p.deque \in DOMAIN deques'
               /\ \A k \in Tracked' : events'[k] = p.deque => p.key = k
    PROVE  ThreadsSound'
<1>1. thread' \in [Threads -> [at : Places, key : Keys \cup {None}, now : Nat, deque : Nat, chosen : SUBSET Keys]]
  BY DEF Typed, ThreadsSound
<1>2. \A u \in Threads : thread'[u] = IF u = t THEN p ELSE thread[u]
  BY DEF Typed, ThreadsSound
<1>3. ASSUME NEW u \in Threads
      PROVE  /\ thread'[u].now <= clock'
             /\ u \in active' \/ thread'[u] = Rest
             /\ thread'[u].at = "rest" \/ thread'[u].key \in Keys
             /\ Holding(u)' => thread'[u].deque \in DOMAIN deques'
             /\ \A k \in Tracked' : Holding(u)' /\ events'[k] = thread'[u].deque => thread'[u].key = k
  <2>1. CASE u = t
    BY <1>2, <2>1 DEF Holding
  <2>2. CASE u # t
    <3>1. thread'[u] = thread[u]
      BY <1>2, <2>2
    <3>2. /\ thread[u].now <= clock
          /\ u \in active \/ thread[u] = Rest
          /\ thread[u].at = "rest" \/ thread[u].key \in Keys
          /\ Holding(u) => thread[u].deque \in DOMAIN deques
          /\ \A k \in Tracked : Holding(u) /\ events[k] = thread[u].deque => thread[u].key = k
      BY DEF Typed, ThreadsSound
    <3>3. Holding(u)' <=> Holding(u)
      BY <3>1 DEF Holding
    <3>4. ASSUME NEW k \in Tracked', Holding(u), events'[k] = thread[u].deque
          PROVE  thread[u].key = k
      <4>1. k \in Keys /\ events'[k] # None
        BY DEF Tracked
      <4>2. events'[k] = events[k]
        BY <3>2, <3>4, <4>1
      <4>3. k \in Tracked
        BY <4>1, <4>2 DEF Tracked
      <4> QED BY <3>2, <3>4, <4>2, <4>3
    <3> QED BY <3>1, <3>2, <3>3, <3>4
  <2> QED BY <2>1, <2>2
<1> QED BY <1>1, <1>3 DEF ThreadsSound

Answer == [key : Keys \cup {None}, now : Nat, ok : BOOLEAN, calls : Nat]

Step(t, p) == thread' = [thread EXCEPT ![t] = p]

Place == [at : Places, key : Keys \cup {None}, now : Nat, deque : Nat, chosen : SUBSET Keys]

LEMMA PlaceTyped ==
    ASSUME Typed, NEW t \in Threads
    PROVE  /\ thread[t] \in Place /\ thread[t].now <= clock
           /\ t \notin active => thread[t].at = "rest"
           /\ thread[t].at = "rest" \/ thread[t].key \in Keys
           /\ Holding(t) => thread[t].deque \in DOMAIN deques
           /\ \A k \in Tracked : Holding(t) /\ events[k] = thread[t].deque => thread[t].key = k
  BY DEF Typed, ThreadsSound, Rest, Place

(* Steps that only move a thread and perhaps answer.                        *)
LEMMA OnlyMoves ==
    ASSUME Typed, NEW t \in Threads, NEW p \in Place, Step(t, p), t \in active,
           UNCHANGED <<active, clock, events, deques, admitted, lost>>,
           verdict' \in Answer,
           p.now <= clock, p.at = "rest" \/ p.key \in Keys,
           p.at \in {"count", "pop", "append"} =>
               Holding(t) /\ p.deque = thread[t].deque /\ p.key = thread[t].key
    PROVE  Typed'
<1>1. Buckets' /\ Histories'
  BY DEF Typed, Buckets, Histories, Tracked, Answer
<1>2. Tracked' = Tracked
  BY DEF Tracked
<1>3. ThreadsSound'
  BY <1>2, PlaceTyped, OneThread DEF Step, Place
<1> QED BY <1>1, <1>3 DEF Typed

(* Deleting buckets.                                                        *)
LEMMA DeletesTyped ==
    ASSUME Typed, NEW gone \in SUBSET Tracked, Deletes(gone), deques' = deques, verdict' = verdict
    PROVE  /\ Buckets' /\ Histories' /\ Tracked' = Tracked \ gone
           /\ \A k \in Tracked' : events'[k] = events[k] /\ admitted'[k] = admitted[k] /\ lost'[k] = lost[k]
           /\ \A k \in Keys \ Tracked' : k \in gone \/ k \notin Tracked
<1>1. \A k \in Keys : events'[k] = IF k \in gone THEN None ELSE events[k]
  BY DEF Deletes
<1>2. Tracked' = Tracked \ gone
  BY <1>1 DEF Tracked
<1>3. Histories'
  <2>1. admitted' \in [Keys -> Seq(Nat)]
    BY EmptySeq DEF Typed, Histories, Deletes
  <2>2. lost' \in [Keys -> Nat]
    BY DEF Typed, Histories, Deletes
  <2> QED BY <2>1, <2>2 DEF Typed, Histories
<1>4. Buckets'
  <2>1. events' \in [Keys -> {None} \cup Nat]
    BY DEF Typed, Buckets, Deletes
  <2>2. \A k \in Tracked' : k \in Tracked /\ events'[k] = events[k]
    BY <1>1, <1>2 DEF Tracked
  <2> QED BY <2>1, <2>2 DEF Typed, Buckets
<1>5. \A k \in Tracked' : admitted'[k] = admitted[k] /\ lost'[k] = lost[k]
  BY <1>2 DEF Deletes, Tracked
<1>6. \A k \in Tracked' : events'[k] = events[k]
  BY <1>1, <1>2 DEF Tracked
<1> QED BY <1>2, <1>3, <1>4, <1>5, <1>6

LEMMA DeletingTyped ==
    ASSUME Typed, NEW t \in active, NEW gone \in SUBSET Tracked, Deletes(gone), NEW p \in Place, Step(t, p),
           p = Rest \/ (p.at \in {"take", "sort"} /\ p.key = thread[t].key /\ p.now = thread[t].now),
           thread[t].at # "rest",
           UNCHANGED <<active, clock, deques, verdict>>
    PROVE  Typed'
<1>1. t \in Threads
  BY DEF Typed
<1>2. Buckets' /\ Histories' /\ Tracked' = Tracked \ gone /\ \A k \in Tracked' : events'[k] = events[k]
  BY DeletesTyped
<1>3. /\ \A k \in Keys : events'[k] # None => events'[k] = events[k]
      /\ p.now <= clock /\ (p.at = "rest" \/ p.key \in Keys) /\ p.at \notin {"count", "pop", "append"}
  <2>1. \A k \in Keys : events'[k] # None => events'[k] = events[k]
    BY DEF Deletes
  <2>2. clock \in Nat /\ thread[t].now <= clock /\ thread[t].key \in Keys
    BY <1>1, PlaceTyped DEF Typed
  <2> QED BY <2>1, <2>2 DEF Rest
<1>4. ThreadsSound'
  BY <1>1, <1>3, OneThread DEF Step, Place
<1> QED BY <1>2, <1>4 DEF Typed

LEMMA EvictingTyped ==
    ASSUME Typed, NEW t \in Threads,
           DeleteStale(t) \/ Evict(t) \/ EvictionRaises(t)
    PROVE  Typed'
<1>1. thread[t] \in Place /\ t \in active
  BY PlaceTyped DEF DeleteStale, Evict, EvictionRaises
<1>2. CASE DeleteStale(t)
  <2> DEFINE to == IF Cardinality(Tracked \ thread[t].chosen) < MaxKeys THEN "take" ELSE "sort"
             p == [thread[t] EXCEPT !.chosen = {}, !.at = to]
  <2>1. to \in {"take", "sort"}
    OBVIOUS
  <2>2. thread' = [thread EXCEPT ![t] = p]
    BY <1>1, <1>2 DEF DeleteStale, Typed, ThreadsSound, Place
  <2> HIDE DEF to
  <2>3. p \in Place /\ p.at \in {"take", "sort"} /\ p.key = thread[t].key /\ p.now = thread[t].now
    BY <1>1, <2>1 DEF Place, Places
  <2> HIDE DEF p
  <2> QED BY <1>1, <1>2, <2>2, <2>3, DeletingTyped DEF DeleteStale, Step
<1>3. CASE Evict(t)
  <2> DEFINE p == [thread[t] EXCEPT !.at = "take", !.chosen = {}]
  <2>1. thread' = [thread EXCEPT ![t] = p]
    BY <1>1, <1>3 DEF Evict, Typed, ThreadsSound, Place
  <2>2. p \in Place /\ p.at \in {"take", "sort"} /\ p.key = thread[t].key /\ p.now = thread[t].now
    BY <1>1 DEF Place, Places
  <2> HIDE DEF p
  <2> QED BY <1>1, <1>3, <2>1, <2>2, DeletingTyped DEF Evict, Step
<1>4. CASE EvictionRaises(t)
  <2>1. PICK gone \in SUBSET (thread[t].chosen \cap Tracked) : Deletes(gone)
    BY <1>4 DEF EvictionRaises
  <2>2. gone \in SUBSET Tracked
    OBVIOUS
  <2>3. Rest \in Place
    BY DEF Rest, Place, Places
  <2>4. thread[t].at # "rest" /\ Step(t, Rest) /\ UNCHANGED <<active, clock, deques, verdict>>
    BY <1>4 DEF EvictionRaises, Step
  <2> QED BY <1>1, <2>1, <2>2, <2>3, <2>4, DeletingTyped
<1> QED BY <1>2, <1>3, <1>4

(* Buckets only lose what has expired for the scanning thread.              *)
LEMMA ScanLeaves ==
    ASSUME Typed, NEW t \in Threads, Scan(t)
    PROVE  /\ deques' \in Seq(Seq(Nat)) /\ DOMAIN deques' = DOMAIN deques
           /\ \A i \in DOMAIN deques :
                  \/ deques'[i] = deques[i] /\ \A k \in Tracked : events[k] # i
                  \/ deques'[i] = Popped(deques[i], thread[t].now) /\ \E k \in Tracked : events[k] = i
<1> DEFINE now == thread[t].now
           left == [k \in Tracked |-> Popped(deques[events[k]], now)]
           new == [i \in DOMAIN deques |->
                      IF \E k \in Tracked : events[k] = i
                      THEN left[CHOOSE k \in Tracked : events[k] = i] ELSE deques[i]]
<1>1. deques' = new
  BY DEF Scan
<1>2. now \in Nat
  BY PlaceTyped DEF Place
<1>3. ASSUME NEW i \in DOMAIN deques, NEW k \in Tracked, events[k] = i
      PROVE  new[i] = Popped(deques[i], now)
  <2> DEFINE j == CHOOSE j \in Tracked : events[j] = i
  <2>1. j \in Tracked /\ events[j] = i
    BY <1>3
  <2> HIDE DEF j
  <2>2. left[j] = Popped(deques[i], now)
    BY <2>1
  <2> QED BY <1>3, <2>2 DEF j
<1>4. ASSUME NEW i \in DOMAIN deques, \A k \in Tracked : events[k] # i
      PROVE  new[i] = deques[i]
  BY <1>4
<1>5. \A i \in DOMAIN deques : deques[i] \in Seq(Nat)
  BY DEF Typed, Buckets
<1>6. \A i \in DOMAIN deques : new[i] \in Seq(Nat)
  <2> SUFFICES ASSUME NEW i \in DOMAIN deques PROVE new[i] \in Seq(Nat)
    OBVIOUS
  <2>1. Popped(deques[i], now) \in Seq(Nat)
    BY <1>2, <1>5, PoppedSound
  <2> HIDE DEF new
  <2>2. CASE \E k \in Tracked : events[k] = i
    BY <1>3, <2>1, <2>2
  <2>3. CASE \A k \in Tracked : events[k] # i
    BY <1>4, <1>5, <2>3
  <2> QED BY <2>2, <2>3
<1>7. new \in Seq(Seq(Nat)) /\ DOMAIN new = DOMAIN deques
  <2>1. Len(deques) \in Nat /\ DOMAIN deques = 1 .. Len(deques)
    BY DEF Typed, Buckets
  <2>2. DOMAIN new = DOMAIN deques /\ new = [i \in DOMAIN deques |-> new[i]]
    OBVIOUS
  <2> HIDE DEF new
  <2>3. new \in [1 .. Len(deques) -> Seq(Nat)]
    BY <1>6, <2>1, <2>2
  <2>4. new \in UNION {[1 .. n -> Seq(Nat)] : n \in Nat}
    <3>1. Len(deques) \in Nat
      BY <2>1
    <3> QED BY <2>3, <3>1, Zenon
  <2> QED BY <2>2, <2>4, SeqDef
<1> HIDE DEF new
<1> QED BY <1>1, <1>3, <1>4, <1>7

LEMMA ScanTyped ==
    ASSUME Typed, NEW t \in Threads, Scan(t)
    PROVE  Typed'
<1> DEFINE chosen == {k \in Tracked : [j \in Tracked |-> Popped(deques[events[j]], thread[t].now)][k] = <<>>}
           p == [thread[t] EXCEPT !.at = "stale", !.chosen = chosen]
<1>1. thread[t] \in Place /\ t \in active /\ thread[t].now <= clock /\ thread[t].key \in Keys
  BY PlaceTyped DEF Scan
<1>2. UNCHANGED <<active, clock, events, admitted, lost, verdict>>
  BY DEF Scan
<1>3. deques' \in Seq(Seq(Nat)) /\ DOMAIN deques' = DOMAIN deques
  BY ScanLeaves
<1>4. Tracked' = Tracked
  BY <1>2 DEF Tracked
<1>5. Buckets' /\ Histories'
  BY <1>2, <1>3, <1>4 DEF Typed, Buckets, Histories
<1>6. thread' = [thread EXCEPT ![t] = p]
  BY DEF Scan, Typed, ThreadsSound
<1>7. chosen \in SUBSET Keys
  BY DEF Tracked
<1> HIDE DEF chosen
<1>8. p \in Place /\ p.at = "stale" /\ p.key = thread[t].key /\ p.now = thread[t].now
  BY <1>1, <1>7 DEF Place, Places
<1> HIDE DEF p
<1>9. ThreadsSound'
  BY <1>1, <1>2, <1>3, <1>6, <1>8, OneThread DEF Place
<1> QED BY <1>2, <1>5, <1>9 DEF Typed

LEMMA TakeTyped ==
    ASSUME Typed, NEW t \in Threads, Take(t)
    PROVE  Typed'
<1> DEFINE k == thread[t].key
           known == k \in Tracked
           number == IF known THEN events[k] ELSE Len(deques) + 1
           p == [thread[t] EXCEPT !.at = "count", !.deque = number]
<1>1. thread[t] \in Place /\ t \in active /\ thread[t].now <= clock /\ k \in Keys
  BY PlaceTyped DEF Take
<1>2. /\ UNCHANGED <<active, clock, admitted, lost, verdict>>
      /\ events' = [events EXCEPT ![k] = number]
      /\ deques' = IF known THEN deques ELSE Append(deques, <<>>)
  BY DEF Take
<1>3. thread' = [thread EXCEPT ![t] = p]
  BY DEF Take, Typed, ThreadsSound
<1>4. Len(deques) \in Nat /\ DOMAIN deques = 1 .. Len(deques)
  BY DEF Typed, Buckets
<1>5. /\ deques' \in Seq(Seq(Nat))
      /\ DOMAIN deques' = IF known THEN DOMAIN deques ELSE 1 .. Len(deques) + 1
  BY <1>2, <1>4, EmptySeq DEF Typed, Buckets
<1>6. number \in Nat /\ number \in DOMAIN deques' /\ (known => number = events[k])
      /\ (~known => number \notin DOMAIN deques)
  BY <1>4, <1>5 DEF Typed, Buckets
<1> HIDE DEF number
<1>7. \A j \in Keys : events'[j] = IF j = k THEN number ELSE events[j]
  BY <1>1, <1>2 DEF Typed, Buckets
<1>8. Tracked' = Tracked \cup {k}
  BY <1>1, <1>6, <1>7, LimiterAssumption DEF Tracked
<1>9. Buckets'
  <2>1. events' \in [Keys -> {None} \cup Nat]
    BY <1>2, <1>6 DEF Typed, Buckets
  <2>2. DOMAIN deques \subseteq DOMAIN deques'
    BY <1>4, <1>5
  <2>3. \A j \in Tracked' : events'[j] \in DOMAIN deques'
    BY <1>6, <1>7, <1>8, <2>2 DEF Typed, Buckets, Tracked
  <2>4. ASSUME NEW i \in Tracked', NEW j \in Tracked', i # j PROVE events'[i] # events'[j]
    <3>1. \A l \in Tracked \ {k} : events'[l] = events[l] /\ events[l] # number
      BY <1>6, <1>7 DEF Typed, Buckets, Tracked
    <3>2. events'[k] = number
      BY <1>1, <1>7
    <3>3. CASE i = k
      BY <1>8, <2>4, <3>1, <3>2, <3>3
    <3>4. CASE j = k
      BY <1>8, <2>4, <3>1, <3>2, <3>4
    <3>5. CASE i # k /\ j # k
      BY <1>8, <2>4, <3>1, <3>5 DEF Typed, Buckets
    <3> QED BY <3>3, <3>4, <3>5
  <2> QED BY <1>5, <2>1, <2>3, <2>4 DEF Buckets
<1>10. p \in Place /\ p.at = "count" /\ p.key = k /\ p.now = thread[t].now /\ p.deque = number
  BY <1>1, <1>6 DEF Place, Places
<1> HIDE DEF p
<1>11. /\ DOMAIN deques \subseteq DOMAIN deques'
       /\ \A j \in Keys : events'[j] # None /\ events'[j] # events[j] =>
              events'[j] \notin DOMAIN deques /\ j = p.key
       /\ \A j \in Tracked' : events'[j] = p.deque => p.key = j
  <2>1. DOMAIN deques \subseteq DOMAIN deques'
    BY <1>4, <1>5
  <2>2. ASSUME NEW j \in Keys, events'[j] # events[j] PROVE events'[j] \notin DOMAIN deques /\ j = p.key
    BY <1>6, <1>7, <1>10, <2>2
  <2>3. ASSUME NEW j \in Tracked', events'[j] = p.deque PROVE p.key = j
    <3>1. k \in Tracked' /\ events'[k] = number
      BY <1>1, <1>7, <1>8
    <3> QED BY <1>9, <1>10, <2>3, <3>1 DEF Buckets
  <2> QED BY <2>1, <2>2, <2>3
<1>12. ThreadsSound'
  BY <1>1, <1>2, <1>3, <1>6, <1>10, <1>11, OneThread DEF Place
<1>13. Histories'
  BY <1>2 DEF Typed, Histories
<1> QED BY <1>2, <1>9, <1>12, <1>13 DEF Typed

(* A step that pops from or appends to the deque a thread holds.            *)
LEMMA HeldChanges ==
    ASSUME Typed, NEW t \in Threads, Holding(t), NEW new \in Seq(Nat), NEW p \in Place, Step(t, p),
           deques' = [deques EXCEPT ![thread[t].deque] = new],
           UNCHANGED <<active, clock, events>>, Histories',
           p = Rest \/ (p.at = "count" /\ p.deque = thread[t].deque /\ p.key = thread[t].key
                        /\ p.now = thread[t].now)
    PROVE  Typed'
<1>1. /\ thread[t] \in Place /\ t \in active /\ thread[t].now <= clock /\ thread[t].key \in Keys
      /\ thread[t].deque \in DOMAIN deques
      /\ \A k \in Tracked : events[k] = thread[t].deque => thread[t].key = k
  BY PlaceTyped DEF Holding
<1>2. deques' \in Seq(Seq(Nat)) /\ DOMAIN deques' = DOMAIN deques
  BY <1>1 DEF Typed, Buckets
<1>3. Tracked' = Tracked
  BY DEF Tracked
<1>4. Buckets'
  BY <1>2, <1>3 DEF Typed, Buckets
<1>5. p.now <= clock /\ (p.at = "rest" \/ p.key \in Keys)
  BY <1>1 DEF Rest, Typed
<1>6. p.at \in {"count", "pop", "append"} =>
          /\ p.deque \in DOMAIN deques'
          /\ \A k \in Tracked' : events'[k] = p.deque => p.key = k
  BY <1>1, <1>2, <1>3 DEF Rest
<1>7. ThreadsSound'
  BY <1>1, <1>2, <1>5, <1>6, OneThread DEF Step, Place
<1> QED BY <1>4, <1>7 DEF Typed

LEMMA PopTyped ==
    ASSUME Typed, NEW t \in Threads, Pop(t)
    PROVE  Typed'
<1> DEFINE p == [thread[t] EXCEPT !.at = "count"]
<1>1. thread[t] \in Place /\ Holding(t) /\ thread[t].deque \in DOMAIN deques /\ thread[t].key \in Keys
  BY PlaceTyped DEF Pop, Holding
<1>2. deques[thread[t].deque] \in Seq(Nat)
  BY <1>1 DEF Typed, Buckets
<1>3. Tail(deques[thread[t].deque]) \in Seq(Nat)
  BY <1>2 DEF Pop, Held
<1>4. deques' = [deques EXCEPT ![thread[t].deque] = Tail(deques[thread[t].deque])]
  BY DEF Pop
<1>5. Histories'
  <2>1. lost' \in [Keys -> Nat]
    <3>1. lost' = lost \/ lost' = [lost EXCEPT ![thread[t].key] = @ + 1]
      BY DEF Pop
    <3>2. lost \in [Keys -> Nat]
      BY DEF Typed, Histories
    <3> QED BY <1>1, <3>1, <3>2
  <2> QED BY <2>1 DEF Pop, Typed, Histories
<1>6. thread' = [thread EXCEPT ![t] = p]
  BY <1>1 DEF Pop, Goes, Typed, ThreadsSound
<1>7. p \in Place /\ p.at = "count" /\ p.deque = thread[t].deque /\ p.key = thread[t].key /\ p.now = thread[t].now
  BY <1>1 DEF Place, Places
<1> HIDE DEF p
<1>8. UNCHANGED <<active, clock, events>>
  BY DEF Pop
<1> QED BY <1>1, <1>3, <1>4, <1>5, <1>6, <1>7, <1>8, HeldChanges DEF Step

LEMMA AdmitTyped ==
    ASSUME Typed, NEW t \in Threads, Admit(t)
    PROVE  Typed'
<1>1. /\ thread[t] \in Place /\ Holding(t) /\ thread[t].deque \in DOMAIN deques /\ thread[t].key \in Keys
      /\ thread[t].now \in Nat
  BY PlaceTyped DEF Admit, Holding, Place
<1>2. deques[thread[t].deque] \in Seq(Nat)
  BY <1>1 DEF Typed, Buckets
<1>3. Append(deques[thread[t].deque], thread[t].now) \in Seq(Nat)
  BY <1>1, <1>2
<1>4. deques' = [deques EXCEPT ![thread[t].deque] = Append(deques[thread[t].deque], thread[t].now)]
  BY DEF Admit
<1>5. Histories'
  <2>1. admitted' \in [Keys -> Seq(Nat)]
    <3>1. admitted[thread[t].key] \in Seq(Nat)
      BY <1>1 DEF Typed, Histories
    <3>2. Append(admitted[thread[t].key], thread[t].now) \in Seq(Nat)
      BY <1>1, <3>1
    <3> QED BY <3>2 DEF Admit, Typed, Histories
  <2>2. verdict' \in Answer
    BY <1>1 DEF Admit, Answers, Answer, Typed, Histories
  <2> QED BY <2>1, <2>2 DEF Admit, Typed, Histories, Answer
<1>6. Rest \in Place
  BY DEF Rest, Place, Places
<1>7. Step(t, Rest) /\ UNCHANGED <<active, clock, events>>
  BY DEF Admit, Step
<1> QED BY <1>1, <1>3, <1>4, <1>5, <1>6, <1>7, HeldChanges

LEMMA MovesTyped ==
    ASSUME Typed, NEW t \in Threads,
           Look(t) \/ Sort(t) \/ SeesExpired(t) \/ PopRaises(t) \/ Deny(t) \/ MayAppend(t)
    PROVE  Typed'
<1>1. /\ thread[t] \in Place /\ t \in active /\ thread[t].now <= clock /\ thread[t].key \in Keys
      /\ thread \in [Threads -> Place]
  BY PlaceTyped DEF Look, Sort, SeesExpired, PopRaises, Deny, Counted, MayAppend, Typed, ThreadsSound, Place
<1>2. UNCHANGED <<active, clock, events, deques, admitted, lost>>
  BY DEF Look, Sort, SeesExpired, PopRaises, Deny, MayAppend
<1>3. verdict' \in Answer
  BY <1>1 DEF Look, Sort, SeesExpired, PopRaises, Deny, MayAppend, Answers, Answer, Typed, Histories, Place
<1>4. Rest \in Place /\ Rest.at = "rest" /\ Rest.now <= clock
  BY DEF Rest, Place, Places, Typed
<1>5. ASSUME NEW to \in Places \ {"count"}, thread' = [thread EXCEPT ![t].at = to],
             to \in {"pop", "append"} => Holding(t)
      PROVE  Typed'
  <2> DEFINE p == [thread[t] EXCEPT !.at = to]
  <2>1. p \in Place /\ p.at = to /\ p.now = thread[t].now /\ p.key = thread[t].key /\ p.deque = thread[t].deque
    BY <1>1 DEF Place
  <2>2. thread' = [thread EXCEPT ![t] = p]
    BY <1>1, <1>5
  <2> HIDE DEF p
  <2> QED BY <1>1, <1>2, <1>3, <1>5, <2>1, <2>2, OnlyMoves DEF Step
<1>6. CASE Look(t)
  <2> DEFINE to == IF thread[t].key \in Tracked \/ Cardinality(Tracked) < MaxKeys THEN "take" ELSE "scan"
  <2>1. to \in Places \ {"count"} /\ to \notin {"pop", "append"}
    BY DEF Places
  <2>2. thread' = [thread EXCEPT ![t].at = to]
    BY <1>6 DEF Look, Goes
  <2> HIDE DEF to
  <2> QED BY <1>5, <2>1, <2>2
<1>7. CASE Sort(t)
  <2>1. PICK S \in SUBSET Keys : thread' = [thread EXCEPT ![t].at = "evict", ![t].chosen = S]
    BY <1>7 DEF Sort, Victims, Tracked
  <2> DEFINE p == [thread[t] EXCEPT !.at = "evict", !.chosen = S]
  <2>2. p \in Place /\ p.at = "evict" /\ p.now = thread[t].now /\ p.key = thread[t].key
    BY <1>1 DEF Place, Places
  <2>3. thread' = [thread EXCEPT ![t] = p]
    BY <1>1, <2>1
  <2> HIDE DEF p
  <2> QED BY <1>1, <1>2, <1>3, <2>2, <2>3, OnlyMoves DEF Step
<1>8. CASE SeesExpired(t)
  <2>1. "pop" \in Places \ {"count"} /\ Holding(t) /\ thread' = [thread EXCEPT ![t].at = "pop"]
    BY <1>8 DEF SeesExpired, Goes, Holding, Places
  <2> QED BY <1>5, <2>1
<1>9. CASE PopRaises(t) \/ Deny(t)
  <2>1. Step(t, Rest)
    BY <1>9 DEF PopRaises, Deny, Step
  <2> QED BY <1>1, <1>2, <1>3, <1>4, <2>1, OnlyMoves
<1>10. CASE MayAppend(t)
  <2>1. "append" \in Places \ {"count"} /\ Holding(t) /\ thread' = [thread EXCEPT ![t].at = "append"]
    BY <1>10 DEF MayAppend, Counted, Goes, Holding, Places
  <2> QED BY <1>5, <2>1
<1> QED BY <1>6, <1>7, <1>8, <1>9, <1>10

LEMMA CallTyped ==
    ASSUME Typed, NEW t \in Threads, NEW k \in Keys, Call(t, k)
    PROVE  Typed'
<1> DEFINE p == [Rest EXCEPT !.at = "called", !.key = k, !.now = clock]
<1>1. p \in Place /\ p.at = "called" /\ p.key = k /\ p.now = clock /\ clock <= clock
  <2>1. clock \in Nat
    BY DEF Typed
  <2>2. Rest \in Place
    BY DEF Rest, Place, Places
  <2>3. "called" \in Places
    BY DEF Places
  <2>4. p \in Place
    BY <2>1, <2>2, <2>3 DEF Place
  <2>5. p.at = "called" /\ p.key = k /\ p.now = clock
    BY <2>2 DEF Place
  <2>6. clock <= clock
    BY <2>1
  <2> QED BY <2>4, <2>5, <2>6
<1>2. Step(t, p)
  BY DEF Call, Step
<1> HIDE DEF p
<1>3. verdict' \in Answer
  BY DEF Call, Answer, Typed, Histories
<1> QED BY <1>1, <1>2, <1>3, OnlyMoves DEF Call

LEMMA TickTyped == Typed /\ Tick => Typed'
<1> SUFFICES ASSUME Typed, Tick PROVE Typed'
  OBVIOUS
<1>1. /\ clock \in Nat /\ clock' = clock + 1
      /\ UNCHANGED <<active, events, deques, thread, admitted, lost, verdict>> /\ Tracked' = Tracked
  BY DEF Tick, Typed, Tracked
<1>2. \A t \in Threads : thread[t].now \in Nat
  BY PlaceTyped DEF Place
<1>3. Buckets' /\ Histories'
  BY <1>1 DEF Typed, Buckets, Histories
<1>4. ThreadsSound'
  BY <1>1, <1>2 DEF Typed, ThreadsSound, Holding
<1> QED BY <1>1, <1>3, <1>4 DEF Typed

LEMMA NextTyped == Typed /\ [Next]_vars => Typed'
<1> SUFFICES ASSUME Typed, [Next]_vars PROVE Typed'
  OBVIOUS
<1>1. CASE UNCHANGED vars
  BY <1>1 DEF vars, Typed, Buckets, Histories, ThreadsSound, Tracked, Holding
<1>2. CASE Tick
  BY <1>2, TickTyped
<1>3. ASSUME NEW t \in Threads, Allow(t) PROVE Typed'
  BY <1>3, MovesTyped, EvictingTyped, ScanTyped, TakeTyped, PopTyped, AdmitTyped DEF Allow
<1>4. ASSUME NEW t \in Threads, NEW k \in Keys, Call(t, k) PROVE Typed'
  BY <1>4, CallTyped
<1> QED BY <1>1, <1>2, <1>3, <1>4 DEF Next

-----------------------------------------------------------------------------
(* Second part: what a bucket's history has in it is in its deque, or was   *)
(* lost to a race, and this from now on; and what a deque holds, with the   *)
(* appends that are under way, exceeds the limit by less than one for each  *)
(* thread.                                                                  *)

Backed ==
    /\ \A k \in Tracked : \A c \in Nat : clock <= c =>
           Cardinality(Live(admitted[k], c)) <= Cardinality(Live(deques[events[k]], c)) + lost[k]
    /\ \A k \in Keys \ Tracked : admitted[k] = <<>> /\ lost[k] = 0

Appending(d) == {t \in active : thread[t].at = "append" /\ thread[t].deque = d}

CountsBounded ==
    \A d \in DOMAIN deques :
        Len(deques[d]) + Cardinality(Appending(d)) <= Limit + Cardinality(active) - 1

LEMMA DequeTyped ==
    ASSUME Typed
    PROVE  /\ Len(deques) \in Nat /\ DOMAIN deques = 1 .. Len(deques)
           /\ \A d \in DOMAIN deques : deques[d] \in Seq(Nat) /\ Len(deques[d]) \in Nat
           /\ \A k \in Tracked : events[k] \in DOMAIN deques /\ k \in Keys
           /\ \A k \in Keys : admitted[k] \in Seq(Nat) /\ lost[k] \in Nat
           /\ \A k \in Keys : events[k] \in DOMAIN deques => k \in Tracked
<1>1. Len(deques) \in Nat /\ DOMAIN deques = 1 .. Len(deques)
  BY DEF Typed, Buckets
<1>2. \A d \in DOMAIN deques : deques[d] \in Seq(Nat) /\ Len(deques[d]) \in Nat
  BY DEF Typed, Buckets
<1>3. \A k \in Tracked : events[k] \in DOMAIN deques /\ k \in Keys
  BY DEF Typed, Buckets, Tracked
<1>4. \A k \in Keys : admitted[k] \in Seq(Nat) /\ lost[k] \in Nat
  BY DEF Typed, Histories
<1>5. \A k \in Keys : events[k] \in DOMAIN deques => k \in Tracked
  BY <1>1, LimiterAssumption DEF Tracked
<1> QED BY <1>1, <1>2, <1>3, <1>4, <1>5

LEMMA LiveNat ==
    ASSUME NEW s \in Seq(Nat), NEW c \in Nat
    PROVE  Cardinality(Live(s, c)) \in Nat /\ Cardinality(Live(s, c)) <= Len(s)
<1>1. Cardinality(Live(s, c)) \in 0 .. Len(s) /\ Len(s) \in Nat
  BY LiveCounts
<1> QED BY <1>1

LEMMA ExpiredStays ==
    ASSUME NEW x \in Nat, NEW now \in Nat, NEW c \in Nat, now <= c, Expired(x, now)
    PROVE  Expired(x, c)
  BY LimiterAssumption DEF Expired

LEMMA InitBacked == Init => Backed
<1> SUFFICES ASSUME Init PROVE Backed
  OBVIOUS
<1>1. Tracked = {}
  BY DEF Init, Tracked
<1> QED BY <1>1 DEF Init, Backed

LEMMA BackedKept ==
    ASSUME Typed, Backed, UNCHANGED <<events, deques, admitted, lost>>, clock' = clock \/ Tick
    PROVE  Backed'
<1>1. Tracked' = Tracked
  BY DEF Tracked
<1>2. clock \in Nat /\ (clock' = clock \/ clock' = clock + 1)
  BY DEF Typed, Tick
<1>3. ASSUME NEW c \in Nat, clock' <= c PROVE clock <= c
  BY <1>2, <1>3
<1> QED BY <1>1, <1>3 DEF Backed

LEMMA BackedDeleting ==
    ASSUME Typed, Backed, NEW gone \in SUBSET Tracked, Deletes(gone), UNCHANGED <<clock, deques, verdict>>
    PROVE  Backed'
<1>1. /\ Tracked' = Tracked \ gone
      /\ \A k \in Tracked' : events'[k] = events[k] /\ admitted'[k] = admitted[k] /\ lost'[k] = lost[k]
  BY DeletesTyped
<1>2. ASSUME NEW k \in Keys \ Tracked' PROVE admitted'[k] = <<>> /\ lost'[k] = 0
  <2>1. k \in gone \/ k \in Keys \ Tracked
    BY <1>1
  <2> QED BY <2>1 DEF Deletes, Backed
<1>3. ASSUME NEW k \in Tracked', NEW c \in Nat, clock' <= c
      PROVE  Cardinality(Live(admitted'[k], c)) <= Cardinality(Live(deques'[events'[k]], c)) + lost'[k]
  <2>1. k \in Tracked /\ clock <= c
    BY <1>1, <1>3
  <2> QED BY <1>1, <2>1 DEF Backed
<1> QED BY <1>2, <1>3 DEF Backed

LEMMA BackedScan ==
    ASSUME Typed, Backed, NEW t \in Threads, Scan(t)
    PROVE  Backed'
<1>1. UNCHANGED <<clock, events, admitted, lost>> /\ Tracked' = Tracked
  BY DEF Scan, Tracked
<1>2. \A i \in DOMAIN deques : deques'[i] = deques[i] \/ deques'[i] = Popped(deques[i], thread[t].now)
  BY ScanLeaves
<1>3. thread[t].now \in Nat /\ thread[t].now <= clock /\ clock \in Nat
  BY PlaceTyped DEF Place, Typed
<1>4. ASSUME NEW k \in Tracked, NEW c \in Nat, clock <= c
      PROVE  Cardinality(Live(admitted[k], c)) <= Cardinality(Live(deques'[events[k]], c)) + lost[k]
  <2> DEFINE s == deques[events[k]]
             r == deques'[events[k]]
  <2>1. s \in Seq(Nat) /\ admitted[k] \in Seq(Nat) /\ lost[k] \in Nat /\ events[k] \in DOMAIN deques
    BY DequeTyped
  <2>2. r = s \/ r = Popped(s, thread[t].now)
    BY <1>2, <2>1
  <2>3. Cardinality(Live(admitted[k], c)) <= Cardinality(Live(s, c)) + lost[k]
    BY <1>4 DEF Backed
  <2> HIDE DEF s, r
  <2>4. thread[t].now <= c
    BY <1>3, <1>4
  <2>5. r \in Seq(Nat)
    <3>1. Popped(s, thread[t].now) \in Seq(Nat)
      BY <1>3, <2>1, PoppedSound
    <3> QED BY <2>1, <2>2, <3>1
  <2>6. Cardinality(Live(s, c)) <= Cardinality(Live(r, c))
    <3>1. CASE r = s
      <4>1. Cardinality(Live(s, c)) \in Nat
        BY <2>1, LiveNat
      <4> QED BY <3>1, <4>1
    <3>2. CASE r = Popped(s, thread[t].now)
      <4>1. Cardinality(Live(s, c)) <= Cardinality(Live(Popped(s, thread[t].now), c))
        BY <1>3, <2>1, <2>4, LivePopped
      <4> QED BY <3>2, <4>1
    <3> QED BY <2>2, <3>1, <3>2
  <2>7. Cardinality(Live(s, c)) \in Nat /\ Cardinality(Live(r, c)) \in Nat /\ Cardinality(Live(admitted[k], c)) \in Nat
    BY <2>1, <2>5, LiveNat
  <2> QED BY <2>1, <2>3, <2>6, <2>7 DEF r
<1> QED BY <1>1, <1>4 DEF Backed

LEMMA TakeChanges ==
    ASSUME Typed, NEW t \in Threads, Take(t)
    PROVE  LET k == thread[t].key IN
           /\ k \in Keys /\ Tracked' = Tracked \cup {k}
           /\ \A j \in Tracked : events'[j] = events[j] /\ deques'[events'[j]] = deques[events[j]]
           /\ k \notin Tracked => events'[k] = Len(deques) + 1 /\ deques' = Append(deques, <<>>)
           /\ k \in Tracked => deques' = deques
           /\ thread'[t].deque = events'[k] /\ thread'[t].at = "count"
           /\ \A d \in DOMAIN deques : deques'[d] = deques[d] /\ d \in DOMAIN deques'
           /\ deques' \in Seq(Seq(Nat))
<1> DEFINE k == thread[t].key
           number == IF k \in Tracked THEN events[k] ELSE Len(deques) + 1
<1>1. thread[t] \in Place /\ k \in Keys
  BY PlaceTyped DEF Take
<1>2. /\ events' = [events EXCEPT ![k] = number]
      /\ deques' = IF k \in Tracked THEN deques ELSE Append(deques, <<>>)
      /\ thread' = [thread EXCEPT ![t].at = "count", ![t].deque = number]
  BY DEF Take
<1>3. Len(deques) \in Nat /\ DOMAIN deques = 1 .. Len(deques) /\ deques \in Seq(Seq(Nat))
      /\ \A j \in Tracked : events[j] \in DOMAIN deques /\ j \in Keys
  BY DequeTyped DEF Typed, Buckets
<1>4. \A d \in DOMAIN deques : deques'[d] = deques[d] /\ d \in DOMAIN deques'
  <2>1. Append(deques, <<>>) \in Seq(Seq(Nat)) /\ DOMAIN Append(deques, <<>>) = 1 .. Len(deques) + 1
        /\ \A d \in 1 .. Len(deques) : Append(deques, <<>>)[d] = deques[d]
    BY <1>3, EmptySeq
  <2> QED BY <1>2, <1>3, <2>1
<1>5. deques' \in Seq(Seq(Nat))
  BY <1>2, <1>3, EmptySeq
<1>6. number \in Nat /\ (k \in Tracked => number = events[k])
  BY <1>3
<1> HIDE DEF number
<1>7. \A j \in Keys : events'[j] = IF j = k THEN number ELSE events[j]
  BY <1>1, <1>2 DEF Typed, Buckets
<1>8. Tracked' = Tracked \cup {k}
  BY <1>1, <1>6, <1>7, LimiterAssumption DEF Tracked
<1>9. thread'[t].deque = number /\ thread'[t].at = "count"
  BY <1>1, <1>2 DEF Typed, ThreadsSound, Place
<1>10. \A j \in Tracked : events'[j] = events[j] /\ deques'[events'[j]] = deques[events[j]]
  BY <1>3, <1>4, <1>6, <1>7
<1>11. k \notin Tracked => events'[k] = Len(deques) + 1 /\ deques' = Append(deques, <<>>)
  BY <1>1, <1>2, <1>7 DEF number
<1>12. k \in Tracked => deques' = deques
  BY <1>2
<1> QED BY <1>1, <1>4, <1>5, <1>7, <1>8, <1>9, <1>10, <1>11, <1>12

LEMMA BackedTake ==
    ASSUME Typed, Backed, NEW t \in Threads, Take(t)
    PROVE  Backed'
<1> DEFINE k == thread[t].key
<1>1. /\ k \in Keys /\ Tracked' = Tracked \cup {k}
      /\ \A j \in Tracked : events'[j] = events[j] /\ deques'[events'[j]] = deques[events[j]]
  BY TakeChanges
<1>2. UNCHANGED <<clock, admitted, lost>>
  BY DEF Take
<1>3. Typed'
  BY TakeTyped
<1>4. ASSUME NEW j \in Tracked', NEW c \in Nat, clock' <= c
      PROVE  Cardinality(Live(admitted'[j], c)) <= Cardinality(Live(deques'[events'[j]], c)) + lost'[j]
  <2>1. CASE j \in Tracked
    BY <1>1, <1>2, <1>4, <2>1 DEF Backed
  <2>2. CASE j \notin Tracked
    <3>1. j \in Keys \ Tracked
      BY <1>1, <2>2
    <3>2. admitted'[j] = <<>> /\ lost'[j] = 0
      BY <1>2, <3>1 DEF Backed
    <3>3. deques'[events'[j]] \in Seq(Nat)
      BY <1>3 DEF Typed, Buckets
    <3>4. Cardinality(Live(deques'[events'[j]], c)) \in Nat
      BY <3>3, LiveNat
    <3>5. Cardinality(Live(<<>>, c)) = 0
      <4>1. Cardinality(Live(<<>>, c)) \in 0 .. Len(<<>>)
        BY EmptySeq, LiveCounts
      <4> QED BY <4>1, EmptySeq
    <3> QED BY <3>2, <3>4, <3>5
  <2> QED BY <2>1, <2>2
<1>5. \A j \in Keys \ Tracked' : admitted'[j] = <<>> /\ lost'[j] = 0
  BY <1>1, <1>2 DEF Backed
<1> QED BY <1>4, <1>5 DEF Backed

(* What a pop and an admission do to the bucket of the thread that makes    *)
(* them; any other bucket stays as it is.                                   *)
LEMMA HeldBucket ==
    ASSUME Typed, NEW t \in Threads, Holding(t)
    PROVE  /\ thread[t].deque \in DOMAIN deques /\ thread[t].key \in Keys /\ thread[t].now \in Nat
           /\ Held(t) \in Seq(Nat) /\ Held(t) = deques[thread[t].deque]
           /\ Linked(t) => thread[t].key \in Tracked /\ deques[events[thread[t].key]] = Held(t)
           /\ \A k \in Tracked : events[k] = thread[t].deque => k = thread[t].key /\ Linked(t)
           /\ \A k \in Tracked : k = thread[t].key /\ Linked(t) => events[k] = thread[t].deque
<1>1. thread[t].deque \in DOMAIN deques /\ thread[t].key \in Keys /\ thread[t].now \in Nat
      /\ \A k \in Tracked : events[k] = thread[t].deque => thread[t].key = k
  BY PlaceTyped DEF Holding, Place
<1>2. Held(t) \in Seq(Nat) /\ Held(t) = deques[thread[t].deque]
  BY <1>1, DequeTyped DEF Held
<1>3. Linked(t) => thread[t].key \in Tracked
  BY <1>1, DequeTyped DEF Linked
<1> QED BY <1>1, <1>2, <1>3 DEF Linked

LEMMA BackedPop ==
    ASSUME Typed, Backed, NEW t \in Threads, Pop(t)
    PROVE  Backed'
<1> DEFINE d == thread[t].deque
           gone == Linked(t) /\ ~Expired(Held(t)[1], thread[t].now)
<1>1. /\ d \in DOMAIN deques /\ thread[t].key \in Keys /\ thread[t].now \in Nat
      /\ Held(t) \in Seq(Nat) /\ Held(t) = deques[d]
      /\ \A k \in Tracked : events[k] = d => k = thread[t].key /\ Linked(t)
      /\ \A k \in Tracked : k = thread[t].key /\ Linked(t) => events[k] = d
      /\ Linked(t) => thread[t].key \in Tracked
  BY HeldBucket DEF Pop, Holding
<1>2. /\ UNCHANGED <<clock, events, admitted>> /\ Tracked' = Tracked
      /\ deques' = [deques EXCEPT ![d] = Tail(Held(t))] /\ Held(t) # <<>>
  BY DEF Pop, Tracked, Held
<1>3. \A e \in DOMAIN deques : deques'[e] = IF e = d THEN Tail(Held(t)) ELSE deques[e]
  BY <1>1, <1>2
<1>4. \A k \in Keys : lost'[k] = IF gone /\ k = thread[t].key THEN lost[k] + 1 ELSE lost[k]
  <2>1. CASE gone
    BY <1>1, <2>1 DEF Pop, Typed, Histories
  <2>2. CASE ~gone
    BY <1>1, <2>2 DEF Pop, Typed, Histories
  <2> QED BY <2>1, <2>2
<1>5. thread[t].now <= clock /\ clock \in Nat
  BY PlaceTyped DEF Typed
<1>6. ASSUME NEW k \in Tracked, NEW c \in Nat, clock <= c
      PROVE  Cardinality(Live(admitted[k], c)) <= Cardinality(Live(deques'[events[k]], c)) + lost'[k]
  <2>1. Cardinality(Live(admitted[k], c)) <= Cardinality(Live(deques[events[k]], c)) + lost[k]
    BY <1>6 DEF Backed
  <2>2. events[k] \in DOMAIN deques /\ k \in Keys /\ lost[k] \in Nat
    BY DequeTyped
  <2>3. CASE events[k] = d
    <3> DEFINE s == Held(t)
    <3>1. s \in Seq(Nat) /\ s # <<>> /\ Tail(s) \in Seq(Nat) /\ s[1] \in Nat
      BY <1>1, <1>2
    <3>2. Cardinality(Live(s, c)) <= Cardinality(Live(Tail(s), c)) + IF Expired(s[1], c) THEN 0 ELSE 1
      BY <3>1, LiveTail
    <3>3. lost'[k] = IF Expired(s[1], thread[t].now) THEN lost[k] ELSE lost[k] + 1
      BY <1>1, <1>4, <2>2, <2>3
    <3>4. Expired(s[1], thread[t].now) => Expired(s[1], c)
      <4>1. thread[t].now <= c
        BY <1>1, <1>5, <1>6
      <4> QED BY <1>1, <3>1, <4>1, ExpiredStays
    <3>5. /\ Cardinality(Live(s, c)) \in Nat /\ Cardinality(Live(Tail(s), c)) \in Nat
          /\ Cardinality(Live(admitted[k], c)) \in Nat
      BY <3>1, <2>2, DequeTyped, LiveNat
    <3>6. deques'[events[k]] = Tail(s) /\ deques[events[k]] = s
      BY <1>1, <1>3, <2>3
    <3> HIDE DEF s
    <3>7. CASE Expired(s[1], thread[t].now)
      <4>1. Cardinality(Live(s, c)) <= Cardinality(Live(Tail(s), c)) + 0 /\ lost'[k] = lost[k]
        BY <3>2, <3>3, <3>4, <3>7
      <4> QED BY <2>1, <2>2, <3>5, <3>6, <4>1
    <3>8. CASE ~Expired(s[1], thread[t].now)
      <4>1. lost'[k] = lost[k] + 1
        BY <3>3, <3>8
      <4>2. Cardinality(Live(s, c)) <= Cardinality(Live(Tail(s), c)) + 1
        <5>1. CASE Expired(s[1], c)
          BY <3>2, <3>5, <5>1
        <5>2. CASE ~Expired(s[1], c)
          BY <3>2, <5>2
        <5> QED BY <5>1, <5>2
      <4> QED BY <2>1, <2>2, <3>5, <3>6, <4>1, <4>2
    <3> QED BY <3>7, <3>8
  <2>4. CASE events[k] # d
    <3>1. deques'[events[k]] = deques[events[k]] /\ lost'[k] = lost[k]
      BY <1>1, <1>3, <1>4, <2>2, <2>4
    <3> QED BY <2>1, <3>1
  <2> QED BY <2>3, <2>4
<1>7. ASSUME NEW k \in Keys \ Tracked PROVE admitted[k] = <<>> /\ lost'[k] = 0
  BY <1>1, <1>4 DEF Backed
<1> QED BY <1>2, <1>6, <1>7 DEF Backed

LEMMA AdmitChanges ==
    ASSUME Typed, NEW t \in Threads, Admit(t)
    PROVE  /\ UNCHANGED <<clock, events, lost>> /\ Tracked' = Tracked
           /\ \A e \in DOMAIN deques :
                  deques'[e] = IF e = thread[t].deque THEN Append(Held(t), thread[t].now) ELSE deques[e]
           /\ \A k \in Keys :
                  admitted'[k] = IF Linked(t) /\ k = thread[t].key THEN Append(admitted[k], thread[t].now)
                                 ELSE admitted[k]
<1>1. /\ thread[t].deque \in DOMAIN deques /\ thread[t].key \in Keys
      /\ Held(t) = deques[thread[t].deque]
  BY HeldBucket DEF Admit, Holding
<1>2. UNCHANGED <<clock, events, lost>> /\ Tracked' = Tracked
  BY DEF Admit, Tracked
<1>3. ASSUME NEW e \in DOMAIN deques
      PROVE  deques'[e] = IF e = thread[t].deque THEN Append(Held(t), thread[t].now) ELSE deques[e]
  BY <1>1 DEF Admit
<1>4. ASSUME NEW k \in Keys
      PROVE  admitted'[k] = IF Linked(t) /\ k = thread[t].key THEN Append(admitted[k], thread[t].now)
                            ELSE admitted[k]
  <2>1. CASE Linked(t)
    BY <1>1, <2>1 DEF Admit, Typed, Histories
  <2>2. CASE ~Linked(t)
    BY <1>1, <2>2 DEF Admit, Typed, Histories
  <2> QED BY <2>1, <2>2
<1> QED BY <1>2, <1>3, <1>4

LEMMA BackedAdmit ==
    ASSUME Typed, Backed, NEW t \in Threads, Admit(t)
    PROVE  Backed'
<1> DEFINE d == thread[t].deque
           x == thread[t].now
<1>1. /\ d \in DOMAIN deques /\ thread[t].key \in Keys /\ x \in Nat
      /\ Held(t) \in Seq(Nat) /\ Held(t) = deques[d]
      /\ \A k \in Tracked : events[k] = d => k = thread[t].key /\ Linked(t)
      /\ \A k \in Tracked : k = thread[t].key /\ Linked(t) => events[k] = d
      /\ Linked(t) => thread[t].key \in Tracked
  BY HeldBucket DEF Admit, Holding
<1>2. /\ UNCHANGED <<clock, events, lost>> /\ Tracked' = Tracked
      /\ \A e \in DOMAIN deques : deques'[e] = IF e = d THEN Append(Held(t), x) ELSE deques[e]
      /\ \A k \in Keys :
             admitted'[k] = IF Linked(t) /\ k = thread[t].key THEN Append(admitted[k], x) ELSE admitted[k]
  BY AdmitChanges
<1>3. ASSUME NEW k \in Tracked, NEW c \in Nat, clock <= c
      PROVE  Cardinality(Live(admitted'[k], c)) <= Cardinality(Live(deques'[events[k]], c)) + lost[k]
  <2>1. Cardinality(Live(admitted[k], c)) <= Cardinality(Live(deques[events[k]], c)) + lost[k]
    BY <1>3 DEF Backed
  <2>2. events[k] \in DOMAIN deques /\ k \in Keys /\ lost[k] \in Nat /\ admitted[k] \in Seq(Nat)
    BY DequeTyped
  <2>3. CASE events[k] = d
    <3>1. admitted'[k] = Append(admitted[k], x) /\ deques'[events[k]] = Append(Held(t), x)
          /\ deques[events[k]] = Held(t)
      BY <1>1, <1>2, <2>2, <2>3
    <3>2. Cardinality(Live(Append(admitted[k], x), c)) =
              Cardinality(Live(admitted[k], c)) + IF Expired(x, c) THEN 0 ELSE 1
      BY <1>1, <2>2, LiveAppend
    <3>3. Cardinality(Live(Append(Held(t), x), c)) =
              Cardinality(Live(Held(t), c)) + IF Expired(x, c) THEN 0 ELSE 1
      BY <1>1, LiveAppend
    <3>4. Cardinality(Live(admitted[k], c)) \in Nat /\ Cardinality(Live(Held(t), c)) \in Nat
      BY <1>1, <2>2, LiveNat
    <3> QED BY <2>1, <2>2, <3>1, <3>2, <3>3, <3>4
  <2>4. CASE events[k] # d
    <3>1. deques'[events[k]] = deques[events[k]] /\ admitted'[k] = admitted[k]
      BY <1>1, <1>2, <2>2, <2>4
    <3> QED BY <2>1, <3>1
  <2> QED BY <2>3, <2>4
<1>4. ASSUME NEW k \in Keys \ Tracked PROVE admitted'[k] = <<>> /\ lost[k] = 0
  BY <1>1, <1>2 DEF Backed
<1> QED BY <1>2, <1>3, <1>4 DEF Backed

LEMMA NextBacked == Typed /\ Backed /\ [Next]_vars => Backed'
<1> SUFFICES ASSUME Typed, Backed, [Next]_vars PROVE Backed'
  OBVIOUS
<1>1. CASE UNCHANGED vars
  BY <1>1, BackedKept DEF vars
<1>2. CASE Tick
  BY <1>2, BackedKept DEF Tick
<1>3. ASSUME NEW t \in Threads, Allow(t) PROVE Backed'
  <2>1. CASE Look(t) \/ Sort(t) \/ SeesExpired(t) \/ PopRaises(t) \/ Deny(t) \/ MayAppend(t)
    BY <2>1, BackedKept DEF Look, Sort, SeesExpired, PopRaises, Deny, MayAppend
  <2>2. CASE DeleteStale(t) \/ Evict(t)
    <3>1. thread[t].chosen \in SUBSET Tracked /\ Deletes(thread[t].chosen) /\ UNCHANGED <<clock, deques, verdict>>
      BY <2>2 DEF DeleteStale, Evict
    <3> QED BY <3>1, BackedDeleting
  <2>3. CASE EvictionRaises(t)
    <3>1. PICK gone \in SUBSET (thread[t].chosen \cap Tracked) : Deletes(gone)
      BY <2>3 DEF EvictionRaises
    <3>2. gone \in SUBSET Tracked /\ UNCHANGED <<clock, deques, verdict>>
      BY <2>3 DEF EvictionRaises
    <3> QED BY <3>1, <3>2, BackedDeleting
  <2> QED BY <1>3, <2>1, <2>2, <2>3, BackedScan, BackedTake, BackedPop, BackedAdmit DEF Allow
<1>4. ASSUME NEW t \in Threads, NEW k \in Keys, Call(t, k) PROVE Backed'
  BY <1>4, BackedKept DEF Call
<1> QED BY <1>1, <1>2, <1>3, <1>4 DEF Next

LEMMA ActiveCounts ==
    ASSUME Typed
    PROVE  /\ IsFiniteSet(active) /\ Cardinality(active) \in Nat /\ Cardinality(active) >= 1
           /\ \A d : IsFiniteSet(Appending(d)) /\ Cardinality(Appending(d)) \in Nat
<1>1. IsFiniteSet(active) /\ active # {}
  BY FS_Subset, LimiterAssumption DEF Typed
<1>2. Cardinality(active) \in Nat /\ Cardinality(active) # 0
  BY <1>1, FS_CardinalityType, FS_EmptySet
<1>3. ASSUME NEW d PROVE IsFiniteSet(Appending(d)) /\ Cardinality(Appending(d)) \in Nat
  <2>1. Appending(d) \in SUBSET active
    BY DEF Appending
  <2> QED BY <1>1, <2>1, FS_Subset, FS_CardinalityType
<1> QED BY <1>1, <1>2, <1>3

(* Deques that do not grow, while nobody comes to append.                   *)
LEMMA CountsKept ==
    ASSUME Typed, CountsBounded, Typed', active' = active,
           \A d \in DOMAIN deques' :
               \/ d \in DOMAIN deques /\ Len(deques'[d]) <= Len(deques[d])
               \/ d \notin DOMAIN deques /\ Len(deques'[d]) = 0,
           \A u \in active : thread'[u].at = "append" =>
               thread[u].at = "append" /\ thread'[u].deque = thread[u].deque
    PROVE  CountsBounded'
<1> SUFFICES ASSUME NEW d \in DOMAIN deques'
             PROVE  Len(deques'[d]) + Cardinality(Appending(d)') <= Limit + Cardinality(active) - 1
  BY DEF CountsBounded
<1>1. Appending(d)' \in SUBSET Appending(d)
  BY DEF Appending
<1>2. /\ Cardinality(Appending(d)') <= Cardinality(Appending(d)) /\ Cardinality(Appending(d)) \in Nat
      /\ Cardinality(Appending(d)') \in Nat
  BY <1>1, ActiveCounts, FS_Subset, FS_CardinalityType
<1>3. Len(deques'[d]) \in Nat
  BY DEF Typed, Buckets
<1>4. Limit \in Nat \ {0} /\ Cardinality(active) \in Nat /\ Cardinality(active) >= 1
  BY LimiterAssumption, ActiveCounts
<1>5. CASE d \in DOMAIN deques /\ Len(deques'[d]) <= Len(deques[d])
  <2>1. Len(deques[d]) + Cardinality(Appending(d)) <= Limit + Cardinality(active) - 1
    BY <1>5 DEF CountsBounded
  <2>2. Len(deques[d]) \in Nat
    BY <1>5, DequeTyped
  <2>3. Len(deques'[d]) <= Len(deques[d]) /\ Len(deques'[d]) \in Nat
    BY <1>3, <1>5
  <2> DEFINE x == Len(deques'[d])
             y == Len(deques[d])
             a == Cardinality(Appending(d)')
             b == Cardinality(Appending(d))
             m == Limit + Cardinality(active) - 1
  <2>4. x <= y /\ a <= b /\ y + b <= m /\ x \in Nat /\ y \in Nat /\ a \in Nat /\ b \in Nat /\ m \in Int
    BY <1>2, <1>4, <2>1, <2>2, <2>3
  <2> HIDE DEF x, y, a, b, m
  <2>5. x + a <= m
    BY <2>4
  <2> QED BY <2>5 DEF x, a, m
<1>6. CASE d \notin DOMAIN deques /\ Len(deques'[d]) = 0
  <2>1. Appending(d) = {}
    BY <1>6, PlaceTyped DEF Appending, Holding, Typed
  <2>2. Cardinality(Appending(d)') = 0
    BY <1>1, <2>1, FS_EmptySet
  <2> QED BY <1>4, <1>6, <2>2
<1> QED BY <1>5, <1>6

LEMMA InitCounts == Init => CountsBounded
  BY EmptySeq DEF Init, CountsBounded

LEMMA CountsAppending ==
    ASSUME Typed, CountsBounded, Typed', NEW t \in Threads, MayAppend(t)
    PROVE  CountsBounded'
<1>1. /\ t \in active /\ Holding(t) /\ thread[t].at = "count" /\ Len(Held(t)) < Limit
      /\ deques' = deques /\ active' = active /\ thread' = [thread EXCEPT ![t].at = "append"]
  BY PlaceTyped DEF MayAppend, Counted, Goes, Holding
<1>2. \A u \in Threads : u # t => thread'[u] = thread[u]
  BY <1>1 DEF Typed, ThreadsSound
<1>3. thread'[t].at = "append" /\ thread'[t].deque = thread[t].deque
  BY <1>1, PlaceTyped DEF Typed, ThreadsSound, Place
<1> SUFFICES ASSUME NEW d \in DOMAIN deques
             PROVE  Len(deques[d]) + Cardinality(Appending(d)') <= Limit + Cardinality(active) - 1
  BY <1>1 DEF CountsBounded
<1>4. Len(deques[d]) + Cardinality(Appending(d)) <= Limit + Cardinality(active) - 1
  BY DEF CountsBounded
<1>5. t \notin Appending(d) /\ IsFiniteSet(Appending(d)) /\ Cardinality(Appending(d)) \in Nat
      /\ IsFiniteSet(active) /\ Cardinality(active) \in Nat /\ Limit \in Nat /\ Len(deques[d]) \in Nat
  BY <1>1, ActiveCounts, DequeTyped, LimiterAssumption DEF Appending
<1>6. CASE d # thread[t].deque
  <2>1. Appending(d)' = Appending(d)
    BY <1>1, <1>2, <1>3, <1>6 DEF Appending, Typed
  <2> QED BY <1>4, <2>1
<1>7. CASE d = thread[t].deque
  <2>1. Appending(d)' = Appending(d) \cup {t}
    BY <1>1, <1>2, <1>3, <1>7 DEF Appending, Typed
  <2>2. Cardinality(Appending(d)') = Cardinality(Appending(d)) + 1
    BY <1>5, <2>1, FS_AddElement
  <2>3. Appending(d) \in SUBSET (active \ {t})
    BY <1>5 DEF Appending
  <2>4. IsFiniteSet(active \ {t}) /\ Cardinality(active \ {t}) = Cardinality(active) - 1
    BY <1>1, <1>5, FS_RemoveElement
  <2>5. Cardinality(Appending(d)) <= Cardinality(active) - 1
    BY <2>3, <2>4, FS_Subset
  <2>6. Len(deques[d]) < Limit
    BY <1>1, <1>7 DEF Held
  <2> QED BY <1>5, <2>2, <2>5, <2>6
<1> QED BY <1>6, <1>7

LEMMA CountsAdmit ==
    ASSUME Typed, CountsBounded, Typed', NEW t \in Threads, Admit(t)
    PROVE  CountsBounded'
<1> DEFINE h == thread[t].deque
<1>1. /\ t \in active /\ Holding(t) /\ thread[t].at = "append" /\ h \in DOMAIN deques
      /\ active' = active /\ thread' = [thread EXCEPT ![t] = Rest]
      /\ deques' = [deques EXCEPT ![h] = Append(Held(t), thread[t].now)]
      /\ Held(t) \in Seq(Nat) /\ Held(t) = deques[h] /\ thread[t].now \in Nat
  BY PlaceTyped, HeldBucket DEF Admit, Holding, Held
<1>2. /\ \A u \in Threads : u # t => thread'[u] = thread[u]
      /\ thread'[t].at # "append"
  BY <1>1 DEF Typed, ThreadsSound, Rest
<1> SUFFICES ASSUME NEW d \in DOMAIN deques
             PROVE  Len(deques'[d]) + Cardinality(Appending(d)') <= Limit + Cardinality(active) - 1
  BY <1>1 DEF CountsBounded
<1>3. Len(deques[d]) + Cardinality(Appending(d)) <= Limit + Cardinality(active) - 1
  BY DEF CountsBounded
<1>4. IsFiniteSet(Appending(d)) /\ Cardinality(Appending(d)) \in Nat
      /\ Cardinality(active) \in Nat /\ Limit \in Nat /\ Len(deques[d]) \in Nat
  BY ActiveCounts, DequeTyped, LimiterAssumption
<1>5. CASE d # h
  <2>1. Appending(d)' = Appending(d)
    BY <1>1, <1>2, <1>5 DEF Appending, Typed
  <2>2. deques'[d] = deques[d]
    BY <1>1, <1>5
  <2> QED BY <1>3, <2>1, <2>2
<1>6. CASE d = h
  <2>1. Appending(d)' = Appending(d) \ {t} /\ t \in Appending(d)
    BY <1>1, <1>2, <1>6 DEF Appending, Typed
  <2>2. Cardinality(Appending(d)') = Cardinality(Appending(d)) - 1
    BY <1>4, <2>1, FS_RemoveElement
  <2>3. Len(deques'[d]) = Len(deques[d]) + 1
    <3>1. deques'[d] = Append(Held(t), thread[t].now)
      BY <1>1, <1>6
    <3>2. Len(Append(Held(t), thread[t].now)) = Len(Held(t)) + 1
      BY <1>1
    <3> QED BY <1>1, <1>6, <3>1, <3>2
  <2> QED BY <1>3, <1>4, <2>2, <2>3
<1> QED BY <1>5, <1>6

LEMMA NextCounts == Typed /\ CountsBounded /\ [Next]_vars => CountsBounded'
<1> SUFFICES ASSUME Typed, CountsBounded, [Next]_vars PROVE CountsBounded'
  OBVIOUS
<1>1. Typed'
  BY NextTyped
<1>2. \A d \in DOMAIN deques : Len(deques[d]) \in Nat /\ Len(deques[d]) <= Len(deques[d])
  BY DequeTyped
<1>3. thread \in [Threads -> Place] /\ active \in SUBSET Threads
  BY DEF Typed, ThreadsSound, Place
<1>4. CASE UNCHANGED vars
  BY <1>1, <1>2, <1>4, CountsKept DEF vars
<1>5. CASE Tick
  BY <1>1, <1>2, <1>5, CountsKept DEF Tick
<1>6. ASSUME NEW t \in Threads, Allow(t) PROVE CountsBounded'
  <2>1. CASE Look(t) \/ Sort(t) \/ SeesExpired(t) \/ PopRaises(t) \/ Deny(t)
             \/ DeleteStale(t) \/ Evict(t) \/ EvictionRaises(t)
    <3>1. deques' = deques /\ active' = active
      BY <2>1 DEF Look, Sort, SeesExpired, PopRaises, Deny, DeleteStale, Evict, EvictionRaises
    <3>2. ASSUME NEW u \in active, thread'[u].at = "append"
          PROVE  thread[u].at = "append" /\ thread'[u].deque = thread[u].deque
      <4>1. CASE u # t
        <5>1. thread'[u] = thread[u]
          BY <1>3, <2>1, <4>1 DEF Look, Sort, SeesExpired, PopRaises, Deny, DeleteStale, Evict, EvictionRaises, Goes
        <5> QED BY <3>2, <5>1
      <4>2. CASE u = t
        <5>1. thread'[t].at # "append"
          <6>1. CASE Look(t) \/ SeesExpired(t) \/ Sort(t)
            <7>1. \E to \in {"take", "scan", "pop"} : thread' = [thread EXCEPT ![t].at = to]
                  \/ \E S : thread' = [thread EXCEPT ![t].at = "evict", ![t].chosen = S]
              BY <6>1 DEF Look, SeesExpired, Sort, Goes
            <7> QED BY <1>3, <7>1 DEF Place
          <6>2. CASE PopRaises(t) \/ Deny(t) \/ EvictionRaises(t)
            <7>1. thread' = [thread EXCEPT ![t] = Rest]
              BY <6>2 DEF PopRaises, Deny, EvictionRaises
            <7>2. Rest.at # "append"
              BY DEF Rest
            <7>3. thread'[t] = Rest
              BY <1>3, <7>1
            <7> QED BY <7>2, <7>3
          <6>3. CASE DeleteStale(t) \/ Evict(t)
            <7>1. \E to \in {"take", "sort"} : thread' = [thread EXCEPT ![t].chosen = {}, ![t].at = to]
                  \/ thread' = [thread EXCEPT ![t].at = "take", ![t].chosen = {}]
              BY <6>3 DEF DeleteStale, Evict
            <7> QED BY <1>3, <7>1 DEF Place
          <6> QED BY <2>1, <6>1, <6>2, <6>3
        <5> QED BY <3>2, <4>2, <5>1
      <4> QED BY <4>1, <4>2
    <3> QED BY <1>1, <1>2, <3>1, <3>2, CountsKept
  <2>2. CASE Scan(t)
    <3>1. DOMAIN deques' = DOMAIN deques /\ active' = active
      BY <2>2, ScanLeaves DEF Scan
    <3>2. ASSUME NEW d \in DOMAIN deques PROVE Len(deques'[d]) <= Len(deques[d])
      <4>1. deques[d] \in Seq(Nat) /\ thread[t].now \in Nat
        BY DequeTyped, PlaceTyped DEF Place
      <4>2. PICK n \in 0 .. Len(deques[d]) : Len(Popped(deques[d], thread[t].now)) = Len(deques[d]) - n
        BY <4>1, PoppedSound
      <4>3. deques'[d] = deques[d] \/ deques'[d] = Popped(deques[d], thread[t].now)
        BY <2>2, ScanLeaves
      <4> QED BY <1>2, <4>2, <4>3
    <3>3. ASSUME NEW u \in active, thread'[u].at = "append"
          PROVE  thread[u].at = "append" /\ thread'[u].deque = thread[u].deque
      <4>1. \E S : thread' = [thread EXCEPT ![t].at = "stale", ![t].chosen = S]
        BY <2>2 DEF Scan
      <4>2. u # t => thread'[u] = thread[u]
        BY <1>3, <4>1
      <4>3. thread'[t].at = "stale"
        BY <1>3, <4>1 DEF Place
      <4> QED BY <3>3, <4>2, <4>3
    <3> QED BY <1>1, <3>1, <3>2, <3>3, CountsKept
  <2>3. CASE Take(t)
    <3>1. active' = active
      BY <2>3 DEF Take
    <3>2. ASSUME NEW d \in DOMAIN deques'
          PROVE  \/ d \in DOMAIN deques /\ Len(deques'[d]) <= Len(deques[d])
                 \/ d \notin DOMAIN deques /\ Len(deques'[d]) = 0
      <4>1. CASE d \in DOMAIN deques
        <5>1. deques'[d] = deques[d]
          BY <2>3, <4>1, TakeChanges
        <5> QED BY <1>2, <4>1, <5>1
      <4>2. CASE d \notin DOMAIN deques
        <5>1. deques' = Append(deques, <<>>)
          BY <2>3, <4>2, TakeChanges
        <5>2. deques \in Seq(Seq(Nat)) /\ Len(deques) \in Nat /\ DOMAIN deques = 1 .. Len(deques)
          BY DequeTyped DEF Typed, Buckets
        <5>3. <<>> \in Seq(Nat) /\ Len(<<>>) = 0
          BY EmptySeq
        <5>4. DOMAIN deques' = 1 .. Len(deques) + 1 /\ deques'[Len(deques) + 1] = <<>>
          BY <5>1, <5>2, <5>3
        <5>5. d = Len(deques) + 1
          BY <4>2, <5>2, <5>4
        <5> QED BY <4>2, <5>3, <5>4, <5>5
      <4> QED BY <4>1, <4>2
    <3>3. ASSUME NEW u \in active, thread'[u].at = "append"
          PROVE  thread[u].at = "append" /\ thread'[u].deque = thread[u].deque
      <4>1. \E n : thread' = [thread EXCEPT ![t].at = "count", ![t].deque = n]
        BY <2>3 DEF Take
      <4>2. u # t => thread'[u] = thread[u]
        BY <1>3, <4>1
      <4>3. thread'[t].at = "count"
        BY <1>3, <4>1 DEF Place
      <4> QED BY <3>3, <4>2, <4>3
    <3> QED BY <1>1, <3>1, <3>2, <3>3, CountsKept
  <2>4. CASE Pop(t)
    <3>1. /\ active' = active /\ thread[t].deque \in DOMAIN deques
          /\ Held(t) \in Seq(Nat) /\ Held(t) = deques[thread[t].deque] /\ Held(t) # <<>>
          /\ deques' = [deques EXCEPT ![thread[t].deque] = Tail(Held(t))]
          /\ thread' = [thread EXCEPT ![t].at = "count"]
      BY <2>4, HeldBucket DEF Pop, Holding, Goes, Held
    <3>2. Len(Tail(Held(t))) <= Len(Held(t))
      BY <3>1
    <3>3. DOMAIN deques' = DOMAIN deques /\ \A d \in DOMAIN deques : Len(deques'[d]) <= Len(deques[d])
      BY <1>2, <3>1, <3>2
    <3>4. \A u \in active : thread'[u].at = "append" =>
              thread[u].at = "append" /\ thread'[u].deque = thread[u].deque
      BY <1>3, <3>1 DEF Place
    <3> QED BY <1>1, <3>1, <3>3, <3>4, CountsKept
  <2> QED BY <1>1, <1>6, <2>1, <2>2, <2>3, <2>4, CountsAppending, CountsAdmit DEF Allow
<1>7. ASSUME NEW t \in Threads, NEW k \in Keys, Call(t, k) PROVE CountsBounded'
  <2>1. deques' = deques /\ active' = active
        /\ thread' = [thread EXCEPT ![t] = [Rest EXCEPT !.at = "called", !.key = k, !.now = clock]]
    BY <1>7 DEF Call
  <2>2. [Rest EXCEPT !.at = "called", !.key = k, !.now = clock].at # "append"
    BY DEF Rest
  <2>3. \A u \in active : thread'[u].at = "append" =>
            thread[u].at = "append" /\ thread'[u].deque = thread[u].deque
    BY <1>3, <2>1, <2>2
  <2> QED BY <1>1, <1>2, <2>1, <2>3, CountsKept
<1> QED BY <1>4, <1>5, <1>6, <1>7 DEF Next

-----------------------------------------------------------------------------
(* Third part, for one thread alone: a deque is what its bucket's history   *)
(* ends with, what it no longer has is expired, the history is ordered, and *)
(* of two admissions a limit apart the later one comes a window after.      *)

History(a, d, now) ==
    /\ Len(d) <= Len(a)
    /\ \A i \in 1 .. Len(d) : d[i] = a[Len(a) - Len(d) + i]
    /\ \A i \in 1 .. Len(a) - Len(d) : Expired(a[i], now)
    /\ \A i \in 1 .. Len(a) : a[i] <= now
    /\ \A i, j \in 1 .. Len(a) : i <= j => a[i] <= a[j]
    /\ \A i, j \in 1 .. Len(a) : i + Limit <= j => a[i] + Window <= a[j]

LEMMA HistoryLater ==
    ASSUME NEW a \in Seq(Nat), NEW d \in Seq(Nat), NEW now \in Nat, NEW later \in Nat,
           now <= later, History(a, d, now)
    PROVE  History(a, d, later)
<1>1. Len(a) \in Nat /\ Len(d) \in Nat /\ Len(d) <= Len(a) /\ \A i \in 1 .. Len(a) : a[i] \in Nat
  BY DEF History
<1>2. ASSUME NEW i \in 1 .. Len(a) - Len(d) PROVE Expired(a[i], later)
  <2>1. i \in 1 .. Len(a)
    BY <1>1
  <2>2. a[i] \in Nat /\ Expired(a[i], now)
    BY <1>1, <2>1 DEF History
  <2> QED BY <2>2, ExpiredStays
<1>3. ASSUME NEW i \in 1 .. Len(a) PROVE a[i] <= later
  BY <1>1 DEF History
<1> QED BY <1>2, <1>3 DEF History

LEMMA HistoryDrops ==
    ASSUME NEW a \in Seq(Nat), NEW d \in Seq(Nat), NEW r \in Seq(Nat), NEW now \in Nat,
           NEW n \in 0 .. Len(d), Len(r) = Len(d) - n,
           \A i \in 1 .. Len(d) - n : r[i] = d[i + n],
           \A i \in 1 .. n : Expired(d[i], now),
           History(a, d, now)
    PROVE  History(a, r, now)
<1>1. Len(a) \in Nat /\ Len(d) \in Nat /\ Len(d) <= Len(a) /\ n \in Nat /\ n <= Len(d)
  BY DEF History
<1>2. Len(r) <= Len(a)
  BY <1>1
<1>3. ASSUME NEW i \in 1 .. Len(r) PROVE r[i] = a[Len(a) - Len(r) + i]
  <2>1. i + n \in 1 .. Len(d) /\ Len(a) - Len(d) + (i + n) = Len(a) - Len(r) + i
    BY <1>1
  <2>2. r[i] = d[i + n] /\ d[i + n] = a[Len(a) - Len(d) + (i + n)]
    BY <2>1 DEF History
  <2> QED BY <2>1, <2>2
<1>4. ASSUME NEW i \in 1 .. Len(a) - Len(r) PROVE Expired(a[i], now)
  <2>1. CASE i \in 1 .. Len(a) - Len(d)
    BY <2>1 DEF History
  <2>2. CASE i \notin 1 .. Len(a) - Len(d)
    <3> DEFINE j == i - (Len(a) - Len(d))
    <3>1. j \in 1 .. n /\ j \in 1 .. Len(d) /\ Len(a) - Len(d) + j = i
      <4>1. i \in 1 .. Len(a) - (Len(d) - n)
        OBVIOUS
      <4> QED BY <1>1, <2>2, <4>1, SMTT(60)
    <3> HIDE DEF j
    <3>2. d[j] = a[i] /\ Expired(d[j], now)
      BY <3>1 DEF History
    <3> QED BY <3>2
  <2> QED BY <2>1, <2>2
<1> QED BY <1>2, <1>3, <1>4 DEF History

LEMMA HistoryAdds ==
    ASSUME NEW a \in Seq(Nat), NEW d \in Seq(Nat), NEW now \in Nat,
           Len(d) < Limit, History(a, d, now)
    PROVE  History(Append(a, now), Append(d, now), now)
<1> DEFINE b == Append(a, now)
           e == Append(d, now)
<1>1. /\ Len(a) \in Nat /\ Len(d) \in Nat /\ Len(d) <= Len(a)
      /\ Limit \in Nat \ {0} /\ Window \in Nat \ {0}
  BY LimiterAssumption DEF History
<1>2. /\ b[Len(a) + 1] = now /\ \A i \in 1 .. Len(a) : b[i] = a[i] /\ a[i] \in Nat
      /\ e[Len(d) + 1] = now /\ \A i \in 1 .. Len(d) : e[i] = d[i]
  OBVIOUS
<1>8. Len(b) = Len(a) + 1 /\ Len(e) = Len(d) + 1
  OBVIOUS
<1> HIDE DEF b, e
<1>3. Len(e) <= Len(b) /\ Len(b) - Len(e) = Len(a) - Len(d)
  BY <1>1, <1>8
<1>4. ASSUME NEW i \in 1 .. Len(e) PROVE e[i] = b[Len(b) - Len(e) + i]
  <2>1. CASE i = Len(d) + 1
    <3>1. Len(b) - Len(e) + i = Len(a) + 1
      BY <1>1, <1>8, <2>1, SMTT(60)
    <3> QED BY <1>2, <2>1, <3>1
  <2>2. CASE i # Len(d) + 1
    <3>1. i \in 1 .. Len(d) /\ Len(a) - Len(d) + i \in 1 .. Len(a)
      BY <1>1, <1>8, <2>2
    <3>2. d[i] = a[Len(a) - Len(d) + i]
      BY <3>1 DEF History
    <3> QED BY <1>2, <1>3, <3>1, <3>2
  <2> QED BY <2>1, <2>2
<1>5. ASSUME NEW i \in 1 .. Len(b) - Len(e) PROVE Expired(b[i], now)
  <2>1. i \in 1 .. Len(a) - Len(d) /\ i \in 1 .. Len(a)
    BY <1>1, <1>3
  <2> QED BY <1>2, <2>1 DEF History
<1>6. ASSUME NEW i \in 1 .. Len(b) PROVE b[i] \in Nat /\ b[i] <= now
  <2>1. CASE i = Len(a) + 1
    BY <1>2, <2>1
  <2>2. CASE i # Len(a) + 1
    <3>1. i \in 1 .. Len(a)
      BY <1>1, <1>8, <2>2
    <3> QED BY <1>2, <3>1 DEF History
  <2> QED BY <2>1, <2>2
<1>7. ASSUME NEW i \in 1 .. Len(b), NEW j \in 1 .. Len(b)
      PROVE  /\ i <= j => b[i] <= b[j]
             /\ i + Limit <= j => b[i] + Window <= b[j]
  <2>1. CASE j = Len(a) + 1
    <3>1. b[j] = now /\ b[i] \in Nat /\ b[i] <= now
      BY <1>2, <1>6, <2>1
    <3>2. ASSUME i + Limit <= j PROVE b[i] + Window <= now
      <4>1. i \in 1 .. Len(a) - Len(d) /\ i \in 1 .. Len(a)
        BY <1>1, <1>8, <2>1, <3>2, SMTT(60)
      <4>2. Expired(a[i], now) /\ b[i] = a[i]
        BY <1>2, <4>1 DEF History
      <4>3. now - b[i] >= Window
        BY <4>2 DEF Expired
      <4> QED BY <1>1, <3>1, <4>3, SMTT(60)
    <3> QED BY <3>1, <3>2
  <2>2. CASE j # Len(a) + 1
    <3>1. j \in 1 .. Len(a)
      BY <1>1, <1>8, <2>2, SMTT(60)
    <3>2. CASE i \in 1 .. Len(a)
      BY <1>2, <3>1, <3>2 DEF History
    <3>3. CASE i \notin 1 .. Len(a)
      <4>1. ~(i <= j) /\ ~(i + Limit <= j)
        BY <1>1, <1>8, <3>1, <3>3
      <4> QED BY <4>1
    <3> QED BY <3>2, <3>3
  <2> QED BY <2>1, <2>2
<1> QED BY <1>3, <1>4, <1>5, <1>6, <1>7 DEF History, b, e

LEMMA HistoryEmpty == ASSUME NEW now \in Nat PROVE History(<<>>, <<>>, now)
  BY EmptySeq DEF History

(* What still counts of a history is in its deque, and all of the deque     *)
(* counts once its first time does.                                         *)
LEMMA HistoryLive ==
    ASSUME NEW a \in Seq(Nat), NEW d \in Seq(Nat), NEW now \in Nat, History(a, d, now)
    PROVE  Cardinality(Live(a, now)) <= Len(d)
<1> DEFINE n == Len(a) - Len(d)
<1>1. Len(a) \in Nat /\ Len(d) \in Nat /\ Len(d) <= Len(a) /\ DOMAIN a = 1 .. Len(a) /\ n \in Int
  BY DEF History
<1>2. IsFiniteSet(1 .. Len(d)) /\ Cardinality(1 .. Len(d)) = Len(d)
  <2>1. 1 \in Int /\ Len(d) \in Int /\ (1 > Len(d) => Len(d) = 0) /\ Len(d) - 1 + 1 = Len(d)
    BY <1>1
  <2>2. /\ IsFiniteSet(1 .. Len(d))
        /\ Cardinality(1 .. Len(d)) = IF 1 > Len(d) THEN 0 ELSE Len(d) - 1 + 1
    BY <2>1, FS_Interval
  <2> QED BY <2>1, <2>2
<1>3. ASSUME NEW i \in Live(a, now) PROVE i \in Nat /\ i - n \in 1 .. Len(d)
  <2>1. i \in 1 .. Len(a) /\ ~Expired(a[i], now)
    BY <1>1 DEF Live
  <2>2. i \notin 1 .. Len(a) - Len(d)
    BY <2>1 DEF History
  <2> QED BY <1>1, <2>1, <2>2
<1> HIDE DEF n
<1> QED BY <1>1, <1>2, <1>3, Moved

LEMMA HistoryCounts ==
    ASSUME NEW a \in Seq(Nat), NEW d \in Seq(Nat), NEW now \in Nat, History(a, d, now),
           d = <<>> \/ ~Expired(d[1], now)
    PROVE  Len(d) <= Cardinality(Live(a, now))
<1> DEFINE n == Len(d) - Len(a)
<1>1. /\ Len(a) \in Nat /\ Len(d) \in Nat /\ Len(d) <= Len(a) /\ DOMAIN a = 1 .. Len(a) /\ n \in Int
      /\ \A i \in 1 .. Len(a) : a[i] \in Nat
  BY DEF History
<1>2. IsFiniteSet(1 .. Len(d)) /\ Cardinality(1 .. Len(d)) = Len(d)
  <2>1. 1 \in Int /\ Len(d) \in Int /\ (1 > Len(d) => Len(d) = 0) /\ Len(d) - 1 + 1 = Len(d)
    BY <1>1
  <2>2. /\ IsFiniteSet(1 .. Len(d))
        /\ Cardinality(1 .. Len(d)) = IF 1 > Len(d) THEN 0 ELSE Len(d) - 1 + 1
    BY <2>1, FS_Interval
  <2> QED BY <2>1, <2>2
<1>3. ASSUME NEW i \in 1 .. Len(d) PROVE i \in Nat /\ i - n \in Live(a, now)
  <2>1. 1 \in 1 .. Len(d) /\ d # <<>>
    BY <1>1, EmptySeq
  <2>2. /\ d[1] = a[Len(a) - Len(d) + 1]
        /\ Len(a) - Len(d) + 1 \in 1 .. Len(a) /\ Len(a) - Len(d) + i \in 1 .. Len(a)
        /\ Len(a) - Len(d) + 1 <= Len(a) - Len(d) + i
        /\ i - n = Len(a) - Len(d) + i
    BY <1>1, <2>1 DEF History
  <2>3. d[1] <= a[i - n] /\ d[1] \in Nat /\ a[i - n] \in Nat
    BY <1>1, <2>2 DEF History
  <2>4. ~Expired(d[1], now)
    BY <2>1
  <2>5. ~Expired(a[i - n], now)
    <3> DEFINE x == d[1]
               y == a[i - n]
    <3>1. x \in Nat /\ y \in Nat /\ x <= y /\ ~(now - x >= Window)
      BY <2>3, <2>4 DEF Expired
    <3> HIDE DEF x, y
    <3>2. ~(now - y >= Window)
      BY <3>1, LimiterAssumption
    <3> QED BY <3>2 DEF Expired, y
  <2> HIDE DEF n
  <2> QED BY <1>1, <2>2, <2>5 DEF Live
<1> HIDE DEF n
<1>4. IsFiniteSet(Live(a, now))
  BY LiveCounts
<1> QED BY <1>1, <1>2, <1>3, <1>4, Moved

(* A spaced history has at most a limit of admissions in any window.        *)
LEMMA HistoryWindow ==
    ASSUME NEW a \in Seq(Nat), NEW d \in Seq(Nat), NEW now \in Nat, History(a, d, now), NEW since \in Nat
    PROVE  Cardinality(Within(a, since)) <= Limit
<1> DEFINE W == Within(a, since)
<1>1. /\ Len(a) \in Nat /\ DOMAIN a = 1 .. Len(a) /\ \A i \in 1 .. Len(a) : a[i] \in Nat
      /\ Limit \in Nat \ {0} /\ Window \in Nat \ {0}
  BY LimiterAssumption DEF History
<1>2. \A i \in W : i \in 1 .. Len(a) /\ since <= a[i] /\ a[i] < since + Window
  BY <1>1 DEF Within
<1> HIDE DEF W
<1>3. CASE W = {}
  BY <1>1, <1>3, FS_EmptySet DEF W
<1>4. CASE W # {}
  <2>1. PICK m \in W : \A i \in W : m <= i
    <3>1. W \in SUBSET Nat
      BY <1>1, <1>2
    <3> QED BY <1>4, <3>1, Least
  <2>2. \A i \in W : i < m + Limit /\ m <= i
    <3> SUFFICES ASSUME NEW i \in W PROVE i < m + Limit
      BY <2>1
    <3>1. /\ i \in 1 .. Len(a) /\ m \in 1 .. Len(a) /\ a[i] < since + Window /\ since <= a[m]
          /\ a[i] \in Nat /\ a[m] \in Nat
      BY <1>1, <1>2, <2>1
    <3>2. m + Limit <= i => a[m] + Window <= a[i]
      BY <3>1 DEF History
    <3> QED BY <1>1, <3>1, <3>2
  <2> DEFINE top == m + Limit - 1
  <2>3. m \in Int /\ top \in Int /\ top - m + 1 = Limit /\ ~(m > top)
    <3>1. m \in Int
      BY <1>2, <2>1
    <3> QED BY <1>1, <3>1
  <2>4. W \in SUBSET (m .. top)
    BY <1>1, <1>2, <2>1, <2>2
  <2> HIDE DEF top
  <2>5. IsFiniteSet(m .. top) /\ Cardinality(m .. top) = IF m > top THEN 0 ELSE top - m + 1
    BY <2>3, FS_Interval
  <2>6. Cardinality(W) <= Limit
    <3>1. Cardinality(m .. top) = Limit
      BY <2>3, <2>5
    <3>2. Cardinality(W) <= Cardinality(m .. top)
      BY <2>4, <2>5, FS_Subset
    <3> QED BY <3>1, <3>2
  <2> QED BY <2>6 DEF W
<1> QED BY <1>3, <1>4

-----------------------------------------------------------------------------
(* What holds while a thread t is the only one.                             *)

Now(t) == IF thread[t].at = "rest" THEN clock ELSE thread[t].now

HistoryTold(t) == \A k \in Tracked : History(admitted[k], deques[events[k]], Now(t))

(* What the thread has seen is still so when it acts on it.                 *)
ThreadTold(t) ==
    /\ Holding(t) => Linked(t)
    /\ thread[t].at = "pop" => Held(t) # <<>> /\ Expired(Held(t)[1], thread[t].now)
    /\ thread[t].at = "append" => Len(Held(t)) < Limit

Swept(k, now) == deques[events[k]] = <<>> \/ ~Expired(deques[events[k]][1], now)

MapTold(t) ==
    /\ Cardinality(Tracked) <= MaxKeys
    /\ thread[t].at = "take" /\ thread[t].key \notin Tracked => Cardinality(Tracked) < MaxKeys
    /\ thread[t].at \in {"stale", "evict"} => thread[t].chosen \subseteq Tracked
    /\ thread[t].at \in {"stale", "sort", "evict"} => \A k \in Tracked : Swept(k, thread[t].now)
    /\ thread[t].at = "stale" => \A k \in thread[t].chosen : deques[events[k]] = <<>>
    /\ thread[t].at = "sort" => Cardinality(Tracked) >= MaxKeys
    /\ thread[t].at = "evict" =>
           /\ Cardinality(Tracked \ thread[t].chosen) < MaxKeys
           /\ \A j \in thread[t].chosen, k \in Tracked \ thread[t].chosen : Full(j) => Full(k)

RefusalTold(t) ==
    ~verdict.ok =>
        /\ thread[t].at = "rest"
        /\ verdict.key \in Tracked => Cardinality(Live(admitted[verdict.key], verdict.now)) >= Limit

Alone == \A t \in Threads : active = {t} => HistoryTold(t) /\ ThreadTold(t) /\ MapTold(t) /\ RefusalTold(t)

LEMMA InitAlone == Init => Alone
<1> SUFFICES ASSUME Init, NEW t \in Threads PROVE HistoryTold(t) /\ ThreadTold(t) /\ MapTold(t) /\ RefusalTold(t)
  BY DEF Alone
<1>1. Tracked = {} /\ thread[t] = Rest /\ verdict.ok
  BY DEF Init, Tracked
<1>2. Cardinality(Tracked) = 0 /\ MaxKeys \in Nat
  BY <1>1, FS_EmptySet, LimiterAssumption
<1>3. thread[t].at = "rest"
  BY <1>1 DEF Rest
<1> QED BY <1>1, <1>2, <1>3 DEF HistoryTold, ThreadTold, MapTold, RefusalTold, Holding

(* With one thread only it and the clock move, and no eviction raises.      *)
LEMMA Movers ==
    ASSUME Typed, [Next]_vars, NEW t \in Threads, active = {t}
    PROVE  \/ UNCHANGED vars \/ Tick \/ \E k \in Keys : Call(t, k)
           \/ Look(t) \/ Scan(t) \/ DeleteStale(t) \/ Sort(t) \/ Evict(t) \/ Take(t)
           \/ SeesExpired(t) \/ Pop(t) \/ PopRaises(t) \/ Deny(t) \/ MayAppend(t) \/ Admit(t)
<1>1. ASSUME NEW u \in Threads, Allow(u) PROVE u = t /\ ~EvictionRaises(u)
  <2>1. thread[u].at # "rest"
    BY <1>1 DEF Allow, Look, Scan, DeleteStale, Sort, Evict, EvictionRaises, Take, SeesExpired, Pop,
         PopRaises, Deny, Counted, MayAppend, Admit
  <2>2. u = t
    BY <2>1, PlaceTyped
  <2> QED BY <2>2 DEF EvictionRaises
<1>2. ASSUME NEW u \in Threads, NEW k \in Keys, Call(u, k) PROVE u = t
  BY <1>2 DEF Call
<1> QED BY <1>1, <1>2 DEF Next, Allow

LEMMA NowTyped ==
    ASSUME Typed, NEW t \in Threads
    PROVE  /\ Now(t) \in Nat /\ Now(t) <= clock /\ clock \in Nat
           /\ thread[t].at # "rest" => Now(t) = thread[t].now
<1>1. clock \in Nat /\ thread[t].now \in Nat /\ thread[t].now <= clock
  BY PlaceTyped DEF Place, Typed
<1> QED BY <1>1 DEF Now

-----------------------------------------------------------------------------
(* The histories.                                                           *)

LEMMA HistoryKept ==
    ASSUME Typed, Typed', NEW t \in Threads, HistoryTold(t),
           \A k \in Tracked' : /\ k \in Tracked /\ events'[k] = events[k] /\ admitted'[k] = admitted[k]
                               /\ deques'[events[k]] = deques[events[k]],
           Now(t) <= Now(t)'
    PROVE  HistoryTold(t)'
<1> SUFFICES ASSUME NEW k \in Tracked' PROVE History(admitted[k], deques[events[k]], Now(t)')
  BY DEF HistoryTold
<1>1. k \in Tracked /\ History(admitted[k], deques[events[k]], Now(t))
  BY DEF HistoryTold
<1>2. admitted[k] \in Seq(Nat) /\ deques[events[k]] \in Seq(Nat)
  BY <1>1, DequeTyped
<1>3. Now(t) \in Nat /\ Now(t)' \in Nat
  <2>1. Now(t) \in Nat
    BY NowTyped
  <2>2. clock' \in Nat /\ thread'[t].now \in Nat
    BY DEF Typed, ThreadsSound
  <2>3. Now(t)' \in Nat
    BY <2>2 DEF Now
  <2> QED BY <2>1, <2>3
<1> QED BY <1>1, <1>2, <1>3, HistoryLater

LEMMA HistoryScan ==
    ASSUME Typed, NEW t \in Threads, HistoryTold(t), Scan(t)
    PROVE  HistoryTold(t)'
<1>1. UNCHANGED <<clock, events, admitted>> /\ Tracked' = Tracked
  BY DEF Scan, Tracked
<1>2. Now(t) \in Nat /\ Now(t) = thread[t].now /\ Now(t)' = Now(t)
  <2>1. \E S : thread' = [thread EXCEPT ![t].at = "stale", ![t].chosen = S]
    BY DEF Scan
  <2>2. thread'[t].at = "stale" /\ thread'[t].now = thread[t].now
    BY <2>1 DEF Typed, ThreadsSound
  <2>3. Now(t) \in Nat /\ Now(t) = thread[t].now
    BY NowTyped DEF Scan
  <2> QED BY <2>2, <2>3 DEF Now
<1> SUFFICES ASSUME NEW k \in Tracked PROVE History(admitted[k], deques'[events[k]], Now(t))
  BY <1>1, <1>2 DEF HistoryTold
<1> DEFINE a == admitted[k]
           d == deques[events[k]]
           r == deques'[events[k]]
<1>3. a \in Seq(Nat) /\ d \in Seq(Nat) /\ events[k] \in DOMAIN deques /\ History(a, d, Now(t))
  BY DequeTyped DEF HistoryTold
<1>4. r = Popped(d, Now(t))
  BY <1>2, <1>3, ScanLeaves
<1> HIDE DEF a, d, r
<1>5. PICK n \in 0 .. Len(d) :
          /\ r \in Seq(Nat) /\ Len(r) = Len(d) - n
          /\ \A i \in 1 .. Len(d) - n : r[i] = d[i + n]
          /\ \A i \in 1 .. n : Expired(d[i], Now(t))
  <2> DEFINE now == Now(t)
  <2>1. now \in Nat /\ r = Popped(d, now)
    BY <1>2, <1>4
  <2> HIDE DEF now
  <2>2. \E n \in 0 .. Len(d) :
            /\ Popped(d, now) \in Seq(Nat) /\ Len(Popped(d, now)) = Len(d) - n
            /\ \A i \in 1 .. Len(d) - n : Popped(d, now)[i] = d[i + n]
            /\ \A i \in 1 .. n : Expired(d[i], now)
            /\ n = Len(d) \/ ~Expired(d[n + 1], now)
    BY <1>3, <2>1, PoppedSound
  <2> QED BY <2>1, <2>2 DEF now
<1>6. History(a, r, Now(t))
  BY <1>2, <1>3, <1>5, HistoryDrops
<1> QED BY <1>6 DEF a, r

LEMMA HistoryTake ==
    ASSUME Typed, Backed, NEW t \in Threads, HistoryTold(t), Take(t)
    PROVE  HistoryTold(t)'
<1> DEFINE k == thread[t].key
<1>1. /\ k \in Keys /\ Tracked' = Tracked \cup {k}
      /\ \A j \in Tracked : events'[j] = events[j] /\ deques'[events'[j]] = deques[events[j]]
      /\ k \notin Tracked => events'[k] = Len(deques) + 1 /\ deques' = Append(deques, <<>>)
  BY TakeChanges
<1>2. Now(t) \in Nat /\ Now(t)' = Now(t)
  <2>1. \E n : thread' = [thread EXCEPT ![t].at = "count", ![t].deque = n]
    BY DEF Take
  <2>2. thread'[t].at = "count" /\ thread'[t].now = thread[t].now
    BY <2>1 DEF Typed, ThreadsSound
  <2>3. Now(t) \in Nat /\ Now(t) = thread[t].now
    BY NowTyped DEF Take
  <2> QED BY <2>2, <2>3 DEF Now
<1>3. admitted' = admitted
  BY DEF Take
<1> SUFFICES ASSUME NEW j \in Tracked' PROVE History(admitted[j], deques'[events'[j]], Now(t))
  BY <1>2, <1>3 DEF HistoryTold
<1>4. CASE j \in Tracked
  BY <1>1, <1>4 DEF HistoryTold
<1>5. CASE j \notin Tracked
  <2>1. j = k /\ k \in Keys \ Tracked
    BY <1>1, <1>5
  <2>2. admitted[j] = <<>>
    BY <2>1 DEF Backed
  <2>3. deques'[events'[j]] = <<>>
    <3>1. deques \in Seq(Seq(Nat)) /\ Len(deques) \in Nat /\ <<>> \in Seq(Nat)
      BY EmptySeq DEF Typed, Buckets
    <3>2. Append(deques, <<>>)[Len(deques) + 1] = <<>>
      BY <3>1
    <3> QED BY <1>1, <2>1, <3>2
  <2> QED BY <1>2, <2>2, <2>3, HistoryEmpty
<1> QED BY <1>4, <1>5

LEMMA HistoryPop ==
    ASSUME Typed, NEW t \in Threads, HistoryTold(t), ThreadTold(t), Pop(t)
    PROVE  HistoryTold(t)'
<1> DEFINE e == thread[t].deque
<1>1. /\ e \in DOMAIN deques /\ Held(t) \in Seq(Nat) /\ Held(t) = deques[e] /\ Held(t) # <<>>
      /\ Expired(Held(t)[1], thread[t].now)
      /\ deques' = [deques EXCEPT ![e] = Tail(Held(t))]
      /\ UNCHANGED <<clock, events, admitted>> /\ Tracked' = Tracked
  BY HeldBucket DEF Pop, Holding, ThreadTold, Tracked, Held
<1>2. Now(t) \in Nat /\ Now(t) = thread[t].now /\ Now(t)' = Now(t)
  <2>1. thread' = [thread EXCEPT ![t].at = "count"]
    BY DEF Pop, Goes
  <2>2. thread'[t].at = "count" /\ thread'[t].now = thread[t].now
    BY <2>1 DEF Typed, ThreadsSound
  <2>3. Now(t) \in Nat /\ Now(t) = thread[t].now
    BY NowTyped DEF Pop
  <2> QED BY <2>2, <2>3 DEF Now
<1> SUFFICES ASSUME NEW k \in Tracked PROVE History(admitted[k], deques'[events[k]], Now(t))
  BY <1>1, <1>2 DEF HistoryTold
<1>3. /\ admitted[k] \in Seq(Nat) /\ deques[events[k]] \in Seq(Nat) /\ events[k] \in DOMAIN deques
      /\ History(admitted[k], deques[events[k]], Now(t))
  BY DequeTyped DEF HistoryTold
<1>4. CASE events[k] # e
  BY <1>1, <1>3, <1>4
<1>5. CASE events[k] = e
  <2> DEFINE d == Held(t)
             r == Tail(d)
  <2>1. /\ d \in Seq(Nat) /\ r \in Seq(Nat) /\ Len(r) = Len(d) - 1 /\ Len(d) \in Nat \ {0}
        /\ \A i \in 1 .. Len(d) - 1 : r[i] = d[i + 1]
    BY <1>1
  <2>2. deques'[events[k]] = r /\ deques[events[k]] = d
    BY <1>1, <1>3, <1>5
  <2>3. \A i \in 1 .. 1 : Expired(d[i], Now(t))
    BY <1>1, <1>2
  <2> HIDE DEF d, r
  <2>4. 1 \in 0 .. Len(d)
    BY <2>1
  <2>5. History(admitted[k], r, Now(t))
    BY <1>2, <1>3, <2>1, <2>2, <2>3, <2>4, HistoryDrops
  <2> QED BY <2>2, <2>5
<1> QED BY <1>4, <1>5

LEMMA HistoryAdmit ==
    ASSUME Typed, Typed', NEW t \in Threads, HistoryTold(t), ThreadTold(t), Admit(t)
    PROVE  HistoryTold(t)'
<1> DEFINE x == thread[t].now
<1>1. /\ thread[t].deque \in DOMAIN deques /\ thread[t].key \in Keys /\ x \in Nat
      /\ Held(t) \in Seq(Nat) /\ Held(t) = deques[thread[t].deque]
      /\ Linked(t) /\ thread[t].key \in Tracked /\ Len(Held(t)) < Limit
      /\ \A k \in Tracked : events[k] = thread[t].deque <=> k = thread[t].key
  BY HeldBucket DEF Admit, Holding, ThreadTold
<1>2. /\ UNCHANGED <<clock, events, lost>> /\ Tracked' = Tracked
      /\ \A e \in DOMAIN deques : deques'[e] = IF e = thread[t].deque THEN Append(Held(t), x) ELSE deques[e]
      /\ \A k \in Keys :
             admitted'[k] = IF Linked(t) /\ k = thread[t].key THEN Append(admitted[k], x) ELSE admitted[k]
  BY AdmitChanges
<1>3. Now(t) = x /\ x <= clock /\ clock \in Nat /\ Now(t)' = clock
  <2>1. thread'[t] = Rest
    BY DEF Admit, Typed, ThreadsSound
  <2>2. Now(t)' = clock
    BY <1>2, <2>1 DEF Now, Rest
  <2> QED BY <2>2, NowTyped DEF Admit
<1> SUFFICES ASSUME NEW k \in Tracked PROVE History(admitted'[k], deques'[events[k]], clock)
  BY <1>2, <1>3 DEF HistoryTold
<1>4. /\ admitted[k] \in Seq(Nat) /\ deques[events[k]] \in Seq(Nat) /\ events[k] \in DOMAIN deques
      /\ History(admitted[k], deques[events[k]], x) /\ k \in Keys
  BY <1>3, DequeTyped DEF HistoryTold
<1>5. CASE k = thread[t].key
  <2>1. /\ admitted'[k] = Append(admitted[k], x) /\ deques'[events[k]] = Append(Held(t), x)
        /\ deques[events[k]] = Held(t)
    BY <1>1, <1>2, <1>4, <1>5
  <2>2. History(Append(admitted[k], x), Append(Held(t), x), x)
    BY <1>1, <1>4, <2>1, HistoryAdds
  <2>3. Append(admitted[k], x) \in Seq(Nat) /\ Append(Held(t), x) \in Seq(Nat)
    BY <1>1, <1>4
  <2>4. History(Append(admitted[k], x), Append(Held(t), x), clock)
    BY <1>1, <1>3, <2>2, <2>3, HistoryLater
  <2> QED BY <2>1, <2>4
<1>6. CASE k # thread[t].key
  <2>1. admitted'[k] = admitted[k] /\ deques'[events[k]] = deques[events[k]]
    BY <1>1, <1>2, <1>4, <1>6
  <2>2. History(admitted[k], deques[events[k]], clock)
    BY <1>1, <1>3, <1>4, HistoryLater
  <2> QED BY <2>1, <2>2
<1> QED BY <1>5, <1>6

(* Where a step takes its thread.                                           *)
LEMMA Goings ==
    ASSUME Typed, NEW t \in Threads
    PROVE  /\ \A k \in Keys : Call(t, k) =>
                  thread'[t].at = "called" /\ thread'[t].now = clock /\ thread[t].at = "rest"
           /\ Look(t) => /\ thread'[t].at \in {"take", "scan"} /\ thread'[t].key = thread[t].key
                         /\ thread'[t].now = thread[t].now
                         /\ thread'[t].at = "take" =>
                                thread[t].key \in Tracked \/ Cardinality(Tracked) < MaxKeys
           /\ Scan(t) => thread'[t].at = "stale" /\ thread'[t].now = thread[t].now
           /\ DeleteStale(t) =>
                  /\ thread'[t].at \in {"take", "sort"} /\ thread'[t].now = thread[t].now
                  /\ thread'[t].at = "take" <=> Cardinality(Tracked \ thread[t].chosen) < MaxKeys
           /\ Sort(t) => thread'[t].at = "evict" /\ thread'[t].now = thread[t].now
           /\ Evict(t) => thread'[t].at = "take" /\ thread'[t].now = thread[t].now
           /\ Take(t) => thread'[t].at = "count" /\ thread'[t].now = thread[t].now
                         /\ thread'[t].key = thread[t].key
           /\ SeesExpired(t) => thread'[t] = [thread[t] EXCEPT !.at = "pop"]
           /\ Pop(t) => thread'[t] = [thread[t] EXCEPT !.at = "count"]
           /\ MayAppend(t) => thread'[t] = [thread[t] EXCEPT !.at = "append"]
           /\ PopRaises(t) \/ Deny(t) \/ Admit(t) => thread'[t] = Rest
<1>1. thread \in [Threads -> Place] /\ thread[t] \in Place
  BY DEF Typed, ThreadsSound, Place
<1>2. ASSUME NEW k \in Keys, Call(t, k)
      PROVE  thread'[t].at = "called" /\ thread'[t].now = clock /\ thread[t].at = "rest"
  <2>1. thread'[t] = [Rest EXCEPT !.at = "called", !.key = k, !.now = clock] /\ thread[t] = Rest
    BY <1>1, <1>2 DEF Call
  <2> QED BY <2>1 DEF Rest
<1>3. ASSUME Look(t)
      PROVE  /\ thread'[t].at \in {"take", "scan"} /\ thread'[t].key = thread[t].key
             /\ thread'[t].now = thread[t].now
             /\ thread'[t].at = "take" => thread[t].key \in Tracked \/ Cardinality(Tracked) < MaxKeys
  <2> DEFINE to == IF thread[t].key \in Tracked \/ Cardinality(Tracked) < MaxKeys THEN "take" ELSE "scan"
  <2>1. thread' = [thread EXCEPT ![t].at = to]
    BY <1>3 DEF Look, Goes
  <2>2. to \in {"take", "scan"} /\ (to = "take" => thread[t].key \in Tracked \/ Cardinality(Tracked) < MaxKeys)
    OBVIOUS
  <2> HIDE DEF to
  <2>3. thread'[t].at = to /\ thread'[t].key = thread[t].key /\ thread'[t].now = thread[t].now
    BY <1>1, <2>1 DEF Place
  <2> QED BY <2>2, <2>3
<1>4. ASSUME Scan(t) PROVE thread'[t].at = "stale" /\ thread'[t].now = thread[t].now
  <2>1. \E S : thread' = [thread EXCEPT ![t].at = "stale", ![t].chosen = S]
    BY <1>4 DEF Scan
  <2> QED BY <1>1, <2>1 DEF Place
<1>5. ASSUME DeleteStale(t)
      PROVE  /\ thread'[t].at \in {"take", "sort"} /\ thread'[t].now = thread[t].now
             /\ thread'[t].at = "take" <=> Cardinality(Tracked \ thread[t].chosen) < MaxKeys
  <2> DEFINE to == IF Cardinality(Tracked \ thread[t].chosen) < MaxKeys THEN "take" ELSE "sort"
  <2>1. thread' = [thread EXCEPT ![t].chosen = {}, ![t].at = to]
    BY <1>5 DEF DeleteStale
  <2>2. to \in {"take", "sort"} /\ (to = "take" <=> Cardinality(Tracked \ thread[t].chosen) < MaxKeys)
    OBVIOUS
  <2> HIDE DEF to
  <2>3. thread'[t].at = to /\ thread'[t].now = thread[t].now
    BY <1>1, <2>1 DEF Place
  <2> QED BY <2>2, <2>3
<1>6. ASSUME Sort(t) PROVE thread'[t].at = "evict" /\ thread'[t].now = thread[t].now
  <2>1. \E S : thread' = [thread EXCEPT ![t].at = "evict", ![t].chosen = S]
    BY <1>6 DEF Sort
  <2> QED BY <1>1, <2>1 DEF Place
<1>7. ASSUME Evict(t) PROVE thread'[t].at = "take" /\ thread'[t].now = thread[t].now
  BY <1>1, <1>7 DEF Evict, Place
<1>8. ASSUME Take(t)
      PROVE  thread'[t].at = "count" /\ thread'[t].now = thread[t].now /\ thread'[t].key = thread[t].key
  <2>1. \E n : thread' = [thread EXCEPT ![t].at = "count", ![t].deque = n]
    BY <1>8 DEF Take
  <2> QED BY <1>1, <2>1 DEF Place
<1>9. /\ SeesExpired(t) => thread'[t] = [thread[t] EXCEPT !.at = "pop"]
      /\ Pop(t) => thread'[t] = [thread[t] EXCEPT !.at = "count"]
      /\ MayAppend(t) => thread'[t] = [thread[t] EXCEPT !.at = "append"]
  BY <1>1 DEF SeesExpired, Pop, MayAppend, Goes
<1>10. PopRaises(t) \/ Deny(t) \/ Admit(t) => thread'[t] = Rest
  BY <1>1 DEF PopRaises, Deny, Admit
<1> QED BY <1>2, <1>3, <1>4, <1>5, <1>6, <1>7, <1>8, <1>9, <1>10

LEMMA RestRests == Rest.at = "rest"
  BY DEF Rest

LEMMA NowGrows ==
    ASSUME Typed, NEW t \in Threads, clock' \in {clock, clock + 1},
           thread'[t].at = "rest" \/ thread'[t].now = Now(t)
    PROVE  Now(t) <= Now(t)'
<1>1. Now(t) \in Nat /\ Now(t) <= clock /\ clock \in Nat
  BY NowTyped
<1>2. CASE thread'[t].at = "rest"
  <2>1. Now(t)' = clock'
    BY <1>2 DEF Now
  <2> QED BY <1>1, <2>1
<1>3. CASE thread'[t].at # "rest"
  <2>1. Now(t)' = Now(t)
    BY <1>3 DEF Now
  <2> QED BY <1>1, <2>1
<1> QED BY <1>2, <1>3

LEMMA NextHistory ==
    ASSUME Typed, Typed', Backed, [Next]_vars, NEW t \in Threads, active = {t},
           HistoryTold(t), ThreadTold(t)
    PROVE  HistoryTold(t)'
<1>1. thread[t] \in Place /\ (thread[t].at # "rest" => Now(t) = thread[t].now)
  BY PlaceTyped, NowTyped
<1>2. CASE UNCHANGED vars \/ Tick
  <2>1. /\ UNCHANGED <<events, deques, thread, admitted>> /\ clock' \in {clock, clock + 1}
        /\ Tracked' = Tracked
    BY <1>2 DEF vars, Tick, Tracked
  <2>2. thread'[t].at = "rest" \/ thread'[t].now = Now(t)
    BY <1>1, <2>1
  <2> QED BY <2>1, <2>2, NowGrows, HistoryKept
<1>3. CASE \E k \in Keys : Call(t, k)
  <2>1. UNCHANGED <<clock, events, deques, admitted>> /\ Tracked' = Tracked
    BY <1>3 DEF Call, Tracked
  <2>2. thread'[t].now = Now(t)
    BY <1>3, Goings DEF Now
  <2> QED BY <2>1, <2>2, NowGrows, HistoryKept
<1>4. CASE Look(t) \/ Sort(t) \/ SeesExpired(t) \/ PopRaises(t) \/ Deny(t) \/ MayAppend(t)
  <2>1. UNCHANGED <<clock, events, deques, admitted>> /\ Tracked' = Tracked /\ thread[t].at # "rest"
    BY <1>4 DEF Look, Sort, SeesExpired, PopRaises, Deny, Counted, MayAppend, Tracked
  <2>2. thread'[t].at = "rest" \/ thread'[t].now = thread[t].now
    <3>1. CASE PopRaises(t) \/ Deny(t)
      BY <3>1, Goings, RestRests
    <3>2. CASE Look(t) \/ Sort(t)
      BY <3>2, Goings
    <3>3. CASE SeesExpired(t) \/ MayAppend(t)
      <4>1. \E to : thread'[t] = [thread[t] EXCEPT !.at = to]
        BY <3>3, Goings
      <4> QED BY <1>1, <4>1 DEF Place
    <3> QED BY <1>4, <3>1, <3>2, <3>3
  <2> QED BY <1>1, <2>1, <2>2, NowGrows, HistoryKept
<1>5. CASE DeleteStale(t) \/ Evict(t)
  <2>1. /\ thread[t].chosen \in SUBSET Tracked /\ Deletes(thread[t].chosen)
        /\ UNCHANGED <<clock, deques, verdict>> /\ thread[t].at # "rest"
    BY <1>5 DEF DeleteStale, Evict
  <2>2. \A k \in Tracked' : /\ k \in Tracked /\ events'[k] = events[k] /\ admitted'[k] = admitted[k]
                            /\ deques'[events[k]] = deques[events[k]]
    BY <2>1, DeletesTyped
  <2>3. thread'[t].now = thread[t].now
    BY <1>5, Goings
  <2> QED BY <1>1, <2>1, <2>2, <2>3, NowGrows, HistoryKept
<1> QED BY <1>2, <1>3, <1>4, <1>5, Movers, HistoryScan, HistoryTake, HistoryPop, HistoryAdmit

LEMMA NextThread ==
    ASSUME Typed, [Next]_vars, NEW t \in Threads, active = {t}, ThreadTold(t)
    PROVE  ThreadTold(t)'
<1>1. thread[t] \in Place
  BY PlaceTyped
<1>2. CASE UNCHANGED vars \/ Tick
  <2>1. UNCHANGED <<events, deques, thread>>
    BY <1>2 DEF vars, Tick
  <2> QED BY <2>1 DEF ThreadTold, Holding, Linked, Held
<1>3. CASE \/ \E k \in Keys : Call(t, k)
           \/ Look(t) \/ Scan(t) \/ DeleteStale(t) \/ Sort(t) \/ Evict(t)
           \/ PopRaises(t) \/ Deny(t) \/ Admit(t)
  <2>1. thread'[t].at \notin {"count", "pop", "append"}
    <3>1. CASE PopRaises(t) \/ Deny(t) \/ Admit(t)
      BY <3>1, Goings, RestRests
    <3>2. CASE ~(PopRaises(t) \/ Deny(t) \/ Admit(t))
      BY <1>3, <3>2, Goings
    <3> QED BY <3>1, <3>2
  <2> QED BY <2>1 DEF ThreadTold, Holding
<1>4. CASE Take(t)
  <2>1. /\ thread'[t].at = "count" /\ thread'[t].key = thread[t].key
        /\ thread'[t].deque = events'[thread[t].key]
    BY <1>4, Goings, TakeChanges
  <2> QED BY <2>1 DEF ThreadTold, Holding, Linked
<1>5. CASE SeesExpired(t) \/ MayAppend(t)
  <2>1. /\ UNCHANGED <<events, deques>> /\ Holding(t) /\ Linked(t)
        /\ thread'[t].key = thread[t].key /\ thread'[t].deque = thread[t].deque /\ thread'[t].now = thread[t].now
        /\ thread'[t].at \in {"pop", "append"}
        /\ thread'[t].at = "pop" => Held(t) # <<>> /\ Expired(Held(t)[1], thread[t].now)
        /\ thread'[t].at = "append" => Len(Held(t)) < Limit
    <3>1. CASE SeesExpired(t)
      <4>1. thread'[t] = [thread[t] EXCEPT !.at = "pop"]
        BY <3>1, Goings
      <4>2. thread'[t].at = "pop" /\ thread'[t].key = thread[t].key /\ thread'[t].deque = thread[t].deque
            /\ thread'[t].now = thread[t].now
        BY <1>1, <4>1 DEF Place
      <4> QED BY <3>1, <4>2 DEF SeesExpired, ThreadTold, Holding
    <3>2. CASE MayAppend(t)
      <4>1. thread'[t] = [thread[t] EXCEPT !.at = "append"]
        BY <3>2, Goings
      <4>2. thread'[t].at = "append" /\ thread'[t].key = thread[t].key /\ thread'[t].deque = thread[t].deque
            /\ thread'[t].now = thread[t].now
        BY <1>1, <4>1 DEF Place
      <4> QED BY <3>2, <4>2 DEF MayAppend, Counted, ThreadTold, Holding
    <3> QED BY <1>5, <3>1, <3>2
  <2>2. Held(t)' = Held(t) /\ Linked(t)'
    BY <2>1 DEF Held, Linked
  <2> QED BY <2>1, <2>2 DEF ThreadTold
<1>6. CASE Pop(t)
  <2>1. thread'[t] = [thread[t] EXCEPT !.at = "count"]
    BY <1>6, Goings
  <2>2. thread'[t].at = "count" /\ thread'[t].key = thread[t].key /\ thread'[t].deque = thread[t].deque
    BY <1>1, <2>1 DEF Place
  <2>3. Linked(t) /\ events' = events
    BY <1>6 DEF Pop, ThreadTold, Holding
  <2> QED BY <2>2, <2>3 DEF ThreadTold, Linked
<1> QED BY <1>2, <1>3, <1>4, <1>5, <1>6, Movers

-----------------------------------------------------------------------------
(* Making room, and refusing.                                               *)

LEMMA TrackedFinite ==
    ASSUME TRUE
    PROVE  /\ IsFiniteSet(Tracked) /\ Cardinality(Tracked) \in Nat
           /\ \A S \in SUBSET Tracked : /\ IsFiniteSet(S) /\ Cardinality(S) \in Nat
                                        /\ Cardinality(S) <= Cardinality(Tracked)
<1>1. Tracked \in SUBSET Keys
  BY DEF Tracked
<1>2. IsFiniteSet(Tracked)
  BY <1>1, FS_Subset, LimiterAssumption
<1> QED BY <1>2, FS_Subset, FS_CardinalityType

LEMMA MapScan ==
    ASSUME Typed, NEW t \in Threads, MapTold(t), Scan(t)
    PROVE  MapTold(t)'
<1> DEFINE now == thread[t].now
           left == [k \in Tracked |-> Popped(deques[events[k]], now)]
           stale == {k \in Tracked : left[k] = <<>>}
<1>1. events' = events /\ Tracked' = Tracked
  BY DEF Scan, Tracked
<1>2. thread'[t].at = "stale" /\ thread'[t].now = now /\ thread'[t].chosen = stale
  <2>1. thread' = [thread EXCEPT ![t].at = "stale", ![t].chosen = stale]
    BY DEF Scan
  <2> HIDE DEF stale
  <2> QED BY <2>1 DEF Typed, ThreadsSound
<1>3. now \in Nat
  BY PlaceTyped DEF Place
<1>4. ASSUME NEW k \in Tracked
      PROVE  /\ deques'[events[k]] = Popped(deques[events[k]], now)
             /\ deques'[events[k]] = <<>> \/ ~Expired(deques'[events[k]][1], now)
  <2> DEFINE d == deques[events[k]]
             r == Popped(d, now)
  <2>1. d \in Seq(Nat) /\ events[k] \in DOMAIN deques
    BY DequeTyped
  <2>2. deques'[events[k]] = r
    BY <2>1, ScanLeaves
  <2>3. PICK n \in 0 .. Len(d) :
            /\ r \in Seq(Nat) /\ Len(r) = Len(d) - n
            /\ \A i \in 1 .. Len(d) - n : r[i] = d[i + n]
            /\ n = Len(d) \/ ~Expired(d[n + 1], now)
    BY <1>3, <2>1, PoppedSound
  <2> HIDE DEF d, r
  <2>4. CASE n = Len(d)
    <3>1. r \in Seq(Nat) /\ Len(r) = 0
      BY <2>1, <2>3, <2>4
    <3>2. r = <<>>
      BY <3>1, EmptySeq
    <3> QED BY <2>2, <3>2 DEF d, r
  <2>5. CASE n # Len(d)
    <3>1. 1 \in 1 .. Len(d) - n /\ 1 + n = n + 1
      BY <2>1, <2>5
    <3>2. r[1] = d[n + 1]
      BY <2>3, <3>1
    <3>3. ~Expired(r[1], now)
      BY <2>3, <2>5, <3>2
    <3> QED BY <2>2, <3>3 DEF d, r
  <2> QED BY <2>4, <2>5
<1>5. \A k \in stale : k \in Tracked /\ deques'[events[k]] = <<>>
  BY <1>4
<1> HIDE DEF stale, left
<1>6. \A k \in Tracked : Swept(k, now)'
  BY <1>1, <1>2, <1>4 DEF Swept
<1>7. Cardinality(Tracked) <= MaxKeys
  BY DEF MapTold
<1> QED BY <1>1, <1>2, <1>5, <1>6, <1>7 DEF MapTold, Swept

LEMMA MapDeletes ==
    ASSUME Typed, NEW t \in Threads, MapTold(t), DeleteStale(t) \/ Evict(t)
    PROVE  MapTold(t)'
<1>1. /\ thread[t].chosen \in SUBSET Tracked /\ Deletes(thread[t].chosen)
      /\ UNCHANGED <<deques, verdict>>
  BY DEF DeleteStale, Evict
<1>2. Tracked' = Tracked \ thread[t].chosen /\ \A k \in Tracked' : events'[k] = events[k]
  BY <1>1, DeletesTyped
<1>3. /\ Cardinality(Tracked') \in Nat /\ Cardinality(Tracked') <= Cardinality(Tracked)
      /\ Cardinality(Tracked) \in Nat /\ MaxKeys \in Nat
  <2>1. Tracked \ thread[t].chosen \in SUBSET Tracked
    OBVIOUS
  <2> QED BY <1>2, <2>1, TrackedFinite, LimiterAssumption
<1>4. Cardinality(Tracked') <= MaxKeys
  BY <1>3 DEF MapTold
<1>5. CASE DeleteStale(t)
  <2>1. /\ thread'[t].at \in {"take", "sort"} /\ thread'[t].now = thread[t].now
        /\ thread'[t].at = "take" <=> Cardinality(Tracked') < MaxKeys
    BY <1>2, <1>5, Goings
  <2>2. \A k \in Tracked' : Swept(k, thread[t].now)'
    <3>1. \A k \in Tracked : Swept(k, thread[t].now)
      BY <1>5 DEF DeleteStale, MapTold
    <3>2. \A k \in Tracked' : Swept(k, thread[t].now) /\ events'[k] = events[k]
      BY <1>2, <3>1
    <3> QED BY <1>1, <2>1, <3>2 DEF Swept
  <2>3. thread'[t].at = "sort" => Cardinality(Tracked') >= MaxKeys
    BY <1>3, <2>1
  <2> QED BY <1>4, <2>1, <2>2, <2>3 DEF MapTold, Swept
<1>6. CASE Evict(t)
  <2>1. thread'[t].at = "take"
    BY <1>6, Goings
  <2>2. Cardinality(Tracked') < MaxKeys
    BY <1>2, <1>6 DEF Evict, MapTold
  <2> QED BY <1>4, <2>1, <2>2 DEF MapTold
<1> QED BY <1>5, <1>6

LEMMA MapSort ==
    ASSUME Typed, NEW t \in Threads, MapTold(t), Sort(t)
    PROVE  MapTold(t)'
<1>1. UNCHANGED <<events, deques>> /\ Tracked' = Tracked /\ Cardinality(Tracked) >= MaxKeys
  BY DEF Sort, Tracked, MapTold
<1>2. Cardinality(Tracked) \in Nat /\ MaxKeys \in Nat \ {0} /\ Cardinality(Tracked) <= MaxKeys
  BY TrackedFinite, LimiterAssumption DEF MapTold
<1>3. \E S \in Victims(Cardinality(Tracked) - MaxKeys + 1) :
          thread' = [thread EXCEPT ![t].at = "evict", ![t].chosen = S]
  <2>1. ~(Cardinality(Tracked) < MaxKeys)
    BY <1>1, <1>2
  <2> QED BY <2>1 DEF Sort
<1>4. PICK S \in SUBSET Tracked :
          /\ Cardinality(S) = Cardinality(Tracked) - MaxKeys + 1
          /\ \A j \in S, k \in Tracked \ S : Sooner(j, k)
          /\ thread' = [thread EXCEPT ![t].at = "evict", ![t].chosen = S]
  BY <1>3 DEF Victims
<1>5. thread'[t].at = "evict" /\ thread'[t].chosen = S /\ thread'[t].now = thread[t].now
  BY <1>4 DEF Typed, ThreadsSound
<1>6. Cardinality(Tracked \ S) < MaxKeys
  <2>1. IsFiniteSet(Tracked) /\ IsFiniteSet(S) /\ Cardinality(S) \in Nat /\ S \cap Tracked = S
    BY TrackedFinite
  <2>2. Cardinality(Tracked \ S) = Cardinality(Tracked) - Cardinality(S)
    <3>1. IsFiniteSet(Tracked \ S) /\ Cardinality(Tracked \ S) = Cardinality(Tracked) - Cardinality(Tracked \cap S)
      BY <2>1, FS_Difference
    <3>2. Tracked \cap S = S
      OBVIOUS
    <3> QED BY <3>1, <3>2
  <2> QED BY <1>2, <1>4, <2>2
<1>7. ASSUME NEW j \in S, NEW k \in Tracked \ S, Full(j) PROVE Full(k)
  BY <1>4, <1>7 DEF Sooner
<1>8. \A k \in Tracked : Swept(k, thread[t].now)
  BY DEF Sort, MapTold
<1>9. \A k \in Tracked : (Full(k) <=> Full(k)') /\ (Swept(k, thread[t].now) <=> Swept(k, thread[t].now)')
  BY <1>1, <1>5 DEF Full, Swept
<1>10. \A j \in S, k \in Tracked \ S : Full(j)' => Full(k)'
  BY <1>7, <1>9
<1>11. \A k \in Tracked : Swept(k, thread[t].now)'
  BY <1>8, <1>9
<1> QED BY <1>1, <1>2, <1>5, <1>6, <1>10, <1>11 DEF MapTold, Full, Swept

LEMMA NextMap ==
    ASSUME Typed, [Next]_vars, NEW t \in Threads, active = {t}, MapTold(t)
    PROVE  MapTold(t)'
<1>1. thread[t] \in Place /\ Cardinality(Tracked) <= MaxKeys
  BY PlaceTyped DEF MapTold
<1>2. CASE UNCHANGED vars \/ Tick
  <2>1. UNCHANGED <<events, deques, thread>> /\ Tracked' = Tracked
    BY <1>2 DEF vars, Tick, Tracked
  <2> QED BY <2>1 DEF MapTold, Swept, Full
<1>3. CASE \/ \E k \in Keys : Call(t, k)
           \/ SeesExpired(t) \/ Pop(t) \/ PopRaises(t) \/ Deny(t) \/ MayAppend(t) \/ Admit(t)
  <2>1. thread'[t].at \in {"called", "count", "pop", "append", "rest"}
    <3>1. CASE \E k \in Keys : Call(t, k)
      BY <3>1, Goings
    <3>2. CASE SeesExpired(t) \/ Pop(t) \/ MayAppend(t)
      <4>1. \E to \in {"count", "pop", "append"} : thread'[t] = [thread[t] EXCEPT !.at = to]
        BY <3>2, Goings
      <4> QED BY <1>1, <4>1 DEF Place
    <3>3. CASE PopRaises(t) \/ Deny(t) \/ Admit(t)
      BY <3>3, Goings, RestRests
    <3> QED BY <1>3, <3>1, <3>2, <3>3
  <2>2. Tracked' = Tracked
    <3>1. (\E k \in Keys : Call(t, k)) => events' = events
      BY DEF Call
    <3>2. SeesExpired(t) \/ Pop(t) \/ PopRaises(t) \/ Deny(t) => events' = events
      BY DEF SeesExpired, Pop, PopRaises, Deny
    <3>3. MayAppend(t) \/ Admit(t) => events' = events
      BY DEF MayAppend, Admit
    <3>4. events' = events
      BY <1>3, <3>1, <3>2, <3>3
    <3> QED BY <3>4 DEF Tracked
  <2> QED BY <1>1, <2>1, <2>2 DEF MapTold
<1>4. CASE Look(t)
  <2>1. Tracked' = Tracked
    BY <1>4 DEF Look, Tracked
  <2>2. /\ thread'[t].at \in {"take", "scan"} /\ thread'[t].key = thread[t].key
        /\ thread'[t].at = "take" => thread[t].key \in Tracked \/ Cardinality(Tracked) < MaxKeys
    BY <1>4, Goings
  <2> QED BY <1>1, <2>1, <2>2 DEF MapTold
<1>5. CASE Take(t)
  <2> DEFINE k == thread[t].key
  <2>1. Tracked' = Tracked \cup {k} /\ thread'[t].at = "count"
    BY <1>5, TakeChanges
  <2>2. k \notin Tracked => Cardinality(Tracked) < MaxKeys
    BY <1>5 DEF Take, MapTold
  <2>3. /\ IsFiniteSet(Tracked) /\ Cardinality(Tracked) \in Nat /\ MaxKeys \in Nat
        /\ Cardinality(Tracked \cup {k}) = IF k \in Tracked THEN Cardinality(Tracked) ELSE Cardinality(Tracked) + 1
    BY TrackedFinite, FS_AddElement, LimiterAssumption
  <2>4. Cardinality(Tracked') <= MaxKeys
    <3>1. CASE k \in Tracked
      BY <1>1, <2>1, <2>3, <3>1
    <3>2. CASE k \notin Tracked
      BY <2>1, <2>2, <2>3, <3>2
    <3> QED BY <3>1, <3>2
  <2> QED BY <2>1, <2>4 DEF MapTold
<1> QED BY <1>2, <1>3, <1>4, <1>5, Movers, MapScan, MapDeletes, MapSort

LEMMA DenyEarned ==
    ASSUME Typed, NEW t \in Threads, HistoryTold(t), ThreadTold(t), Deny(t)
    PROVE  /\ verdict'.key \in Tracked
           /\ Cardinality(Live(admitted[verdict'.key], verdict'.now)) >= Limit
<1> DEFINE k == thread[t].key
           now == thread[t].now
<1>1. /\ thread[t].at = "count" /\ Holding(t) /\ Linked(t) /\ Len(Held(t)) >= Limit
      /\ Held(t) # <<>> => ~Expired(Held(t)[1], now)
  BY DEF Deny, Counted, Holding, ThreadTold
<1>2. k \in Tracked /\ k \in Keys /\ deques[events[k]] = Held(t) /\ Held(t) \in Seq(Nat) /\ now \in Nat
  BY <1>1, HeldBucket
<1>3. verdict'.key = k /\ verdict'.now = now
  BY DEF Deny, Answers, Typed, Histories
<1>4. History(admitted[k], Held(t), now) /\ admitted[k] \in Seq(Nat)
  BY <1>1, <1>2, NowTyped, DequeTyped DEF HistoryTold
<1>5. Len(Held(t)) <= Cardinality(Live(admitted[k], now))
  BY <1>1, <1>2, <1>4, HistoryCounts
<1>6. Cardinality(Live(admitted[k], now)) \in Nat /\ Limit \in Nat /\ Len(Held(t)) \in Nat
  BY <1>2, <1>4, LiveNat, LimiterAssumption
<1>7. Cardinality(Live(admitted[k], now)) >= Limit
  BY <1>1, <1>5, <1>6
<1> QED BY <1>2, <1>3, <1>7

LEMMA NextRefusal ==
    ASSUME Typed, Typed', [Next]_vars, NEW t \in Threads, active = {t},
           HistoryTold(t), ThreadTold(t), RefusalTold(t)
    PROVE  RefusalTold(t)'
<1>1. CASE UNCHANGED vars \/ Tick
  <2>1. UNCHANGED <<thread, verdict, admitted>> /\ Tracked' = Tracked
    BY <1>1 DEF vars, Tick, Tracked
  <2> QED BY <2>1 DEF RefusalTold
<1>2. CASE \E k \in Keys : Call(t, k)
  BY <1>2 DEF Call, RefusalTold
<1>3. CASE Deny(t)
  <2>1. /\ verdict'.key \in Tracked
        /\ Cardinality(Live(admitted[verdict'.key], verdict'.now)) >= Limit
    BY <1>3, DenyEarned
  <2>2. thread'[t].at = "rest" /\ Tracked' = Tracked /\ admitted' = admitted
    BY <1>3, Goings, RestRests DEF Deny, Tracked
  <2> QED BY <2>1, <2>2 DEF RefusalTold
<1>4. CASE Admit(t)
  <2>1. verdict'.ok
    BY <1>4 DEF Admit, Answers, Typed, Histories
  <2> QED BY <2>1 DEF RefusalTold
<1>5. CASE \/ Look(t) \/ Scan(t) \/ DeleteStale(t) \/ Sort(t) \/ Evict(t) \/ Take(t)
           \/ SeesExpired(t) \/ Pop(t) \/ PopRaises(t) \/ MayAppend(t)
  <2>1. thread[t].at # "rest" /\ verdict' = verdict
    BY <1>5 DEF Look, Scan, DeleteStale, Sort, Evict, Take, SeesExpired, Pop, PopRaises, MayAppend, Counted
  <2>2. verdict.ok
    BY <2>1 DEF RefusalTold
  <2> QED BY <2>1, <2>2 DEF RefusalTold
<1> QED BY <1>1, <1>2, <1>3, <1>4, <1>5, Movers

LEMMA ActiveStays == [Next]_vars => active' = active
<1> SUFFICES ASSUME [Next]_vars PROVE active' = active
  OBVIOUS
<1>1. CASE UNCHANGED vars \/ Tick
  BY <1>1 DEF vars, Tick
<1>2. ASSUME NEW t \in Threads, NEW k \in Keys, Call(t, k) PROVE active' = active
  BY <1>2 DEF Call
<1>3. ASSUME NEW t \in Threads, Allow(t) PROVE active' = active
  <2>1. CASE Look(t) \/ Scan(t) \/ DeleteStale(t) \/ Sort(t) \/ Evict(t) \/ EvictionRaises(t)
    BY <2>1 DEF Look, Scan, DeleteStale, Sort, Evict, EvictionRaises
  <2>2. CASE Take(t) \/ SeesExpired(t) \/ Pop(t) \/ PopRaises(t)
    BY <2>2 DEF Take, SeesExpired, Pop, PopRaises
  <2>3. CASE Deny(t) \/ MayAppend(t) \/ Admit(t)
    BY <2>3 DEF Deny, MayAppend, Admit
  <2> QED BY <1>3, <2>1, <2>2, <2>3 DEF Allow
<1> QED BY <1>1, <1>2, <1>3 DEF Next

LEMMA NextAlone == Typed /\ Backed /\ Alone /\ [Next]_vars => Alone'
<1> SUFFICES ASSUME Typed, Backed, Alone, [Next]_vars, NEW t \in Threads, active' = {t}
             PROVE  (HistoryTold(t) /\ ThreadTold(t) /\ MapTold(t) /\ RefusalTold(t))'
  BY DEF Alone
<1>1. active = {t} /\ Typed'
  BY ActiveStays, NextTyped
<1>2. HistoryTold(t) /\ ThreadTold(t) /\ MapTold(t) /\ RefusalTold(t)
  BY <1>1 DEF Alone
<1> QED BY <1>1, <1>2, NextHistory, NextThread, NextMap, NextRefusal

-----------------------------------------------------------------------------
IInv == Typed /\ Backed /\ CountsBounded /\ Alone

LEMMA Invariance == Spec => []IInv
<1>1. Init => IInv
  BY InitTyped, InitBacked, InitCounts, InitAlone DEF IInv
<1>2. IInv /\ [Next]_vars => IInv'
  BY NextTyped, NextBacked, NextCounts, NextAlone DEF IInv
<1> QED BY <1>1, <1>2, PTL DEF Spec

LEMMA OneIsAlone ==
    ASSUME Typed, Cardinality(active) = 1
    PROVE  \E t \in Threads : active = {t}
<1>1. IsFiniteSet(active)
  BY ActiveCounts
<1>2. \E t : active = {t}
  BY <1>1, FS_Singleton
<1> QED BY <1>2 DEF Typed

LEMMA WindowKept == IInv => WindowRespected
<1> SUFFICES ASSUME IInv, NEW k \in Keys
             PROVE  /\ Cardinality(Live(admitted[k], clock)) <= Limit + Cardinality(active) - 1 + lost[k]
                    /\ Cardinality(active) = 1 =>
                          \A since \in 0 .. clock : Cardinality(Within(admitted[k], since)) <= Limit
  BY DEF WindowRespected
<1>1. /\ admitted[k] \in Seq(Nat) /\ lost[k] \in Nat /\ clock \in Nat
      /\ Limit \in Nat \ {0} /\ Cardinality(active) \in Nat /\ Cardinality(active) >= 1
  BY DequeTyped, ActiveCounts, LimiterAssumption DEF IInv, Typed
<1>2. CASE k \in Tracked
  <2> DEFINE d == deques[events[k]]
  <2>1. events[k] \in DOMAIN deques /\ d \in Seq(Nat) /\ Len(d) \in Nat
    BY <1>2, DequeTyped DEF IInv
  <2>2. Cardinality(Live(admitted[k], clock)) <= Cardinality(Live(d, clock)) + lost[k]
    <3>1. clock <= clock
      BY <1>1
    <3> QED BY <1>1, <1>2, <3>1 DEF IInv, Backed
  <2>3. Len(d) <= Limit + Cardinality(active) - 1
    <3>1. Len(d) + Cardinality(Appending(events[k])) <= Limit + Cardinality(active) - 1
      BY <2>1 DEF IInv, CountsBounded
    <3>2. Cardinality(Appending(events[k])) \in Nat
      BY ActiveCounts DEF IInv
    <3> QED BY <1>1, <2>1, <3>1, <3>2
  <2>4. Cardinality(Live(d, clock)) \in Nat /\ Cardinality(Live(d, clock)) <= Len(d)
        /\ Cardinality(Live(admitted[k], clock)) \in Nat
    BY <1>1, <2>1, LiveNat
  <2> HIDE DEF d
  <2>5. Cardinality(Live(admitted[k], clock)) <= Limit + Cardinality(active) - 1 + lost[k]
    <3> DEFINE x == Cardinality(Live(admitted[k], clock))
               y == Cardinality(Live(d, clock))
               n == Limit + Cardinality(active) - 1
    <3>1. x \in Nat /\ y \in Nat /\ n \in Int /\ lost[k] \in Nat
          /\ x <= y + lost[k] /\ y <= Len(d) /\ Len(d) <= n /\ Len(d) \in Nat
      BY <1>1, <2>1, <2>2, <2>3, <2>4
    <3> HIDE DEF x, y, n
    <3>2. x <= n + lost[k]
      BY <3>1
    <3> QED BY <3>2 DEF x, n
  <2>6. ASSUME Cardinality(active) = 1, NEW since \in 0 .. clock
        PROVE  Cardinality(Within(admitted[k], since)) <= Limit
    <3>1. PICK t \in Threads : active = {t}
      BY <2>6, OneIsAlone DEF IInv
    <3>2. History(admitted[k], d, Now(t)) /\ Now(t) \in Nat /\ since \in Nat
      BY <1>1, <1>2, <3>1, NowTyped DEF IInv, Alone, HistoryTold, d
    <3> QED BY <1>1, <2>1, <3>2, HistoryWindow
  <2> QED BY <2>5, <2>6
<1>3. CASE k \notin Tracked
  <2>1. admitted[k] = <<>>
    BY <1>3 DEF IInv, Backed
  <2>2. \A c : Live(<<>>, c) = {} /\ Within(<<>>, c) = {}
    BY EmptySeq DEF Live, Within
  <2>3. Cardinality({}) = 0
    BY FS_EmptySet
  <2>4. 0 <= Limit + Cardinality(active) - 1 + lost[k] /\ 0 <= Limit
    BY <1>1
  <2>5. Cardinality(Live(admitted[k], clock)) = 0 /\ \A c : Cardinality(Within(admitted[k], c)) = 0
    BY <2>1, <2>2, <2>3
  <2> QED BY <2>4, <2>5
<1> QED BY <1>2, <1>3

(* For any number of clients, keys and threads, and whatever order their    *)
(* steps take: a client gets its limit in any window when one thread        *)
(* answers, and not more than one further admission for each other thread   *)
(* and for each time a race popped, when several do; the tracked clients    *)
(* stay within their cap and nobody is refused early, with one thread.      *)
THEOREM LimiterIsSound == Spec => []LimitSound
<1>1. IInv => LimitSound
  <2> SUFFICES ASSUME IInv PROVE LimitSound
    OBVIOUS
  <2>1. TypeOK
    <3>1. \A t \in Threads : thread[t] \in Place
                             /\ (Holding(t) => thread[t].deque \in DOMAIN deques)
      BY PlaceTyped DEF IInv
    <3>2. active \subseteq Threads /\ \A j, k \in Tracked : j # k => events[j] # events[k]
      BY DEF IInv, Typed, Buckets
    <3>3. \A k \in Keys : events[k] \in {None} \cup DOMAIN deques
      BY DequeTyped DEF IInv, Tracked
    <3>4. \A t \in Threads : thread[t].chosen \subseteq Keys /\ thread[t].key \in Keys \cup {None}
      BY <3>1 DEF Place
    <3> QED BY <3>1, <3>2, <3>3, <3>4 DEF TypeOK, Holding
  <2>2. WindowRespected
    BY WindowKept
  <2>3. ASSUME Cardinality(active) = 1
        PROVE  /\ Cardinality(Tracked) <= MaxKeys
               /\ ~verdict.ok => \/ verdict.key \notin Tracked
                                 \/ Cardinality(Live(admitted[verdict.key], verdict.now)) >= Limit
    <3>1. PICK t \in Threads : active = {t}
      BY <2>3, OneIsAlone DEF IInv
    <3> QED BY <3>1 DEF IInv, Alone, MapTold, RefusalTold
  <2> QED BY <2>1, <2>2, <2>3 DEF LimitSound, TrackedBounded, RefusalEarned
<1> QED BY <1>1, Invariance, PTL

(* With one thread, a client at its limit is evicted only when every bucket *)
(* that stays is at its limit too, so a flood of new clients cannot give a  *)
(* throttled one its quota back (_evict_expired).                           *)
THEOREM ThrottledStays == Spec => ThrottledKept
<1> DEFINE Throttled(t, k) == Cardinality(Live(admitted[k], thread[t].now)) >= Limit
           Kept == \A t \in Threads : active = {t} =>
                       \A k \in Tracked : Throttled(t, k) /\ events'[k] = None =>
                           \A j \in Keys : events'[j] # None => Throttled(t, j)
<1>1. IInv /\ [Next]_vars => Kept
  <2> SUFFICES ASSUME IInv, [Next]_vars, NEW t \in Threads, active = {t},
                      NEW k \in Tracked, Throttled(t, k), events'[k] = None,
                      NEW j \in Keys, events'[j] # None
               PROVE  Throttled(t, j)
    OBVIOUS
  <2> DEFINE now == thread[t].now
  <2>1. Typed /\ HistoryTold(t) /\ MapTold(t) /\ now \in Nat /\ Limit \in Nat \ {0}
    BY PlaceTyped, LimiterAssumption DEF IInv, Alone, Place
  <2>2. DeleteStale(t) \/ Evict(t)
    <3>1. events[k] # None
      BY DEF Tracked
    <3>2. ~Take(t)
      BY <2>1, <3>1, TakeChanges DEF Tracked
    <3>3. ~(UNCHANGED vars \/ Tick \/ \E l \in Keys : Call(t, l))
      <4>1. events' # events
        BY <3>1
      <4>2. UNCHANGED vars \/ Tick => events' = events
        BY DEF vars, Tick
      <4>3. (\E l \in Keys : Call(t, l)) => events' = events
        BY DEF Call
      <4> QED BY <4>1, <4>2, <4>3
    <3>4. ~(Look(t) \/ Scan(t) \/ Sort(t) \/ SeesExpired(t) \/ Pop(t))
      BY <3>1 DEF Look, Scan, Sort, SeesExpired, Pop
    <3>5. ~(PopRaises(t) \/ Deny(t) \/ MayAppend(t) \/ Admit(t))
      BY <3>1 DEF PopRaises, Deny, MayAppend, Admit
    <3> QED BY <2>1, <3>2, <3>3, <3>4, <3>5, Movers
  <2>3. /\ thread[t].chosen \in SUBSET Tracked /\ Deletes(thread[t].chosen)
        /\ UNCHANGED <<deques, verdict>> /\ thread[t].at # "rest"
        /\ thread[t].at \in {"stale", "evict"}
    BY <2>2 DEF DeleteStale, Evict
  <2>4. k \in thread[t].chosen /\ j \in Tracked \ thread[t].chosen
    <3>1. k \in Keys /\ events[k] # None
      BY DEF Tracked
    <3>2. \A l \in Keys : events'[l] = IF l \in thread[t].chosen THEN None ELSE events[l]
      BY <2>3 DEF Deletes
    <3> QED BY <3>1, <3>2 DEF Tracked
  <2>5. ASSUME NEW l \in Tracked
        PROVE  /\ admitted[l] \in Seq(Nat) /\ deques[events[l]] \in Seq(Nat)
               /\ Len(deques[events[l]]) \in Nat /\ Cardinality(Live(admitted[l], now)) \in Nat
               /\ Cardinality(Live(admitted[l], now)) = Len(deques[events[l]])
    <3>1. /\ admitted[l] \in Seq(Nat) /\ deques[events[l]] \in Seq(Nat) /\ Len(deques[events[l]]) \in Nat
      BY <2>1, DequeTyped
    <3>2. History(admitted[l], deques[events[l]], now)
      BY <2>1, <2>3, NowTyped DEF HistoryTold
    <3>3. deques[events[l]] = <<>> \/ ~Expired(deques[events[l]][1], now)
      BY <2>1, <2>3 DEF MapTold, Swept
    <3>4. Cardinality(Live(admitted[l], now)) <= Len(deques[events[l]])
      BY <2>1, <3>1, <3>2, HistoryLive
    <3>5. Len(deques[events[l]]) <= Cardinality(Live(admitted[l], now))
      BY <2>1, <3>1, <3>2, <3>3, HistoryCounts
    <3>6. Cardinality(Live(admitted[l], now)) \in Nat
      BY <2>1, <3>1, LiveNat
    <3> QED BY <3>1, <3>4, <3>5, <3>6
  <2>6. Full(k)
    BY <2>5 DEF Full
  <2>7. CASE thread[t].at = "stale"
    <3>1. deques[events[k]] = <<>>
      BY <2>1, <2>4, <2>7 DEF MapTold
    <3>2. Len(deques[events[k]]) = 0
      BY <3>1, EmptySeq
    <3> QED BY <2>1, <2>6, <3>2 DEF Full
  <2>8. CASE thread[t].at = "evict"
    <3>1. Full(j)
      BY <2>1, <2>4, <2>6, <2>8 DEF MapTold
    <3> QED BY <2>4, <2>5, <3>1 DEF Full
  <2> QED BY <2>3, <2>7, <2>8
<1> QED BY <1>1, Invariance, PTL DEF Spec, ThrottledKept
=============================================================================
