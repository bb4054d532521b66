------------------------ MODULE QueryEmbeddingGuard ------------------------
(***************************************************************************)
(* app/rag/resilience.py: query embeddings behind a cache, a circuit       *)
(* breaker, a semaphore with a bounded wait and a timeout, and the model   *)
(* calls that go on after their caller has given up.  The model is either  *)
(* a local one (app/rag/embeddings.py, SentenceTransformerEmbeddingClient),*)
(* whose calls queue for one lock and compute in threads that cannot be    *)
(* stopped, or a remote one, whose calls run together and end when they    *)
(* are cancelled.                                                          *)
(*                                                                         *)
(* Time is what it decides: a cache entry expires, the circuit's reset     *)
(* period passes, a wait times out, each as an action of its own.          *)
(***************************************************************************)
EXTENDS Integers, FiniteSets, Sequences, SequencesExt

CONSTANTS
    Callers,        \* requests that embed queries, one batch at a time
    Queries,        \* query texts
    Dimensions,     \* vector dimensions an embedder may answer with
    MaxConcurrency, \* embedding_query_max_concurrency
    MaxBackground,  \* max_background_tasks
    Threshold,      \* circuit_breaker_failures
    CacheMax,       \* cache_max_entries
    Local,          \* whether the model is the local one
    MaxStrays,      \* bound: model threads left behind by cancelled tasks
    None

ASSUME GuardAssumption ==
    /\ IsFiniteSet(Callers)
    /\ MaxConcurrency \in Nat \ {0} /\ MaxBackground \in Nat \ {0}
    /\ Threshold \in Nat \ {0} /\ CacheMax \in Nat /\ MaxStrays \in Nat
    /\ Local \in BOOLEAN
    /\ None \notin Dimensions

VARIABLES
    stage,      \* each caller: idle, waiting for a slot, or running its task
    missing,    \* the queries a caller embeds
    waiters,    \* the semaphore's queue
    free,       \* the semaphore's value
    background, \* abandoned tasks still running
    cancelled,  \* abandoned tasks asked to stop and not finished
    encoding,   \* holder of the local model's lock: a caller, "background",
                \* "cancelled" or None
    strays,     \* model threads whose task is gone
    failures,   \* _consecutive_failures, saturating at Threshold
    open,       \* whether _circuit_open_until lies ahead
    cache,      \* _cache, least recently used first
    dimension   \* _expected_dimension

slots == <<waiters, free>>
tasks == <<background, cancelled, encoding, strays>>
circuit == <<failures, open>>
vectors == <<cache, dimension>>
vars == <<stage, missing, slots, tasks, circuit, vectors>>

-----------------------------------------------------------------------------
Batches == {b \in UNION {[1 .. n -> Queries] : n \in 1 .. Cardinality(Queries)} :
                \A i, j \in DOMAIN b : b[i] = b[j] => i = j}

(* The cache is an ordered dictionary: a query has one place in it.         *)
Held(entries, q) == \E i \in DOMAIN entries : entries[i].query = q

Place(entries, q) == CHOOSE i \in DOMAIN entries : entries[i].query = q

Without(entries, q) == IF Held(entries, q) THEN RemoveAt(entries, Place(entries, q)) ELSE entries

Refreshed(entries, q) == Append(Without(entries, q), entries[Place(entries, q)])

(* Reading a batch moves the entries it hits to the end, in its order; the  *)
(* others are what it misses.                                               *)
Read(batch) ==
    LET read[n \in 0 .. Len(batch)] ==
            IF n = 0 THEN [entries |-> cache, missing |-> <<>>]
            ELSE IF Held(read[n - 1].entries, batch[n])
                 THEN [read[n - 1] EXCEPT !.entries = Refreshed(@, batch[n])]
                 ELSE [read[n - 1] EXCEPT !.missing = Append(@, batch[n])]
    IN  read[Len(batch)]

Trimmed(entries) == IF Len(entries) > CacheMax THEN Tail(entries) ELSE entries

(* Mutant: an entry stored again is added again.                            *)
StoredTwice(batch, d) ==
    LET stored[n \in 0 .. Len(batch)] ==
            IF n = 0 THEN cache
            ELSE Trimmed(Append(stored[n - 1], [query |-> batch[n], dim |-> d]))
    IN  stored[Len(batch)]

(* Storing a batch refreshes or adds each vector and drops the oldest.      *)
Stored(batch, d) ==
    LET stored[n \in 0 .. Len(batch)] ==
            IF n = 0 THEN cache
            ELSE Trimmed(Append(Without(stored[n - 1], batch[n]), [query |-> batch[n], dim |-> d]))
    IN  stored[Len(batch)]

Running == {c \in Callers : stage[c] = "running"}

Init ==
    /\ stage = [c \in Callers |-> "idle"]
    /\ missing = [c \in Callers |-> <<>>]
    /\ waiters = <<>>
    /\ free = MaxConcurrency
    /\ background = 0 /\ cancelled = 0 /\ encoding = None /\ strays = 0
    /\ failures = 0 /\ open = FALSE
    /\ cache = <<>>
    /\ dimension \in Dimensions \cup {None}

-----------------------------------------------------------------------------
Leave(c) ==
    /\ stage' = [stage EXCEPT ![c] = "idle"]
    /\ missing' = [missing EXCEPT ![c] = <<>>]

RecordFailure ==
    /\ failures' = IF failures < Threshold THEN failures + 1 ELSE failures
    /\ open' = (open \/ failures + 1 >= Threshold)

(* Mutant: a newcomer takes a free slot without looking at the queue or     *)
(* counting the slot.                                                       *)
EnterUncounted(c) ==
    IF free > 0 /\ waiters = <<>>
    THEN stage' = [stage EXCEPT ![c] = "running"] /\ UNCHANGED slots
    ELSE /\ stage' = [stage EXCEPT ![c] = "waiting"]
         /\ waiters' = Append(waiters, c) /\ free' = free

(* Taking a slot, or a place in the queue for one.                          *)
Enter(c) ==
    IF free > 0 /\ waiters = <<>>
    THEN /\ stage' = [stage EXCEPT ![c] = "running"]
         /\ free' = free - 1 /\ waiters' = waiters
    ELSE /\ stage' = [stage EXCEPT ![c] = "waiting"]
         /\ waiters' = Append(waiters, c) /\ free' = free

(* A batch that is all in the cache is answered from it.  Otherwise an open *)
(* circuit refuses it; the circuit is not looked at again after the wait.   *)
Embed(c, batch) ==
    /\ stage[c] = "idle"
    /\ LET read == Read(batch) IN
       /\ cache' = read.entries
       /\ IF read.missing = <<>> \/ open
          THEN UNCHANGED <<stage, missing, slots>>
          ELSE Enter(c) /\ missing' = [missing EXCEPT ![c] = read.missing]
    /\ UNCHANGED <<tasks, circuit, dimension>>

(* A released slot goes to the first waiter, which starts its task.         *)
Acquire(c) ==
    /\ waiters # <<>> /\ Head(waiters) = c /\ free > 0
    /\ waiters' = Tail(waiters)
    /\ free' = free - 1
    /\ stage' = [stage EXCEPT ![c] = "running"]
    /\ UNCHANGED <<missing, tasks, circuit, vectors>>

(* Mutant: a waiter that gives up stays in the queue.                       *)
QueueTimeoutStaying(c) ==
    /\ stage[c] = "waiting"
    /\ waiters' = waiters
    /\ Leave(c)
    /\ UNCHANGED <<free, tasks, circuit, vectors>>

(* Mutant: the wait has no timeout, so only a released slot ends it.        *)
QueueTimeoutLate(c) ==
    /\ stage[c] = "waiting" /\ free > 0
    /\ \E i \in DOMAIN waiters : waiters[i] = c /\ waiters' = RemoveAt(waiters, i)
    /\ Leave(c)
    /\ UNCHANGED <<free, tasks, circuit, vectors>>

(* The wait times out or the caller is cancelled: no failure is recorded.   *)
QueueTimeout(c) ==
    /\ stage[c] = "waiting"
    /\ \E i \in DOMAIN waiters : waiters[i] = c /\ waiters' = RemoveAt(waiters, i)
    /\ Leave(c)
    /\ UNCHANGED <<free, tasks, circuit, vectors>>

(* A task of the local model computes once it has the lock.  Which of the   *)
(* waiting tasks is next is left open; a cancelled one never is.            *)
Encode(c) ==
    /\ Local /\ encoding = None /\ stage[c] = "running"
    /\ encoding' = c
    /\ UNCHANGED <<stage, missing, slots, background, cancelled, strays, circuit, vectors>>

EncodeAbandoned ==
    /\ Local /\ encoding = None /\ background > 0
    /\ encoding' = "background"
    /\ UNCHANGED <<stage, missing, slots, background, cancelled, strays, circuit, vectors>>

(* A call that ends by itself has computed, and lets the next one compute.  *)
CallEnds(holder) ==
    /\ Local => encoding = holder
    /\ encoding' = None

(* Mutant: the dimension is compared with nothing.                          *)
SucceedUnchecked(c, d) ==
    /\ stage[c] = "running" /\ CallEnds(c)
    /\ dimension' = d
    /\ cache' = Stored(missing[c], d)
    /\ failures' = 0 /\ open' = FALSE
    /\ free' = free + 1
    /\ Leave(c)
    /\ UNCHANGED <<waiters, background, cancelled, strays>>

(* Mutant: the failures before a success still count.                       *)
SucceedKeepingCircuit(c, d) ==
    /\ stage[c] = "running" /\ CallEnds(c) /\ dimension \in {None, d}
    /\ dimension' = d
    /\ cache' = Stored(missing[c], d)
    /\ failures' = 0 /\ open' = open
    /\ free' = free + 1
    /\ Leave(c)
    /\ UNCHANGED <<waiters, background, cancelled, strays>>

(* The task answers with vectors of the expected dimension, or of the first *)
(* dimension ever seen.                                                     *)
Succeed(c, d) ==
    /\ stage[c] = "running" /\ CallEnds(c) /\ dimension \in {None, d}
    /\ dimension' = d
    /\ cache' = Stored(missing[c], d)
    /\ failures' = 0 /\ open' = FALSE
    /\ free' = free + 1
    /\ Leave(c)
    /\ UNCHANGED <<waiters, background, cancelled, strays>>

(* The task raises, or answers with something that does not validate.       *)
Fail(c) ==
    /\ stage[c] = "running" /\ CallEnds(c)
    /\ RecordFailure
    /\ free' = free + 1
    /\ Leave(c)
    /\ UNCHANGED <<waiters, background, cancelled, strays, vectors>>

(* An abandoned task that was computing still is.                           *)
Handed(c, to) == encoding' = IF encoding = c THEN to ELSE encoding

(* Mutant: no limit on abandoned tasks.                                     *)
TrackAll(c) ==
    /\ background' = background + 1
    /\ Handed(c, "background")
    /\ UNCHANGED <<cancelled, strays>>

(* An abandoned task keeps its slot; over the limit it is asked to stop.    *)
Track(c) ==
    /\ IF background + cancelled >= MaxBackground
       THEN cancelled' = cancelled + 1 /\ background' = background /\ Handed(c, "cancelled")
       ELSE background' = background + 1 /\ cancelled' = cancelled /\ Handed(c, "background")
    /\ strays' = strays

Timeout(c) ==
    /\ stage[c] = "running"
    /\ Track(c)
    /\ RecordFailure
    /\ Leave(c)
    /\ UNCHANGED <<slots, vectors>>

CallerCancelled(c) ==
    /\ stage[c] = "running"
    /\ Track(c)
    /\ Leave(c)
    /\ UNCHANGED <<slots, circuit, vectors>>

BackgroundDone ==
    /\ background > 0 /\ CallEnds("background")
    /\ background' = background - 1
    /\ free' = free + 1
    /\ UNCHANGED <<stage, missing, waiters, cancelled, strays, circuit, vectors>>

(* A cancelled task ends and gives up its slot.  If it was computing, it    *)
(* also gives up the lock, but its thread goes on.                          *)
CancelDone ==
    /\ cancelled > 0
    /\ cancelled' = cancelled - 1
    /\ free' = free + 1
    /\ \/ /\ encoding = "cancelled" /\ strays < MaxStrays
          /\ encoding' = None /\ strays' = strays + 1
       \/ /\ encoding # "cancelled" \/ cancelled > 1
          /\ UNCHANGED <<encoding, strays>>
    /\ UNCHANGED <<stage, missing, waiters, background, circuit, vectors>>

StrayDone ==
    /\ strays > 0
    /\ strays' = strays - 1
    /\ UNCHANGED <<stage, missing, slots, background, cancelled, encoding, circuit, vectors>>

ResetPeriodPasses ==
    /\ open /\ open' = FALSE
    /\ UNCHANGED <<stage, missing, slots, tasks, failures, vectors>>

EntryExpires(q) ==
    /\ Held(cache, q)
    /\ cache' = Without(cache, q)
    /\ UNCHANGED <<stage, missing, slots, tasks, circuit, dimension>>

-----------------------------------------------------------------------------
(* What a caller does on its own: its waits end, if only by their timeout.  *)
GiveUp(c) == Acquire(c) \/ QueueTimeout(c) \/ Timeout(c)

Step(c) ==
    \/ \E batch \in Batches : Embed(c, batch)
    \/ GiveUp(c)
    \/ Encode(c)
    \/ \E d \in Dimensions : Succeed(c, d)
    \/ Fail(c) \/ CallerCancelled(c)

Next ==
    \/ \E c \in Callers : Step(c)
    \/ EncodeAbandoned \/ BackgroundDone \/ CancelDone \/ StrayDone \/ ResetPeriodPasses
    \/ \E q \in Queries : EntryExpires(q)

(* The timeouts fire; nothing is assumed of the model, which may hang.      *)
Fairness == \A c \in Callers : WF_vars(GiveUp(c))

Spec == Init /\ [][Next]_vars /\ Fairness

-----------------------------------------------------------------------------
(* Properties.                                                              *)

TypeOK ==
    /\ stage \in [Callers -> {"idle", "waiting", "running"}]
    /\ missing \in [Callers -> Seq(Queries)]
    /\ waiters \in Seq(Callers)
    /\ free \in Nat /\ background \in Nat /\ cancelled \in Nat /\ strays \in Nat
    /\ encoding \in Callers \cup {"background", "cancelled", None}
    /\ failures \in 0 .. Threshold
    /\ open \in BOOLEAN
    /\ cache \in Seq([query : Queries, dim : Dimensions])
    /\ dimension \in Dimensions \cup {None}

(* No slot is lost or released twice, whichever of answer, error, timeout   *)
(* and cancellation comes first: a slot is free, or held by a running       *)
(* caller, or by an abandoned task (resilience.py 105-165).                 *)
SlotsConserved ==
    free + Cardinality(Running) + background + cancelled = MaxConcurrency

(* The queue holds exactly the waiting callers, each once.                  *)
QueueExact ==
    /\ \A i, j \in DOMAIN waiters : waiters[i] = waiters[j] => i = j
    /\ {waiters[i] : i \in DOMAIN waiters} = {c \in Callers : stage[c] = "waiting"}

(* All vectors served from the cache have one dimension, also when the      *)
(* first two answers of a model of unknown dimension race.                  *)
OneDimension == \A i \in DOMAIN cache : cache[i].dim = dimension

(* The cache never outgrows its limit and holds a query once.               *)
CacheBounded ==
    /\ Len(cache) <= CacheMax
    /\ \A i, j \in DOMAIN cache : cache[i].query = cache[j].query => i = j

(* The circuit is open only while enough failures stand with no success     *)
(* after them, although answers of earlier calls come late.                 *)
CircuitJustified == open => failures = Threshold

(* Abandoned tasks that still run are at most MaxBackground (SECURITY.md    *)
(* 25-27).                                                                  *)
BackgroundBounded == background <= MaxBackground

(* No more than MaxConcurrency model calls compute at once, whoever gave    *)
(* up on them: "Keep its slot reserved until it finishes ... so the next    *)
(* caller cannot start a second embedding alongside it" (resilience.py      *)
(* 135-138).                                                                *)
Computing ==
    IF Local THEN strays + (IF encoding = None THEN 0 ELSE 1)
    ELSE Cardinality(Running) + background + cancelled

ModelBounded == Computing <= MaxConcurrency

(* A caller is never stuck, even if the model never answers: the queue must *)
(* not become an unbounded stall (tests/test_rag_resilience.py 166-167).    *)
CallersEnd == \A c \in Callers : stage[c] # "idle" ~> stage[c] = "idle"

(* Whatever ends first, every waiting caller is queued once and nobody else *)
(* is, and the abandoned tasks stay within their cap (_acquire, _release,   *)
(* _track).                                                                 *)
GuardSound == TypeOK /\ QueueExact /\ BackgroundBounded

(* The cache serves vectors of one dimension, one for a query, within its   *)
(* limit, whichever of two answers to one query comes first (_store).       *)
CacheSound == OneDimension /\ CacheBounded
=============================================================================
