--------------------- MODULE QueryEmbeddingGuard_proofs ---------------------
(***************************************************************************)
(* Proofs about QueryEmbeddingGuard, for any number of callers, slots and  *)
(* cache entries.                                                          *)
(***************************************************************************)
EXTENDS QueryEmbeddingGuard, FiniteSetTheorems, SequenceTheorems, WellFoundedInduction, TLAPS

-----------------------------------------------------------------------------
(* The inductive invariant: the slots' bookkeeping, the queue, the limits.  *)

SlotTypes ==
    /\ stage \in [Callers -> {"idle", "waiting", "running"}]
    /\ waiters \in Seq(Callers)
    /\ free \in Nat /\ background \in Nat /\ cancelled \in Nat /\ strays \in Nat
    /\ failures \in 0 .. Threshold
    /\ open \in BOOLEAN

(* The queue holds waiting callers only, each once, and all of them.        *)
QueueSound ==
    /\ \A i, j \in DOMAIN waiters : waiters[i] = waiters[j] => i = j
    /\ \A i \in DOMAIN waiters : stage[waiters[i]] = "waiting"
    /\ \A c \in Callers : stage[c] = "waiting" => \E i \in DOMAIN waiters : waiters[i] = c

IInv == SlotTypes /\ QueueSound /\ SlotsConserved /\ CircuitJustified /\ BackgroundBounded

-----------------------------------------------------------------------------
(* Taking and leaving a slot changes the number of running callers by one.  *)
LEMMA RunningFinite == IsFiniteSet(Running) /\ Cardinality(Running) \in Nat
<1>1. Running \in SUBSET Callers
  BY DEF Running
<1>2. IsFiniteSet(Running)
  BY <1>1, FS_Subset, GuardAssumption
<1> QED BY <1>2, FS_CardinalityType

LEMMA CountUp ==
    ASSUME SlotTypes, NEW c \in Callers, stage[c] # "running",
           stage' = [stage EXCEPT ![c] = "running"]
    PROVE  Cardinality(Running') = Cardinality(Running) + 1
<1>1. Running' = Running \cup {c} /\ c \notin Running
  BY DEF Running, SlotTypes
<1> QED BY <1>1, RunningFinite, FS_AddElement

LEMMA CountDown ==
    ASSUME SlotTypes, NEW c \in Callers, stage[c] = "running",
           stage' = [stage EXCEPT ![c] = "idle"]
    PROVE  Cardinality(Running') = Cardinality(Running) - 1
<1>1. Running' = Running \ {c} /\ c \in Running
  BY DEF Running, SlotTypes
<1> QED BY <1>1, RunningFinite, FS_RemoveElement

LEMMA CountSame ==
    ASSUME SlotTypes, NEW c \in Callers, NEW to, stage[c] # "running", to # "running",
           stage' = [stage EXCEPT ![c] = to]
    PROVE  Cardinality(Running') = Cardinality(Running)
<1>1. Running' = Running
  BY DEF Running, SlotTypes
<1> QED BY <1>1

(* What the queue operations keep.                                          *)
LEMMA QueueShrinks ==
    ASSUME SlotTypes, QueueSound, NEW i \in DOMAIN waiters
    PROVE  LET rest == RemoveAt(waiters, i) IN
           /\ rest \in Seq(Callers)
           /\ \A j, k \in DOMAIN rest : rest[j] = rest[k] => j = k
           /\ \A j \in DOMAIN rest : rest[j] # waiters[i] /\ stage[rest[j]] = "waiting" /\ rest[j] \in Callers
           /\ \A c \in Callers \ {waiters[i]} : stage[c] = "waiting" => \E j \in DOMAIN rest : rest[j] = c
<1> DEFINE n == Len(waiters)
           a == SubSeq(waiters, 1, i - 1)
           b == SubSeq(waiters, i + 1, n)
           rest == a \o b
<1>1. n \in Nat /\ i \in 1 .. n /\ waiters \in Seq(Callers)
  BY DEF SlotTypes
<1>2. /\ a \in Seq(Callers) /\ Len(a) = i - 1
      /\ \A j \in 1 .. i - 1 : a[j] = waiters[j]
  BY <1>1
<1>3. /\ b \in Seq(Callers) /\ Len(b) = n - i
      /\ \A j \in 1 .. n - i : b[j] = waiters[j + i]
  BY <1>1
<1>4. /\ rest \in Seq(Callers) /\ Len(rest) = n - 1
      /\ \A j \in 1 .. n - 1 : rest[j] = IF j < i THEN waiters[j] ELSE waiters[j + 1]
  <2> HIDE DEF a, b
  <2>1. rest \in Seq(Callers) /\ Len(rest) = n - 1
    BY <1>1, <1>2, <1>3
  <2>2. ASSUME NEW j \in 1 .. n - 1 PROVE rest[j] = IF j < i THEN waiters[j] ELSE waiters[j + 1]
    BY <1>1, <1>2, <1>3, <2>2
  <2> QED BY <2>1, <2>2
<1>5. RemoveAt(waiters, i) = rest
  BY DEF RemoveAt
<1>6. DOMAIN rest = 1 .. n - 1 /\ DOMAIN waiters = 1 .. n
  <2> HIDE DEF rest
  <2> QED BY <1>1, <1>4
<1>7. /\ \A j, k \in 1 .. n : waiters[j] = waiters[k] => j = k
      /\ \A j \in 1 .. n : stage[waiters[j]] = "waiting"
  BY <1>6 DEF QueueSound
<1> HIDE DEF rest, a, b, n
<1>8. ASSUME NEW j \in 1 .. n - 1
      PROVE  rest[j] # waiters[i] /\ stage[rest[j]] = "waiting" /\ rest[j] \in Callers
  <2>1. CASE j < i
    BY <1>1, <1>4, <1>7, <2>1
  <2>2. CASE ~(j < i)
    BY <1>1, <1>4, <1>7, <2>2
  <2> QED BY <2>1, <2>2
<1>9. ASSUME NEW j \in 1 .. n - 1, NEW k \in 1 .. n - 1, rest[j] = rest[k]
      PROVE  j = k
  <2>1. CASE j < i /\ k < i
    BY <1>1, <1>4, <1>7, <1>9, <2>1
  <2>2. CASE j < i /\ ~(k < i)
    BY <1>1, <1>4, <1>7, <1>9, <2>2
  <2>3. CASE ~(j < i) /\ k < i
    BY <1>1, <1>4, <1>7, <1>9, <2>3
  <2>4. CASE ~(j < i) /\ ~(k < i)
    BY <1>1, <1>4, <1>7, <1>9, <2>4
  <2> QED BY <2>1, <2>2, <2>3, <2>4
<1>10. ASSUME NEW c \in Callers \ {waiters[i]}, stage[c] = "waiting"
       PROVE  \E j \in 1 .. n - 1 : rest[j] = c
  <2>1. PICK k \in 1 .. n : waiters[k] = c
    BY <1>6, <1>10 DEF QueueSound
  <2>2. CASE k < i
    <3>1. k \in 1 .. n - 1 /\ rest[k] = c
      BY <1>1, <1>4, <2>1, <2>2
    <3> QED BY <3>1
  <2>3. CASE ~(k < i)
    <3>1. k - 1 \in 1 .. n - 1 /\ ~(k - 1 < i) /\ (k - 1) + 1 = k
      BY <1>1, <1>10, <2>1, <2>3
    <3>2. rest[k - 1] = c
      BY <1>4, <2>1, <3>1
    <3> QED BY <3>1, <3>2
  <2> QED BY <2>2, <2>3
<1> QED BY <1>4, <1>5, <1>6, <1>8, <1>9, <1>10

LEMMA QueueAdvances ==
    ASSUME SlotTypes, QueueSound, waiters # <<>>
    PROVE  LET rest == Tail(waiters) IN
           /\ rest \in Seq(Callers)
           /\ \A j, k \in DOMAIN rest : rest[j] = rest[k] => j = k
           /\ \A j \in DOMAIN rest : rest[j] # Head(waiters) /\ stage[rest[j]] = "waiting" /\ rest[j] \in Callers
           /\ stage[Head(waiters)] = "waiting" /\ Head(waiters) \in Callers
           /\ \A c \in Callers \ {Head(waiters)} : stage[c] = "waiting" => \E j \in DOMAIN rest : rest[j] = c
<1> DEFINE n == Len(waiters)
           rest == Tail(waiters)
<1>1. n \in Nat /\ n # 0 /\ DOMAIN waiters = 1 .. n /\ Head(waiters) = waiters[1]
  BY DEF SlotTypes
<1>2. /\ rest \in Seq(Callers) /\ DOMAIN rest = 1 .. n - 1
      /\ \A j \in 1 .. n - 1 : rest[j] = waiters[j + 1]
      /\ Head(waiters) \in Callers
  BY HeadTailProperties DEF SlotTypes
<1> HIDE DEF rest, n
<1>3. ASSUME NEW c \in Callers \ {Head(waiters)}, stage[c] = "waiting"
      PROVE  \E j \in DOMAIN rest : rest[j] = c
  <2>1. PICK k \in 1 .. n : waiters[k] = c
    BY <1>1, <1>3 DEF QueueSound
  <2>2. k - 1 \in 1 .. n - 1 /\ rest[k - 1] = c
    BY <1>1, <1>2, <1>3, <2>1
  <2> QED BY <1>2, <2>2
<1> QED BY <1>1, <1>2, <1>3 DEF QueueSound, rest

LEMMA QueueGrows ==
    ASSUME SlotTypes, QueueSound, NEW c \in Callers, stage[c] # "waiting"
    PROVE  LET more == Append(waiters, c) IN
           /\ more \in Seq(Callers)
           /\ \A j, k \in DOMAIN more : more[j] = more[k] => j = k
           /\ \A j \in DOMAIN more : (more[j] = c \/ stage[more[j]] = "waiting") /\ more[j] \in Callers
           /\ \A b \in Callers : b = c \/ stage[b] = "waiting" => \E j \in DOMAIN more : more[j] = b
<1> DEFINE n == Len(waiters)
           more == Append(waiters, c)
<1>1. n \in Nat /\ DOMAIN waiters = 1 .. n
  BY DEF SlotTypes
<1>2. /\ more \in Seq(Callers) /\ DOMAIN more = 1 .. n + 1
      /\ \A j \in 1 .. n : more[j] = waiters[j]
      /\ more[n + 1] = c
  BY AppendProperties DEF SlotTypes
<1> HIDE DEF more, n
<1>3. ASSUME NEW b \in Callers, b = c \/ stage[b] = "waiting"
      PROVE  \E j \in DOMAIN more : more[j] = b
  <2>1. CASE b = c
    BY <1>1, <1>2, <2>1
  <2>2. CASE stage[b] = "waiting"
    <3>1. PICK k \in 1 .. n : waiters[k] = b
      BY <1>1, <2>2 DEF QueueSound
    <3>2. k \in DOMAIN more /\ more[k] = b
      BY <1>1, <1>2, <3>1
    <3> QED BY <3>2
  <2> QED BY <1>3, <2>1, <2>2
<1> QED BY <1>1, <1>2, <1>3 DEF QueueSound, more

(* A queue of others, after one caller's stage changed.                     *)
LEMMA QueueRebuilt ==
    ASSUME SlotTypes, NEW c \in Callers, NEW to, stage' = [stage EXCEPT ![c] = to],
           \A j, k \in DOMAIN waiters' : waiters'[j] = waiters'[k] => j = k,
           \A j \in DOMAIN waiters' :
               /\ waiters'[j] \in Callers
               /\ (waiters'[j] # c /\ stage[waiters'[j]] = "waiting")
                  \/ (waiters'[j] = c /\ to = "waiting"),
           to = "waiting" => \E j \in DOMAIN waiters' : waiters'[j] = c,
           \A b \in Callers \ {c} : stage[b] = "waiting" => \E j \in DOMAIN waiters' : waiters'[j] = b
    PROVE  QueueSound'
BY DEF QueueSound, SlotTypes

-----------------------------------------------------------------------------
LEMMA InitInv == Init => IInv
<1> SUFFICES ASSUME Init PROVE IInv
  OBVIOUS
<1>1. SlotTypes
  <2>1. waiters \in Seq(Callers)
    BY EmptySeq DEF Init
  <2>2. stage \in [Callers -> {"idle", "waiting", "running"}]
    BY DEF Init
  <2>3. free \in Nat /\ failures \in 0 .. Threshold
    BY GuardAssumption DEF Init
  <2> QED BY <2>1, <2>2, <2>3 DEF Init, SlotTypes
<1>4. QueueSound
  <2>1. DOMAIN waiters = {} /\ \A c \in Callers : stage[c] # "waiting"
    BY DEF Init
  <2> QED BY <2>1 DEF QueueSound
<1>2. Running = {}
  BY DEF Init, Running
<1>3. SlotsConserved
  BY <1>2, FS_EmptySet, GuardAssumption DEF Init, SlotsConserved
<1> QED BY <1>1, <1>3, <1>4, GuardAssumption DEF Init, IInv, CircuitJustified, BackgroundBounded

(* A caller that stops running keeps the queue as it was.                   *)
LEMMA LeaveQueue ==
    ASSUME SlotTypes, QueueSound, NEW c \in Callers, stage[c] = "running",
           stage' = [stage EXCEPT ![c] = "idle"], waiters' = waiters
    PROVE  QueueSound'
<1>1. \A i \in DOMAIN waiters : waiters[i] \in Callers
  BY DEF SlotTypes
<1> QED BY <1>1 DEF QueueSound, SlotTypes

LEMMA FailureCount ==
    ASSUME SlotTypes, CircuitJustified, RecordFailure
    PROVE  failures' \in 0 .. Threshold /\ open' \in BOOLEAN /\ CircuitJustified'
BY GuardAssumption DEF SlotTypes, CircuitJustified, RecordFailure

LEMMA InvStep ==
    ASSUME IInv, [Next]_vars
    PROVE  IInv'
<1> USE DEF IInv
<1>1. CASE stage' = stage /\ waiters' = waiters /\ UNCHANGED <<free, failures, open, background, cancelled>>
           /\ strays' \in Nat
  BY <1>1 DEF SlotTypes, QueueSound, SlotsConserved, Running, CircuitJustified, BackgroundBounded
<1>2. ASSUME NEW c \in Callers, NEW batch \in Batches, Embed(c, batch) PROVE IInv'
  <2>0. stage[c] = "idle" /\ UNCHANGED <<tasks, circuit>>
    BY <1>2 DEF Embed
  <2>1. CASE UNCHANGED <<stage, missing, slots>>
    BY <1>2, <2>1, <1>1 DEF Embed, slots, tasks, circuit, SlotTypes
  <2>2. CASE Enter(c) /\ free > 0 /\ waiters = <<>>
    <3>1. stage' = [stage EXCEPT ![c] = "running"] /\ free' = free - 1 /\ waiters' = waiters
      BY <2>2 DEF Enter
    <3>2. Cardinality(Running') = Cardinality(Running) + 1 /\ Cardinality(Running) \in Nat
      BY <2>0, <3>1, CountUp, RunningFinite
    <3>3. SlotTypes'
      BY <2>0, <2>2, <3>1 DEF tasks, circuit, SlotTypes
    <3>4. QueueSound'
      <4>1. DOMAIN waiters' = {} /\ DOMAIN waiters = {}
        BY <2>2, <3>1
      <4>2. \A b \in Callers : stage'[b] # "waiting"
        BY <3>1, <4>1 DEF QueueSound, SlotTypes
      <4> QED BY <4>1, <4>2 DEF QueueSound
    <3> QED BY <2>0, <2>2, <3>1, <3>2, <3>3, <3>4
            DEF tasks, circuit, SlotsConserved, SlotTypes, CircuitJustified, BackgroundBounded
  <2>3. CASE Enter(c) /\ ~(free > 0 /\ waiters = <<>>)
    <3>1. stage' = [stage EXCEPT ![c] = "waiting"] /\ waiters' = Append(waiters, c) /\ free' = free
      BY <2>3 DEF Enter
    <3>2. Cardinality(Running') = Cardinality(Running) /\ Cardinality(Running) \in Nat
      BY <2>0, <3>1, CountSame, RunningFinite
    <3>3. /\ waiters' \in Seq(Callers)
          /\ \A j, k \in DOMAIN waiters' : waiters'[j] = waiters'[k] => j = k
          /\ \A j \in DOMAIN waiters' :
                 (waiters'[j] = c \/ stage[waiters'[j]] = "waiting") /\ waiters'[j] \in Callers
          /\ \A b \in Callers : b = c \/ stage[b] = "waiting" => \E j \in DOMAIN waiters' : waiters'[j] = b
      BY <2>0, <3>1, QueueGrows
    <3>4. /\ \A j \in DOMAIN waiters' :
                /\ waiters'[j] \in Callers
                /\ \/ waiters'[j] # c /\ stage[waiters'[j]] = "waiting"
                   \/ waiters'[j] = c /\ "waiting" = "waiting"
          /\ \E j \in DOMAIN waiters' : waiters'[j] = c
          /\ \A b \in Callers \ {c} : stage[b] = "waiting" => \E j \in DOMAIN waiters' : waiters'[j] = b
      BY <3>3
    <3>5. QueueSound'
      BY <2>0, <3>1, <3>3, <3>4, QueueRebuilt
    <3>6. waiters' \in Seq(Callers)
      BY <3>3
    <3>7. SlotTypes'
      BY <2>0, <3>1, <3>6 DEF tasks, circuit, SlotTypes
    <3> QED BY <2>0, <3>1, <3>2, <3>5, <3>7
            DEF tasks, circuit, SlotsConserved, SlotTypes, CircuitJustified, BackgroundBounded
  <2> QED BY <1>2, <2>1, <2>2, <2>3 DEF Embed
<1>3. ASSUME NEW c \in Callers, Acquire(c) PROVE IInv'
  <2>1. stage[c] = "waiting" /\ stage' = [stage EXCEPT ![c] = "running"]
    BY <1>3, QueueAdvances DEF Acquire
  <2>2. Cardinality(Running') = Cardinality(Running) + 1 /\ Cardinality(Running) \in Nat
    BY <2>1, CountUp, RunningFinite
  <2>3. QueueSound' /\ waiters' \in Seq(Callers)
    BY <1>3, QueueAdvances, QueueRebuilt DEF Acquire
  <2>4. SlotTypes'
    BY <1>3, <2>3 DEF Acquire, tasks, circuit, SlotTypes
  <2> QED BY <1>3, <2>2, <2>3, <2>4
          DEF Acquire, tasks, circuit, SlotsConserved, SlotTypes, CircuitJustified, BackgroundBounded
<1>4. ASSUME NEW c \in Callers, QueueTimeout(c) PROVE IInv'
  <2>1. PICK i \in DOMAIN waiters : waiters[i] = c /\ waiters' = RemoveAt(waiters, i)
    BY <1>4 DEF QueueTimeout
  <2>0. stage[c] = "waiting" /\ stage' = [stage EXCEPT ![c] = "idle"]
    BY <1>4 DEF QueueTimeout, Leave
  <2>2. Cardinality(Running') = Cardinality(Running) /\ Cardinality(Running) \in Nat
    BY <2>0, CountSame, RunningFinite
  <2>3. QueueSound' /\ waiters' \in Seq(Callers)
    <3>1. /\ waiters' \in Seq(Callers)
          /\ \A j, k \in DOMAIN waiters' : waiters'[j] = waiters'[k] => j = k
          /\ \A j \in DOMAIN waiters' :
                 waiters'[j] # c /\ stage[waiters'[j]] = "waiting" /\ waiters'[j] \in Callers
          /\ \A b \in Callers \ {c} : stage[b] = "waiting" => \E j \in DOMAIN waiters' : waiters'[j] = b
      BY <2>1, QueueShrinks
    <3>2. \A j \in DOMAIN waiters' :
              /\ waiters'[j] \in Callers
              /\ \/ waiters'[j] # c /\ stage[waiters'[j]] = "waiting"
                 \/ waiters'[j] = c /\ "idle" = "waiting"
      BY <3>1
    <3>3. QueueSound'
      BY <2>0, <3>1, <3>2, QueueRebuilt
    <3> QED BY <3>1, <3>3
  <2>4. SlotTypes'
    BY <1>4, <2>3 DEF QueueTimeout, Leave, tasks, circuit, SlotTypes
  <2> QED BY <1>4, <2>2, <2>3, <2>4
          DEF QueueTimeout, tasks, circuit, SlotsConserved, SlotTypes, CircuitJustified, BackgroundBounded
<1>5. ASSUME NEW c \in Callers, stage[c] = "running", Leave(c), waiters' = waiters,
             \/ free' = free + 1 /\ UNCHANGED <<background, cancelled, strays>>
             \/ free' = free /\ Track(c),
             \/ failures' = 0 /\ open' = FALSE
             \/ RecordFailure
             \/ UNCHANGED circuit
      PROVE  IInv'
  <2>1. stage' = [stage EXCEPT ![c] = "idle"]
    BY <1>5 DEF Leave
  <2>2. Cardinality(Running') = Cardinality(Running) - 1 /\ Cardinality(Running) \in Nat
    BY <1>5, <2>1, CountDown, RunningFinite
  <2>3. QueueSound'
    BY <1>5, <2>1, LeaveQueue
  <2>4. failures' \in 0 .. Threshold /\ open' \in BOOLEAN /\ CircuitJustified'
    <3>1. CASE failures' = 0 /\ open' = FALSE
      <4>1. failures' \in 0 .. Threshold
        BY <3>1, GuardAssumption
      <4>2. open' \in BOOLEAN /\ CircuitJustified'
        BY <3>1, Zenon DEF CircuitJustified
      <4> QED BY <4>1, <4>2
    <3>2. CASE RecordFailure
      BY <3>2, FailureCount
    <3>3. CASE UNCHANGED circuit
      BY <3>3 DEF circuit, SlotTypes, CircuitJustified
    <3> QED BY <1>5, <3>1, <3>2, <3>3
  <2>5. SlotTypes'
    BY <1>5, <2>1, <2>4 DEF SlotTypes, Track, tasks
  <2>6. SlotsConserved' /\ BackgroundBounded'
    BY <1>5, <2>2, GuardAssumption DEF SlotsConserved, BackgroundBounded, SlotTypes, Track, tasks
  <2> QED BY <2>3, <2>4, <2>5, <2>6
<1>6. ASSUME NEW c \in Callers, NEW d \in Dimensions, Succeed(c, d) PROVE IInv'
  BY <1>6, <1>5 DEF Succeed
<1>7. ASSUME NEW c \in Callers, Fail(c) \/ Timeout(c) \/ CallerCancelled(c) PROVE IInv'
  BY <1>7, <1>5 DEF Fail, Timeout, CallerCancelled, slots
<1>8. CASE BackgroundDone \/ CancelDone
  <2>1. Running' = Running /\ Cardinality(Running) \in Nat
    BY <1>8, RunningFinite DEF BackgroundDone, CancelDone, Running
  <2>2. QueueSound' /\ CircuitJustified'
    BY <1>8 DEF BackgroundDone, CancelDone, circuit, QueueSound, CircuitJustified
  <2>3. CASE BackgroundDone
    BY <2>1, <2>2, <2>3, GuardAssumption
       DEF BackgroundDone, circuit, SlotTypes, SlotsConserved, BackgroundBounded
  <2>4. CASE CancelDone
    <3>1. strays' \in Nat /\ cancelled' \in Nat /\ free' \in Nat
      BY <2>4 DEF CancelDone, SlotTypes
    <3> QED BY <2>1, <2>2, <2>4, <3>1, GuardAssumption
            DEF CancelDone, circuit, SlotTypes, SlotsConserved, BackgroundBounded
  <2> QED BY <1>8, <2>3, <2>4
<1>9. CASE ResetPeriodPasses
  BY <1>9 DEF ResetPeriodPasses, slots, tasks, SlotTypes, QueueSound, SlotsConserved, Running,
              CircuitJustified, BackgroundBounded
<1>10. ASSUME NEW c \in Callers, Encode(c) PROVE IInv'
  BY <1>10, <1>1 DEF Encode, slots, circuit, SlotTypes
<1>11. CASE EncodeAbandoned
  BY <1>11, <1>1 DEF EncodeAbandoned, slots, circuit, SlotTypes
<1>12. CASE StrayDone \/ (\E q \in Queries : EntryExpires(q)) \/ UNCHANGED vars
  BY <1>12, <1>1 DEF StrayDone, EntryExpires, slots, tasks, circuit, vars, SlotTypes
<1> QED BY <1>2, <1>3, <1>4, <1>6, <1>7, <1>8, <1>9, <1>10, <1>11, <1>12
        DEF Next, Step, GiveUp

(* Slots are neither lost nor released twice.                               *)
THEOREM SlotsAreConserved == Spec => []SlotsConserved
<1>1. IInv => SlotsConserved
  BY DEF IInv
<1> QED BY <1>1, InitInv, InvStep, PTL DEF Spec

(* An open circuit always has its reason in the failure count.              *)
THEOREM CircuitIsJustified == Spec => []CircuitJustified
<1>1. IInv => CircuitJustified
  BY DEF IInv
<1> QED BY <1>1, InitInv, InvStep, PTL DEF Spec

-----------------------------------------------------------------------------
(* Induction, by the least number at which a claim fails.                   *)
Below == {p \in Nat \X Nat : p[1] < p[2]}

LEMMA Least ==
    ASSUME NEW T \in SUBSET Nat, T # {}
    PROVE  \E m \in T : \A k \in T : m <= k
<1>1. IsWellFoundedOn(Below, Nat)
  BY NatLessThanWellFounded DEF OpToRel, Below
<1>2. PICK m \in T : \A k \in T : ~(<<k, m>> \in Below)
  BY <1>1, WFMin
<1>3. ASSUME NEW k \in T PROVE m <= k
  <2>1. k \in Nat /\ m \in Nat /\ ~(<<k, m>> \in Below)
    BY <1>2
  <2>2. ~(k < m)
    BY <2>1 DEF Below
  <2> QED BY <2>1, <2>2
<1> QED BY <1>3

(* What holds of a sequence of values at 0 and is kept by each step holds   *)
(* all along it.                                                            *)
LEMMA Along ==
    ASSUME NEW n \in Nat, NEW S, NEW g, g[0] \in S,
           \A k \in 1 .. n : g[k - 1] \in S => g[k] \in S
    PROVE  \A k \in 0 .. n : g[k] \in S
<1> DEFINE T == {k \in 0 .. n : g[k] \notin S}
<1>1. SUFFICES ASSUME T # {} PROVE FALSE
  OBVIOUS
<1>2. PICK m \in T : \A k \in T : m <= k
  <2>1. T \in SUBSET Nat
    OBVIOUS
  <2> HIDE DEF T
  <2> QED BY <1>1, <2>1, Least
<1>3. m \in 1 .. n /\ m - 1 \in 0 .. n
  BY <1>2
<1>4. m - 1 \notin T
  BY <1>2, <1>3
<1> QED BY <1>2, <1>3, <1>4

(* A recursion over 0 .. n whose step stays within S has a solution in S.   *)
Follows(f, n, start, step) ==
    /\ f[0] = start
    /\ \A k \in 1 .. n : f[k] = step[<<f[k - 1], k>>]

LEMMA Recursion ==
    ASSUME NEW n \in Nat, NEW S, NEW start \in S, NEW step \in [S \X (1 .. n) -> S]
    PROVE  \E f \in [0 .. n -> S] : Follows(f, n, start, step)
<1> DEFINE Upto(f, m) ==
               /\ f \in [0 .. m -> S] /\ f[0] = start
               /\ \A k \in 1 .. m : f[k] = step[<<f[k - 1], k>>]
           T == {m \in 0 .. n : ~ \E f : Upto(f, m)}
<1>1. SUFFICES ASSUME T # {} PROVE FALSE
  <2>1. ASSUME T = {} PROVE \E f \in [0 .. n -> S] : Follows(f, n, start, step)
    <3>1. n \in 0 .. n
      OBVIOUS
    <3>2. PICK f : Upto(f, n)
      BY <2>1, <3>1
    <3>3. f \in [0 .. n -> S] /\ Follows(f, n, start, step)
      BY <3>2 DEF Follows
    <3> QED BY <3>3
  <2> QED BY <1>1, <2>1
<1>2. PICK m \in T : \A k \in T : m <= k
  <2>1. T \in SUBSET Nat
    OBVIOUS
  <2> HIDE DEF T
  <2> QED BY <1>1, <2>1, Least
<1>3. CASE m = 0
  <2>1. Upto([k \in 0 .. 0 |-> start], 0)
    OBVIOUS
  <2> QED BY <2>1, <1>2, <1>3
<1>4. CASE m # 0
  <2>1. m \in 1 .. n /\ m - 1 \in 0 .. n /\ m - 1 \notin T
    BY <1>2, <1>4
  <2>2. PICK f : Upto(f, m - 1)
    BY <2>1
  <2>3. f[m - 1] \in S /\ step[<<f[m - 1], m>>] \in S
    BY <2>1, <2>2
  <2> DEFINE g == [k \in 0 .. m |-> IF k = m THEN step[<<f[m - 1], m>>] ELSE f[k]]
  <2>4. g \in [0 .. m -> S] /\ g[0] = start
    BY <2>1, <2>2, <2>3
  <2>5. ASSUME NEW k \in 1 .. m PROVE g[k] = step[<<g[k - 1], k>>]
    <3>1. g[k - 1] = f[k - 1]
      BY <2>1
    <3>2. CASE k = m
      <4>1. g[m] = step[<<f[m - 1], m>>]
        BY <2>1
      <4> QED BY <3>1, <3>2, <4>1
    <3>3. CASE k # m
      <4>1. k \in 1 .. m - 1 /\ g[k] = f[k]
        BY <2>1, <3>3
      <4> QED BY <2>2, <3>1, <4>1
    <3> QED BY <3>2, <3>3
  <2> HIDE DEF g
  <2> QED BY <1>2, <2>4, <2>5
<1> QED BY <1>3, <1>4

(* The cache as it should be: vectors of one dimension, one for a query,    *)
(* within the limit.                                                        *)
Vector == [query : Queries, dim : Dimensions]

Entries(d) ==
    {e \in Seq(Vector) :
        /\ \A i \in DOMAIN e : e[i].dim = d
        /\ \A i, j \in DOMAIN e : e[i].query = e[j].query => i = j}

Vectors(d) == {e \in Entries(d) : Len(e) <= CacheMax}

(* What each operation of the cache keeps of that.                          *)
LEMMA RemovedAt ==
    ASSUME NEW S, NEW s \in Seq(S), NEW i \in 1 .. Len(s)
    PROVE  /\ RemoveAt(s, i) \in Seq(S) /\ Len(RemoveAt(s, i)) = Len(s) - 1
           /\ \A j \in 1 .. Len(s) - 1 : RemoveAt(s, i)[j] = IF j < i THEN s[j] ELSE s[j + 1]
<1> DEFINE n == Len(s)
           a == SubSeq(s, 1, i - 1)
           b == SubSeq(s, i + 1, n)
           rest == a \o b
<1>1. n \in Nat /\ i \in 1 .. n
  OBVIOUS
<1>2. a \in Seq(S) /\ Len(a) = i - 1 /\ \A j \in 1 .. i - 1 : a[j] = s[j]
  BY <1>1
<1>3. b \in Seq(S) /\ Len(b) = n - i /\ \A j \in 1 .. n - i : b[j] = s[j + i]
  BY <1>1
<1>4. rest \in Seq(S) /\ Len(rest) = n - 1
  <2> HIDE DEF a, b
  <2>1. rest \in Seq(S) /\ Len(rest) = Len(a) + Len(b)
    BY <1>2, <1>3, ConcatProperties
  <2> QED BY <1>1, <1>2, <1>3, <2>1
<1>5. ASSUME NEW j \in 1 .. n - 1 PROVE rest[j] = IF j < i THEN s[j] ELSE s[j + 1]
  <2> HIDE DEF a, b
  <2> QED BY <1>1, <1>2, <1>3, <1>5
<1> QED BY <1>4, <1>5 DEF RemoveAt

LEMMA RemovedSound ==
    ASSUME NEW d, NEW e \in Entries(d), NEW q
    PROVE  LET rest == Without(e, q) IN
           /\ rest \in Entries(d) /\ ~ Held(rest, q)
           /\ Len(rest) <= Len(e) /\ (Held(e, q) => Len(rest) = Len(e) - 1)
<1>1. CASE ~ Held(e, q)
  BY <1>1 DEF Without, Entries
<1>2. CASE Held(e, q)
  <2> DEFINE p == Place(e, q)
             rest == RemoveAt(e, p)
             n == Len(e)
  <2>1. p \in DOMAIN e /\ e[p].query = q
    BY <1>2 DEF Held, Place
  <2>2. e \in Seq(Vector) /\ n \in Nat /\ DOMAIN e = 1 .. n
    BY DEF Entries
  <2> HIDE DEF p
  <2>3. /\ rest \in Seq(Vector) /\ Len(rest) = n - 1
        /\ \A j \in 1 .. n - 1 : rest[j] = IF j < p THEN e[j] ELSE e[j + 1]
    BY <2>1, <2>2, RemovedAt
  <2>4. DOMAIN rest = 1 .. n - 1
    <3> HIDE DEF rest
    <3> QED BY <2>2, <2>3
  <2> HIDE DEF rest
  <2>5. \A i, j \in 1 .. n : e[i].query = e[j].query => i = j
    BY <2>2 DEF Entries
  <2> DEFINE from(j) == IF j < p THEN j ELSE j + 1
  <2>6. ASSUME NEW j \in 1 .. n - 1 PROVE rest[j] = e[from(j)] /\ from(j) \in 1 .. n /\ from(j) # p
    BY <2>1, <2>2, <2>3
  <2>7. ASSUME NEW i \in 1 .. n - 1, NEW j \in 1 .. n - 1, from(i) = from(j) PROVE i = j
    BY <2>1, <2>2, <2>7
  <2> HIDE DEF from
  <2>8. \A i, j \in 1 .. n - 1 : rest[i].query = rest[j].query => i = j
    BY <2>5, <2>6, <2>7
  <2>9. \A j \in 1 .. n - 1 : rest[j].dim = d /\ rest[j].query # q
    BY <2>1, <2>2, <2>5, <2>6 DEF Entries
  <2>10. Without(e, q) = rest
    BY <1>2 DEF Without, rest, p
  <2>11. rest \in Entries(d)
    BY <2>3, <2>4, <2>8, <2>9 DEF Entries
  <2>12. ~ Held(rest, q)
    BY <2>4, <2>9 DEF Held
  <2>13. rest \in Entries(d) /\ ~ Held(rest, q) /\ Len(rest) = n - 1 /\ Len(rest) <= n
    BY <2>2, <2>3, <2>11, <2>12
  <2> QED BY <1>2, <2>10, <2>13
<1> QED BY <1>1, <1>2

LEMMA AppendedSound ==
    ASSUME NEW d, NEW e \in Entries(d), NEW v \in Vector, v.dim = d, ~ Held(e, v.query)
    PROVE  Append(e, v) \in Entries(d) /\ Len(Append(e, v)) = Len(e) + 1
<1> DEFINE n == Len(e)
           more == Append(e, v)
<1>1. n \in Nat /\ DOMAIN e = 1 .. n /\ e \in Seq(Vector)
  BY DEF Entries
<1>2. /\ more \in Seq(Vector) /\ Len(more) = n + 1 /\ DOMAIN more = 1 .. n + 1
      /\ \A j \in 1 .. n : more[j] = e[j]
      /\ more[n + 1] = v
  BY <1>1, AppendProperties
<1> HIDE DEF more, n
<1>3. \A j \in 1 .. n : e[j].dim = d /\ e[j].query # v.query
  BY <1>1 DEF Entries, Held
<1>4. \A i, j \in 1 .. n : e[i].query = e[j].query => i = j
  BY <1>1 DEF Entries
<1>5. ASSUME NEW j \in 1 .. n + 1 PROVE more[j].dim = d
  BY <1>1, <1>2, <1>3
<1>6. ASSUME NEW i \in 1 .. n + 1, NEW j \in 1 .. n + 1, more[i].query = more[j].query PROVE i = j
  BY <1>1, <1>2, <1>3, <1>4, <1>6
<1> QED BY <1>2, <1>5, <1>6 DEF Entries, more, n

LEMMA RefreshedSound ==
    ASSUME NEW d, NEW e \in Vectors(d), NEW q, Held(e, q)
    PROVE  Refreshed(e, q) \in Vectors(d)
<1> DEFINE v == e[Place(e, q)]
           rest == Without(e, q)
<1>1. e \in Entries(d) /\ Len(e) \in Nat /\ Len(e) <= CacheMax
  BY DEF Vectors, Entries
<1>2. v \in Vector /\ v.query = q /\ v.dim = d
  <2>1. Place(e, q) \in DOMAIN e /\ e[Place(e, q)].query = q
    BY DEF Held, Place
  <2> QED BY <1>1, <2>1 DEF Entries
<1>3. rest \in Entries(d) /\ ~ Held(rest, q) /\ Len(rest) = Len(e) - 1
  BY <1>1, RemovedSound
<1> HIDE DEF v, rest
<1>4. Append(rest, v) \in Entries(d) /\ Len(Append(rest, v)) = Len(e)
  BY <1>1, <1>2, <1>3, AppendedSound
<1> QED BY <1>1, <1>4 DEF Refreshed, Vectors, v, rest

LEMMA TrimmedSound ==
    ASSUME NEW d, NEW e \in Entries(d), Len(e) <= CacheMax + 1
    PROVE  Trimmed(e) \in Vectors(d)
<1>1. Len(e) \in Nat /\ DOMAIN e = 1 .. Len(e) /\ e \in Seq(Vector)
  BY DEF Entries
<1>2. CASE Len(e) <= CacheMax
  BY <1>1, <1>2, GuardAssumption DEF Trimmed, Vectors
<1>3. CASE Len(e) > CacheMax
  <2> DEFINE n == Len(e)
             rest == Tail(e)
  <2>1. n # 0 /\ e # <<>>
    BY <1>1, <1>3, GuardAssumption
  <2>2. /\ rest \in Seq(Vector) /\ Len(rest) = n - 1 /\ DOMAIN rest = 1 .. n - 1
        /\ \A j \in 1 .. n - 1 : rest[j] = e[j + 1]
    BY <1>1, <2>1, HeadTailProperties
  <2>3. Trimmed(e) = rest
    BY <1>3 DEF Trimmed
  <2>4. /\ \A i \in 1 .. n : e[i].dim = d
        /\ \A i, j \in 1 .. n : e[i].query = e[j].query => i = j
    BY <1>1 DEF Entries
  <2> HIDE DEF rest, n
  <2>5. ASSUME NEW i \in 1 .. n - 1, NEW j \in 1 .. n - 1, rest[i].query = rest[j].query PROVE i = j
    BY <1>1, <2>2, <2>4, <2>5 DEF n
  <2>6. \A j \in 1 .. n - 1 : rest[j].dim = d
    BY <1>1, <2>2, <2>4 DEF n
  <2>7. rest \in Entries(d)
    BY <2>2, <2>5, <2>6 DEF Entries
  <2> QED BY <1>1, <2>2, <2>3, <2>7, GuardAssumption DEF Vectors, n
<1> QED BY <1>1, <1>2, <1>3, GuardAssumption

(* One query of a batch that is read, and the whole batch: the recursion    *)
(* has a solution, whose values all are sound.                              *)
Progress(d) == [entries : Vectors(d), missing : Seq(Queries)]

ReadOne(r, q) ==
    IF Held(r.entries, q)
    THEN [r EXCEPT !.entries = Refreshed(@, q)]
    ELSE [r EXCEPT !.missing = Append(@, q)]

LEMMA ReadOneSound ==
    ASSUME NEW d, NEW r \in Progress(d), NEW q \in Queries
    PROVE  ReadOne(r, q) \in Progress(d)
<1>1. CASE Held(r.entries, q)
  <2>1. Refreshed(r.entries, q) \in Vectors(d)
    BY <1>1, RefreshedSound DEF Progress
  <2> QED BY <1>1, <2>1 DEF Progress, ReadOne
<1>2. CASE ~ Held(r.entries, q)
  <2>1. Append(r.missing, q) \in Seq(Queries)
    BY AppendProperties DEF Progress
  <2> QED BY <1>2, <2>1 DEF Progress, ReadOne
<1> QED BY <1>1, <1>2

LEMMA ReadSound ==
    ASSUME NEW d, cache \in Vectors(d), NEW batch \in Seq(Queries)
    PROVE  Read(batch) \in Progress(d)
<1> DEFINE n == Len(batch)
           start == [entries |-> cache, missing |-> <<>>]
           read[k \in 0 .. Len(batch)] ==
               IF k = 0 THEN [entries |-> cache, missing |-> <<>>]
               ELSE IF Held(read[k - 1].entries, batch[k])
                    THEN [read[k - 1] EXCEPT !.entries = Refreshed(@, batch[k])]
                    ELSE [read[k - 1] EXCEPT !.missing = Append(@, batch[k])]
           Reads(f) == f = [k \in 0 .. Len(batch) |-> IF k = 0 THEN start ELSE ReadOne(f[k - 1], batch[k])]
           step == [p \in Progress(d) \X (1 .. n) |-> ReadOne(p[1], batch[p[2]])]
<1>1. n \in Nat /\ \A k \in 1 .. n : batch[k] \in Queries
  OBVIOUS
<1>2. start \in Progress(d)
  BY EmptySeq DEF Progress
<1>3. step \in [Progress(d) \X (1 .. n) -> Progress(d)]
  BY <1>1, ReadOneSound
<1>4. PICK f \in [0 .. n -> Progress(d)] :
          f[0] = start /\ \A k \in 1 .. n : f[k] = step[<<f[k - 1], k>>]
  <2> DEFINE S == Progress(d)
  <2>1. n \in Nat /\ start \in S /\ step \in [S \X (1 .. n) -> S]
    BY <1>1, <1>2, <1>3
  <2>2. \E f \in [0 .. n -> S] : Follows(f, n, start, step)
    <3> HIDE DEF start, step, n, S
    <3> QED BY <2>1, Recursion
  <2> QED BY <2>2 DEF Follows
<1>5. Reads(f)
  <2>1. ASSUME NEW k \in 1 .. n PROVE f[k] = ReadOne(f[k - 1], batch[k])
    <3>1. f[k - 1] \in Progress(d)
      BY <1>1, <1>4
    <3> QED BY <1>4, <3>1
  <2>2. \A k \in 0 .. n : f[k] = IF k = 0 THEN start ELSE ReadOne(f[k - 1], batch[k])
    BY <1>1, <1>4, <2>1
  <2> HIDE DEF start
  <2> QED BY <1>4, <2>2
<1>6. read = CHOOSE f1 : Reads(f1)
  BY DEF ReadOne
<1>7. Reads(read)
  BY <1>5, <1>6
<1>8. ASSUME NEW k \in 1 .. n, read[k - 1] \in Progress(d) PROVE read[k] \in Progress(d)
  <2>1. read[k] = ReadOne(read[k - 1], batch[k])
    <3> HIDE DEF read, start
    <3> QED BY <1>1, <1>7
  <2> HIDE DEF read
  <2> QED BY <1>1, <1>8, <2>1, ReadOneSound
<1>9. read[0] \in Progress(d)
  <2> HIDE DEF read, start
  <2> QED BY <1>1, <1>2, <1>7
<1>10. \A k \in 0 .. n : read[k] \in Progress(d)
  <2> HIDE DEF read, n
  <2> QED BY <1>1, <1>8, <1>9, Along
<1>11. Read(batch) = read[n]
  BY DEF Read
<1> HIDE DEF read
<1> QED BY <1>1, <1>10, <1>11

(* The same for a batch that is stored.                                     *)
StoreOne(e, q, d) == Trimmed(Append(Without(e, q), [query |-> q, dim |-> d]))

LEMMA StoreOneSound ==
    ASSUME NEW d \in Dimensions, NEW e \in Vectors(d), NEW q \in Queries
    PROVE  StoreOne(e, q, d) \in Vectors(d)
<1> DEFINE v == [query |-> q, dim |-> d]
           rest == Without(e, q)
<1>1. v \in Vector /\ v.query = q /\ v.dim = d
  BY DEF Vector
<1>2. e \in Entries(d) /\ Len(e) \in Nat /\ Len(e) <= CacheMax
  BY DEF Vectors, Entries
<1>3. rest \in Entries(d) /\ ~ Held(rest, q) /\ Len(rest) <= Len(e)
  BY <1>2, RemovedSound
<1> HIDE DEF v, rest
<1>4. Append(rest, v) \in Entries(d) /\ Len(Append(rest, v)) = Len(rest) + 1
  BY <1>1, <1>3, AppendedSound
<1>5. Len(rest) \in Nat
  BY <1>3 DEF Entries
<1>6. Len(Append(rest, v)) <= CacheMax + 1
  BY <1>2, <1>3, <1>4, <1>5, GuardAssumption
<1>7. Trimmed(Append(rest, v)) \in Vectors(d)
  BY <1>4, <1>6, TrimmedSound
<1> QED BY <1>7 DEF StoreOne, v, rest

LEMMA StoredSound ==
    ASSUME NEW d \in Dimensions, cache \in Vectors(d), NEW batch \in Seq(Queries)
    PROVE  Stored(batch, d) \in Vectors(d)
<1> DEFINE n == Len(batch)
           stored[k \in 0 .. Len(batch)] ==
               IF k = 0 THEN cache
               ELSE Trimmed(Append(Without(stored[k - 1], batch[k]), [query |-> batch[k], dim |-> d]))
           Stores(f) == f = [k \in 0 .. Len(batch) |-> IF k = 0 THEN cache ELSE StoreOne(f[k - 1], batch[k], d)]
           step == [p \in Vectors(d) \X (1 .. n) |-> StoreOne(p[1], batch[p[2]], d)]
<1>1. n \in Nat /\ \A k \in 1 .. n : batch[k] \in Queries
  OBVIOUS
<1>3. step \in [Vectors(d) \X (1 .. n) -> Vectors(d)]
  BY <1>1, StoreOneSound
<1>4. PICK f \in [0 .. n -> Vectors(d)] :
          f[0] = cache /\ \A k \in 1 .. n : f[k] = step[<<f[k - 1], k>>]
  <2> DEFINE S == Vectors(d)
  <2>1. n \in Nat /\ cache \in S /\ step \in [S \X (1 .. n) -> S]
    BY <1>1, <1>3
  <2>2. \E f \in [0 .. n -> S] : Follows(f, n, cache, step)
    <3> HIDE DEF step, n, S
    <3> QED BY <2>1, Recursion
  <2> QED BY <2>2 DEF Follows
<1>5. Stores(f)
  <2>1. ASSUME NEW k \in 1 .. n PROVE f[k] = StoreOne(f[k - 1], batch[k], d)
    <3>1. f[k - 1] \in Vectors(d)
      BY <1>1, <1>4
    <3> QED BY <1>4, <3>1
  <2>2. \A k \in 0 .. n : f[k] = IF k = 0 THEN cache ELSE StoreOne(f[k - 1], batch[k], d)
    BY <1>1, <1>4, <2>1
  <2> QED BY <1>4, <2>2
<1>6. stored = CHOOSE f1 : Stores(f1)
  BY DEF StoreOne
<1>7. Stores(stored)
  BY <1>5, <1>6
<1>8. ASSUME NEW k \in 1 .. n, stored[k - 1] \in Vectors(d) PROVE stored[k] \in Vectors(d)
  <2>1. stored[k] = StoreOne(stored[k - 1], batch[k], d)
    <3> HIDE DEF stored
    <3> QED BY <1>1, <1>7
  <2> HIDE DEF stored
  <2> QED BY <1>1, <1>8, <2>1, StoreOneSound
<1>9. stored[0] \in Vectors(d)
  <2> HIDE DEF stored
  <2> QED BY <1>1, <1>7
<1>10. \A k \in 0 .. n : stored[k] \in Vectors(d)
  <2> HIDE DEF stored, n
  <2> QED BY <1>1, <1>8, <1>9, Along
<1>11. Stored(batch, d) = stored[n]
  BY DEF Stored
<1> HIDE DEF stored
<1> QED BY <1>1, <1>10, <1>11

-----------------------------------------------------------------------------
(* The other half: what the callers carry, the lock and the cache.          *)
Answers ==
    /\ missing \in [Callers -> Seq(Queries)]
    /\ encoding \in Callers \cup {"background", "cancelled", None}
    /\ dimension \in Dimensions \cup {None}
    /\ cache \in Vectors(dimension)

LEMMA InitAnswers == Init => Answers
<1> SUFFICES ASSUME Init PROVE Answers
  OBVIOUS
<1>1. missing \in [Callers -> Seq(Queries)]
  BY EmptySeq DEF Init
<1>2. cache \in Seq(Vector) /\ Len(cache) = 0 /\ DOMAIN cache = {}
  BY EmptySeq DEF Init
<1>3. cache \in Vectors(dimension)
  BY <1>2, GuardAssumption DEF Vectors, Entries
<1> QED BY <1>1, <1>3 DEF Init, Answers

(* Vectors of a dimension not known yet are none, hence of any dimension.   *)
LEMMA FirstDimension ==
    ASSUME Answers, NEW d \in Dimensions, dimension \in {None, d}
    PROVE  cache \in Vectors(d)
<1>1. CASE dimension = d
  BY <1>1 DEF Answers
<1>2. CASE dimension = None
  <2>1. cache \in Seq(Vector) /\ Len(cache) <= CacheMax /\ \A i \in DOMAIN cache : cache[i].dim = None
    BY <1>2 DEF Answers, Vectors, Entries
  <2>2. \A i \in DOMAIN cache : cache[i].dim \in Dimensions
    <3>1. \A i \in DOMAIN cache : cache[i] \in Vector
      BY <2>1
    <3> QED BY <3>1 DEF Vector
  <2>3. DOMAIN cache = {}
    BY <2>1, <2>2, GuardAssumption
  <2> QED BY <2>1, <2>3 DEF Vectors, Entries
<1> QED BY <1>1, <1>2

LEMMA AnswersStep ==
    ASSUME Answers, [Next]_vars
    PROVE  Answers'
<1>1. CASE UNCHANGED <<missing, encoding, vectors>>
  BY <1>1 DEF Answers, Vectors, Entries, vectors
<1>2. ASSUME NEW c \in Callers, Leave(c) PROVE missing' \in [Callers -> Seq(Queries)]
  BY <1>2, EmptySeq DEF Answers, Leave
<1>3. ASSUME NEW c \in Callers, NEW batch \in Batches, Embed(c, batch) PROVE Answers'
  <2> DEFINE read == Read(batch)
  <2>1. batch \in Seq(Queries)
    BY DEF Batches
  <2>2. read \in Progress(dimension)
    BY <2>1, ReadSound DEF Answers
  <2> HIDE DEF read
  <2>3. cache' = read.entries /\ UNCHANGED <<encoding, dimension>>
    BY <1>3 DEF Embed, tasks, read
  <2>4. missing' = missing \/ missing' = [missing EXCEPT ![c] = read.missing]
    BY <1>3 DEF Embed, read
  <2>5. missing' \in [Callers -> Seq(Queries)] /\ cache' \in Vectors(dimension)
    BY <2>2, <2>3, <2>4 DEF Answers, Progress
  <2> QED BY <2>3, <2>5 DEF Answers, Vectors, Entries
<1>4. ASSUME NEW c \in Callers, QueueTimeout(c) PROVE Answers'
  BY <1>2, <1>4 DEF QueueTimeout, tasks, vectors, Answers, Vectors, Entries
<1>5. ASSUME NEW c \in Callers, Acquire(c) PROVE Answers'
  BY <1>1, <1>5 DEF Acquire, tasks
<1>6. ASSUME NEW c \in Callers, NEW d \in Dimensions, Succeed(c, d) PROVE Answers'
  <2>1. cache \in Vectors(d) /\ missing[c] \in Seq(Queries)
    BY <1>6, FirstDimension DEF Succeed, Answers
  <2>2. cache' \in Vectors(d)
    BY <1>6, <2>1, StoredSound DEF Succeed
  <2>3. dimension' = d /\ encoding' = None /\ missing' \in [Callers -> Seq(Queries)]
    BY <1>2, <1>6 DEF Succeed, CallEnds
  <2> QED BY <2>2, <2>3 DEF Answers, Vectors, Entries
<1>7. ASSUME NEW c \in Callers, Fail(c) PROVE Answers'
  BY <1>2, <1>7 DEF Fail, CallEnds, vectors, Answers, Vectors, Entries
<1>8. ASSUME NEW c \in Callers, Timeout(c) \/ CallerCancelled(c) PROVE Answers'
  <2>1. encoding' \in Callers \cup {"background", "cancelled", None}
    BY <1>8 DEF Timeout, CallerCancelled, Track, Handed, Answers
  <2>2. missing' \in [Callers -> Seq(Queries)] /\ UNCHANGED vectors
    BY <1>2, <1>8 DEF Timeout, CallerCancelled
  <2> QED BY <2>1, <2>2 DEF Answers, Vectors, Entries, vectors
<1>9. ASSUME NEW c \in Callers, Encode(c) PROVE Answers'
  BY <1>9 DEF Encode, vectors, Answers, Vectors, Entries
<1>10. CASE EncodeAbandoned \/ BackgroundDone \/ CancelDone
  <2>1. encoding' \in Callers \cup {"background", "cancelled", None} /\ UNCHANGED <<missing, vectors>>
    BY <1>10 DEF EncodeAbandoned, BackgroundDone, CancelDone, CallEnds, Answers
  <2> QED BY <2>1 DEF Answers, Vectors, Entries, vectors
<1>11. CASE StrayDone \/ ResetPeriodPasses \/ UNCHANGED vars
  BY <1>1, <1>11 DEF StrayDone, ResetPeriodPasses, vars, tasks
<1>12. ASSUME NEW q \in Queries, EntryExpires(q) PROVE Answers'
  <2>1. cache' = Without(cache, q) /\ UNCHANGED <<missing, encoding, dimension>>
    BY <1>12 DEF EntryExpires, tasks
  <2>2. cache \in Entries(dimension) /\ Len(cache) \in Nat /\ Len(cache) <= CacheMax
    BY DEF Answers, Vectors, Entries
  <2>3. cache' \in Entries(dimension) /\ Len(cache') <= Len(cache)
    BY <2>1, <2>2, RemovedSound
  <2>4. cache' \in Vectors(dimension)
    <3>1. Len(cache') \in Nat
      BY <2>3 DEF Entries
    <3> QED BY <2>2, <2>3, <3>1, GuardAssumption DEF Vectors
  <2> QED BY <2>1, <2>4 DEF Answers, Vectors, Entries
<1> QED BY <1>3, <1>4, <1>5, <1>6, <1>7, <1>8, <1>9, <1>10, <1>11, <1>12
        DEF Next, Step, GiveUp

(* Every waiting caller is queued once and nobody else is, and the tasks    *)
(* left running stay within their cap, however the callers end (_acquire,   *)
(* _release, _track).                                                       *)
THEOREM GuardIsSound == Spec => []GuardSound
<1>1. IInv /\ Answers => GuardSound
  <2> SUFFICES ASSUME IInv, Answers PROVE GuardSound
    OBVIOUS
  <2>1. TypeOK
    BY DEF IInv, SlotTypes, Answers, Vectors, Entries, Vector, TypeOK
  <2>2. QueueExact
    <3>1. \A i \in DOMAIN waiters : waiters[i] \in Callers
      BY DEF IInv, SlotTypes
    <3> QED BY <3>1 DEF IInv, QueueSound, QueueExact
  <2> QED BY <2>1, <2>2 DEF IInv, GuardSound
<1> QED BY <1>1, InitInv, InvStep, InitAnswers, AnswersStep, PTL DEF Spec

(* The cache serves vectors of one dimension, one for a query, within its   *)
(* limit, also when two answers of a model of unknown dimension race        *)
(* (_store).                                                                *)
THEOREM CacheIsSound == Spec => []CacheSound
<1>1. Answers => CacheSound
  BY DEF Answers, Vectors, Entries, CacheSound, OneDimension, CacheBounded
<1> QED BY <1>1, InitAnswers, AnswersStep, PTL DEF Spec

-----------------------------------------------------------------------------
(* With at most as many slots as tasks that may run on, nothing is ever     *)
(* cancelled, so no thread is left behind.                                  *)
Calm == cancelled = 0 /\ strays = 0

LEMMA CalmStep ==
    ASSUME MaxConcurrency <= MaxBackground, IInv, Calm, [Next]_vars
    PROVE  Calm'
<1>1. ASSUME NEW c \in Callers, stage[c] = "running", Track(c) PROVE Calm'
  <2>1. Cardinality(Running) \in Nat /\ Cardinality(Running) # 0
    BY <1>1, RunningFinite, FS_EmptySet DEF Running
  <2>2. background + cancelled < MaxBackground
    BY <2>1, GuardAssumption DEF IInv, SlotTypes, SlotsConserved
  <2> QED BY <1>1, <2>2, GuardAssumption DEF IInv, SlotTypes, Calm, Track
<1>2. ASSUME NEW c \in Callers, Timeout(c) \/ CallerCancelled(c) PROVE Calm'
  BY <1>1, <1>2 DEF Timeout, CallerCancelled
<1>3. ASSUME NEW c \in Callers, NEW batch \in Batches, Embed(c, batch) PROVE Calm'
  BY <1>3 DEF Embed, tasks, Calm
<1>4. ASSUME NEW c \in Callers, Acquire(c) \/ QueueTimeout(c) \/ Encode(c) \/ Fail(c) PROVE Calm'
  BY <1>4 DEF Acquire, QueueTimeout, Encode, Fail, tasks, Calm
<1>5. ASSUME NEW c \in Callers, NEW d \in Dimensions, Succeed(c, d) PROVE Calm'
  BY <1>5 DEF Succeed, Calm
<1>6. CASE EncodeAbandoned \/ BackgroundDone \/ CancelDone \/ StrayDone \/ ResetPeriodPasses
  BY <1>6 DEF EncodeAbandoned, BackgroundDone, CancelDone, StrayDone, ResetPeriodPasses, tasks, Calm
<1>7. CASE (\E q \in Queries : EntryExpires(q)) \/ UNCHANGED vars
  BY <1>7 DEF EntryExpires, vars, tasks, Calm
<1> QED BY <1>2, <1>3, <1>4, <1>5, <1>6, <1>7 DEF Next, Step, GiveUp

(* Under the default limits, and any with MaxConcurrency <= MaxBackground,  *)
(* the model never computes for more than MaxConcurrency calls at once.     *)
THEOREM ModelIsBounded ==
    ASSUME MaxConcurrency <= MaxBackground
    PROVE  Spec => []ModelBounded
<1>1. Init => Calm
  BY DEF Init, Calm
<1>2. IInv /\ Calm /\ [Next]_vars => Calm'
  BY CalmStep
<1>3. IInv /\ Calm => ModelBounded
  <2> SUFFICES ASSUME IInv, Calm PROVE ModelBounded
    OBVIOUS
  <2>1. CASE Local
    BY <2>1, GuardAssumption DEF Calm, ModelBounded, Computing
  <2>2. CASE ~Local
    BY <2>2, RunningFinite, GuardAssumption
       DEF IInv, SlotTypes, SlotsConserved, ModelBounded, Computing
  <2> QED BY <2>1, <2>2
<1> QED BY <1>1, <1>2, <1>3, InitInv, InvStep, PTL DEF Spec
=============================================================================
