------------------------- MODULE VectorStore_proofs -------------------------
(***************************************************************************)
(* Proofs about VectorStore, for any number of coroutines, documents,      *)
(* chunks and pools.                                                       *)
(***************************************************************************)
EXTENDS VectorStore, TLAPS

-----------------------------------------------------------------------------
(* The inductive invariant.                                                 *)

StaleIds(d) == Ids(d, "old") \ Ids(d, "new")

(* An old document under the first of Chroma's two writes.                  *)
Mixed(d) ==
    [i \in Ids(d, "old") \cup Ids(d, "new") |-> IF i \in Ids(d, "new") THEN "new" ELSE "old"]

Revisions(d) == {Nothing, Whole(d, "old"), Whole(d, "new"), Mixed(d)}

(* What no write in this process takes back.                                *)
Settled(d) == rows[d] \in {Nothing, Whole(d, "new")}

Written(d) == rows[d] \in {Nothing, Whole(d, "new"), Mixed(d)}

Phases == {"idle", "embedding", "queued", "read", "upserted", "unmigrated", "migrating",
           "unpooled", "connected", "done", "raised"}

Used == Nat \cup (SUBSET Nat) \cup {Nothing} \cup UNION {Revisions(d) : d \in Docs}

CallRecords ==
    [op : {"none", "replace", "delete", "lexical"}, doc : Docs \cup {None}, phase : Phases,
     awaited : BOOLEAN, fresh : BOOLEAN, used : Used]

Types ==
    /\ backend \in Backends
    /\ rows \in [Docs -> UNION {Revisions(d) : d \in Docs}]
    /\ tokens \in [Docs -> UNION {Revisions(d) : d \in Docs}]
    /\ \A d \in Docs : rows[d] \in Revisions(d) /\ tokens[d] \in Revisions(d)
    /\ call \in [Calls -> CallRecords]
    /\ disturbed \subseteq Docs
    /\ schema \in [ready : BOOLEAN, holder : Calls \cup {None}]
    /\ down \in {"up", "closing", "down"}

PoolsOwned ==
    /\ pools \in [current : Nat \cup {None}, open : SUBSET Nat, closing : Nat \cup {None}, made : Nat]
    /\ pools.open \subseteq 1 .. pools.made
    /\ down # "closing" => pools.closing = None
    /\ EveryPoolOwned

(* What a thread has in hand: the ids it will delete are the stale ones,    *)
(* unless there was nothing old when it looked; what is done is settled.    *)
InHand(c) ==
    /\ call[c].op = "none" <=> call[c].phase = "idle"
    /\ call[c].op # "none" => call[c].doc \in Docs
    /\ call[c].phase \in {"read", "upserted"} =>
          /\ call[c].op = "replace"
          /\ call[c].used = StaleIds(call[c].doc) \/ (call[c].used = {} /\ Settled(call[c].doc))
    /\ call[c].phase = "upserted" => Written(call[c].doc)
    /\ call[c].phase = "done" /\ call[c].op \in Writes => Settled(call[c].doc)
    /\ call[c].phase = "done" /\ call[c].op = "lexical" => call[c].used \in Revisions(call[c].doc)

(* A mixture is a thread's that is at work, or a failure's that is noted.   *)
Accounted(d) ==
    rows[d] = Mixed(d) =>
        \/ Settled(d)
        \/ d \in disturbed
        \/ \E c \in Calls : /\ call[c].doc = d /\ call[c].op \in Writes
                            /\ call[c].phase \in {"upserted", "raised"}

IInv ==
    /\ Types
    /\ PoolsOwned
    /\ \A c \in Calls : InHand(c)
    /\ \A d \in Docs : Accounted(d)

-----------------------------------------------------------------------------
(* What the writes make of a document.                                      *)

LEMMA NothingStored == \A S : Nothing \in [{} -> S]
<1>1. <<>> \in [{} -> {}]
  OBVIOUS
<1> QED BY <1>1 DEF Nothing

LEMMA SizesTyped == \A d \in Docs : Size[d]["old"] \in Nat \ {0} /\ Size[d]["new"] \in Nat \ {0}
BY StoreAssumption

LEMMA UpsertResult ==
    ASSUME NEW d \in Docs, rows[d] \in Revisions(d)
    PROVE  /\ Settled(d) => Upserted(d) = Whole(d, "new")
           /\ ~Settled(d) => Upserted(d) = Mixed(d)
<1>1. CASE rows[d] = Nothing
  <2>1. DOMAIN rows[d] = {}
    BY <1>1, NothingStored
  <2> QED BY <1>1, <2>1 DEF Upserted, Whole, Settled
<1>2. CASE rows[d] = Whole(d, "old")
  <2>1. 1 \in Ids(d, "old") /\ 1 \in Ids(d, "new")
    BY SizesTyped DEF Ids
  <2>2. rows[d][1] = "old" /\ Whole(d, "new")[1] = "new" /\ DOMAIN rows[d] = Ids(d, "old")
    BY <1>2, <2>1 DEF Whole
  <2>3. ~Settled(d)
    BY <2>1, <2>2, NothingStored DEF Settled
  <2>4. Upserted(d) = Mixed(d)
    BY <1>2, <2>2 DEF Upserted, Whole, Mixed
  <2> QED BY <2>3, <2>4
<1>3. CASE rows[d] = Whole(d, "new")
  BY <1>3 DEF Upserted, Whole, Settled
<1>4. CASE rows[d] = Mixed(d)
  <2>1. Upserted(d) = Mixed(d)
    BY <1>4 DEF Upserted, Mixed
  <2>2. rows[d] # Nothing
    <3>1. 1 \in DOMAIN Mixed(d)
      BY SizesTyped DEF Mixed, Ids
    <3> QED BY <3>1, <1>4, NothingStored
  <2> QED BY <1>4, <2>1, <2>2 DEF Settled
<1> QED BY <1>1, <1>2, <1>3, <1>4 DEF Revisions

LEMMA DeleteResult ==
    ASSUME NEW d \in Docs
    PROVE  /\ Settled(d) => Without(d, StaleIds(d)) = rows[d] /\ Without(d, {}) = rows[d]
           /\ rows[d] = Mixed(d) => Without(d, StaleIds(d)) = Whole(d, "new")
<1>1. CASE rows[d] = Nothing
  <2>1. DOMAIN rows[d] = {} /\ rows[d] = [i \in {} |-> rows[d][i]]
    BY <1>1, NothingStored
  <2>2. DOMAIN Mixed(d) = Ids(d, "old") \cup Ids(d, "new") /\ 1 \in Ids(d, "new")
    BY SizesTyped DEF Mixed, Ids
  <2> QED BY <2>1, <2>2 DEF Without
<1>2. CASE rows[d] = Whole(d, "new")
  BY <1>2 DEF Without, Whole, StaleIds, Mixed
<1>3. CASE rows[d] = Mixed(d)
  <2>1. (Ids(d, "old") \cup Ids(d, "new")) \ StaleIds(d) = Ids(d, "new")
    BY DEF StaleIds
  <2>2. Without(d, StaleIds(d)) = Whole(d, "new")
    BY <1>3, <2>1 DEF Without, Whole, Mixed
  <2> QED BY <1>1, <1>2, <2>2 DEF Settled
<1> QED BY <1>1, <1>2, <1>3 DEF Settled

LEMMA RevisionsAreContents == \A d \in Docs : Revisions(d) \subseteq Contents(d)
<1> SUFFICES ASSUME NEW d \in Docs PROVE Revisions(d) \subseteq Contents(d)
  OBVIOUS
<1> DEFINE All == Ids(d, "old") \cup Ids(d, "new")
           Content(ids) == [ids -> {"old", "new"}]
<1>1. Nothing \in Content({}) /\ {} \in SUBSET All
  BY NothingStored
<1>2. Whole(d, "old") \in Content(Ids(d, "old")) /\ Ids(d, "old") \in SUBSET All
  BY DEF Whole
<1>3. Whole(d, "new") \in Content(Ids(d, "new")) /\ Ids(d, "new") \in SUBSET All
  BY DEF Whole
<1>4. Mixed(d) \in Content(All) /\ All \in SUBSET All
  BY DEF Mixed
<1>5. \A ids \in SUBSET All : Content(ids) \subseteq Contents(d)
  BY DEF Contents
<1> HIDE DEF All, Content
<1> QED BY <1>1, <1>2, <1>3, <1>4, <1>5 DEF Revisions

-----------------------------------------------------------------------------
(* A step of one coroutine: the others have in hand what they had, if the   *)
(* rows go no way back.                                                     *)

RowsGoOn ==
    \A d \in Docs : (Settled(d) => Settled(d)') /\ (Written(d) => Written(d)')

SameTask(e) ==
    /\ call'[e].op = call[e].op /\ call'[e].doc = call[e].doc
    /\ call'[e].phase = call[e].phase /\ call'[e].used = call[e].used

LEMMA OthersGoOn ==
    ASSUME IInv, RowsGoOn, NEW e \in Calls, SameTask(e)
    PROVE  InHand(e)'
<1>1. InHand(e)
  BY DEF IInv
<1>2. call[e].op \in Writes => call[e].op # "none"
  BY DEF Writes
<1>3. PICK d : d = call[e].doc
  OBVIOUS
<1>4. call'[e].doc = d
  BY <1>3 DEF SameTask
<1>5. StaleIds(d)' = StaleIds(d) /\ Revisions(d)' = Revisions(d)
  BY DEF StaleIds, Ids, Revisions, Whole, Mixed, Nothing
<1>6. call[e].op # "none" => (Settled(d) => Settled(d)') /\ (Written(d) => Written(d)')
  BY <1>1, <1>3 DEF InHand, RowsGoOn
<1>7. /\ call[e].op = "none" <=> call[e].phase = "idle"
      /\ call[e].op # "none" => d \in Docs
      /\ call[e].phase \in {"read", "upserted"} =>
            /\ call[e].op = "replace"
            /\ call[e].used = StaleIds(d) \/ (call[e].used = {} /\ Settled(d))
      /\ call[e].phase = "upserted" => Written(d)
      /\ call[e].phase = "done" /\ call[e].op \in Writes => Settled(d)
      /\ call[e].phase = "done" /\ call[e].op = "lexical" => call[e].used \in Revisions(d)
  BY <1>1, <1>3 DEF InHand
<1> HIDE DEF Settled, Written, StaleIds, Revisions
<1>8. /\ call'[e].op = "none" <=> call'[e].phase = "idle"
      /\ call'[e].op # "none" => d \in Docs
      /\ call'[e].phase \in {"read", "upserted"} =>
            /\ call'[e].op = "replace"
            /\ call'[e].used = StaleIds(d)' \/ (call'[e].used = {} /\ Settled(d)')
      /\ call'[e].phase = "upserted" => Written(d)'
      /\ call'[e].phase = "done" /\ call'[e].op \in Writes => Settled(d)'
      /\ call'[e].phase = "done" /\ call'[e].op = "lexical" => call'[e].used \in Revisions(d)'
  BY <1>2, <1>5, <1>6, <1>7 DEF SameTask
<1> QED BY <1>4, <1>8 DEF InHand, Settled, Written, StaleIds, Revisions, Whole, Mixed, Ids, Nothing, Writes

Answers(c) == call[c].op \in Writes /\ call[c].phase \in {"upserted", "raised"}

(* A coroutine's step that writes nothing.                                  *)
LEMMA QuietStep ==
    ASSUME IInv, NEW c \in Calls, call' \in [Calls -> CallRecords],
           \A e \in Calls \ {c} : SameTask(e), InHand(c)',
           Answers(c) => call[c].doc \in disturbed' \/ (Answers(c)' /\ call'[c].doc = call[c].doc),
           UNCHANGED <<backend, rows, down>>,
           disturbed' \subseteq Docs, \A d \in disturbed \ disturbed' : Settled(d),
           \A d \in Docs : tokens'[d] \in Revisions(d),
           tokens' \in [Docs -> UNION {Revisions(d) : d \in Docs}],
           schema' \in [ready : BOOLEAN, holder : Calls \cup {None}], PoolsOwned'
    PROVE  IInv'
<1>1. RowsGoOn
  BY DEF RowsGoOn, Settled, Written, Whole, Mixed, Ids, Nothing
<1>2. \A e \in Calls : InHand(e)'
  BY <1>1, OthersGoOn
<1>3. \A d \in Docs : Revisions(d)' = Revisions(d)
  BY DEF Revisions, Whole, Mixed, Ids, Nothing
<1>4. Types'
  <2>1. CallRecords' = CallRecords
    BY <1>3 DEF CallRecords, Used, Phases, Nothing
  <2> QED BY <1>3, <2>1 DEF IInv, Types
<1>5. ASSUME NEW d \in Docs PROVE Accounted(d)'
  <2>1. Accounted(d)
    BY DEF IInv
  <2>2. ASSUME NEW e \in Calls, call[e].doc = d, call[e].op \in Writes, call[e].phase \in {"upserted", "raised"}
        PROVE  \/ d \in disturbed'
               \/ call'[e].doc = d /\ call'[e].op \in Writes /\ call'[e].phase \in {"upserted", "raised"}
    BY <2>2 DEF SameTask, Answers, Writes
  <2>3. (Settled(d) <=> Settled(d)') /\ Mixed(d)' = Mixed(d)
    BY DEF Settled, Mixed, Whole, Ids, Nothing
  <2>4. d \in disturbed => d \in disturbed' \/ Settled(d)
    OBVIOUS
  <2> QED BY <2>1, <2>2, <2>3, <2>4 DEF Accounted, Writes
<1> QED BY <1>2, <1>4, <1>5 DEF IInv

(* A write by a coroutine that leaves its document settled.                 *)
LEMMA SettlingStep ==
    ASSUME IInv, NEW c \in Calls, call' \in [Calls -> CallRecords],
           \A e \in Calls \ {c} : SameTask(e), InHand(c)',
           NEW d \in Docs, NEW text \in {Nothing, Whole(d, "new")}, rows' = [rows EXCEPT ![d] = text],
           Answers(c) => call[c].doc = d,
           UNCHANGED <<backend, disturbed, down, schema, pools>>,
           \A x \in Docs : tokens'[x] \in Revisions(x),
           tokens' \in [Docs -> UNION {Revisions(x) : x \in Docs}]
    PROVE  IInv'
<1>1. rows \in [Docs -> UNION {Revisions(x) : x \in Docs}] /\ \A x \in Docs : rows[x] \in Revisions(x)
  BY DEF IInv, Types
<1>2. rows'[d] = text /\ \A x \in Docs \ {d} : rows'[x] = rows[x]
  BY <1>1
<1>3. \A x \in Docs : Revisions(x)' = Revisions(x) /\ Whole(x, "new")' = Whole(x, "new") /\ Mixed(x)' = Mixed(x)
  BY DEF Revisions, Whole, Mixed, Ids, Nothing
<1>4. Settled(d)' /\ \A x \in Docs \ {d} : Settled(x)' = Settled(x) /\ Written(x)' = Written(x)
  BY <1>2, <1>3 DEF Settled, Written, Nothing
<1>5. RowsGoOn
  BY <1>4 DEF RowsGoOn, Settled, Written
<1>6. \A e \in Calls : InHand(e)'
  BY <1>5, OthersGoOn
<1>7. Types'
  <2>1. CallRecords' = CallRecords
    BY <1>3 DEF CallRecords, Used, Phases, Nothing
  <2>2. \A x \in Docs : rows'[x] \in Revisions(x)
    BY <1>1, <1>2 DEF Revisions
  <2>3. rows' \in [Docs -> UNION {Revisions(x) : x \in Docs}]
    BY <1>1, <2>2
  <2> QED BY <1>3, <2>1, <2>2, <2>3 DEF IInv, Types
<1>8. ASSUME NEW x \in Docs PROVE Accounted(x)'
  <2>1. CASE x = d
    BY <1>4, <2>1 DEF Accounted
  <2>2. CASE x # d
    <3>1. Accounted(x)
      BY DEF IInv
    <3>2. ASSUME NEW e \in Calls, call[e].doc = x, call[e].op \in Writes, call[e].phase \in {"upserted", "raised"}
          PROVE  call'[e].doc = x /\ call'[e].op \in Writes /\ call'[e].phase \in {"upserted", "raised"}
      BY <2>2, <3>2 DEF SameTask, Answers, Writes
    <3> QED BY <1>2, <1>3, <1>4, <2>2, <3>1, <3>2 DEF Accounted, Writes
  <2> QED BY <2>1, <2>2
<1>9. PoolsOwned'
  BY DEF IInv, PoolsOwned, EveryPoolOwned
<1> QED BY <1>6, <1>7, <1>8, <1>9 DEF IInv

-----------------------------------------------------------------------------
(* The initial states, and every step.                                      *)

LEMMA InitInvariant == Init => IInv
<1> SUFFICES ASSUME Init PROVE IInv
  OBVIOUS
<1>1. /\ \A d \in Docs : rows[d] \in {Nothing, Whole(d, "old")} /\ rows[d] \in Revisions(d)
      /\ rows \in [Docs -> UNION {Revisions(d) : d \in Docs}]
  BY DEF Init, Revisions
<1>2. /\ \A d \in Docs : tokens[d] \in Revisions(d)
      /\ tokens \in [Docs -> UNION {Revisions(d) : d \in Docs}]
  BY DEF Init, Revisions
<1>3. call \in [Calls -> CallRecords] /\ \A c \in Calls : InHand(c)
  <2>1. Idle \in CallRecords
    BY DEF Idle, CallRecords, Phases, Used
  <2> QED BY <2>1 DEF Init, InHand, Idle, Writes
<1>4. Types
  BY <1>1, <1>2, <1>3 DEF Init, Types
<1>5. PoolsOwned
  BY DEF Init, PoolsOwned, EveryPoolOwned
<1>6. ASSUME NEW d \in Docs PROVE Accounted(d)
  <2>1. CASE rows[d] = Nothing
    BY <2>1 DEF Accounted, Settled
  <2>2. CASE rows[d] = Whole(d, "old") /\ rows[d] = Mixed(d)
    <3>1. 1 \in Ids(d, "old") /\ 1 \in Ids(d, "new")
      BY SizesTyped DEF Ids
    <3>2. Whole(d, "old")[1] = "old" /\ Mixed(d)[1] = "new"
      BY <3>1 DEF Whole, Mixed
    <3> QED BY <2>2, <3>2
  <2> QED BY <1>1, <2>1, <2>2 DEF Accounted
<1> QED BY <1>3, <1>4, <1>5, <1>6 DEF IInv

(* A coroutine takes up a task, goes on with it or gives it back.           *)
LEMMA TakesUp ==
    ASSUME IInv, NEW c \in Calls, call[c] = Idle, NEW d \in Docs,
           NEW op \in {"replace", "delete", "lexical"}, NEW phase \in {"embedding", "queued"},
           Begin(c, op, d, phase),
           UNCHANGED <<backend, rows, tokens, disturbed, schema, pools, down>>
    PROVE  IInv'
<1> DEFINE r == [op |-> op, doc |-> d, phase |-> phase, awaited |-> TRUE,
                 fresh |-> op = "lexical", used |-> Nothing]
<1>1. r \in CallRecords
  BY DEF CallRecords, Phases, Used
<1>2. call' = [call EXCEPT ![c] = r] /\ call \in [Calls -> CallRecords]
  BY DEF Begin, IInv, Types
<1>3. call' \in [Calls -> CallRecords] /\ call'[c] = r /\ \A e \in Calls \ {c} : call'[e] = call[e]
  BY <1>1, <1>2
<1>4. InHand(c)' /\ \A e \in Calls \ {c} : SameTask(e)
  BY <1>3 DEF InHand, SameTask
<1>5. ~Answers(c)
  BY DEF Idle, Answers
<1>6. PoolsOwned'
  BY DEF IInv, PoolsOwned, EveryPoolOwned
<1> QED BY <1>3, <1>4, <1>5, <1>6, QuietStep DEF IInv, Types

LEMMA GivesBack ==
    ASSUME IInv, NEW c \in Calls, call' \in [Calls -> CallRecords],
           call'[c].op = "none", call'[c].phase = "idle",
           \A e \in Calls \ {c} : SameTask(e),
           UNCHANGED <<backend, rows, schema, pools, down>>,
           Answers(c) => call[c].doc \in disturbed',
           disturbed' \subseteq Docs, \A d \in disturbed \ disturbed' : Settled(d),
           \A d \in Docs : tokens'[d] \in Revisions(d),
           tokens' \in [Docs -> UNION {Revisions(d) : d \in Docs}]
    PROVE  IInv'
<1>1. InHand(c)'
  BY DEF InHand, Writes
<1>2. PoolsOwned'
  BY DEF IInv, PoolsOwned, EveryPoolOwned
<1> QED BY <1>1, <1>2, QuietStep DEF IInv, Types

LEMMA IdleAgain ==
    ASSUME IInv, NEW c \in Calls, call' = [call EXCEPT ![c] = Idle]
    PROVE  /\ call' \in [Calls -> CallRecords]
           /\ call'[c].op = "none" /\ call'[c].phase = "idle"
           /\ \A e \in Calls \ {c} : SameTask(e)
<1>1. call \in [Calls -> CallRecords] /\ Idle \in CallRecords
  BY DEF IInv, Types, Idle, CallRecords, Phases, Used
<1>2. call' \in [Calls -> CallRecords] /\ call'[c] = Idle /\ \A e \in Calls \ {c} : call'[e] = call[e]
  BY <1>1
<1> QED BY <1>2 DEF SameTask, Idle

(* Forgetting a document: nobody's task changes but c's, which calls says.   *)
LEMMA Forgets ==
    ASSUME IInv, NEW d \in Docs, NEW calls \in [Calls -> CallRecords], Forget(d, calls)
    PROVE  /\ call' \in [Calls -> CallRecords]
           /\ \A e \in Calls : /\ call'[e].op = calls[e].op /\ call'[e].doc = calls[e].doc
                                 /\ call'[e].phase = calls[e].phase /\ call'[e].used = calls[e].used
           /\ \A x \in Docs : tokens'[x] \in Revisions(x)
           /\ tokens' \in [Docs -> UNION {Revisions(x) : x \in Docs}]
<1>1. \A e \in Calls : LET r == [calls[e] EXCEPT !.fresh = FALSE]
                        IN  /\ r \in CallRecords /\ r.op = calls[e].op /\ r.doc = calls[e].doc
                            /\ r.phase = calls[e].phase /\ r.used = calls[e].used
  <2> SUFFICES ASSUME NEW e \in Calls
               PROVE  LET r == [calls[e] EXCEPT !.fresh = FALSE]
                      IN  /\ r \in CallRecords /\ r.op = calls[e].op /\ r.doc = calls[e].doc
                          /\ r.phase = calls[e].phase /\ r.used = calls[e].used
    OBVIOUS
  <2>1. calls[e] \in CallRecords
    OBVIOUS
  <2> QED BY <2>1 DEF CallRecords
<1>2. call' = [e \in Calls |-> [calls[e] EXCEPT !.fresh = FALSE]]
  BY DEF Forget
<1>3. tokens \in [Docs -> UNION {Revisions(x) : x \in Docs}] /\ \A x \in Docs : tokens[x] \in Revisions(x)
  BY DEF IInv, Types
<1>4. tokens' = [tokens EXCEPT ![d] = Nothing] /\ Nothing \in Revisions(d)
  BY DEF Forget, Revisions
<1> HIDE DEF CallRecords, Revisions
<1>5. \A x \in Docs : tokens'[x] \in Revisions(x)
  BY <1>3, <1>4
<1>6. tokens' \in [Docs -> UNION {Revisions(x) : x \in Docs}]
  BY <1>3, <1>4, <1>5
<1> QED BY <1>1, <1>2, <1>5, <1>6

LEMMA PhaseStep ==
    ASSUME IInv, NEW c \in Calls, NEW p \in Phases, NEW u \in Used,
           \/ call' = [call EXCEPT ![c].phase = p, ![c].used = u]
           \/ call' = [call EXCEPT ![c].phase = p] /\ u = call[c].used
    PROVE  /\ call' \in [Calls -> CallRecords]
           /\ call'[c].phase = p /\ call'[c].used = u
           /\ call'[c].op = call[c].op /\ call'[c].doc = call[c].doc
           /\ \A e \in Calls \ {c} : SameTask(e)
<1> DEFINE r == [call[c] EXCEPT !.phase = p, !.used = u]
<1>1. call \in [Calls -> CallRecords] /\ call[c] \in CallRecords
  BY DEF IInv, Types
<1>2. /\ r \in CallRecords /\ r.phase = p /\ r.used = u
      /\ r.op = call[c].op /\ r.doc = call[c].doc
      /\ u = call[c].used => r = [call[c] EXCEPT !.phase = p]
  BY <1>1 DEF CallRecords
<1>3. call' = [call EXCEPT ![c] = r]
  BY <1>1, <1>2
<1> HIDE DEF r
<1>4. call' \in [Calls -> CallRecords] /\ call'[c] = r /\ \A e \in Calls \ {c} : call'[e] = call[e]
  BY <1>1, <1>2, <1>3
<1> QED BY <1>2, <1>4 DEF SameTask

LEMMA PoolStep ==
    ASSUME IInv, UNCHANGED <<backend, rows, tokens, call, disturbed, schema>>,
           down' \in {"up", "closing", "down"}, PoolsOwned'
    PROVE  IInv'
<1>1. \A d \in Docs : Revisions(d)' = Revisions(d)
  BY DEF Revisions, Whole, Mixed, Ids, Nothing
<1>2. CallRecords' = CallRecords
  BY <1>1 DEF CallRecords, Used, Phases, Nothing
<1>3. Types'
  BY <1>1, <1>2 DEF IInv, Types
<1>4. RowsGoOn /\ \A e \in Calls : SameTask(e)
  BY DEF RowsGoOn, SameTask, Settled, Written, Whole, Mixed, Ids, Nothing
<1>5. \A e \in Calls : InHand(e)'
  BY <1>4, OthersGoOn
<1>6. \A d \in Docs : Accounted(d)'
  BY DEF IInv, Accounted, Settled, Whole, Mixed, Ids, Nothing, Writes
<1> QED BY <1>3, <1>5, <1>6 DEF IInv

(* The phases in which nothing is in hand.                                   *)
LEMMA GoesOn ==
    ASSUME IInv, NEW c \in Calls, call[c].op # "none", NEW u \in Used,
           NEW p \in {"queued", "unmigrated", "migrating", "unpooled", "connected", "raised"},
           \/ call' = [call EXCEPT ![c].phase = p, ![c].used = u]
           \/ call' = [call EXCEPT ![c].phase = p] /\ u = call[c].used,
           Answers(c) => p = "raised",
           UNCHANGED <<backend, rows, tokens, disturbed, down>>,
           schema' \in [ready : BOOLEAN, holder : Calls \cup {None}], PoolsOwned'
    PROVE  IInv'
<1>1. p \in Phases /\ p # "idle" /\ p \notin {"read", "upserted", "done"}
  BY DEF Phases
<1>2. /\ call' \in [Calls -> CallRecords]
      /\ call'[c].phase = p /\ call'[c].op = call[c].op /\ call'[c].doc = call[c].doc
      /\ \A e \in Calls \ {c} : SameTask(e)
  BY <1>1, PhaseStep
<1>3. InHand(c)'
  <2>1. InHand(c)
    BY DEF IInv
  <2> QED BY <1>1, <1>2, <2>1 DEF InHand
<1>4. Answers(c) => Answers(c)' /\ call'[c].doc = call[c].doc
  BY <1>2 DEF Answers, Writes
<1> QED BY <1>2, <1>3, <1>4, QuietStep DEF IInv, Types

LEMMA KeepsPools ==
    ASSUME IInv, UNCHANGED <<pools, down>>
    PROVE  PoolsOwned'
BY DEF IInv, PoolsOwned, EveryPoolOwned

LEMMA Opens ==
    ASSUME IInv, pools' = Opened, UNCHANGED down
    PROVE  /\ PoolsOwned' /\ Opened.current \in Nat
<1>1. /\ pools \in [current : Nat \cup {None}, open : SUBSET Nat, closing : Nat \cup {None}, made : Nat]
      /\ pools.open \subseteq 1 .. pools.made
      /\ down # "closing" => pools.closing = None
      /\ pools.open \subseteq {pools.current, pools.closing}
  BY DEF IInv, PoolsOwned, EveryPoolOwned
<1>2. CASE pools.current # None
  BY <1>1, <1>2 DEF PoolsOwned, EveryPoolOwned, Opened
<1>3. CASE pools.current = None
  <2>1. pools' = [current |-> pools.made + 1, open |-> pools.open \cup {pools.made + 1},
                  closing |-> pools.closing, made |-> pools.made + 1]
    BY <1>1, <1>3 DEF Opened
  <2>2. None \notin pools.open
    BY <1>1, StoreAssumption
  <2> QED BY <1>1, <1>3, <2>1, <2>2 DEF PoolsOwned, EveryPoolOwned
<1> QED BY <1>2, <1>3

(* What Chroma's thread finds stale.                                        *)
LEMMA StaleFound ==
    ASSUME NEW d \in Docs, rows[d] \in Revisions(d)
    PROVE  /\ Stale(d) \in SUBSET Nat
           /\ Stale(d) = StaleIds(d) \/ (Stale(d) = {} /\ Settled(d))
<1>1. Ids(d, "old") \subseteq Nat /\ Ids(d, "new") \subseteq Nat
  BY SizesTyped DEF Ids
<1>2. CASE rows[d] = Nothing
  <2>1. DOMAIN rows[d] = {}
    BY <1>2, NothingStored
  <2> QED BY <1>2, <2>1 DEF Stale, Settled
<1>3. CASE rows[d] = Whole(d, "old")
  BY <1>1, <1>3 DEF Stale, StaleIds, Whole
<1>4. CASE rows[d] = Whole(d, "new")
  BY <1>4 DEF Stale, Settled, Whole
<1>5. CASE rows[d] = Mixed(d)
  BY <1>1, <1>5 DEF Stale, StaleIds, Mixed
<1> QED BY <1>2, <1>3, <1>4, <1>5 DEF Revisions

-----------------------------------------------------------------------------
(* Every step, by the part of Next it is in.                                 *)

LEMMA BeginsSafe == ASSUME IInv, NEW c \in Calls, Begins(c) PROVE IInv'
<1>1. ASSUME NEW d \in Docs, StartIndex(c, d) PROVE IInv'
  BY <1>1, TakesUp DEF StartIndex
<1>2. ASSUME NEW d \in Docs, NEW op \in {"delete", "lexical"}, StartCall(c, op, d) PROVE IInv'
  BY <1>2, TakesUp DEF StartCall
<1>3. ASSUME NEW d \in Docs, DeleteInMemory(c, d) PROVE IInv'
  <2>1. call[c] = Idle /\ Forget(d, call) /\ rows' = [rows EXCEPT ![d] = Nothing]
        /\ UNCHANGED <<backend, disturbed, schema, pools, down>>
    BY <1>3 DEF DeleteInMemory
  <2>2. call \in [Calls -> CallRecords]
    BY DEF IInv, Types
  <2>3. /\ call' \in [Calls -> CallRecords]
        /\ \A e \in Calls : SameTask(e)
        /\ \A x \in Docs : tokens'[x] \in Revisions(x)
        /\ tokens' \in [Docs -> UNION {Revisions(x) : x \in Docs}]
    BY <2>1, <2>2, Forgets DEF SameTask
  <2>4. InHand(c)' /\ ~Answers(c)
    BY <2>1, <2>3 DEF InHand, SameTask, Idle, Writes, Answers
  <2>5. Nothing \in {Nothing, Whole(d, "new")}
    OBVIOUS
  <2> QED BY <2>1, <2>3, <2>4, <2>5, SettlingStep
<1>4. ASSUME NEW d \in Docs, LexicalInMemory(c, d) PROVE IInv'
  <2>1. /\ UNCHANGED <<backend, rows, call, disturbed, schema, pools, down>>
        /\ tokens' = IF rows[d] # Nothing THEN [tokens EXCEPT ![d] = rows[d]] ELSE tokens
    BY <1>4 DEF LexicalInMemory
  <2>2. /\ rows[d] \in Revisions(d) /\ call \in [Calls -> CallRecords]
        /\ schema \in [ready : BOOLEAN, holder : Calls \cup {None}] /\ disturbed \subseteq Docs
        /\ tokens \in [Docs -> UNION {Revisions(x) : x \in Docs}]
        /\ \A x \in Docs : tokens[x] \in Revisions(x)
    BY DEF IInv, Types
  <2>3. /\ tokens' \in [Docs -> UNION {Revisions(x) : x \in Docs}]
        /\ \A x \in Docs : tokens'[x] \in Revisions(x)
    <3> HIDE DEF Revisions
    <3>1. \A x \in Docs : tokens'[x] \in Revisions(x)
      BY <2>1, <2>2
    <3> QED BY <2>1, <2>2, <3>1
  <2>4. \A e \in Calls : SameTask(e)
    BY <2>1 DEF SameTask
  <2>5. RowsGoOn
    BY <2>1 DEF RowsGoOn, Settled, Written, Whole, Mixed, Ids, Nothing
  <2>6. InHand(c)' /\ (Answers(c) => Answers(c)' /\ call'[c].doc = call[c].doc)
    BY <2>1, <2>4, <2>5, OthersGoOn DEF Answers, Writes
  <2> QED BY <2>1, <2>2, <2>3, <2>4, <2>6, KeepsPools, QuietStep
<1> QED BY <1>1, <1>2, <1>3, <1>4 DEF Begins

LEMMA EmbedSafe == ASSUME IInv, NEW c \in Calls, Embed(c) PROVE IInv'
<1>1. call[c].phase = "embedding"
  BY DEF Embed, EmbeddingFails, Embedded, ReplaceInMemory
<1>2. InHand(c) /\ call \in [Calls -> CallRecords] /\ call[c] \in CallRecords
  BY DEF IInv, Types
<1>3. call[c].op # "none" /\ call[c].doc \in Docs /\ ~Answers(c)
  BY <1>1, <1>2 DEF InHand, Answers
<1>4. CASE EmbeddingFails(c)
  <2>1. call' = [call EXCEPT ![c] = Idle] /\ UNCHANGED <<backend, rows, tokens, disturbed, schema, pools, down>>
    BY <1>4 DEF EmbeddingFails
  <2> QED BY <1>3, <2>1, IdleAgain, GivesBack DEF IInv, Types
<1>5. CASE Embedded(c)
  <2>1. /\ call' = [call EXCEPT ![c].phase = "queued"]
        /\ UNCHANGED <<backend, rows, tokens, disturbed, schema, pools, down>>
    BY <1>5 DEF Embedded, Ends
  <2>2. call[c].used \in Used /\ schema' \in [ready : BOOLEAN, holder : Calls \cup {None}]
    BY <1>2, <2>1 DEF CallRecords, IInv, Types
  <2> QED BY <1>3, <2>1, <2>2, KeepsPools, GoesOn
<1>6. CASE ReplaceInMemory(c)
  <2> DEFINE d == call[c].doc
             calls == [call EXCEPT ![c] = Idle]
  <2>1. /\ rows' = [rows EXCEPT ![d] = Whole(d, "new")] /\ Forget(d, calls)
        /\ UNCHANGED <<backend, disturbed, schema, pools, down>>
    BY <1>6 DEF ReplaceInMemory
  <2>2. Idle \in CallRecords
    BY DEF Idle, CallRecords, Phases, Used
  <2>3. /\ calls \in [Calls -> CallRecords] /\ calls[c] = Idle
        /\ \A e \in Calls \ {c} : calls[e] = call[e]
    BY <1>2, <2>2
  <2>4. d \in Docs /\ Whole(d, "new") \in {Nothing, Whole(d, "new")}
    BY <1>3
  <2> HIDE DEF calls, d
  <2>5. /\ call' \in [Calls -> CallRecords]
        /\ call'[c].op = "none" /\ call'[c].phase = "idle"
        /\ \A e \in Calls \ {c} : SameTask(e)
        /\ \A x \in Docs : tokens'[x] \in Revisions(x)
        /\ tokens' \in [Docs -> UNION {Revisions(x) : x \in Docs}]
    BY <2>1, <2>3, <2>4, Forgets DEF SameTask, Idle
  <2>6. InHand(c)'
    BY <2>5 DEF InHand, Writes
  <2> QED BY <1>3, <2>1, <2>4, <2>5, <2>6, SettlingStep
<1> QED BY <1>4, <1>5, <1>6 DEF Embed

LEMMA ResumeSafe == ASSUME IInv, NEW c \in Calls, Resume(c) PROVE IInv'
<1>1. /\ InHand(c) /\ call \in [Calls -> CallRecords] /\ call[c] \in CallRecords
      /\ tokens \in [Docs -> UNION {Revisions(x) : x \in Docs}]
      /\ \A x \in Docs : tokens[x] \in Revisions(x)
      /\ disturbed \subseteq Docs
  BY DEF IInv, Types
<1>2. call[c].phase \in {"done", "raised"} /\ call[c].op # "none" /\ call[c].doc \in Docs
  BY <1>1 DEF Resume, WriteReturns, SearchReturns, CallRaises, InHand
<1>3. CASE WriteReturns(c)
  <2>1. /\ Settled(call[c].doc) /\ ~Answers(c)
        /\ disturbed' = disturbed \ {call[c].doc} /\ UNCHANGED <<backend, rows, schema, pools, down>>
    BY <1>1, <1>3 DEF WriteReturns, InHand, Answers
  <2>2. CASE backend = "postgres"
    <3>1. call' = [call EXCEPT ![c] = Idle] /\ UNCHANGED tokens
      BY <1>3, <2>2 DEF WriteReturns
    <3> QED BY <1>1, <2>1, <3>1, IdleAgain, GivesBack
  <2>3. CASE backend # "postgres"
    <3> DEFINE d == call[c].doc
               calls == [call EXCEPT ![c] = Idle]
    <3>1. Forget(d, calls) /\ d \in Docs
      BY <1>2, <1>3, <2>3 DEF WriteReturns
    <3>2. Idle \in CallRecords
      BY DEF Idle, CallRecords, Phases, Used
    <3>3. /\ calls \in [Calls -> CallRecords] /\ calls[c] = Idle
          /\ \A e \in Calls \ {c} : calls[e] = call[e]
      BY <1>1, <3>2
    <3> HIDE DEF calls, d
    <3>4. /\ call' \in [Calls -> CallRecords]
          /\ call'[c].op = "none" /\ call'[c].phase = "idle"
          /\ \A e \in Calls \ {c} : SameTask(e)
          /\ \A x \in Docs : tokens'[x] \in Revisions(x)
          /\ tokens' \in [Docs -> UNION {Revisions(x) : x \in Docs}]
      BY <3>1, <3>3, Forgets DEF SameTask, Idle
    <3> QED BY <1>1, <2>1, <3>4, GivesBack
  <2> QED BY <2>2, <2>3
<1>4. CASE SearchReturns(c)
  <2>1. /\ call[c].phase = "done" /\ call[c].op = "lexical"
        /\ call' = [call EXCEPT ![c] = Idle] /\ UNCHANGED <<backend, rows, disturbed, schema, pools, down>>
    BY <1>1, <1>2, <1>4 DEF SearchReturns, CallRecords, Writes
  <2>2. call[c].used \in Revisions(call[c].doc)
    BY <1>1, <2>1 DEF InHand
  <2>3. \/ UNCHANGED tokens
        \/ tokens' = [tokens EXCEPT ![call[c].doc] = call[c].used]
    BY <1>4 DEF SearchReturns, Remember
  <2>4. /\ \A x \in Docs : tokens'[x] \in Revisions(x)
        /\ tokens' \in [Docs -> UNION {Revisions(x) : x \in Docs}]
    <3> HIDE DEF Revisions
    <3>1. \A x \in Docs : tokens'[x] \in Revisions(x)
      BY <1>1, <2>2, <2>3
    <3> QED BY <1>1, <1>2, <2>2, <2>3, <3>1
  <2>5. ~Answers(c)
    BY <2>1 DEF Answers
  <2> QED BY <1>1, <2>1, <2>4, <2>5, IdleAgain, GivesBack
<1>5. CASE CallRaises(c)
  <2>1. /\ call' = [call EXCEPT ![c] = Idle] /\ UNCHANGED <<backend, rows, tokens, schema, pools, down>>
        /\ disturbed' = IF call[c].op \in Writes THEN disturbed \cup {call[c].doc} ELSE disturbed
    BY <1>5 DEF CallRaises
  <2>2. (Answers(c) => call[c].doc \in disturbed') /\ disturbed' \subseteq Docs /\ disturbed \ disturbed' = {}
    BY <1>1, <1>2, <2>1 DEF Answers
  <2> QED BY <1>1, <2>1, <2>2, IdleAgain, GivesBack
<1> QED BY <1>3, <1>4, <1>5 DEF Resume

(* The threads that write nothing.                                          *)
LEMMA LookingSafe ==
    ASSUME IInv, NEW c \in Calls,
           \/ SeesNoSchema(c) \/ LockSchema(c) \/ Migrated(c) \/ MigrationRaises(c)
           \/ Connect(c) \/ OpenPool(c) \/ PoolGone(c) \/ ThreadRaises(c)
    PROVE  IInv'
<1>1. /\ InHand(c) /\ call[c] \in CallRecords
      /\ schema \in [ready : BOOLEAN, holder : Calls \cup {None}]
      /\ pools.current \in Nat \cup {None}
  BY DEF IInv, Types, PoolsOwned
<1>2. /\ call[c].op # "none" /\ call[c].used \in Used /\ Nothing \in Used /\ Nat \subseteq Used
      /\ ~ThreadRaises(c) => ~Answers(c)
  BY <1>1 DEF InHand, CallRecords, Used, Answers, SeesNoSchema, LockSchema, Migrated, MigrationRaises,
              Connect, OpenPool, PoolGone, ThreadRaises
<1> DEFINE Kept == UNCHANGED <<backend, rows, tokens, disturbed, down>>
           Moved(p) == call' = [call EXCEPT ![c].phase = p]
           SchemaTyped == schema' \in [ready : BOOLEAN, holder : Calls \cup {None}]
<1>3. CASE SeesNoSchema(c)
  <2>1. Moved("unmigrated") /\ Kept /\ SchemaTyped /\ ~Answers(c) /\ UNCHANGED pools
    BY <1>1, <1>3 DEF SeesNoSchema, Ends, Answers
  <2> QED BY <1>2, <2>1, KeepsPools, GoesOn
<1>4. CASE LockSchema(c)
  <2>1. /\ Moved("queued") \/ Moved("migrating")
        /\ Kept /\ SchemaTyped /\ ~Answers(c) /\ UNCHANGED pools
    BY <1>1, <1>4 DEF LockSchema, Ends, Answers
  <2> QED BY <1>2, <2>1, KeepsPools, GoesOn
<1>5. CASE Migrated(c)
  <2>1. Moved("queued") /\ Kept /\ SchemaTyped /\ ~Answers(c) /\ pools' = Opened
    BY <1>5 DEF Migrated, Ends, Answers
  <2> QED BY <1>2, <2>1, Opens, GoesOn
<1>6. CASE MigrationRaises(c)
  <2>1. Moved("raised") /\ Kept /\ SchemaTyped /\ UNCHANGED pools
    BY <1>1, <1>6 DEF MigrationRaises, Ends
  <2> QED BY <1>2, <2>1, KeepsPools, GoesOn
<1>7. CASE Connect(c)
  <2>1. Kept /\ SchemaTyped /\ ~Answers(c) /\ UNCHANGED pools
    BY <1>1, <1>7 DEF Connect, Answers
  <2>2. CASE pools.current = None
    <3>1. Moved("unpooled")
      BY <1>7, <2>2 DEF Connect, Ends
    <3> QED BY <1>2, <2>1, <3>1, KeepsPools, GoesOn
  <2>3. CASE pools.current # None
    <3>1. call' = [call EXCEPT ![c].phase = "connected", ![c].used = pools.current]
      BY <1>7, <2>3 DEF Connect
    <3>2. pools.current \in Used
      BY <1>1, <1>2, <2>3
    <3> QED BY <1>2, <2>1, <3>1, <3>2, KeepsPools, GoesOn
  <2> QED BY <2>2, <2>3
<1>8. CASE OpenPool(c)
  <2>1. /\ call' = [call EXCEPT ![c].phase = "connected", ![c].used = Opened.current]
        /\ Kept /\ SchemaTyped /\ ~Answers(c) /\ pools' = Opened
    BY <1>1, <1>8 DEF OpenPool, Answers
  <2>2. PoolsOwned' /\ Opened.current \in Used
    BY <1>2, <2>1, Opens
  <2> HIDE DEF Opened
  <2> QED BY <1>2, <2>1, <2>2, GoesOn
<1>9. CASE PoolGone(c) \/ ThreadRaises(c)
  <2>1. /\ call' = [call EXCEPT ![c].phase = "raised", ![c].used = Nothing]
        /\ Kept /\ SchemaTyped /\ UNCHANGED pools
    BY <1>1, <1>9 DEF PoolGone, ThreadRaises
  <2> QED BY <1>2, <2>1, KeepsPools, GoesOn
<1> QED BY <1>3, <1>4, <1>5, <1>6, <1>7, <1>8, <1>9

(* A lexical thread has read what it will remember.                         *)
LEMMA SearchingSafe ==
    ASSUME IInv, NEW c \in Calls, NEW d, d = call[c].doc,
           call[c].op = "lexical", call[c].phase \in {"queued", "connected"},
           NEW u \in Used, u = Nothing \/ u = rows[d],
           call' = [call EXCEPT ![c].phase = "done", ![c].used = u],
           UNCHANGED <<backend, rows, tokens, disturbed, schema, pools, down>>
    PROVE  IInv'
<1>1. InHand(c)
  BY DEF IInv
<1>2. d \in Docs /\ ~Answers(c)
  BY <1>1 DEF InHand, Answers
<1>3. u \in Revisions(d) /\ Revisions(d)' = Revisions(d)
  BY <1>2 DEF IInv, Types, Revisions, Whole, Mixed, Ids, Nothing
<1>4. "done" \in Phases
  BY DEF Phases
<1>5. /\ call' \in [Calls -> CallRecords] /\ call'[c].phase = "done" /\ call'[c].used = u
      /\ call'[c].op = "lexical" /\ call'[c].doc = d /\ \A e \in Calls \ {c} : SameTask(e)
  <2>1. /\ call' \in [Calls -> CallRecords] /\ call'[c].phase = "done"
        /\ call'[c].op = call[c].op /\ call'[c].doc = call[c].doc
        /\ \A e \in Calls \ {c} : SameTask(e)
    BY <1>4, PhaseStep
  <2>2. call'[c].used = u
    BY DEF IInv, Types, CallRecords
  <2> QED BY <2>1, <2>2
<1>6. u \in Revisions(d)'
  BY <1>3
<1>7. InHand(c)'
  <2> HIDE DEF Revisions
  <2> QED BY <1>2, <1>5, <1>6 DEF InHand, Writes
<1> QED BY <1>2, <1>5, <1>7, KeepsPools, QuietStep DEF IInv, Types

(* A thread has replaced its document, or deleted it, in one write.         *)
LEMMA WritingSafe ==
    ASSUME IInv, NEW c \in Calls, NEW d, d = call[c].doc,
           call[c].op \in Writes, call[c].phase \in {"queued", "connected", "upserted"},
           NEW text \in {Nothing, Whole(d, "new")}, rows' = [rows EXCEPT ![d] = text],
           \/ call' = [call EXCEPT ![c].phase = "done", ![c].used = Nothing]
           \/ call' = [call EXCEPT ![c].phase = "done"],
           UNCHANGED <<backend, tokens, disturbed, schema, pools, down>>
    PROVE  IInv'
<1>1. InHand(c) /\ call[c] \in CallRecords /\ rows \in [Docs -> UNION {Revisions(x) : x \in Docs}]
  BY DEF IInv, Types
<1>2. d \in Docs /\ Nothing \in Used /\ call[c].used \in Used /\ "done" \in Phases
  BY <1>1 DEF InHand, CallRecords, Used, Phases
<1>3. /\ call' \in [Calls -> CallRecords] /\ call'[c].phase = "done"
      /\ call'[c].op = call[c].op /\ call'[c].doc = d /\ \A e \in Calls \ {c} : SameTask(e)
  BY <1>2, PhaseStep
<1>4. Settled(d)'
  BY <1>1, <1>2 DEF Settled, Whole, Ids, Nothing
<1>5. InHand(c)'
  <2> HIDE DEF Settled
  <2> QED BY <1>2, <1>3, <1>4 DEF InHand, Writes
<1> QED BY <1>2, <1>3, <1>5, SettlingStep DEF IInv, Types

(* The first of Chroma's two writes mixes a document that was old.          *)
LEMMA MixingSafe ==
    ASSUME IInv, NEW c \in Calls, NEW d, d = call[c].doc,
           call[c].phase = "read", ~Settled(d), rows' = [rows EXCEPT ![d] = Mixed(d)],
           call' = [call EXCEPT ![c].phase = "upserted"],
           UNCHANGED <<backend, tokens, disturbed, schema, pools, down>>
    PROVE  IInv'
<1>1. /\ InHand(c) /\ call[c] \in CallRecords
      /\ rows \in [Docs -> UNION {Revisions(x) : x \in Docs}] /\ \A x \in Docs : rows[x] \in Revisions(x)
  BY DEF IInv, Types
<1>2. /\ d \in Docs /\ call[c].op = "replace" /\ call[c].used = StaleIds(d)
      /\ call[c].used \in Used /\ "upserted" \in Phases
  BY <1>1 DEF InHand, CallRecords, Phases
<1>3. /\ call' \in [Calls -> CallRecords] /\ call'[c].phase = "upserted"
      /\ call'[c].op = call[c].op /\ call'[c].doc = call[c].doc /\ call'[c].used = call[c].used
      /\ \A e \in Calls \ {c} : SameTask(e)
  <2>1. /\ call' \in [Calls -> CallRecords] /\ call'[c].phase = "upserted"
        /\ call'[c].op = call[c].op /\ call'[c].doc = call[c].doc /\ \A e \in Calls \ {c} : SameTask(e)
    BY <1>2, PhaseStep
  <2>2. call'[c].used = call[c].used
    BY DEF IInv, Types, CallRecords
  <2> QED BY <2>1, <2>2
<1>4. /\ rows'[d] = Mixed(d) /\ \A x \in Docs \ {d} : rows'[x] = rows[x]
      /\ \A x \in Docs : Revisions(x)' = Revisions(x) /\ Whole(x, "new")' = Whole(x, "new")
                         /\ Mixed(x)' = Mixed(x) /\ StaleIds(x)' = StaleIds(x)
  BY <1>1, <1>2 DEF Revisions, Whole, Mixed, StaleIds, Ids, Nothing
<1>5. Written(d)' /\ \A x \in Docs \ {d} : Settled(x)' = Settled(x) /\ Written(x)' = Written(x)
  BY <1>4 DEF Settled, Written, Nothing
<1>6. RowsGoOn
  BY <1>5 DEF RowsGoOn
<1>7. InHand(c)'
  <2>1. call'[c].doc = d
    BY <1>3
  <2> HIDE DEF Written, StaleIds
  <2> QED BY <1>2, <1>3, <1>4, <1>5, <2>1 DEF InHand
<1>8. \A e \in Calls : InHand(e)'
  BY <1>3, <1>6, <1>7, OthersGoOn
<1>9. Types'
  <2>1. CallRecords' = CallRecords
    BY <1>4 DEF CallRecords, Used, Phases, Nothing
  <2>2. \A x \in Docs : rows'[x] \in Revisions(x)
    BY <1>1, <1>4 DEF Revisions
  <2>3. rows' \in [Docs -> UNION {Revisions(x) : x \in Docs}]
    BY <1>1, <2>2
  <2> QED BY <1>3, <1>4, <2>1, <2>2, <2>3 DEF IInv, Types
<1>10. ASSUME NEW x \in Docs PROVE Accounted(x)'
  <2>1. CASE x = d
    BY <1>2, <1>3, <2>1 DEF Accounted, Writes
  <2>2. CASE x # d
    <3>1. Accounted(x)
      BY DEF IInv
    <3>2. ASSUME NEW e \in Calls, call[e].doc = x, call[e].op \in Writes, call[e].phase \in {"upserted", "raised"}
          PROVE  call'[e].doc = x /\ call'[e].op \in Writes /\ call'[e].phase \in {"upserted", "raised"}
      BY <1>3, <2>2, <3>2 DEF SameTask, Writes
    <3> QED BY <1>4, <1>5, <2>2, <3>1, <3>2 DEF Accounted, Writes
  <2> QED BY <2>1, <2>2
<1> QED BY <1>8, <1>9, <1>10, KeepsPools DEF IInv

LEMMA ReplacingSafe ==
    ASSUME IInv, NEW c \in Calls, ChromaExisting(c) \/ ChromaUpsert(c) \/ ChromaDeleteStale(c)
    PROVE  IInv'
<1>1. PICK d : d = call[c].doc
  OBVIOUS
<1>2. InHand(c) /\ call[c] \in CallRecords /\ call \in [Calls -> CallRecords]
  BY DEF IInv, Types
<1>3. /\ call[c].op = "replace" /\ d \in Docs
  BY <1>1, <1>2 DEF ChromaExisting, ChromaUpsert, ChromaDeleteStale, InHand
<1>4. rows[d] \in Revisions(d)
  BY <1>3 DEF IInv, Types
<1>5. CASE ChromaExisting(c)
  <2>1. PICK u : u = Stale(d)
    OBVIOUS
  <2>2. /\ call' = [call EXCEPT ![c].phase = "read", ![c].used = u] /\ ~Answers(c)
        /\ UNCHANGED <<backend, rows, tokens, disturbed, schema, pools, down>>
    BY <1>1, <1>5, <2>1 DEF ChromaExisting, Answers
  <2>3. u \in Used /\ "read" \in Phases /\ (u = StaleIds(d) \/ (u = {} /\ Settled(d)))
    BY <1>3, <1>4, <2>1, StaleFound DEF Used, Phases
  <2>4. /\ call' \in [Calls -> CallRecords] /\ call'[c].phase = "read" /\ call'[c].op = "replace"
        /\ call'[c].doc = d /\ \A e \in Calls \ {c} : SameTask(e)
    BY <1>1, <1>3, <2>2, <2>3, PhaseStep
  <2>5. call'[c].used = u
    BY <1>2, <2>2 DEF CallRecords
  <2>6. StaleIds(d)' = StaleIds(d) /\ Settled(d)' = Settled(d)
    BY <2>2 DEF StaleIds, Settled, Whole, Ids, Nothing
  <2>7. InHand(c)'
    <3> HIDE DEF StaleIds, Settled
    <3> QED BY <1>3, <2>3, <2>4, <2>5, <2>6 DEF InHand
  <2> QED BY <2>2, <2>4, <2>7, KeepsPools, QuietStep DEF IInv, Types
<1>6. CASE ChromaUpsert(c)
  <2>1. /\ call[c].phase = "read" /\ rows' = [rows EXCEPT ![d] = Upserted(d)]
        /\ call' = [call EXCEPT ![c].phase = "upserted"]
        /\ UNCHANGED <<backend, tokens, disturbed, schema, pools, down>>
    BY <1>1, <1>6 DEF ChromaUpsert, Ends
  <2>2. CASE ~Settled(d)
    BY <1>1, <1>3, <1>4, <2>1, <2>2, UpsertResult, MixingSafe
  <2>3. CASE Settled(d)
    <3>1. rows' = [rows EXCEPT ![d] = Whole(d, "new")] /\ Whole(d, "new") \in {Nothing, Whole(d, "new")}
      BY <1>3, <1>4, <2>1, <2>3, UpsertResult
    <3>2. call[c].used \in Used /\ "upserted" \in Phases
      BY <1>2 DEF CallRecords, Phases
    <3>3. /\ call' \in [Calls -> CallRecords] /\ call'[c].phase = "upserted" /\ call'[c].op = "replace"
          /\ call'[c].doc = d /\ call'[c].used = call[c].used /\ \A e \in Calls \ {c} : SameTask(e)
      <4>1. /\ call' \in [Calls -> CallRecords] /\ call'[c].phase = "upserted" /\ call'[c].op = "replace"
            /\ call'[c].doc = d /\ \A e \in Calls \ {c} : SameTask(e)
        BY <1>1, <1>3, <2>1, <3>2, PhaseStep
      <4>2. call'[c].used = call[c].used
        BY <1>2, <2>1 DEF CallRecords
      <4> QED BY <4>1, <4>2
    <3>4. Settled(d)' /\ Written(d)' /\ StaleIds(d)' = StaleIds(d)
      BY <1>3, <3>1 DEF IInv, Types, Settled, Written, StaleIds, Whole, Ids, Nothing
    <3>5. call[c].used = StaleIds(d) \/ call[c].used = {}
      BY <1>1, <1>2, <2>1 DEF InHand
    <3>6. InHand(c)'
      <4> HIDE DEF StaleIds, Settled, Written
      <4> QED BY <1>3, <3>3, <3>4, <3>5 DEF InHand
    <3>7. ~Answers(c)
      BY <2>1 DEF Answers
    <3> QED BY <1>3, <2>1, <3>1, <3>3, <3>6, <3>7, SettlingStep DEF IInv, Types
  <2> QED BY <2>2, <2>3
<1>7. CASE ChromaDeleteStale(c)
  <2>1. /\ call[c].phase = "upserted" /\ rows' = [rows EXCEPT ![d] = Without(d, call[c].used)]
        /\ call' = [call EXCEPT ![c].phase = "done", ![c].used = Nothing]
        /\ UNCHANGED <<backend, tokens, disturbed, schema, pools, down>>
    BY <1>1, <1>7 DEF ChromaDeleteStale
  <2>2. Written(d) /\ (call[c].used = StaleIds(d) \/ (call[c].used = {} /\ Settled(d)))
    BY <1>1, <1>2, <2>1 DEF InHand
  <2>3. Without(d, call[c].used) \in {Nothing, Whole(d, "new")}
    BY <1>3, <2>2, DeleteResult DEF Written, Settled
  <2> QED BY <1>1, <1>3, <2>1, <2>3, WritingSafe DEF Writes
<1> QED BY <1>5, <1>6, <1>7

LEMMA ThreadSafe == ASSUME IInv, NEW c \in Calls, Thread(c) PROVE IInv'
<1>1. PICK d : d = call[c].doc
  OBVIOUS
<1>2. InHand(c) /\ call[c] \in CallRecords /\ rows \in [Docs -> UNION {Revisions(x) : x \in Docs}]
  BY DEF IInv, Types
<1>3. CASE ChromaExisting(c) \/ ChromaUpsert(c) \/ ChromaDeleteStale(c)
  BY <1>3, ReplacingSafe
<1>4. CASE \/ SeesNoSchema(c) \/ LockSchema(c) \/ Migrated(c) \/ MigrationRaises(c)
           \/ Connect(c) \/ OpenPool(c) \/ PoolGone(c)
  BY <1>4, LookingSafe
<1>5. CASE ChromaDelete(c)
  <2>1. /\ call[c].phase = "queued" /\ call[c].op \in Writes
        /\ rows' = [rows EXCEPT ![d] = Nothing] /\ Nothing \in {Nothing, Whole(d, "new")}
        /\ call' = [call EXCEPT ![c].phase = "done"]
        /\ UNCHANGED <<backend, tokens, disturbed, schema, pools, down>>
    BY <1>1, <1>5 DEF ChromaDelete, Ends, Writes
  <2> QED BY <1>1, <2>1, WritingSafe
<1>6. CASE ChromaLexical(c)
  <2>1. PICK u : u = rows[d]
    OBVIOUS
  <2>2. /\ call[c].phase = "queued" /\ call[c].op = "lexical"
        /\ call' = [call EXCEPT ![c].phase = "done", ![c].used = u]
        /\ UNCHANGED <<backend, rows, tokens, disturbed, schema, pools, down>>
    BY <1>1, <1>6, <2>1 DEF ChromaLexical
  <2>3. d \in Docs
    BY <1>1, <1>2, <2>2 DEF InHand
  <2>4. u \in Used
    BY <1>2, <2>1, <2>3 DEF Used
  <2> QED BY <1>1, <2>1, <2>2, <2>4, SearchingSafe
<1>7. CASE Transact(c)
  <2>1. /\ call[c].phase = "connected"
        /\ call' = [call EXCEPT ![c].phase = "done", ![c].used = Nothing]
        /\ UNCHANGED <<backend, tokens, disturbed, schema, pools, down>>
    BY <1>7 DEF Transact
  <2>2. CASE call[c].op = "replace"
    <3>1. /\ rows' = [rows EXCEPT ![d] = Whole(d, "new")] /\ call[c].op \in Writes
          /\ Whole(d, "new") \in {Nothing, Whole(d, "new")}
      BY <1>1, <1>7, <2>2 DEF Transact, Writes
    <3> QED BY <1>1, <2>1, <3>1, WritingSafe
  <2>3. CASE call[c].op = "delete"
    <3>1. /\ rows' = [rows EXCEPT ![d] = Nothing] /\ call[c].op \in Writes
          /\ Nothing \in {Nothing, Whole(d, "new")}
      BY <1>1, <1>7, <2>3 DEF Transact, Writes
    <3> QED BY <1>1, <2>1, <3>1, WritingSafe
  <2>4. CASE call[c].op = "lexical"
    <3>1. UNCHANGED rows /\ Nothing \in Used
      BY <1>7, <2>4 DEF Transact, Used
    <3> QED BY <1>1, <2>1, <2>4, <3>1, SearchingSafe
  <2>5. call[c].op \in {"replace", "delete", "lexical"}
    BY <1>2, <2>1 DEF InHand, CallRecords
  <2> QED BY <2>2, <2>3, <2>4, <2>5
<1> QED BY <1>3, <1>4, <1>5, <1>6, <1>7 DEF Thread

LEMMA CancelSafe == ASSUME IInv, NEW c \in Calls, Cancel(c) PROVE IInv'
<1>1. /\ call \in [Calls -> CallRecords]
      /\ schema \in [ready : BOOLEAN, holder : Calls \cup {None}] /\ disturbed \subseteq Docs
      /\ tokens \in [Docs -> UNION {Revisions(x) : x \in Docs}] /\ \A x \in Docs : tokens[x] \in Revisions(x)
  BY DEF IInv, Types
<1>2. /\ call' = [call EXCEPT ![c].awaited = FALSE]
      /\ UNCHANGED <<backend, rows, tokens, disturbed, schema, pools, down>>
  BY DEF Cancel
<1>3. call' \in [Calls -> CallRecords] /\ \A e \in Calls : SameTask(e)
  <2>1. call[c] \in CallRecords
    BY <1>1
  <2>2. LET r == [call[c] EXCEPT !.awaited = FALSE]
        IN  /\ r \in CallRecords /\ r.op = call[c].op /\ r.doc = call[c].doc
            /\ r.phase = call[c].phase /\ r.used = call[c].used
    BY <2>1 DEF CallRecords
  <2>3. call' = [call EXCEPT ![c] = [call[c] EXCEPT !.awaited = FALSE]]
    BY <1>2
  <2> HIDE DEF CallRecords
  <2> QED BY <1>1, <2>2, <2>3 DEF SameTask
<1>4. RowsGoOn
  BY <1>2 DEF RowsGoOn, Settled, Written, Whole, Mixed, Ids, Nothing
<1>5. InHand(c)' /\ (Answers(c) => Answers(c)' /\ call'[c].doc = call[c].doc)
  BY <1>3, <1>4, OthersGoOn DEF SameTask, Answers, Writes
<1> QED BY <1>1, <1>2, <1>3, <1>5, KeepsPools, QuietStep

LEMMA ClosingSafe == ASSUME IInv, TakePool \/ ClosePool PROVE IInv'
<1>1. /\ pools \in [current : Nat \cup {None}, open : SUBSET Nat, closing : Nat \cup {None}, made : Nat]
      /\ pools.open \subseteq 1 .. pools.made
      /\ down # "closing" => pools.closing = None
      /\ pools.open \subseteq {pools.current, pools.closing}
  BY DEF IInv, PoolsOwned, EveryPoolOwned
<1>2. None \notin pools.open
  BY <1>1, StoreAssumption
<1>3. CASE TakePool
  <2>1. /\ down = "up" /\ down' = IF pools.current = None THEN "down" ELSE "closing"
        /\ pools' = [pools EXCEPT !.current = None, !.closing = pools.current]
        /\ UNCHANGED <<backend, rows, tokens, call, disturbed, schema>>
    BY <1>3 DEF TakePool
  <2>2. PoolsOwned'
    BY <1>1, <1>2, <2>1 DEF PoolsOwned, EveryPoolOwned
  <2> QED BY <2>1, <2>2, PoolStep
<1>4. CASE ClosePool
  <2>1. /\ down' = "down" /\ pools' = [pools EXCEPT !.open = @ \ {pools.closing}, !.closing = None]
        /\ UNCHANGED <<backend, rows, tokens, call, disturbed, schema>>
    BY <1>4 DEF ClosePool
  <2>2. PoolsOwned'
    BY <1>1, <1>2, <2>1 DEF PoolsOwned, EveryPoolOwned
  <2> QED BY <2>1, <2>2, PoolStep
<1> QED BY <1>3, <1>4

LEMMA NextInvariant == IInv /\ [Next]_vars => IInv'
<1> SUFFICES ASSUME IInv, [Next]_vars PROVE IInv'
  OBVIOUS
<1>1. CASE TakePool \/ ClosePool
  BY <1>1, ClosingSafe
<1>2. ASSUME NEW c \in Calls, Thread(c) PROVE IInv'
  BY <1>2, ThreadSafe
<1>3. ASSUME NEW c \in Calls, ThreadRaises(c) PROVE IInv'
  BY <1>3, LookingSafe
<1>4. ASSUME NEW c \in Calls, Resume(c) PROVE IInv'
  BY <1>4, ResumeSafe
<1>5. ASSUME NEW c \in Calls, Embed(c) PROVE IInv'
  BY <1>5, EmbedSafe
<1>6. ASSUME NEW c \in Calls, Begins(c) PROVE IInv'
  BY <1>6, BeginsSafe
<1>7. ASSUME NEW c \in Calls, Cancel(c) PROVE IInv'
  BY <1>7, CancelSafe
<1>8. CASE UNCHANGED vars
  <2>1. /\ UNCHANGED <<backend, rows, tokens, call, disturbed, schema, pools, down>>
        /\ down' \in {"up", "closing", "down"}
    BY <1>8 DEF vars, IInv, Types
  <2> QED BY <2>1, KeepsPools, PoolStep
<1> QED BY <1>1, <1>2, <1>3, <1>4, <1>5, <1>6, <1>7, <1>8 DEF Next

-----------------------------------------------------------------------------
(* The inductive invariant is strong enough.                                 *)
LEMMA InvariantSound == IInv => StoreSound
<1> SUFFICES ASSUME IInv PROVE StoreSound
  OBVIOUS
<1>1. TypeOK
  <2>1. \A d \in Docs : rows[d] \in Contents(d) /\ tokens[d] \in Contents(d)
    BY RevisionsAreContents DEF IInv, Types
  <2>2. ASSUME NEW c \in Calls
        PROVE  /\ call[c].op \in {"none", "replace", "delete", "lexical"}
               /\ call[c].doc \in Docs \cup {None}
               /\ call[c].op = "none" <=> call[c].phase = "idle"
    <3>1. call[c] \in CallRecords /\ InHand(c)
      BY DEF IInv, Types
    <3> QED BY <3>1 DEF CallRecords, InHand
  <2> QED BY <2>1, <2>2 DEF TypeOK, IInv, Types, PoolsOwned
<1>2. WholeDocuments
  <2> SUFFICES ASSUME NEW d \in Docs, rows[d] \notin {Nothing, Whole(d, "old"), Whole(d, "new")}
               PROVE  /\ rows[d] \in Contents(d) /\ DOMAIN rows[d] = Ids(d, "old")
                      /\ \A i \in Ids(d, "new") : rows[d][i] = "new"
                      /\ d \in disturbed \/ \E c \in Writing(d) : call[c].phase \in {"upserted", "raised"}
    BY DEF WholeDocuments
  <2>1. rows[d] = Mixed(d) /\ rows[d] \in Contents(d) /\ Accounted(d)
    BY <1>1 DEF IInv, Types, Revisions, TypeOK
  <2>2. d \in disturbed \/ \E c \in Writing(d) : call[c].phase \in {"upserted", "raised"}
    BY <2>1 DEF Accounted, Settled, Writing
  <2>3. Ids(d, "new") \subseteq Ids(d, "old")
    <3>1. SUFFICES ASSUME ~(Ids(d, "new") \subseteq Ids(d, "old")) PROVE FALSE
      OBVIOUS
    <3>2. Ids(d, "old") \subseteq Ids(d, "new")
      BY <3>1, SizesTyped DEF Ids
    <3>3. rows[d] = Whole(d, "new")
      BY <2>1, <3>2 DEF Mixed, Whole
    <3> QED BY <3>3
  <2> QED BY <2>1, <2>2, <2>3 DEF Mixed
<1>3. EveryPoolOwned
  BY DEF IInv, PoolsOwned
<1> QED BY <1>1, <1>2, <1>3 DEF StoreSound

(* Whatever writes, cancellations, failures and close() meet, what is stored *)
(* of a document is one whole revision or none, or, where Chroma's thread    *)
(* is between its two calls or one of them failed, the new chunks over the   *)
(* rest of a longer old text; and every open pool is the store's current one *)
(* or being closed, so none is lost to a race (replace_document,             *)
(* delete_document, _connection_pool, close).                                *)
THEOREM StoreIsSound == Spec => []StoreSound
<1>1. Init => IInv
  BY InitInvariant
<1>2. IInv /\ [Next]_vars => IInv'
  BY NextInvariant
<1>3. IInv => StoreSound
  BY InvariantSound
<1> QED BY <1>1, <1>2, <1>3, PTL DEF Spec

-----------------------------------------------------------------------------
(* The token cache.  Whatever a fresh search brings back still lies in the  *)
(* store, or a write has come between and will forget the document.         *)

Inside(used, d) == \A i \in DOMAIN used : i \in DOMAIN rows[d] /\ rows[d][i] = used[i]

Covers(c, d) ==
    call[c].doc = d /\ call[c].op \in Writes /\ call[c].phase \in {"upserted", "done", "raised"}

Covered(d) == d \in disturbed \/ \E c \in Calls : Covers(c, d)

Found(c, d) == call[c].op = "lexical" /\ call[c].doc = d /\ call[c].phase = "done"

Unused(d) ==
    backend = "postgres" =>
        tokens[d] = Nothing /\ \A c \in Calls : Found(c, d) => call[c].used = Nothing

Faithful(d) ==
    \/ Covered(d)
    \/ /\ Inside(tokens[d], d)
       /\ \A c \in Calls : Found(c, d) /\ call[c].fresh => Inside(call[c].used, d)

TokensSound == \A d \in Docs : Unused(d) /\ Faithful(d)

LEMMA NothingInside == \A d : Inside(Nothing, d)
<1>1. DOMAIN Nothing = {}
  BY DEF Nothing
<1> QED BY <1>1 DEF Inside

LEMMA InitTokens == Init => TokensSound
<1> SUFFICES ASSUME Init, NEW d \in Docs PROVE Unused(d) /\ Faithful(d)
  BY DEF TokensSound
<1>1. tokens[d] = Nothing /\ \A c \in Calls : ~ Found(c, d)
  BY DEF Init, Idle, Found
<1> QED BY <1>1, NothingInside DEF Unused, Faithful

(* A coroutine goes on and the rows and the cache stay.                     *)
LEMMA TokensStay ==
    ASSUME TokensSound, NEW c \in Calls, \A e \in Calls \ {c} : call'[e] = call[e],
           UNCHANGED <<backend, rows, tokens>>, disturbed \subseteq disturbed',
           \A d \in Docs : Covers(c, d) => d \in disturbed' \/ Covers(c, d)',
           \A d \in Docs : Found(c, d)' =>
               \/ call'[c].used = Nothing
               \/ backend # "postgres" /\ call'[c].used = rows[d]
               \/ Found(c, d) /\ call'[c].used = call[c].used /\ call'[c].fresh = call[c].fresh
    PROVE  TokensSound'
<1> SUFFICES ASSUME NEW d \in Docs PROVE Unused(d)' /\ Faithful(d)'
  BY DEF TokensSound
<1>1. Unused(d) /\ Faithful(d)
  BY DEF TokensSound
<1>2. Covered(d) => Covered(d)'
  BY DEF Covered, Covers, Writes
<1>3. \A used : Inside(used, d)' <=> Inside(used, d)
  BY DEF Inside
<1>4. Inside(rows[d], d)
  BY DEF Inside
<1>5. \A e \in Calls \ {c} : (Found(e, d)' <=> Found(e, d)) /\ call'[e] = call[e]
  BY DEF Found
<1>6. Unused(d)'
  BY <1>1, <1>5 DEF Unused, Nothing
<1>7. ASSUME Inside(tokens[d], d), \A e \in Calls : Found(e, d) /\ call[e].fresh => Inside(call[e].used, d)
      PROVE  Faithful(d)'
  <2>1. \A e \in Calls : Found(e, d)' /\ call'[e].fresh => Inside(call'[e].used, d)
    BY <1>4, <1>5, <1>7, NothingInside
  <2> QED BY <1>3, <1>7, <2>1 DEF Faithful
<1> QED BY <1>1, <1>2, <1>6, <1>7 DEF Faithful

(* A write by a thread, which its coroutine has yet to answer for.          *)
LEMMA TokensCovered ==
    ASSUME TokensSound, NEW c \in Calls, NEW d \in Docs, \A e \in Calls \ {c} : call'[e] = call[e],
           UNCHANGED <<backend, tokens, disturbed>>,
           \A x \in Docs \ {d} : rows'[x] = rows[x],
           call[c].doc = d, call[c].op \in Writes, Covers(c, d)'
    PROVE  TokensSound'
<1> SUFFICES ASSUME NEW x \in Docs PROVE Unused(x)' /\ Faithful(x)'
  BY DEF TokensSound
<1>1. Unused(x) /\ Faithful(x)
  BY DEF TokensSound
<1>2. ~ Found(c, x) /\ ~ Found(c, x)'
  BY DEF Found, Covers, Writes
<1>3. \A e \in Calls \ {c} : (Found(e, x)' <=> Found(e, x)) /\ call'[e] = call[e]
  BY DEF Found
<1>4. Unused(x)'
  BY <1>1, <1>2, <1>3 DEF Unused, Nothing
<1>5. CASE x = d
  BY <1>4, <1>5 DEF Faithful, Covered
<1>6. CASE x # d
  <2>1. Covered(x) => Covered(x)'
    BY <1>6 DEF Covered, Covers, Writes
  <2>2. \A used : Inside(used, x)' <=> Inside(used, x)
    BY <1>6 DEF Inside
  <2> QED BY <1>1, <1>2, <1>3, <1>4, <2>1, <2>2 DEF Faithful
<1> QED BY <1>5, <1>6

(* A document is forgotten, and no search is fresh any more.                *)
LEMMA TokensForgotten ==
    ASSUME TokensSound, NEW c \in Calls, NEW d \in Docs,
           \A e \in Calls \ {c} : /\ call'[e].op = call[e].op /\ call'[e].doc = call[e].doc
                                  /\ call'[e].phase = call[e].phase /\ call'[e].used = call[e].used,
           \A e \in Calls : ~ call'[e].fresh,
           call'[c].op = "none", call[c].doc = d \/ call[c].op = "none",
           tokens'[d] = Nothing, \A x \in Docs \ {d} : tokens'[x] = tokens[x] /\ rows'[x] = rows[x],
           backend' = backend, disturbed \ {d} \subseteq disturbed'
    PROVE  TokensSound'
<1> SUFFICES ASSUME NEW x \in Docs PROVE Unused(x)' /\ Faithful(x)'
  BY DEF TokensSound
<1>1. Unused(x) /\ Faithful(x)
  BY DEF TokensSound
<1>2. ~ Found(c, x)' /\ \A e \in Calls \ {c} : (Found(e, x)' <=> Found(e, x)) /\ call'[e].used = call[e].used
  BY DEF Found
<1>3. Unused(x)'
  BY <1>1, <1>2 DEF Unused, Nothing
<1>4. \A y : Inside(Nothing, y)'
  BY NothingInside DEF Inside, Nothing
<1>5. CASE x = d
  BY <1>3, <1>4, <1>5 DEF Faithful
<1>6. CASE x # d
  <2>1. Covered(x) => Covered(x)'
    BY <1>6 DEF Covered, Covers, Writes
  <2>2. Inside(tokens[x], x) => Inside(tokens[x], x)'
    BY <1>6 DEF Inside
  <2> QED BY <1>1, <1>3, <2>1, <2>2 DEF Faithful
<1> QED BY <1>5, <1>6

(* A change of one coroutine's record leaves the others' alone.             *)
LEMMA OneCall ==
    ASSUME IInv, NEW c \in Calls, NEW r, call' = [call EXCEPT ![c] = r]
    PROVE  call'[c] = r /\ \A e \in Calls \ {c} : call'[e] = call[e]
BY DEF IInv, Types

LEMMA PhaseCall ==
    ASSUME IInv, NEW c \in Calls, NEW p, NEW u,
           \/ call' = [call EXCEPT ![c].phase = p, ![c].used = u]
           \/ call' = [call EXCEPT ![c].phase = p] /\ u = call[c].used
    PROVE  /\ call'[c].phase = p /\ call'[c].used = u
           /\ call'[c].op = call[c].op /\ call'[c].doc = call[c].doc /\ call'[c].fresh = call[c].fresh
           /\ \A e \in Calls \ {c} : call'[e] = call[e]
<1>1. call \in [Calls -> CallRecords] /\ call[c] \in CallRecords
  BY DEF IInv, Types
<1> QED BY <1>1 DEF CallRecords

LEMMA ForgetCall ==
    ASSUME IInv, NEW d \in Docs, NEW calls \in [Calls -> CallRecords], Forget(d, calls)
    PROVE  /\ \A e \in Calls : /\ call'[e].op = calls[e].op /\ call'[e].doc = calls[e].doc
                               /\ call'[e].phase = calls[e].phase /\ call'[e].used = calls[e].used
                               /\ ~ call'[e].fresh
           /\ tokens'[d] = Nothing /\ \A x \in Docs \ {d} : tokens'[x] = tokens[x]
<1>1. \A e \in Calls : calls[e] \in CallRecords /\ call'[e] = [calls[e] EXCEPT !.fresh = FALSE]
  BY DEF Forget
<1>2. tokens' = [tokens EXCEPT ![d] = Nothing] /\ tokens \in [Docs -> UNION {Revisions(x) : x \in Docs}]
  BY DEF Forget, IInv, Types
<1>3. \A e \in Calls : /\ call'[e].op = calls[e].op /\ call'[e].doc = calls[e].doc
                       /\ call'[e].phase = calls[e].phase /\ call'[e].used = calls[e].used
                       /\ ~ call'[e].fresh
  BY <1>1 DEF CallRecords
<1> QED BY <1>2, <1>3

LEMMA BeginsTokens == ASSUME IInv, TokensSound, NEW c \in Calls, Begins(c) PROVE TokensSound'
<1>1. ASSUME NEW op, NEW d \in Docs, NEW phase, phase # "done", call[c] = Idle, Begin(c, op, d, phase),
             UNCHANGED <<backend, rows, tokens, disturbed>>
      PROVE  TokensSound'
  <2> DEFINE r == [op |-> op, doc |-> d, phase |-> phase, awaited |-> TRUE,
                   fresh |-> op = "lexical", used |-> Nothing]
  <2>0. r.phase = phase /\ call' = [call EXCEPT ![c] = r]
    BY <1>1 DEF Begin
  <2> HIDE DEF r
  <2>1. call'[c].phase = phase /\ \A e \in Calls \ {c} : call'[e] = call[e]
    BY <2>0, OneCall
  <2>2. \A x \in Docs : ~ Covers(c, x) /\ ~ Found(c, x)'
    BY <1>1, <2>1 DEF Covers, Found, Idle
  <2> QED BY <1>1, <2>1, <2>2, TokensStay
<1>2. ASSUME NEW d \in Docs, StartIndex(c, d) PROVE TokensSound'
  BY <1>1, <1>2 DEF StartIndex
<1>3. ASSUME NEW d \in Docs, NEW op \in {"delete", "lexical"}, StartCall(c, op, d) PROVE TokensSound'
  BY <1>1, <1>3 DEF StartCall
<1>4. ASSUME NEW d \in Docs, DeleteInMemory(c, d) PROVE TokensSound'
  <2>1. call[c] = Idle /\ rows' = [rows EXCEPT ![d] = Nothing] /\ Forget(d, call) /\ UNCHANGED <<backend, disturbed>>
    BY <1>4 DEF DeleteInMemory
  <2>2. call \in [Calls -> CallRecords] /\ \A x \in Docs \ {d} : rows'[x] = rows[x]
    BY <2>1 DEF IInv, Types
  <2> QED BY <2>1, <2>2, ForgetCall, TokensForgotten DEF Idle
<1>5. ASSUME NEW d \in Docs, LexicalInMemory(c, d) PROVE TokensSound'
  <2>1. /\ backend = "memory" /\ UNCHANGED <<backend, rows, call, disturbed>>
        /\ tokens' = IF rows[d] # Nothing THEN [tokens EXCEPT ![d] = rows[d]] ELSE tokens
    BY <1>5 DEF LexicalInMemory
  <2>2. ASSUME NEW x \in Docs PROVE Unused(x)' /\ Faithful(x)'
    <3>1. Unused(x) /\ Faithful(x)
      BY DEF TokensSound
    <3>2. tokens'[x] = tokens[x] \/ tokens'[x] = rows[x]
      BY <2>1 DEF IInv, Types
    <3>3. Inside(tokens[x], x) => Inside(tokens[x], x)'
      BY <2>1, <3>2 DEF Inside
    <3>4. Covered(x) => Covered(x)'
      BY <2>1 DEF Covered, Covers, Writes
    <3>5. \A e \in Calls : (Found(e, x)' <=> Found(e, x)) /\ (Inside(call[e].used, x) => Inside(call[e].used, x)')
      BY <2>1 DEF Found, Inside
    <3> QED BY <2>1, <3>1, <3>3, <3>4, <3>5 DEF Unused, Faithful
  <2> QED BY <2>2 DEF TokensSound
<1> QED BY <1>2, <1>3, <1>4, <1>5 DEF Begins

LEMMA EmbedTokens == ASSUME IInv, TokensSound, NEW c \in Calls, Embed(c) PROVE TokensSound'
<1>1. call[c].phase = "embedding" /\ call[c].doc \in Docs /\ call \in [Calls -> CallRecords]
  <2>1. call[c].phase = "embedding"
    BY DEF Embed, EmbeddingFails, Embedded, ReplaceInMemory
  <2> QED BY <2>1 DEF IInv, Types, InHand
<1>2. \A x \in Docs : ~ Covers(c, x)
  BY <1>1 DEF Covers
<1>3. CASE EmbeddingFails(c) \/ Embedded(c)
  <2>1. UNCHANGED <<backend, rows, tokens, disturbed>>
    BY <1>3 DEF EmbeddingFails, Embedded
  <2>2. call'[c].phase # "done" /\ \A e \in Calls \ {c} : call'[e] = call[e]
    BY <1>3, OneCall, PhaseCall DEF EmbeddingFails, Embedded, Ends, Idle
  <2> QED BY <1>2, <2>1, <2>2, TokensStay DEF Found
<1>4. CASE ReplaceInMemory(c)
  <2> DEFINE d == call[c].doc
             calls == [call EXCEPT ![c] = Idle]
  <2>1. rows' = [rows EXCEPT ![d] = Whole(d, "new")] /\ Forget(d, calls) /\ UNCHANGED <<backend, disturbed>>
    BY <1>4 DEF ReplaceInMemory
  <2>2. Idle \in CallRecords
    BY DEF Idle, CallRecords, Phases, Used
  <2>3. calls \in [Calls -> CallRecords] /\ calls[c] = Idle /\ \A e \in Calls \ {c} : calls[e] = call[e]
    BY <1>1, <2>2
  <2> HIDE DEF calls
  <2>4. /\ \A e \in Calls : /\ call'[e].op = calls[e].op /\ call'[e].doc = calls[e].doc
                            /\ call'[e].phase = calls[e].phase /\ call'[e].used = calls[e].used
                            /\ ~ call'[e].fresh
        /\ tokens'[d] = Nothing /\ \A x \in Docs \ {d} : tokens'[x] = tokens[x]
    BY <1>1, <2>1, <2>3, ForgetCall
  <2>5. \A x \in Docs \ {d} : rows'[x] = rows[x]
    BY <2>1 DEF IInv, Types
  <2> QED BY <1>1, <2>1, <2>3, <2>4, <2>5, TokensForgotten DEF Idle
<1> QED BY <1>3, <1>4 DEF Embed

LEMMA ResumeTokens == ASSUME IInv, TokensSound, NEW c \in Calls, Resume(c) PROVE TokensSound'
<1> DEFINE d == call[c].doc
           calls == [call EXCEPT ![c] = Idle]
<1>1. call[c].phase \in {"done", "raised"} /\ d \in Docs /\ call \in [Calls -> CallRecords]
  <2>1. call[c].phase \in {"done", "raised"}
    BY DEF Resume, WriteReturns, SearchReturns, CallRaises
  <2> QED BY <2>1 DEF IInv, Types, InHand
<1>2. Idle \in CallRecords
  BY DEF Idle, CallRecords, Phases, Used
<1>3. calls \in [Calls -> CallRecords] /\ calls[c] = Idle /\ \A e \in Calls \ {c} : calls[e] = call[e]
  BY <1>1, <1>2
<1>4. CASE WriteReturns(c) /\ backend # "postgres"
  <2>1. Forget(d, calls) /\ disturbed' = disturbed \ {d} /\ UNCHANGED <<backend, rows>>
    BY <1>4 DEF WriteReturns
  <2> HIDE DEF calls
  <2>4. /\ \A e \in Calls : /\ call'[e].op = calls[e].op /\ call'[e].doc = calls[e].doc
                            /\ call'[e].phase = calls[e].phase /\ call'[e].used = calls[e].used
                            /\ ~ call'[e].fresh
        /\ tokens'[d] = Nothing /\ \A x \in Docs \ {d} : tokens'[x] = tokens[x]
    BY <1>1, <1>3, <2>1, ForgetCall
  <2> QED BY <1>1, <1>3, <2>1, <2>4, TokensForgotten DEF Idle
<1>5. CASE WriteReturns(c) /\ backend = "postgres"
  <2>1. call' = calls /\ UNCHANGED <<backend, rows, tokens>>
    BY <1>5 DEF WriteReturns
  <2> HIDE DEF calls
  <2>2. \A e \in Calls, x \in Docs : Found(e, x)' => Found(e, x) /\ call'[e] = call[e]
    BY <1>3, <2>1 DEF Found, Idle
  <2>3. ASSUME NEW x \in Docs PROVE Unused(x)' /\ Faithful(x)'
    <3>1. tokens[x] = Nothing /\ \A e \in Calls : Found(e, x) => call[e].used = Nothing
      BY <1>5 DEF TokensSound, Unused
    <3>2. Inside(Nothing, x)'
      BY NothingInside DEF Inside, Nothing
    <3>3. Inside(tokens[x], x)' /\ \A e \in Calls : Found(e, x)' => Inside(call[e].used, x)'
      BY <2>1, <2>2, <3>1, <3>2 DEF Inside
    <3> QED BY <2>1, <2>2, <3>1, <3>3 DEF Unused, Faithful, Nothing
  <2> QED BY <2>3 DEF TokensSound
<1>6. CASE CallRaises(c)
  <2>1. /\ UNCHANGED <<backend, rows, tokens>> /\ call' = calls
        /\ disturbed' = IF call[c].op \in Writes THEN disturbed \cup {d} ELSE disturbed
    BY <1>6 DEF CallRaises
  <2>2. call'[c] = Idle /\ \A e \in Calls \ {c} : call'[e] = call[e]
    BY <1>3, <2>1
  <2>3. \A x \in Docs : (Covers(c, x) => x \in disturbed') /\ ~ Found(c, x)'
    BY <2>1, <2>2 DEF Covers, Found, Idle
  <2> QED BY <2>1, <2>2, <2>3, TokensStay
<1>7. CASE SearchReturns(c)
  <2>1. /\ call' = calls /\ UNCHANGED <<backend, rows, disturbed>>
        /\ call[c].phase = "done" /\ call[c].op \notin Writes
        /\ tokens' = IF call[c].used # Nothing /\ call[c].fresh THEN [tokens EXCEPT ![d] = call[c].used] ELSE tokens
    BY <1>7 DEF SearchReturns, Remember
  <2> HIDE DEF calls
  <2>2. call[c].op = "lexical"
    <3>1. call[c] \in CallRecords /\ InHand(c)
      BY DEF IInv, Types
    <3> QED BY <2>1, <3>1 DEF CallRecords, InHand, Writes
  <2>3. Found(c, d)
    BY <2>1, <2>2 DEF Found
  <2>4. \A e \in Calls, x \in Docs : Found(e, x)' => Found(e, x) /\ call'[e] = call[e]
    BY <1>3, <2>1 DEF Found, Idle
  <2>5. ASSUME NEW x \in Docs PROVE Unused(x)' /\ Faithful(x)'
    <3>1. Unused(x) /\ Faithful(x)
      BY DEF TokensSound
    <3>2. tokens'[x] = tokens[x] \/ (x = d /\ tokens'[x] = call[c].used /\ call[c].fresh)
      BY <1>1, <2>1 DEF IInv, Types
    <3>3. Unused(x)'
      BY <2>1, <2>3, <2>4, <3>1, <3>2 DEF Unused, Nothing
    <3>4. Covered(x) => Covered(x)'
      <4>1. ASSUME NEW e \in Calls, Covers(e, x) PROVE Covers(e, x)'
        BY <1>3, <2>1, <4>1 DEF Covers, Writes
      <4> QED BY <2>1, <4>1 DEF Covered
    <3>5. ASSUME ~ Covered(x) PROVE Faithful(x)'
      <4>1. Inside(tokens[x], x) /\ \A e \in Calls : Found(e, x) /\ call[e].fresh => Inside(call[e].used, x)
        BY <3>1, <3>5 DEF Faithful
      <4>2. Inside(tokens[x], x)'
        BY <2>1, <2>3, <3>2, <4>1 DEF Inside
      <4>3. \A e \in Calls : Found(e, x)' /\ call'[e].fresh => Inside(call[e].used, x)'
        BY <2>1, <2>4, <4>1 DEF Inside
      <4> QED BY <4>2, <4>3 DEF Faithful
    <3> QED BY <3>3, <3>4, <3>5 DEF Faithful
  <2> QED BY <2>5 DEF TokensSound
<1> QED BY <1>4, <1>5, <1>6, <1>7 DEF Resume

(* A thread's step that writes nothing and finds nothing new.               *)
LEMMA LookingTokens ==
    ASSUME IInv, TokensSound, NEW c \in Calls,
           UNCHANGED <<backend, rows, tokens, disturbed>>,
           NEW p \in Phases \ {"done"}, NEW u,
           \/ call' = [call EXCEPT ![c].phase = p, ![c].used = u]
           \/ call' = [call EXCEPT ![c].phase = p] /\ u = call[c].used,
           call[c].phase \in {"upserted", "done", "raised"} => p = "raised"
    PROVE  TokensSound'
<1>1. /\ call'[c].phase = p /\ call'[c].op = call[c].op /\ call'[c].doc = call[c].doc
      /\ \A e \in Calls \ {c} : call'[e] = call[e]
  BY PhaseCall
<1>2. \A d \in Docs : (Covers(c, d) => Covers(c, d)') /\ ~ Found(c, d)'
  BY <1>1 DEF Covers, Found, Writes
<1> QED BY <1>1, <1>2, TokensStay

LEMMA ThreadTokens == ASSUME IInv, TokensSound, NEW c \in Calls, Thread(c) PROVE TokensSound'
<1> DEFINE d == call[c].doc
<1>1. /\ call \in [Calls -> CallRecords] /\ call[c] \in CallRecords /\ InHand(c)
      /\ rows \in [Docs -> UNION {Revisions(x) : x \in Docs}]
  BY DEF IInv, Types
<1>2. CASE SeesNoSchema(c)
  BY <1>2, LookingTokens DEF SeesNoSchema, Ends, Phases
<1>3. CASE LockSchema(c)
  BY <1>3, LookingTokens DEF LockSchema, Ends, Phases
<1>4. CASE Migrated(c) \/ MigrationRaises(c)
  BY <1>4, LookingTokens DEF Migrated, MigrationRaises, Ends, Phases
<1>5. CASE Connect(c)
  BY <1>5, LookingTokens DEF Connect, Ends, Phases
<1>6. CASE OpenPool(c)
  BY <1>6, LookingTokens DEF OpenPool, Phases
<1>7. CASE PoolGone(c)
  BY <1>7, LookingTokens DEF PoolGone, Phases
<1>8. CASE ChromaExisting(c)
  BY <1>8, LookingTokens DEF ChromaExisting, Phases
<1>9. CASE ChromaLexical(c)
  <2>1. /\ backend = "chroma" /\ call[c].phase = "queued" /\ UNCHANGED <<backend, rows, tokens, disturbed>>
        /\ call' = [call EXCEPT ![c].phase = "done", ![c].used = rows[d]]
    BY <1>9 DEF ChromaLexical
  <2>2. call'[c].used = rows[d] /\ call'[c].doc = d /\ \A e \in Calls \ {c} : call'[e] = call[e]
    BY <1>1, <2>1 DEF CallRecords
  <2>3. \A x \in Docs : ~ Covers(c, x) /\ (Found(c, x)' => x = d)
    BY <2>1, <2>2 DEF Covers, Found
  <2> QED BY <2>1, <2>2, <2>3, TokensStay
<1>10. ASSUME NEW p \in {"upserted", "done"}, NEW u, d \in Docs, call[c].op \in Writes,
              \/ call' = [call EXCEPT ![c].phase = p, ![c].used = u]
              \/ call' = [call EXCEPT ![c].phase = p] /\ u = call[c].used,
              NEW new, rows' = [rows EXCEPT ![d] = new],
              UNCHANGED <<backend, tokens, disturbed>>
       PROVE  TokensSound'
  <2>1. /\ call'[c].phase = p /\ call'[c].op = call[c].op /\ call'[c].doc = d
        /\ \A e \in Calls \ {c} : call'[e] = call[e]
    BY <1>10, PhaseCall
  <2>2. Covers(c, d)' /\ \A x \in Docs \ {d} : rows'[x] = rows[x]
    BY <1>1, <1>10, <2>1 DEF Covers, Writes
  <2> QED BY <1>10, <2>1, <2>2, TokensCovered
<1>11. CASE ChromaDelete(c)
  <2>1. call[c].op = "delete" /\ d \in Docs
    BY <1>1, <1>11 DEF ChromaDelete, InHand
  <2>2. /\ call' = [call EXCEPT ![c].phase = "done"] /\ UNCHANGED <<backend, tokens, disturbed>>
        /\ rows' = [rows EXCEPT ![d] = Nothing]
    BY <1>11 DEF ChromaDelete, Ends
  <2> QED BY <1>10, <2>1, <2>2 DEF Writes
<1>12. CASE ChromaUpsert(c)
  <2>1. call[c].op = "replace" /\ d \in Docs
    BY <1>1, <1>12 DEF ChromaUpsert, InHand
  <2>2. /\ call' = [call EXCEPT ![c].phase = "upserted"] /\ UNCHANGED <<backend, tokens, disturbed>>
        /\ rows' = [rows EXCEPT ![d] = Upserted(d)]
    BY <1>12 DEF ChromaUpsert, Ends
  <2> QED BY <1>10, <2>1, <2>2 DEF Writes
<1>13. CASE ChromaDeleteStale(c)
  <2>1. call[c].op = "replace" /\ d \in Docs
    BY <1>1, <1>13 DEF ChromaDeleteStale, InHand
  <2>2. /\ call' = [call EXCEPT ![c].phase = "done", ![c].used = Nothing]
        /\ UNCHANGED <<backend, tokens, disturbed>>
        /\ rows' = [rows EXCEPT ![d] = Without(d, call[c].used)]
    BY <1>13 DEF ChromaDeleteStale
  <2> QED BY <1>10, <2>1, <2>2 DEF Writes
<1>14. CASE Transact(c)
  <2>1. /\ call[c].phase = "connected" /\ UNCHANGED <<backend, tokens, disturbed>>
        /\ call' = [call EXCEPT ![c].phase = "done", ![c].used = Nothing]
    BY <1>14 DEF Transact
  <2>2. d \in Docs
    BY <1>1, <2>1 DEF InHand
  <2>3. CASE call[c].op = "replace"
    BY <1>10, <1>14, <2>1, <2>2, <2>3 DEF Transact, Writes
  <2>4. CASE call[c].op = "delete"
    BY <1>10, <1>14, <2>1, <2>2, <2>4 DEF Transact, Writes
  <2>5. CASE call[c].op \notin Writes
    <3>1. rows' = rows
      BY <1>14, <2>5 DEF Transact, Writes
    <3>2. call'[c].used = Nothing /\ \A e \in Calls \ {c} : call'[e] = call[e]
      BY <1>1, <2>1 DEF CallRecords
    <3>3. \A x \in Docs : ~ Covers(c, x)
      BY <2>1 DEF Covers
    <3> QED BY <2>1, <3>1, <3>2, <3>3, TokensStay
  <2> QED BY <2>3, <2>4, <2>5 DEF Writes
<1> QED BY <1>2, <1>3, <1>4, <1>5, <1>6, <1>7, <1>8, <1>9, <1>11, <1>12, <1>13, <1>14 DEF Thread

LEMMA NextTokens == IInv /\ TokensSound /\ [Next]_vars => TokensSound'
<1> SUFFICES ASSUME IInv, TokensSound, [Next]_vars PROVE TokensSound'
  OBVIOUS
<1>1. CASE TakePool \/ ClosePool \/ UNCHANGED vars
  <2>1. UNCHANGED <<backend, rows, tokens, call, disturbed>>
    BY <1>1 DEF TakePool, ClosePool, vars
  <2> QED BY <2>1 DEF TokensSound, Unused, Faithful, Covered, Covers, Found, Inside, Nothing, Writes
<1>2. ASSUME NEW c \in Calls, Thread(c) PROVE TokensSound'
  BY <1>2, ThreadTokens
<1>3. ASSUME NEW c \in Calls, ThreadRaises(c) PROVE TokensSound'
  BY <1>3, LookingTokens DEF ThreadRaises, Phases
<1>4. ASSUME NEW c \in Calls, Resume(c) PROVE TokensSound'
  BY <1>4, ResumeTokens
<1>5. ASSUME NEW c \in Calls, Embed(c) PROVE TokensSound'
  BY <1>5, EmbedTokens
<1>6. ASSUME NEW c \in Calls, Begins(c) PROVE TokensSound'
  BY <1>6, BeginsTokens
<1>7. ASSUME NEW c \in Calls, Cancel(c) PROVE TokensSound'
  <2>1. call' = [call EXCEPT ![c].awaited = FALSE] /\ UNCHANGED <<backend, rows, tokens, disturbed>>
    BY <1>7 DEF Cancel
  <2>2. call \in [Calls -> CallRecords] /\ call[c] \in CallRecords
    BY DEF IInv, Types
  <2>3. /\ call'[c].op = call[c].op /\ call'[c].doc = call[c].doc /\ call'[c].phase = call[c].phase
        /\ call'[c].used = call[c].used /\ call'[c].fresh = call[c].fresh
        /\ \A e \in Calls \ {c} : call'[e] = call[e]
    BY <2>1, <2>2 DEF CallRecords
  <2>4. \A d \in Docs : (Covers(c, d) => Covers(c, d)') /\ (Found(c, d)' => Found(c, d))
    BY <2>3 DEF Covers, Found, Writes
  <2> QED BY <2>1, <2>3, <2>4, TokensStay
<1> QED BY <1>1, <1>2, <1>3, <1>4, <1>5, <1>6, <1>7 DEF Next

(* Text that a write removed does not outlive it in the token cache, however *)
(* the threads, the searches, the cancellations and the failures meet; a    *)
(* document whose write raised or was cut off is the exception              *)
(* (_LexicalTokenCache, replace_document, delete_document).                 *)
THEOREM CacheIsFaithful == Spec => []CacheFaithful
<1>1. TokensSound => CacheFaithful
  <2> SUFFICES ASSUME TokensSound, NEW d \in Docs \ disturbed
               PROVE  \/ \A i \in DOMAIN tokens[d] : i \in DOMAIN rows[d] /\ rows[d][i] = tokens[d][i]
                      \/ \E c \in Writing(d) : call[c].phase \in {"upserted", "done", "raised"}
    BY DEF CacheFaithful
  <2> QED BY DEF TokensSound, Faithful, Covered, Covers, Inside, Writing
<1> QED BY <1>1, InitInvariant, NextInvariant, InitTokens, NextTokens, PTL DEF Spec
=============================================================================
