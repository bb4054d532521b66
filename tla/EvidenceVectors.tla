-------------------------- MODULE EvidenceVectors --------------------------
(***************************************************************************)
(* The cases of one server process (app/consumer/store.py) and the vectors *)
(* of their evidence in the persistent vector store: who writes them       *)
(* (service.py _ensure_evidence_indexed), who removes them (delete_case,   *)
(* purge_expired_cases, purge_orphaned_documents) and who may forget to.   *)
(*                                                                         *)
(* A case's accepted uploads form one evidence document whose id is the    *)
(* hash of its text (app/schemas/document.py), so here the id is that      *)
(* text: the sequence of the accepted uploads' texts.  The legal corpus,   *)
(* which no step of this module removes, is left out of the vectors.       *)
(*                                                                         *)
(* Records that have left the store live on in the requests that already   *)
(* hold them, so every function below is over all case ids ever used.      *)
(***************************************************************************)
EXTENDS Integers, FiniteSets, Sequences

CONSTANTS
    Cases,          \* case ids; uuid4, so an id is never used twice
    Texts,          \* texts of uploads
    TextsOf,        \* the texts each case may upload
    Generate,       \* a request for a notice, as opposed to an upload
    MaxCases,       \* max_active_cases
    MaxUploads,     \* bound: uploads accepted per case
    MaxQueue,       \* bound: requests of one case in flight
    MaxCrashes,     \* bound: restarts of the process
    PurgeAtStartup, \* purge_orphaned_evidence_on_startup
    Circumstances,  \* what the surroundings may do, see below
    None

(* "create_meets_idle": a case is created while an idle one still waits for *)
(* the sweeper; "delete_busy": a client deletes a case that has a request   *)
(* in flight; "outlast": a request outlasts the idle TTL; "write_fails" and *)
(* "delete_fails": the vector store raises from a write it may already have *)
(* done, or from a delete it has not done.                                  *)
AllCircumstances ==
    {"create_meets_idle", "delete_busy", "outlast", "write_fails", "delete_fails"}

ASSUME VectorsAssumption ==
    /\ TextsOf \in [Cases -> SUBSET Texts]
    /\ Generate \notin Texts
    /\ MaxCases \in Nat \ {0}
    /\ MaxUploads \in Nat /\ MaxQueue \in Nat /\ MaxCrashes \in Nat
    /\ PurgeAtStartup \in BOOLEAN
    /\ Circumstances \subseteq AllCircumstances
    /\ IsFiniteSet(Cases)

VARIABLES
    live,      \* the ids in store._cases
    used,      \* every id ever issued
    idle,      \* whether the idle TTL has passed since the case was last seen
    evidence,  \* the accepted uploads' texts: the id of the evidence document
    active,    \* record.active_evidence_document_id
    indexed,   \* record.indexed_document_ids
    queue,     \* requests on the mutation lock: the holder, then the waiters
    stage,     \* progress of the lock's holder
    previous,  \* the holder's previous_id
    cleanup,   \* progress of _delete_indexed_documents over the case's record
    sweeping,  \* records the sweeper has popped and not finished
    vectors,   \* document ids in the vector store
    serving,   \* FALSE from a crash until the startup hook has run
    crashes

cases == <<live, used, idle>>
records == <<evidence, active, indexed>>
requests == <<queue, stage, previous>>
cleaning == <<cleanup, sweeping>>
process == <<serving, crashes>>
vars == <<cases, records, requests, cleaning, vectors, process>>

-----------------------------------------------------------------------------
Documents(c) == Seq(TextsOf[c]) \ {<<>>}

Owned == UNION {indexed[c] : c \in live}

Idle == {c \in live : idle[c]}

Stages == {"waiting", "indexing", "replacing", "retrieving"}

(* A running _delete_indexed_documents: the set when the loop began, and    *)
(* the documents it has deleted.                                            *)
Loops == [from : SUBSET Seq(Texts), visited : SUBSET Seq(Texts)]

Loop(c) == [from |-> indexed[c], visited |-> {}]

ASSUME NoneAssumption == None \notin Seq(Texts) \cup Loops

Init ==
    /\ live = {} /\ used = {}
    /\ idle = [c \in Cases |-> FALSE]
    /\ evidence = [c \in Cases |-> <<>>]
    /\ active = [c \in Cases |-> None]
    /\ indexed = [c \in Cases |-> {}]
    /\ queue = [c \in Cases |-> <<>>]
    /\ stage = [c \in Cases |-> "waiting"]
    /\ previous = [c \in Cases |-> None]
    /\ cleanup = [c \in Cases |-> None]
    /\ sweeping = {}
    /\ vectors = {}
    /\ serving = TRUE
    /\ crashes = 0

-----------------------------------------------------------------------------
(* The case store.                                                          *)

(* Mutant: a full store makes room by dropping a case in use.               *)
CreateEvicting(c) ==
    /\ serving /\ c \notin used
    /\ "create_meets_idle" \in Circumstances \/ Idle = {}
    /\ used' = used \cup {c}
    /\ \E kept \in SUBSET (live \ Idle) :
          /\ Cardinality(kept) < MaxCases
          /\ live' = kept \cup {c}
    /\ idle' = [d \in Cases |-> d \in live' /\ idle[d]]
    /\ UNCHANGED <<records, requests, cleaning, vectors, process>>

(* store.create: idle cases are dropped first, even if the new one is then  *)
(* refused; nobody receives the dropped records.                            *)
Create(c) ==
    /\ serving /\ c \notin used
    /\ "create_meets_idle" \in Circumstances \/ Idle = {}
    /\ IF Cardinality(live \ Idle) < MaxCases
       THEN live' = (live \ Idle) \cup {c} /\ used' = used \cup {c}
       ELSE live' = live \ Idle /\ used' = used
    /\ idle' = [d \in Cases |-> d \in live' /\ idle[d]]
    /\ UNCHANGED <<records, requests, cleaning, vectors, process>>

(* The idle TTL passes since the case was last seen.                        *)
TimePasses(c) ==
    /\ c \in live /\ ~idle[c]
    /\ "outlast" \in Circumstances \/ queue[c] = <<>>
    /\ idle' = [idle EXCEPT ![c] = TRUE]
    /\ UNCHANGED <<live, used, records, requests, cleaning, vectors, process>>

(* Any authorized request touches the case; an upload or a generation then  *)
(* waits for its mutation lock, holding the record.                         *)
Ask(c, request) ==
    /\ serving /\ c \in live /\ Len(queue[c]) < MaxQueue
    /\ idle' = [idle EXCEPT ![c] = FALSE]
    /\ queue' = [queue EXCEPT ![c] = Append(@, request)]
    /\ UNCHANGED <<live, used, records, stage, previous, cleaning, vectors, process>>

(* delete_case: the record leaves the store, then its loop starts; it takes *)
(* no lock.                                                                 *)
Delete(c) ==
    /\ serving /\ c \in live
    /\ "delete_busy" \in Circumstances \/ queue[c] = <<>>
    /\ live' = live \ {c}
    /\ idle' = [idle EXCEPT ![c] = FALSE]
    /\ cleanup' = [cleanup EXCEPT ![c] = Loop(c)]
    /\ UNCHANGED <<used, records, requests, sweeping, vectors, process>>

(* purge_expired_cases pops every idle record, then cleans one by one.      *)
Sweep ==
    /\ serving /\ sweeping = {} /\ Idle # {}
    /\ live' = live \ Idle
    /\ sweeping' = Idle
    /\ idle' = [c \in Cases |-> FALSE]
    /\ UNCHANGED <<used, records, requests, cleanup, vectors, process>>

SweepRecord(c) ==
    /\ c \in sweeping
    /\ \A d \in sweeping : cleanup[d] = None
    /\ cleanup' = [cleanup EXCEPT ![c] = Loop(c)]
    /\ UNCHANGED <<cases, records, requests, sweeping, vectors, process>>

-----------------------------------------------------------------------------
(* _delete_indexed_documents: a loop over the record's own set, one awaited *)
(* delete per document.  The set's iterator raises if the set's size has    *)
(* changed since the loop began.                                            *)

Undisturbed(c) == Cardinality(indexed[c]) = Cardinality(cleanup[c].from)

EndCleanup(c, rest) ==
    /\ cleanup' = [cleanup EXCEPT ![c] = None]
    /\ sweeping' = rest

CleanDocument(c) ==
    /\ cleanup[c] # None /\ Undisturbed(c)
    /\ \E doc \in indexed[c] \ cleanup[c].visited :
          /\ vectors' = vectors \ {doc}
          /\ cleanup' = [cleanup EXCEPT ![c].visited = @ \cup {doc}]
    /\ UNCHANGED <<cases, records, requests, sweeping, process>>

(* A document that entered the set during the loop may or may not be seen.  *)
CleanEnds(c) ==
    /\ cleanup[c] # None /\ Undisturbed(c)
    /\ indexed[c] \cap cleanup[c].from \subseteq cleanup[c].visited
    /\ EndCleanup(c, sweeping \ {c})
    /\ UNCHANGED <<cases, records, requests, vectors, process>>

(* The loop raises; in the sweeper that also drops the records after it.    *)
CleanRaises(c) ==
    /\ cleanup[c] # None
    /\ ~Undisturbed(c) \/ "delete_fails" \in Circumstances
    /\ EndCleanup(c, IF c \in sweeping THEN {} ELSE sweeping)
    /\ UNCHANGED <<cases, records, requests, vectors, process>>

-----------------------------------------------------------------------------
(* Requests, one at a time per case.  They do not look at the store again,  *)
(* so they run to their end on a record that has left it.                   *)

Turn(c) == queue[c] # <<>>

(* touched: the request got as far as record.touch().                       *)
EndRequest(c, touched) ==
    /\ queue' = [queue EXCEPT ![c] = Tail(@)]
    /\ stage' = [stage EXCEPT ![c] = "waiting"]
    /\ previous' = [previous EXCEPT ![c] = None]
    /\ idle' = [idle EXCEPT ![c] = @ /\ ~touched]
    /\ UNCHANGED <<live, used>>

(* An upload is accepted into the evidence.                                 *)
AcceptUpload(c) ==
    /\ Turn(c) /\ stage[c] = "waiting" /\ Head(queue[c]) # Generate
    /\ Len(evidence[c]) < MaxUploads
    /\ evidence' = [evidence EXCEPT ![c] = Append(@, Head(queue[c]))]
    /\ EndRequest(c, TRUE)
    /\ UNCHANGED <<active, indexed, cleaning, vectors, process>>

(* The request ends before any vector is touched: a refused upload, a case  *)
(* that is not ready, a removed scope, a missing corpus.                    *)
Refuse(c) ==
    /\ Turn(c) /\ stage[c] = "waiting"
    /\ EndRequest(c, FALSE)
    /\ UNCHANGED <<records, cleaning, vectors, process>>

Goto(c, next) ==
    /\ stage' = [stage EXCEPT ![c] = next]
    /\ UNCHANGED <<cases, queue>>

(* Mutant: the active document is recorded before it is indexed.            *)
IndexEagerly(c) ==
    /\ Turn(c) /\ stage[c] = "waiting" /\ Head(queue[c]) = Generate
    /\ evidence[c] # <<>>
    /\ ~(active[c] = evidence[c] /\ evidence[c] \in indexed[c])
    /\ Goto(c, "indexing")
    /\ previous' = [previous EXCEPT ![c] = active[c]]
    /\ active' = [active EXCEPT ![c] = evidence[c]]
    /\ UNCHANGED <<evidence, indexed, cleaning, vectors, process>>

(* An evidence set that is not the active one must be indexed.              *)
Index(c) ==
    /\ Turn(c) /\ stage[c] = "waiting" /\ Head(queue[c]) = Generate
    /\ evidence[c] # <<>>
    /\ ~(active[c] = evidence[c] /\ evidence[c] \in indexed[c])
    /\ Goto(c, "indexing")
    /\ UNCHANGED <<previous, records, cleaning, vectors, process>>

(* Mutant: an index of this case is reused although uploads were added.     *)
ReuseStale(c) ==
    /\ Turn(c) /\ stage[c] = "waiting" /\ Head(queue[c]) = Generate
    /\ evidence[c] # <<>>
    /\ active[c] \in indexed[c]
    /\ Goto(c, "retrieving")
    /\ UNCHANGED <<previous, records, cleaning, vectors, process>>

Reuse(c) ==
    /\ Turn(c) /\ stage[c] = "waiting" /\ Head(queue[c]) = Generate
    /\ evidence[c] # <<>>
    /\ active[c] = evidence[c] /\ evidence[c] \in indexed[c]
    /\ Goto(c, "retrieving")
    /\ UNCHANGED <<previous, records, cleaning, vectors, process>>

(* Mutant: the previous document is forgotten instead of deleted.           *)
IndexedForgetting(c) ==
    /\ stage[c] = "indexing"
    /\ vectors' = vectors \cup {evidence[c]}
    /\ active' = [active EXCEPT ![c] = evidence[c]]
    /\ indexed' = [indexed EXCEPT ![c] = {evidence[c]}]
    /\ previous' = previous
    /\ Goto(c, "retrieving")
    /\ UNCHANGED <<evidence, cleaning, process>>

Indexed(c) ==
    /\ stage[c] = "indexing"
    /\ vectors' = vectors \cup {evidence[c]}
    /\ active' = [active EXCEPT ![c] = evidence[c]]
    /\ indexed' = [indexed EXCEPT ![c] = @ \cup {evidence[c]}]
    /\ previous' = [previous EXCEPT ![c] = active[c]]
    /\ Goto(c, IF active[c] \in {None, evidence[c]} THEN "retrieving" ELSE "replacing")
    /\ UNCHANGED <<evidence, cleaning, process>>

(* Embedding fails before the store is reached; the store itself may fail   *)
(* after it has written.                                                    *)
IndexRaises(c) ==
    /\ stage[c] = "indexing"
    /\ \/ vectors' = vectors
       \/ "write_fails" \in Circumstances /\ vectors' = vectors \cup {evidence[c]}
    /\ EndRequest(c, FALSE)
    /\ UNCHANGED <<records, cleaning, process>>

Replaced(c) ==
    /\ stage[c] = "replacing"
    /\ vectors' = vectors \ {previous[c]}
    /\ indexed' = [indexed EXCEPT ![c] = @ \ {previous[c]}]
    /\ Goto(c, "retrieving")
    /\ UNCHANGED <<previous, evidence, active, cleaning, process>>

ReplaceRaises(c) ==
    /\ stage[c] = "replacing" /\ "delete_fails" \in Circumstances
    /\ EndRequest(c, FALSE)
    /\ UNCHANGED <<records, cleaning, vectors, process>>

(* The rest of the generation, which stores a notice or raises.             *)
Drafted(c, touched) ==
    /\ stage[c] = "retrieving"
    /\ EndRequest(c, touched)
    /\ UNCHANGED <<records, cleaning, vectors, process>>

-----------------------------------------------------------------------------
(* The process.                                                             *)

(* Memory is lost, the vector store is not.                                 *)
Crash ==
    /\ crashes < MaxCrashes
    /\ crashes' = crashes + 1
    /\ serving' = FALSE
    /\ live' = {} /\ sweeping' = {}
    /\ idle' = [c \in Cases |-> FALSE]
    /\ evidence' = [c \in Cases |-> <<>>]
    /\ active' = [c \in Cases |-> None]
    /\ indexed' = [c \in Cases |-> {}]
    /\ queue' = [c \in Cases |-> <<>>]
    /\ stage' = [c \in Cases |-> "waiting"]
    /\ previous' = [c \in Cases |-> None]
    /\ cleanup' = [c \in Cases |-> None]
    /\ UNCHANGED <<used, vectors>>

(* purge_orphaned_documents, in the startup hook.  If it raises the process *)
(* does not start, and the next start tries again.                          *)
Purge ==
    /\ ~serving /\ PurgeAtStartup
    /\ \E doc \in vectors \ Owned : vectors' = vectors \ {doc}
    /\ UNCHANGED <<cases, records, requests, cleaning, process>>

(* Mutant: the startup hook does not wait for the purge.                    *)
ServeAtOnce ==
    /\ ~serving
    /\ serving' = TRUE
    /\ UNCHANGED <<cases, records, requests, cleaning, vectors, crashes>>

Serve ==
    /\ ~serving
    /\ PurgeAtStartup => vectors \subseteq Owned
    /\ serving' = TRUE
    /\ UNCHANGED <<cases, records, requests, cleaning, vectors, crashes>>

-----------------------------------------------------------------------------
Client(c) ==
    \/ Create(c)
    \/ \E request \in TextsOf[c] \cup {Generate} : Ask(c, request)
    \/ Delete(c)

Request(c) ==
    \/ AcceptUpload(c) \/ Refuse(c) \/ Index(c) \/ Reuse(c)
    \/ Indexed(c) \/ IndexRaises(c) \/ Replaced(c) \/ ReplaceRaises(c)
    \/ \E touched \in BOOLEAN : Drafted(c, touched)

Clean(c) == CleanDocument(c) \/ CleanEnds(c) \/ CleanRaises(c)

Next ==
    \/ \E c \in Cases : Client(c) \/ TimePasses(c) \/ Request(c) \/ SweepRecord(c) \/ Clean(c)
    \/ Sweep \/ Crash \/ Purge \/ Serve

(* Requests and loops run to their end because every awaited call returns   *)
(* or raises; the sweeper wakes up forever; a stopped process is restarted. *)
Fairness ==
    /\ \A c \in Cases : WF_vars(Request(c)) /\ WF_vars(SweepRecord(c)) /\ WF_vars(Clean(c))
    /\ WF_vars(Sweep) /\ WF_vars(Purge) /\ WF_vars(Serve)

Spec == Init /\ [][Next]_vars /\ Fairness

-----------------------------------------------------------------------------
(* Properties.                                                              *)

TypeOK ==
    /\ live \subseteq used /\ used \subseteq Cases
    /\ idle \in [Cases -> BOOLEAN]
    /\ evidence \in [Cases -> Seq(Texts)]
    /\ active \in [Cases -> Seq(Texts) \cup {None}]
    /\ indexed \in [Cases -> SUBSET Seq(Texts)]
    /\ queue \in [Cases -> Seq(Texts \cup {Generate})]
    /\ stage \in [Cases -> Stages]
    /\ previous \in [Cases -> Seq(Texts) \cup {None}]
    /\ cleanup \in [Cases -> Loops \cup {None}]
    /\ sweeping \subseteq Cases
    /\ vectors \subseteq Seq(Texts)
    /\ serving \in BOOLEAN
    /\ crashes \in 0 .. MaxCrashes

(* The document a case in the store calls its index is in the vector store, *)
(* whatever deletions, sweeps, failures and restarts go on around it: the   *)
(* next generation reuses it without looking (service.py 597-608).          *)
EvidencePresent == \A c \in live : active[c] # None => active[c] \in vectors

(* Retrieval of a case in the store searches the uploads it accepts now,    *)
(* never an index made before the last of them (service.py 519-530).        *)
SearchesCurrentEvidence ==
    \A c \in live : stage[c] = "retrieving" => evidence[c] = active[c] /\ evidence[c] \in vectors

(* While the process serves, every evidence document in the vector store is *)
(* tracked by a case in the store or by a record still being cleaned up:    *)
(* deletion, expiry and restart strand nothing (README.md 580-582,          *)
(* docs/architecture.md 84-85).                                             *)
Tracked(doc) ==
    \E c \in Cases : doc \in indexed[c] /\ (c \in live \/ c \in sweeping \/ cleanup[c] # None)

NoOrphans == serving => \A doc \in vectors : Tracked(doc)

(* The store never exceeds its capacity, and only a restart or the case's   *)
(* own client removes a case that is in use (store.py 136-141).             *)
EvictsOnlyIdle ==
    [][/\ Cardinality(live') <= MaxCases
       /\ \A c \in live \ live' : idle[c] \/ cleanup'[c] # None \/ ~serving']_vars

(* The vectors of a case that was deleted, expired or lost in a restart are *)
(* removed eventually.                                                      *)
Forgotten ==
    \A c \in Cases : c \in used \ live ~> \A doc \in vectors : doc \notin Documents(c)
=============================================================================
