---------------------------- MODULE ConsumerCase ----------------------------
(***************************************************************************)
(* One consumer case of app/consumer/service.py and app/consumer/store.py: *)
(* its facts, uploads, notice and scope verdict, and the requests that     *)
(* work on it concurrently.                                                *)
(*                                                                         *)
(* The server is one asyncio event loop, so code between two awaits is     *)
(* atomic and is one action here.  Chat messages and fact edits never      *)
(* await and never take a lock.  Uploads and notice generations await many *)
(* times and hold the case's mutation_lock from Begin... to Finish.        *)
(* A case opened by POST /prompt-notices is private to that one request    *)
(* until its notice exists, so here it starts with that notice.            *)
(***************************************************************************)
EXTENDS Naturals, Sequences

CONSTANTS
    Tasks,         \* upload and generation requests that may be in flight
    Files,         \* distinct uploads, each identified by its source SHA-256
    Complaints,    \* texts the complaint_summary may hold
    InScope,       \* the complaints is_consumer_scope accepts
    Others,        \* values of the facts fields not modelled one by one
    Complete,      \* the values of Others in which no required field is empty
    NoOthers,      \* the value of Others in a new case
    Amounts,       \* monetary values
    CandidateOf,   \* the monetary candidate extracted from each file, or None
    FactsValues,   \* bound: the facts a client may send and a case may hold
    MaxDocuments,  \* max_documents_per_case
    None

(* Facts, reduced to what the guards and the properties tell apart: the    *)
(* complaint, the direct loss with the upload its reference id points      *)
(* into, and all the other fields as one value.                            *)
Facts == [complaint : Complaints \cup {None}, others : Others,
          amount : Amounts \cup {None}, reference : Files \cup {None}]

NoFacts == [complaint |-> None, others |-> NoOthers, amount |-> None, reference |-> None]

ASSUME CaseAssumption ==
    /\ InScope \subseteq Complaints
    /\ Complete \subseteq Others
    /\ NoOthers \in Others \ Complete
    /\ CandidateOf \in [Files -> Amounts \cup {None}]
    /\ FactsValues \subseteq Facts
    /\ NoFacts \in FactsValues
    /\ MaxDocuments \in Nat \ {0}

VARIABLES
    facts, confirmed,   \* record.facts, record.facts_confirmed
    documents,          \* record.documents: the uploads, in order
    notice,             \* record.notice with where each part of it came from
    verdict,            \* record.scope_verification
    lock,               \* record.mutation_lock: its holder, then its waiters
    pc, kind,           \* each request's progress, and what it asks for
    upload,             \* an upload request's file
    draft               \* a generation's local variables

record == <<facts, confirmed, documents, notice, verdict>>
requests == <<lock, pc, kind, upload, draft>>
vars == <<record, requests>>

-----------------------------------------------------------------------------
Modes == {"case", "prompt"}
Critical == {"ingesting", "scanning", "scope", "indexing", "retrieving",
             "verifying", "composing"}
Stages == {"idle", "hashing", "queued"} \cup Critical
Generating == {"scope", "indexing", "retrieving", "verifying", "composing"}

Draft == [complaint : Complaints \cup {None}, documents : SUBSET Files,
          searched : Facts \cup {None}, selected : Facts \cup {None},
          settled : Facts \cup {None}]
Blank == [complaint |-> None, documents |-> {}, searched |-> None,
          selected |-> None, settled |-> None]

(* searched: the facts the retrieval queries were built from; selected: the *)
(* facts the ground policy and verifier judged; settled: the facts behind   *)
(* the citations, the settlement and the requests; rendered: the facts the  *)
(* final text and the addressee were taken from.                            *)
Notice == [mode : Modes, documents : SUBSET Files,
           searched : Facts, selected : Facts, settled : Facts, rendered : Facts]

Verdict == [complaint : Complaints, removed : BOOLEAN]

ASSUME NoneAssumption ==
    None \notin Tasks \cup Files \cup Complaints \cup Amounts \cup Notice \cup Verdict

-----------------------------------------------------------------------------
(* What the handlers ask of the record.                                     *)

Uploaded == {documents[i].file : i \in DOMAIN documents}

Accepted == {documents[i].file : i \in {j \in DOMAIN documents : documents[j].accepted}}

(* A direct loss tied to an upload equals the amount found in that upload.  *)
Backed(f, docs) ==
    f.reference # None => /\ f.reference \in docs
                          /\ f.amount # None
                          /\ f.amount = CandidateOf[f.reference]

(* The intake fills blanks and never overwrites; it extracts no amount and  *)
(* no name, which is required, so a message never completes the facts.      *)
Fills(f, g) ==
    /\ f.complaint # None => g.complaint = f.complaint
    /\ g.others \in Complete <=> f.others \in Complete
    /\ g.amount = f.amount
    /\ g.reference = f.reference

RemovedByVerifier(f) ==
    verdict # None /\ verdict.removed /\ verdict.complaint = f.complaint

(* Mutant: readiness without the confirmation.                              *)
ReadyUnconfirmed ==
    /\ facts.others \in Complete
    /\ facts.complaint \in InScope
    /\ ~RemovedByVerifier(facts)
    /\ Accepted # {}

(* _readiness_missing finds nothing missing.                                *)
Ready ==
    /\ facts.others \in Complete
    /\ facts.complaint \in InScope
    /\ ~RemovedByVerifier(facts)
    /\ Accepted # {}
    /\ confirmed

Written(mode, d, f) ==
    [mode |-> mode, documents |-> d.documents, searched |-> d.searched,
     selected |-> d.selected, settled |-> d.settled, rendered |-> f]

NoRequests ==
    /\ lock = <<>>
    /\ pc = [t \in Tasks |-> "idle"]
    /\ kind = [t \in Tasks |-> "upload"]
    /\ upload = [t \in Tasks |-> None]
    /\ draft = [t \in Tasks |-> Blank]

(* POST /cases.                                                             *)
OpenedByChat ==
    /\ facts = NoFacts
    /\ confirmed = FALSE
    /\ documents = <<>>
    /\ notice = None
    /\ verdict = None
    /\ NoRequests

(* POST /prompt-notices: one message, at most one accepted upload and one   *)
(* notice drawn from them, with no other request able to reach the case.    *)
OpenedByPrompt ==
    /\ \E g \in FactsValues :
          /\ Fills(NoFacts, g)
          /\ g.complaint \in InScope
          /\ facts = g
    /\ confirmed = FALSE
    /\ documents \in {<<>>} \cup {<<[file |-> f, accepted |-> TRUE]>> : f \in Files}
    /\ notice = Written("prompt",
                       [Blank EXCEPT !.documents = Accepted, !.searched = facts,
                                     !.selected = facts, !.settled = facts], facts)
    /\ verdict = [complaint |-> facts.complaint, removed |-> FALSE]
    /\ NoRequests

Init == OpenedByChat \/ OpenedByPrompt

-----------------------------------------------------------------------------
(* Edits: synchronous handlers that take no lock.                           *)

(* A chat message, other than the replay of an already answered one.        *)
AddMessage(g) ==
    /\ Fills(facts, g)
    /\ facts' = g
    /\ confirmed' = FALSE
    /\ notice' = None
    /\ UNCHANGED <<documents, verdict, requests>>

Sendable == {"amount", "reference"}

(* What the direct loss becomes when the fields in sent come from g: a      *)
(* field not sent keeps what the case has, but an amount sent without a     *)
(* reference clears the reference.                                          *)
Amount(g, sent) == IF "amount" \in sent THEN g.amount ELSE facts.amount

Reference(g, sent) ==
    IF "reference" \in sent THEN g.reference
    ELSE IF "amount" \in sent THEN None
    ELSE facts.reference

(* Mutant: the reference is checked against the amount on record.           *)
MatchesRecorded(reference, amount) ==
    reference # None =>
        reference \in Accepted /\ facts.amount # None /\ CandidateOf[reference] = facts.amount

(* Mutant: the reference may name an upload the scan refused.               *)
MatchesAnyUpload(reference, amount) ==
    reference # None =>
        reference \in Uploaded /\ amount # None /\ CandidateOf[reference] = amount

(* A reference, sent or kept, must name an accepted upload whose candidate  *)
(* is the amount, sent or kept.                                             *)
Matches(reference, amount) ==
    reference # None =>
        reference \in Accepted /\ amount # None /\ CandidateOf[reference] = amount

(* Mutant: a corrected fact does not withdraw the notice.                   *)
UpdateFactsKeepingNotice(g, sent, confirm) ==
    LET updated == [g EXCEPT !.amount = Amount(g, sent), !.reference = Reference(g, sent)]
    IN  /\ updated \in FactsValues
        /\ Matches(updated.reference, updated.amount)
        /\ facts' = updated
        /\ confirmed' = \/ confirm = "confirm"
                        \/ confirm = "unsent" /\ updated = facts /\ confirmed
        /\ UNCHANGED <<notice, documents, verdict, requests>>

(* PATCH /facts sends g's complaint and other fields, where a field not     *)
(* sent is the one the case has, and of the direct loss the fields in sent; *)
(* confirm says whether facts_confirmed was sent as true ("confirm"), as    *)
(* false ("withdraw") or not at all.                                        *)
UpdateFacts(g, sent, confirm) ==
    LET updated == [g EXCEPT !.amount = Amount(g, sent), !.reference = Reference(g, sent)]
    IN  /\ updated \in FactsValues
        /\ Matches(updated.reference, updated.amount)
        /\ facts' = updated
        /\ notice' = IF updated # facts THEN None ELSE notice
        /\ confirmed' = \/ confirm = "confirm"
                        \/ confirm = "unsent" /\ updated = facts /\ confirmed
        /\ UNCHANGED <<documents, verdict, requests>>

-----------------------------------------------------------------------------
(* The mutation lock: asyncio.Lock is first come, first served.             *)

Holds(t) == lock # <<>> /\ Head(lock) = t

Enqueue(t) == lock' = Append(lock, t)

(* Mutant: a request ends without releasing the lock.                       *)
FinishLocked(t) ==
    /\ pc' = [pc EXCEPT ![t] = "idle"]
    /\ upload' = [upload EXCEPT ![t] = None]
    /\ draft' = [draft EXCEPT ![t] = Blank]
    /\ UNCHANGED <<lock, kind>>

(* Leaving the critical section, by its end or by an exception.             *)
Finish(t) ==
    /\ pc' = [pc EXCEPT ![t] = "idle"]
    /\ lock' = Tail(lock)
    /\ upload' = [upload EXCEPT ![t] = None]
    /\ draft' = [draft EXCEPT ![t] = Blank]
    /\ UNCHANGED kind

Goto(t, stage, d) ==
    /\ pc' = [pc EXCEPT ![t] = stage]
    /\ draft' = [draft EXCEPT ![t] = d]
    /\ UNCHANGED <<lock, kind, upload>>

(* A step under the lock raises or is cancelled: ingestion, indexing,       *)
(* retrieval, a missing ground, a settlement that cannot be computed.  The  *)
(* scan, the verifiers and the composer do not let their errors through, so *)
(* there it is the cancellation.  Nothing is stored.                        *)
RequestFails(t) ==
    /\ pc[t] \in Critical
    /\ Finish(t)
    /\ UNCHANGED record

(* The file cannot be hashed: the request ends before it asks for the lock. *)
HashFails(t) ==
    /\ pc[t] = "hashing"
    /\ pc' = [pc EXCEPT ![t] = "idle"]
    /\ upload' = [upload EXCEPT ![t] = None]
    /\ UNCHANGED <<record, lock, kind, draft>>

-----------------------------------------------------------------------------
(* Uploads.                                                                 *)

(* POST /documents: the file is hashed in a thread before the lock.         *)
StartUpload(t, f) ==
    /\ pc[t] = "idle"
    /\ pc' = [pc EXCEPT ![t] = "hashing"]
    /\ kind' = [kind EXCEPT ![t] = "upload"]
    /\ upload' = [upload EXCEPT ![t] = f]
    /\ UNCHANGED <<record, lock, draft>>

Hashed(t) ==
    /\ pc[t] = "hashing"
    /\ Enqueue(t)
    /\ pc' = [pc EXCEPT ![t] = "queued"]
    /\ UNCHANGED <<record, kind, upload, draft>>

(* Mutant: off by one.                                                      *)
AdmissibleOneOver(f) == f \notin Uploaded /\ Len(documents) <= MaxDocuments

Admissible(f) == f \notin Uploaded /\ Len(documents) < MaxDocuments

(* Mutant: duplicates and the limit are checked before the lock is held.    *)
BeginUploadUnlocked(t) ==
    /\ pc[t] = "queued" /\ kind[t] = "upload"
    /\ IF Admissible(upload[t]) THEN Goto(t, "ingesting", draft[t]) ELSE Finish(t)
    /\ UNCHANGED record

(* With the lock: a duplicate or an upload over the limit ends at once.     *)
BeginUpload(t) ==
    /\ Holds(t) /\ pc[t] = "queued" /\ kind[t] = "upload"
    /\ IF Admissible(upload[t]) THEN Goto(t, "ingesting", draft[t]) ELSE Finish(t)
    /\ UNCHANGED record

Ingested(t) ==
    /\ pc[t] = "ingesting"
    /\ Goto(t, "scanning", draft[t])
    /\ UNCHANGED record

(* Mutant: a new upload leaves the notice standing.                         *)
ScannedKeepingNotice(t, safe) ==
    /\ pc[t] = "scanning"
    /\ documents' = Append(documents, [file |-> upload[t], accepted |-> safe])
    /\ confirmed' = FALSE
    /\ Finish(t)
    /\ UNCHANGED <<facts, notice, verdict>>

(* safe: the scan's action allows automated analysis; a scan that raises    *)
(* is assessed as unsafe.                                                   *)
Scanned(t, safe) ==
    /\ pc[t] = "scanning"
    /\ documents' = Append(documents, [file |-> upload[t], accepted |-> safe])
    /\ notice' = None
    /\ confirmed' = FALSE
    /\ Finish(t)
    /\ UNCHANGED <<facts, verdict>>

-----------------------------------------------------------------------------
(* Notice generation.                                                       *)

StartGeneration(t) ==
    /\ pc[t] = "idle"
    /\ Enqueue(t)
    /\ pc' = [pc EXCEPT ![t] = "queued"]
    /\ kind' = [kind EXCEPT ![t] = "notice"]
    /\ UNCHANGED <<record, upload, draft>>

(* Mutant: uploads the scan refused become evidence too.                    *)
IndexEverything(t) ==
    Goto(t, "indexing", [draft[t] EXCEPT !.documents = Uploaded])

(* The accepted uploads are combined into one evidence document, which is   *)
(* indexed unless the index already holds it.                               *)
IndexEvidence(t) ==
    Goto(t, "indexing", [draft[t] EXCEPT !.documents = Accepted])

AskVerifier(t) == Goto(t, "scope", [draft[t] EXCEPT !.complaint = facts.complaint])

(* Readiness, the rule-based scope gate and the stored verdict are checked  *)
(* in one step; the verifier is asked only about a complaint it has not     *)
(* judged.                                                                  *)
BeginGeneration(t) ==
    /\ Holds(t) /\ pc[t] = "queued" /\ kind[t] = "notice"
    /\ IF ~Ready THEN Finish(t)
       ELSE IF verdict = None \/ verdict.complaint # facts.complaint THEN AskVerifier(t)
       ELSE IndexEvidence(t)
    /\ UNCHANGED record

(* Mutant: a complaint the verifier removed is drafted anyway.              *)
ScopeIgnored(t, removed) ==
    /\ pc[t] = "scope"
    /\ verdict' = [complaint |-> draft[t].complaint, removed |-> removed]
    /\ IndexEvidence(t)
    /\ UNCHANGED <<facts, confirmed, documents, notice>>

(* The verdict is filed under the complaint the verifier was shown.         *)
ScopeChecked(t, removed) ==
    /\ pc[t] = "scope"
    /\ verdict' = [complaint |-> draft[t].complaint, removed |-> removed]
    /\ IF removed THEN Finish(t) ELSE IndexEvidence(t)
    /\ UNCHANGED <<facts, confirmed, documents, notice>>

EvidenceIndexed(t) ==
    /\ pc[t] = "indexing"
    /\ Goto(t, "retrieving", [draft[t] EXCEPT !.searched = facts])
    /\ UNCHANGED record

Retrieved(t) ==
    /\ pc[t] = "retrieving"
    /\ Goto(t, "verifying", [draft[t] EXCEPT !.selected = facts])
    /\ UNCHANGED record

(* At least one legal ground and one evidence citation were found; without  *)
(* either the notice is refused (RequestFails).                             *)
Grounded(t) ==
    /\ pc[t] = "verifying"
    /\ Goto(t, "composing", [draft[t] EXCEPT !.settled = facts])
    /\ UNCHANGED record

(* A failing composer is replaced by the deterministic one, so this step    *)
(* does not fail; the text is rendered from the facts of this moment.       *)
Composed(t) ==
    /\ pc[t] = "composing"
    /\ notice' = Written("case", draft[t], facts)
    /\ Finish(t)
    /\ UNCHANGED <<facts, confirmed, documents, verdict>>

-----------------------------------------------------------------------------
Edit ==
    \/ \E g \in FactsValues : AddMessage(g)
    \/ \E g \in FactsValues, sent \in SUBSET Sendable, confirm \in {"confirm", "withdraw", "unsent"} :
          UpdateFacts(g, sent, confirm)

Arrive(t) ==
    \/ \E f \in Files : StartUpload(t, f)
    \/ StartGeneration(t)

Advance(t) ==
    \/ Hashed(t) \/ BeginUpload(t) \/ Ingested(t)
    \/ \E safe \in BOOLEAN : Scanned(t, safe)
    \/ BeginGeneration(t)
    \/ \E removed \in BOOLEAN : ScopeChecked(t, removed)
    \/ EvidenceIndexed(t) \/ Retrieved(t) \/ Grounded(t) \/ Composed(t)
    \/ RequestFails(t) \/ HashFails(t)

Next == Edit \/ \E t \in Tasks : Arrive(t) \/ Advance(t)

(* A client that waits for its notice before it edits the case again.       *)
Quiet == \A t \in Tasks : pc[t] \notin Generating

SerialNext == (Quiet /\ Edit) \/ \E t \in Tasks : Arrive(t) \/ Advance(t)

(* Every awaited call returns or raises: each provider call has a timeout.  *)
Fairness == \A t \in Tasks : WF_vars(Advance(t))

Spec == Init /\ [][Next]_vars /\ Fairness

SerialSpec == Init /\ [][SerialNext]_vars /\ Fairness

-----------------------------------------------------------------------------
(* Properties.                                                              *)

TypeOK ==
    /\ facts \in FactsValues
    /\ confirmed \in BOOLEAN
    /\ documents \in Seq([file : Files, accepted : BOOLEAN])
    /\ notice \in Notice \cup {None}
    /\ verdict \in Verdict \cup {None}
    /\ lock \in Seq(Tasks)
    /\ pc \in [Tasks -> Stages]
    /\ kind \in [Tasks -> {"upload", "notice"}]
    /\ upload \in [Tasks -> Files \cup {None}]
    /\ draft \in [Tasks -> Draft]

(* Uploads and generations of one case exclude each other: whoever is past  *)
(* its first locked step is the lock's holder (service.py 254-269, 381-387). *)
InsideLock == \A t \in Tasks : pc[t] \in Critical => Holds(t)

(* Two uploads in flight never file one source twice, and never go over the *)
(* per-case limit, although both may be hashed before either is filed       *)
(* (service.py 257-269, 280-291).                                           *)
DocumentsWithinLimit ==
    /\ Len(documents) <= MaxDocuments
    /\ \A i, j \in DOMAIN documents : documents[i].file = documents[j].file => i = j

(* A stored notice was drawn from exactly the uploads the case now accepts: *)
(* no upload slips in while it is generated, and a later one withdraws it.  *)
NoticeDrawnFromAccepted == notice # None => notice.documents = Accepted

(* Whatever edits raced its generation, a stored notice is rendered from    *)
(* the facts the case now holds (service.py 461-468, 193-194, 243-247).     *)
RenderedFactsCurrent == notice # None => notice.rendered = facts

(* However partial edits, messages and uploads follow one another, a direct *)
(* loss that quotes an upload is the amount found in an accepted one, so    *)
(* _direct_loss_sources never finds it missing; and the settlement of a     *)
(* stored notice, computed from facts edited while it was generated, quotes *)
(* only uploads that notice was drawn from (service.py 228-247, 976-987).   *)
DirectLossBacked ==
    /\ Backed(facts, Accepted)
    /\ notice # None => Backed(notice.settled, notice.documents)

(* No change of the facts or of the uploads leaves a notice behind, and a   *)
(* new upload also takes back the confirmation (docs/architecture.md 47-48). *)
MaterialEditInvalidates ==
    [][/\ (facts' # facts \/ documents' # documents) => notice' = None
       /\ documents' # documents => ~confirmed']_vars

(* A request waiting for the lock gets it and ends, however the requests    *)
(* before it end.                                                           *)
RequestsEnd == \A t \in Tasks : pc[t] = "queued" ~> pc[t] = "idle"

(* Every part of a stored notice was made from the same facts, the facts    *)
(* the case holds.  It needs a client that does not edit during generation: *)
(* only generations and uploads take the lock (store.py 71-74).             *)
NoticeOfOneMoment ==
    notice # None =>
        {notice.searched, notice.selected, notice.settled, notice.rendered} = {facts}

(* A case notice is stored only while the consumer's confirmation of the    *)
(* facts stands (docs/adr/0012, item 7); again for a client that waits.     *)
CaseNoticeConfirmed ==
    [][notice' # notice /\ notice' # None => confirmed]_vars

(* A stored notice is about a complaint that passed both scope checks: the  *)
(* rules accept it, and the verdict on record is about it and keeps it;     *)
(* again for a client that waits.                                           *)
NoticeInScope ==
    notice # None =>
        /\ notice.rendered.complaint \in InScope
        /\ verdict = [complaint |-> notice.rendered.complaint, removed |-> FALSE]

(* A client that waits sees a generation as one instant.                    *)
Atomic == INSTANCE AtomicNotice WITH
    evidence <- Accepted,
    notice <- IF notice = None THEN None
              ELSE [mode |-> notice.mode, evidence |-> notice.documents,
                    facts |-> {notice.searched, notice.selected,
                               notice.settled, notice.rendered}]

ImplementsAtomicNotice == Atomic!Spec

(* What the lock is for: the requests that hold it exclude each other, and  *)
(* the uploads they file stay distinct and within the limit (_ingest_       *)
(* document, _materialize_prompt_consumer_notice).                          *)
UploadsSound == TypeOK /\ InsideLock /\ DocumentsWithinLimit
=============================================================================
