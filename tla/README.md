# Exit: specifications, model checking and proofs

Exit is a Portuguese-language assistant that helps a consumer write an
extrajudicial notice to a supplier. A consumer opens a *case*, tells what
happened, uploads evidence, confirms the facts and asks for the notice; the
service checks that the complaint is a consumer matter, searches an indexed legal
corpus and the consumer's own evidence, selects legal grounds, computes a
settlement and renders the text. The server is one asyncio process
(`app/api/main.py`), with cases in memory, vectors in a persistent store
(Chroma, PostgreSQL or memory) and the legal index built by a separate command
(`python -m app.consumer.preindex_legal`).

Paths below are relative to `src/app/` unless they start with `docs/` or `tests/`.

## 1. Inventory

| Part | State it keeps | Operations that change it | Who it meets |
|---|---|---|---|
| Case (`consumer/service.py`, `store.py`) | facts, confirmation, uploads, notice, scope verdict, transcript, idempotent replies | message, fact edit, upload, notice generation | requests on one event loop; a mutation lock that uploads and generations hold across every await, and edits never take |
| Case store (`consumer/store.py`) | the open cases, when each was last seen | create (which expires first), get (which touches), delete, expire | routes, sweeper task |
| Evidence vectors (`service.py`, `api/main.py`) | per record: active document, ids it owns; in the store: the vectors | index, reuse, replace, delete with the case, sweep, purge at startup | the vector store survives the process, the records do not |
| Query embedding guard (`rag/resilience.py`) | semaphore, background tasks, circuit, cache, expected dimension | embed: hit, wait, time out, answer, fail, be cancelled | every retrieval; the embedding model behind it |
| Embedding generations (`consumer/embedding_generation.py`, `vector_reuse.py`, `legal_index.py`) | a manifest and shard files per release, the document in the store | build, resume, reuse, validate, import, activate, adopt | kills between any two writes; manifests of earlier releases |
| Retrieval and grounds (`rag/pipeline.py`, `consumer/retrieval.py`, `ground_selection.py`, `legal_policy.py`) | none between requests | rank, fuse, fall back to one channel, corroborate, select, audit | the guard, the vector store, the ground verifier |
| Vector stores (`rag/vector_store.py`) | rows by document, lexical token cache, schema flag, connection pool | replace, delete, lexical query, migrate, close | threads that outlive the coroutine awaiting them |
| Request gate (`api/security.py`) | buckets of the rate limiter | allow, evict, count body bytes | FastAPI's thread pool |
| Screening, ingestion (`security/`, `ingestion/`) | none but the record of the upload | read, OCR, scan, review in batches, mask | the case's lock, an LLM as reviewer |
| Scope, verifiers, composer, settlement (`consumer/`) | a verdict per complaint | check, verify, compose, compute | LLM providers through `llm/retry.py` |
| Corpus, statutes, aliases (`consumer/legal_corpus.py`, `statutes/`, `alias_generation.py`, `update_statute_snapshot.py`) | a page and a manifest per law, the alias file | refresh, promote, load, generate, resume, prune, a person's edit | separate commands that share files and nothing else |
| API and page (`api/consumer_routes.py`, `frontend/consumer_view.py`, `api_client.py`) | the browser session's copy of case and notice | every request of a case; the prompt-notice route with its own cleanup | timeouts, lost and late answers, repeated messages |
| Evaluation, reporting, migration, configuration | outside the server, or constant | | |

`PROJECT.json` lists the same parts with their status.

**What is hard here.**

- *Interleaving on one event loop.* A notice generation awaits about ten
  provider or store calls and re-reads `record.facts` after most of them. Edits
  run between any two awaits.
- *Two lifetimes.* Records die with the process, on deletion and on idle expiry;
  their vectors do not, and every path on which a record goes has to find them.
- *Late answers.* A model call may answer after its caller has timed out or been
  cancelled, and a local model cannot be stopped at all.
- *Threads.* The rate limiter and the vector stores leave the event loop: the
  limiter without any lock, the stores with a cache, a schema flag and a pool
  that several threads look at before they lock.
- *Two copies.* The page keeps the case it last heard of, gives up on slow
  requests and goes on from there; the service applies those requests all the same.
- *Partial failure.* A batch of queries loses its embeddings, a reviewer gives out
  after some batches, an OCR run fails on one page: what is left must not pass for
  the whole.
- *Kills.* Building the legal index takes long enough that the operator
  interrupts and repeats it; what it resumes must be what it recorded.

**What makes each part correct.** A case's notice is drawn from the uploads it
accepts and from one version of the facts, confirmed and in scope, and is gone as
soon as the material changes. A live case always finds the vectors it remembers,
searches no outdated ones, and no vector outlives its case for ever. No slot of
the guard is lost or released twice, no caller waits for ever, the circuit opens
for standing failures only. An index that says *active* is what the store holds,
an interrupted build loses nothing it recorded, and vectors of unattested origin
never pass for embedded ones. A citation rests on agreement between independent
rankings and the reader is told what was missing. Text is analysed only if it was
screened to the end, and without what was flagged. A service serves statutes a
person has compared, and a person's work on aliases survives the generator. What
counts as confirmed was seen and ticked.

## 2. Modules

| Module | Models | Extended by |
|---|---|---|
| `AtomicNotice` | what a case promises: a notice is drawn in one instant | `ConsumerCase` instantiates it |
| `ConsumerCase` | one case and the requests on it | `MCConsumerCase`, `ConsumerCase_proofs` |
| `EvidenceVectors` | all cases of one process and their vectors | `MCEvidenceVectors`, `EvidenceVectors_proofs` |
| `QueryEmbeddingGuard` | the guard and the model behind it | `MCQueryEmbeddingGuard`, `QueryEmbeddingGuard_proofs` |
| `EmbeddingGeneration` | the legal index, release after release | `MCEmbeddingGeneration`, `EmbeddingGeneration_proofs` |
| `VectorStore` | the three stores under concurrent operations | `MCVectorStore`, `VectorStore_proofs` |
| `Ordered` | sequences drawn from sets by position: sorting, selecting, first occurrences (operators) | `EvidenceIntake`, `EvidenceCitations` |
| `EvidenceCitations` | which passages of the uploads are quoted (operators) | `NoticeGrounds` |
| `Settlement` | amounts, components and sources (operators) | `NoticeGrounds` |
| `NoticeGrounds` | one notice from ranking to audit | `MCNoticeGrounds`, `EvidenceVectors_proofs` |
| `EvidenceIntake` | one upload at a time from file to usable text | `MCEvidenceIntake`, `EvidenceVectors_proofs` |
| `LegalSources` | statute pages, aliases, and who changes and loads them | `MCLegalSources`, `LegalSources_proofs` |
| `ConsumerSession` | a case over HTTP, by page, program or prompt route | `MCConsumerSession`, `ConsumerSession_proofs` |
| `RateLimiter` | the rate limiter and the threads in it | `MCRateLimiter`, `RateLimiter_proofs` |

The modules meet at named points. `ConsumerCase` has the steps of a generation and
of an upload; `NoticeGrounds` opens its steps from retrieval to composition,
`EvidenceIntake` those between `Hashed` and `Scanned`, `EvidenceVectors` its
`EvidenceIndexed`, and each is entitled to look at one notice or one upload alone
because the mutation lock excludes a second (`UploadsSound`). `ConsumerSession`
takes each request of `ConsumerCase` as one step and keeps only what the two share:
an edit may be applied while a generation is at work. `LegalSources` ends where
`EmbeddingGeneration` begins: a release of the corpus.

Code between two awaits is atomic on the event loop and is one action. Some
actions appear twice, under a second name (`BeginUploadUnlocked`,
`ReuseStale`, `PendingAll`, ...): these are the same step with one guard, reset
or order changed. No next-state relation uses them; they are the program errors
against which each property is tried (`mutants` in `PROJECT.json`).

### ConsumerCase

Facts are reduced to what the guards tell apart: the complaint, the direct loss
with the upload its reference points into, and the rest as one value. `pc[t]`
says at which await a request stands, `draft[t]` what its locals hold, and each
part of a notice remembers the facts it was made from (`searched`, `selected`,
`settled`, `rendered`), which is what the mixing properties speak of.

| Action | Code |
|---|---|
| `AddMessage`, `UpdateFacts` | `add_message`, `update_facts`: no await, no lock |
| `StartUpload`, `Hashed`, `BeginUpload`, `Ingested`, `Scanned` | `add_document`, `_ingest_document` |
| `StartGeneration`, `BeginGeneration`, `ScopeChecked`, `EvidenceIndexed`, `Retrieved`, `Grounded`, `Composed` | `generate_notice`, `_generate_notice`, `_check_scope` |
| `RequestFails` | an exception or cancellation at any await under the lock, which leaves it to the next waiter |
| `HashFails` | the same before the lock, while the file is hashed |

An edit of the facts is partial, as in the code: `UpdateFacts` has the fields of the
direct loss that were sent, `Amount` and `Reference` are what the case then holds (an
amount alone clears the reference, a field not sent is kept), and `Matches` is the
check the handler makes of the merged pair. `DirectLossBacked` says what comes of it
over many edits, messages and uploads: a loss that quotes an upload is the amount of
one the case accepts, and the settlement of a stored notice, which is computed from
facts that may be edited meanwhile, quotes only uploads that notice was drawn from. A
request that waits for the lock does not fail: nothing in the code cancels one there.

`asyncio.Lock` is FIFO, so `lock` is a sequence with the holder at its head. A
case opened by `POST /prompt-notices` is private to that request until it has a
notice, so it enters the model as a case that already has one
(`OpenedByPrompt`); the case mode is followed from an empty case
(`OpenedByChat`).

`SerialSpec` is the same system with a client that does not edit its case while
one of its notices is being generated (`Quiet`). What holds only of it says so.

### EvidenceVectors

The id of an evidence document is the hash of its text, so a document *is* the
sequence of the accepted uploads' texts. A record that has left the store lives
on in the requests that hold it, so the functions are over every id ever used.

| Action | Code |
|---|---|
| `Create`, `CreateEvicting`, `TimePasses`, `Ask`, `Delete` | `ConsumerCaseStore.create`, the idle TTL, requests, `delete_case` |
| `Sweep`, `SweepRecord` | `purge_expired_cases`: pop all, then clean one by one |
| `CleanDocument`, `CleanEnds`, `CleanRaises` | `_delete_indexed_documents`, with Python's rule that a set changed in size ends the iteration with an error |
| `AcceptUpload`, `Refuse`, `Index`, `Reuse`, `Indexed`, `IndexRaises`, `Replaced`, `ReplaceRaises`, `Drafted` | uploads and `_ensure_evidence_indexed` |
| `Crash`, `Purge`, `Serve`, `ServeAtOnce` | process death, the startup hook of `api/main.py` |

`Circumstances` switches on what the surroundings may do: a client that deletes
a case with a request in flight (`delete_busy`), a request that outlasts the idle
TTL (`outlast`), a case created while an idle one waits for the sweeper
(`create_meets_idle`), a store that raises from a write it may have done
(`write_fails`) or from a delete it has not (`delete_fails`). The set is part of
the specification, not a filter on its properties: what holds only for some
circumstances is checked with exactly those.

Three of them strand vectors. `delete_busy` does, because a generation in flight
writes vectors of a case that is gone. With `create_meets_idle` TLC also violates `NoOrphans`:
`create` calls `expire_idle_cases` (`store.py:142`) and drops what it returns,
so nobody deletes those vectors before the next restart, although the
repository's README says that ending a case or its expiry removes them. With
`delete_fails` it does so too: `purge_expired_cases` has popped every expired
record before the first delete, and a raise at `service.py:682-683` loses the
others. Both are kept as circumstances of the passing run `vectors` and as
entries of `hazards`.

### QueryEmbeddingGuard

A slot is free, held by a running caller, or held by an abandoned task (which
either goes on, `background`, or was asked to stop, `cancelled`). `Local`
chooses the local client, whose calls queue for one lock (`embeddings.py`,
`_encode_lock`) and compute in a thread that survives the cancellation of its
task (`strays`), or a remote one. Time is what it decides: an entry expires, the
circuit's reset period passes, a wait times out.

### EmbeddingGeneration

A vector is abstracted to the embedding space it lies in, a shard file to the
vectors by text, a checksum to the content it was taken from. `run` holds the
locals of the indexing process, and `run.manifest` the manifest object it
mutates before each `Save`. `Deploy` moves to the next release. `Damage` loses or
truncates a file, `Kill` ends the process at any await or between two writes,
and `ImportBreaksOff` ends it inside the import. `Retry` is an operator who
repeats the command, with `--no-reuse` once the canary has failed, as the error
message advises.

### VectorStore

A chunk's id is its position, so a document is a function from positions to the
revision they hold: this process writes `"new"`, an earlier one left `"old"`. The
in-memory store works on the loop and is one step a call. Chroma's `_replace` is
four (read the ids, upsert, delete the stale, return), PostgreSQL's is the double
look at schema and pool, then one transaction (`Transact`). The awaiting coroutine may be cancelled (`Cancel`)
while its thread goes on, and any call may raise (`ThreadRaises`). `TakePool` and
`ClosePool` are the two steps of `close`.

`disturbed` records which documents' last write raised or was cut off before its
`forget`: `CacheFaithful` excepts them, because the code does too. A cancelled
write that commits afterwards leaves the old tokens in the cache until the
document is written again. A thread that looks for the pool after `close` has
taken it opens another, which nothing closes before the process ends, because close
is called at shutdown only. `EveryPoolOwned` does not speak against that: it says that
no race loses a pool, so that each open one is the current pool or the one being
closed.

### NoticeGrounds

Chunks are numbered in the order of their ids; a channel's list is any of the
configured rankings, and what is given (`Given`) is a list of corpora, each with one
consumer's file. A fused score is each channel's configured weight times its share;
shares are integers because `Unit` is a common multiple of the denominators, which the
module's assumption says of it (60 in the run, for 3, 4 and 5). `TiersByScore` says of
weights, depth and constant that two worst ranks outweigh one best: then the scores
put what both channels returned first, and without a reranker only then.

`RankLaws`, `Corroborate` and `NothingToCorroborate` are the two batches of `consumer/retrieval.py`, `RetrieveEvidence` the consumer's own uploads
and the selection, `Verify` and `VerifierFails` the optional verifier.
`ComposeFixed`, `ComposeProse` and `ComposerFails` are the composers of
`composer.py`. The prose of a model is a text, and whether `_validate_prose` lets it by
is left to chance; a late, broken or rejected answer leaves the fixed prose and a
warning. `Draft` renders the letter with its warnings and its audit.
`Disambiguated` is the rule of article 42: with collection harassment and no
payment, the caput is cited where the sole paragraph was found, also if the caput
had no support of its own, and also if it is not in force: `_fallback_art_42_caput`
does not ask for a unit's status, so `CitedOnAgreement` excepts the caput (the third
corpus of the instance has one that cannot be cited otherwise). Distances and the reranker's scores are data: what they
decide is any value.

`EvidenceCitations` reads a text as words of one width, each with its space, so that
`QUOTE_MAX_CHARS` is a number of words and the quarter and the half of it are
exact. A token is a sequence of pieces, because an identifier matches across the
punctuation that splits it (`_contains_compact_identifier`). Two differences of the
code are kept: the rules of support read identifiers out of the whole account while
the window of the quote weighs only the listed protocols, and any of `.!?;` starts
a sentence while only `.` and `;` end a quote. So a chunk may support the facts and
its quote may not; the service asks again of the quote itself (`SupportsAsQuoted`), and such a
chunk is not cited (`File1` of the instance has one, the mutant that asks the chunk
instead cites it). The tokens that weigh twice, those of three characters or more in the
protocols, the period and the amounts, are given (`anchored`). That the merged chunks passed the support gate is taken from the
legal queries, whose gate is the same function: any of the configured orders.

`Settlement` counts in tenths of a cent, because the facts' amounts are decimals of
any length and `_money` rounds them. The facts may name a payment and no loss (their
validator compares only what is present); the settlement refuses that after the
retrieval and the verifier have run, and `RefuseAmounts` is that refusal.

### EvidenceIntake

A page is a sequence of pieces, a piece has the strongest rule that matches it,
what it hides and whether it cues the reviewer. `Offer` and `TurnAway` are the
reception, `Recognize` one page of OCR, `Screen` the rules and the choice of
passages, `Answered`, `Retry` and `ReviewFails` the reviewer, `Record` what the
case keeps. Quotes of equal length are masked in any order, because the code sorts
a set. Only whole quotes are claimed to be masked: two quotes that overlap leave a
fragment of the shorter one, in the code as in the model. A quote that contains the
mask itself, which only a file that spells it out can bring about, stays as it is:
`SafeTextClean` excepts it.

### LegalSources

A page is a sequence of paragraphs with their form; `Units` is the parser. A
refresh is two writes (`WriteSnapshot`, `WriteManifest`) with a death between them
(`RefreshDies`). A load reads each law's manifest and page, the alias file, and
checks provenance at the end (`ReadManifest`, `ReadPage`, `ReadAliases`, `Build`);
reading the alias file and the provenance check are one step each. The generator
is `BeginRun`, `Ask`, `Answer`, `AnswerNothing`, `EndRun`, `RunStops`; a person
settles or removes entries between two runs (`Settle`). A service loads between
two runs only: it opens the alias file once, and what it finds during a run is
what a stopped run leaves. Time stamps and the corpus hash are left out, as are
long chains of lead-ins that lose their outermost words, and the incisos a quoted
amendment has of its own. An article is left out of what may be cited where its caput
instructs to amend another law (`amends`), whatever hangs from it, and where it holds
nothing but quoted amendments.

### ConsumerSession

One case and one of three clients. The page renders from the top after every
answer (`Render`), sends one request at a time and may stop waiting (`TimeOut`);
the request is applied all the same. The program repeats messages whose reply it
lost. The prompt-notice route creates, fills and deletes its case, and each of
these may fail. `ticked` and `applied` are history: the facts that were sent with
the box ticked, and the message ids in the order of their application.

### RateLimiter

Every look and every change of a bucket or of the map is a step, since nothing
locks them: `Look`, `Scan`, `DeleteStale`, `Sort`, `Evict` are the eviction,
`Take`, `SeesExpired`, `Pop`, `Counted`, `Deny`, `Admit` the admission. A deque is
an object with a number, so that a thread may hold one that was evicted. A
dictionary that changed under an iteration, a pop from an empty deque and a key
that is gone raise (`EvictionRaises`, `PopRaises`).

## 3. Runs

Every run is exhaustive within its bounds and passes. `TLC` checks deadlock in
`case`, `case_serial` and `guard`. The other modules may stop: when all ids,
restarts or requests are used up, when the last release is ready and no trouble is
left, when the notice is made, when the store is shut down.

| Run | Question | States |
|---|---|---|
| `case` | What does the mutation lock protect, whatever is edited meanwhile? | 666,804 |
| `case_serial` | Is a generation atomic for a client that waits, does every request end? | 123,400 |
| `vectors` | Does a live case keep and search its own index under every circumstance? | 1.3 million |
| `vectors_clean` | Is nothing stranded when the surroundings are calm, and is what a gone case owned removed at last? | 19,863 |
| `guard` | Slots, queue, circuit, cache and background tasks under late answers and cancellations; does every caller return? | 239,944 |
| `generation` | Is an active index what it says, is work kept, reuse probed, the index ready in the end? | 195,528 |
| `store` | Do racing writes, searches, migrations and a close leave whole documents, a truthful cache, no lost pool, and no call without end? | 1.2 million |
| `limiter` | What do the quota, the cap and the order of eviction still promise when threads meet? | 1.6 million |
| `session` | Is what counts as confirmed what was ticked, and does the page show what the service holds, across lost, late and repeated requests? | 1.7 million |
| `intake` | Is only text used that was read, screened to the end and masked, however OCR and reviewer fail? | 18,094 |
| `sources` | Is what is served pinned, promoted and quotable, and does the generator lose or repeat nothing? | 383,977 |
| `grounds` | Does every citation rest on agreement, in its place, once, does each quote stand alone, is the offer accounted for, and is the reader told what was missing? | 3 million |

What they check. A property that is a conjunction has one mutant for each part
that speaks of behaviour:

- **Case.** `UploadsSound`: types, `InsideLock`, `DocumentsWithinLimit` (two
  uploads hashed together neither duplicate a source nor pass the limit).
  `NoticeDrawnFromAccepted`, `RenderedFactsCurrent`, `DirectLossBacked`; for a
  client that waits `NoticeInScope`, `CaseNoticeConfirmed`, the refinement
  `ImplementsAtomicNotice` and `RequestsEnd`.
- **Vectors.** `EvidencePresent`, `SearchesCurrentEvidence`, `EvictsOnlyIdle`;
  in calm surroundings `NoOrphans` and `Forgotten`.
- **Guard.** `SlotsConserved`, `CircuitJustified`, `CallersEnd`; `GuardSound`:
  types, `QueueExact`, `BackgroundBounded`; `CacheSound`: `OneDimension`,
  `CacheBounded`.
- **Generations.** `ActiveIsStored`, `EmbeddedHoldsNoForeign`,
  `ResumeKeepsWork`, `ReuseIsProbed`, `EventuallyReady`.
- **Stores.** `StoreSound`: types, `WholeDocuments`, `EveryPoolOwned`;
  `CacheFaithful` (text a write removed does not outlive it in the token cache);
  `CallsEnd`.
- **Limiter.** `LimitSound`: types; `WindowRespected` (exact with one thread; with
  several, the excess is at most one for each further thread and one for each live
  time a race popped); `TrackedBounded` and `RefusalEarned`, for one thread.
  `ThrottledKept`, for one thread.
- **Session.** `ConfirmationSound`: types, `ConfirmedWasSeen`,
  `NoticeFromConfirmed`; `PageInStep`, `NoEarlyRepeat`, `NothingKept`.
- **Intake.** `UsableSound`: types, `UsableOnlyScreened`, `SafeTextClean`,
  `CallsBounded`; `ReviewerOnlyAdds`, `EveryPageHeard`.
- **Sources.** `ServedSound`: types, `ServedPinned`, `ServedQuotable`;
  `RunsSound`: `CleanRunLoads`, `NothingAskedAgain`; `PersonsWorkKept`.
- **Grounds.** `CitationsSound`: types, `CitedOnAgreement`, `ComplementaryHeld`,
  `CitedOnce`, `AgreedFirst`, `QuotesStandAlone`; `ReaderInformed`: `ReaderTold`,
  `AuditNamesCitations`, `OfferAccountedFor`.

### Where the code and its documentation part

What was met while modelling. None of it has a run; where a property has an
exception, the exception is named.

1. The mutation lock is said to keep a record from mixing two generations'
   material (`store.py:71-73`), but `add_message` and `update_facts` do not take
   it. A notice may cite grounds that were searched for one complaint under the
   text of another: `NoticeOfOneMoment` is false of `Spec`, and proved of
   `SerialSpec`, the client that waits.
2. The same edit takes the confirmation back, and the generation stores its notice
   all the same (`service.py:510`; ADR 0012, item 7). `CaseNoticeConfirmed` needs
   `SerialSpec`, too. `RenderedFactsCurrent` holds even then, because rendering
   and storing happen without an await in between.
3. `docs/architecture.md:84` promises that deleting a case removes its vectors; a
   generation in flight writes them afterwards (`NoOrphans` excludes `delete_busy`).
4. Content-hashed document ids make two cases with the same evidence text owners of
   one document, and deleting one empties the other: `EvidencePresent` is checked
   and proved for cases with texts of their own (`PrivateTexts`).
5. An excess background task is cancelled and its slot freed while its thread
   computes, which the comment at `resilience.py:135-138` rules out. The default
   has one slot; `ModelIsBounded` proves the bound for every setting with no more
   slots than background tasks.
6. A build over an adopted manifest with a damaged shard saves reused vectors under
   a provenance that forbids them, and the next load fails; `EventuallyReady`
   excepts a manifest that cannot be parsed.
7. A run that reuses shards and is killed, a second that fails its canary and a
   third with `--no-reuse` end with an active generation that keeps the first run's
   reused shards beside a canary that says it failed. `ReuseIsProbed` holds of
   every shard at the moment it is written; ADR 0017 speaks of the generation.
8. A client at its limit is not the only one a race can favour: two threads that
   each hold a known key while the other evicts it take the rate limiter's map
   beyond `max_tracked_keys` by more than one each (`TrackedBounded` speaks of one
   thread).
9. The module comment of `update_statute_snapshot.py` (lines 4-5) says the pair is
   replaced atomically; it is two replacements. A death between them leaves a page
   whose hash its manifest denies: every load refuses it (`ServedPinned`), and a
   plain refresh, which compares parsed text with the page, does not heal it.
10. A person's edit of the alias file made *during* a generator run is overwritten
    by the run's next save; `Settle` happens between runs, and `PersonsWorkKept`
    says what holds then.
11. A file whose screening broke or whose reviewer gave out is kept as blocked, and
    its second upload is refused as a duplicate: it can only be offered again in a
    new case.
12. `_run_searches` says that a chunk both channels returned stays ahead of a chunk of
    one, "exactly as reciprocal-rank fusion already ranks them"
    (`rag/pipeline.py:624-628`). The fusion does so only for weights close enough to
    each other: with 3 for the dense channel, 1 for the lexical, the constant 60 and
    no reranker, a dense first rank (3/61) precedes a chunk both channels have at rank
    32 (4/92). `AgreedFirst` is stated with a reranker or under `TiersByScore`; without
    that condition it is false of the run.
13. `_validate_prose` is said to catch any number a model invents
    (`composer.py:210-213`). It compares runs of digits with those of the whole packet,
    where an amount of 1.500,00 also admits 500, and where dates, protocols, file
    names and the summaries of laws count as well.
14. On the page: a case that has expired leaves no way to start another in the same
    session; refreshing does not fetch a newer notice where the session has an
    older one; and confirming an amount does not drop the shown notice. `PageInStep`
    speaks of the case the page shows, and not of its copy of the notice. The page
    never repeats a message under its first id, so idempotent replies serve programs
    only.

### Bounds and symmetry

- *Case*: two requests, three uploads of which the limit admits two, one monetary
  candidate and two amounts. Which facts a case may hold differs by run: in `case`
  (`LossValues`) they vary the direct loss, among them an amount the upload does not
  state, so that each check of a partial edit decides something; in `case_serial`
  (`JourneyValues`) they vary what the notice is about, with a complaint out of scope.
  Two requests are enough for a holder and a waiter of each kind; every property is
  about one holder and one other actor. The third upload meets the limit. The
  permutation of the requests is a symmetry used in `case` only, which checks no
  liveness.
- *Vectors*: two cases, two texts, two uploads per case, two requests of a case
  in flight, one restart. A capacity of one makes the second case wait for
  eviction; a capacity of two lets both live. A record's documents are then at
  most two, so that a cleanup has a second document to lose. `Exchange` swaps the
  two cases together with their texts; `vectors_clean`, which checks liveness,
  uses no symmetry. Message ids in `session` and threads and keys in `limiter` are
  symmetric; neither checks liveness.
- *Guard*: three callers over two slots and one background task, two queries,
  two dimensions, a cache of two, a threshold of two: a third caller waits, an
  abandoned task meets the limit, the cache is full, one failure is not enough to
  open the circuit. `MaxStrays` bounds the threads left behind.
- *Stores*: two calls on two documents, one growing with its new revision and one
  shrinking, three pools of which the code opens two. Two calls are the least for a
  race of a search or a second write with a write, and for a lock with a waiter.
- *Limiter*: one or two threads, three clients over a cap of two, a limit and a
  window of two, five requests: enough for a full bucket, an eviction with a choice
  of victims and an expiry in the middle of each. With one client more, two threads
  reach four buckets (item 8 above).
- *Session*: five requests, two texts, three message ids of which two are kept. A
  request given up, its late answer, the edit after it and the notice after that
  fit; three ids are the least for one to be forgotten.
- *Intake*: three uploads of seven files, two documents a case; the files are one of
  each kind that the code treats apart (two pages that compete for the review, an
  instruction across a page end, scans that fail, a file over each strict budget).
  A review has at most three passages in batches of four pieces.
- *Sources*: one law with five pages (an addition, a defense, an amendment, a
  truncated page; on the fourth an article's caput instructs to amend another
  law), one refresh, two runs, one person's edit, three in all;
  the alias file begins with an entry of each kind.
- *Grounds*: four corpora of three chunks (an alias beside its unit, the two
  readings of article 42 with the caput in force or not, complementary laws alone), two
  dense and three lexical rankings for each of four queries; agreement asks for the
  first two ranks, two grounds fit a notice, of which one complementary. The channels
  weigh 1 and 1, where the scores alone keep what agreed first, or 4 and 1, where they
  do not. Three consumers' files make five pairs with the corpora: a long page whose
  identifier is far from the words that weigh, a chunk of two pages beside one that
  names its words in another order, and a payment without a loss. A quote has four
  words, the least for which a quarter and a half differ.
- *Generations*: a release of one shard and its successor, which changes a text
  and splits the shards anew, so that reuse crosses shard borders; two spaces, one
  trouble (kill, error or damaged file) at any point. Two releases are the least
  for reuse; a chain of three is covered by the proof.

### Fairness

- `ConsumerCase`: weak fairness of each request's next step. Every awaited
  provider call has a timeout and so returns or raises, and `asyncio.Lock` wakes
  its first waiter. Clients owe nothing.
- `EvidenceVectors`: weak fairness of requests, of each cleaning loop and of the
  sweeper, which `main.py` runs for ever; of the restart after a crash and of its
  startup purge.
- `QueryEmbeddingGuard`: weak fairness of a caller's timeouts (`GiveUp`), and of
  nothing the model does: it may hang for ever.
- `EmbeddingGeneration`: weak fairness of the process's own next step and strong
  fairness of `Retry`, the operator's repeated command. Strong, because each
  failing run disables it for a while. `EventuallyReady` excepts a manifest that
  cannot be parsed, which is item 6 above and needs `--force`.
- `VectorStore`: weak fairness of a thread's next step, of the coroutine it resumes,
  of the embedding's answer and of a `close` once begun. `CallsEnd` excepts
  migrations that fail for ever one after the other.
- `RateLimiter`, `ConsumerSession`, `EvidenceIntake`, `LegalSources` and
  `NoticeGrounds` claim safety only and assume no fairness.

## 4. Proofs

All theorems are for every value of the constants that satisfies the module's
assumption. `tlapm` checks them to the last leaf. Every invariant and every action
property that a run checks is also stated by a theorem; what is left to the runs alone
is liveness.

Each module `M_proofs` has the theorems of `M`. `EvidenceVectors_proofs` also has those of
`EvidenceIntake`, `NoticeGrounds`, `EvidenceCitations` and `Settlement`, which need the
same lemmas: what `InOrder`, `Listed`, `Those`, `Unrepeated` and `FirstK` return, that
the least and the greatest of a finite set exist, and that what a recursive function
computes can be followed step by step (`Least`, `Along`, `Recursion`). All follow one pattern: a state
predicate (`IInv`, or named after its subject) holds at first, every action keeps
it, and the property follows from it; for an action property, each step from a
state where it holds.

**ConsumerCase** (`TypeCorrect`, `UploadsAreSound`,
`CaseSafe`, `LossIsBacked`, `RenderingIsCurrent`). The
invariants the run checks are not inductive alone: that a stored notice matches
the accepted uploads follows from what the generation that stores it has in hand.
`IInv` adds `DraftsInStep` (past the scope check a draft holds exactly the uploads
now accepted, each later field is filled, and once settled its loss is the amount of
one of those uploads) and `UploadsInStep` (an upload past
its check is still admissible, because only the holder of the lock adds uploads).
`EditsInvalidate` is the action property.

**ConsumerCase, a client that waits** (the same module:
`SerialSafe`, `SerialConfirmed`, `SerialAtomic`). `SInv` adds `DraftsCurrent`:
whatever a generation has read is what the case still holds. It is false without
`Quiet` (item 1 above). From it each step maps to a step of
`AtomicNotice` or a stutter: the last step of a generation is `DrawNotice`, an
edit or an accepted upload is `Change` or `Review`, everything else stutters.

**EvidenceVectors** (`TypeCorrect`, `EvidenceStays`, `SearchesAreCurrent`,
`NothingStranded`). `IInv` says that a record's documents are made of its own
texts (`OwnDocuments`), what the lock's holder has in hand (`HolderInStep`), and
that only records that have left the store are being cleaned (`GoneRecords`).
`EvidenceStays` and `SearchesAreCurrent` assume `PrivateTexts`, that no two cases
upload the same text, which is needed (item 4 above). `NothingStranded`
assumes `Calm`: private texts, the startup purge, and no circumstance. It adds that a record that has left
the store is no longer written (`AtRest`) and that a loop has removed what it has
visited (`LoopSound`). `IdleIsEvicted` counts: a record is admitted only where
`HasRoom` left a place, and what `HasRoom` removes is idle.

**QueryEmbeddingGuard** (`SlotsAreConserved`, `CircuitIsJustified`,
`ModelIsBounded`, `GuardIsSound`, `CacheIsSound`). `IInv` pairs the counting invariant with `QueueSound`; each
step moves one caller in or out of `Running` and one unit between the terms of
the sum (`CountUp`, `CountDown`). `ModelIsBounded` needs
`MaxConcurrency <= MaxBackground`, under which no task is ever cancelled. The cache is
filled by a recursive function over a batch; that it stays within its size and its one
dimension at each step is proved by the least step at which it would not (`Least`,
`Along`), which needs no induction theorem.

**EmbeddingGeneration** (`TypeCorrect`, `ActiveMatchesStore`,
`EmbeddedIsEmbedded`, `WorkIsKept`, `ReuseAfterCanary`). `RunInv` says that a run that imports has written every
shard (`Covers`), that a build only has vectors of the model or of embedded
generations in hand (`Material`), and that no manifest says active from the first
save of a run to its last (`Unmarked`). `InHand` says what a run knows that the disk
does not show: its manifest is the one it saved, a shard it still has to build does not
verify, and its canary came before the first vector it reuses. The two action
properties follow from it.

**VectorStore** (`StoreIsSound`, `CacheIsFaithful`). That a document is whole is not inductive: what
Chroma's second write leaves depends on the ids its thread read before the first.
`IInv` says that these ids are exactly those of the old revision beyond the new one,
or that nothing old was left when they were read (`InHand`), that no write of this
process takes a settled document back, and that a mixture belongs to a thread at work
or to a failure that is noted (`Accounted`). It holds for any number of threads on one
document because all of them write the same revision. `PoolsOwned` needs that the
name for "no pool" is not a pool. For the token cache, `TokensSound`: what a search that no
write has outdated brings back still lies in the store, or a write has come between
that will forget the document.

**ConsumerSession** (`ConfirmationIsSound`, `PageStaysInStep`, `PromptKeepsNothing`,
`NoRepeatIsEarly`). What the page holds says little by itself: a late answer, a
request given up and the edit after it may all be under way. `IInv` follows a fact
from the page over the wire to the record: what the page shows (`PageSound`), what a
request or an answer in flight carries (`WireSound`), what the case keeps
(`RecordSound`), that a page which missed nothing has, or is about to be given, the
case as the service holds it (`StepSound`), and which message ids are remembered
(`WindowSound`).

**RateLimiter** (`LimiterIsSound`, `ThrottledStays`). `Backed`: at any later time, the
admissions of a key that are still in the window are in its bucket or were lost to a
race. `CountsBounded`: a bucket, with the appends under way to it, exceeds the limit by
less than one for each thread. `Alone` is what one thread has when nothing moves under
it: what its locals say of the map, of the bucket it holds and of the refusal it gives.
The cap and the order of eviction follow from it.

**LegalSources** (`ServingIsSound`, `RunsAreSound`, `PersonsWorkStays`). The pages in
every place (pinned, refreshed, half loaded, loaded, served) are complete ones
(`Pinning`, `Loading`, `Serving`). From that alone units have keys of their own
(`KeysApart`: articles are numbered apart, a repeated label is counted), and the
words of a unit and of all it hangs from are in its source (`SourceIs`). A run carries
persons' entries and only those of its own it may ask about (`Carried`), asks only for
what is missing or outdated (`Needed`), and what it has passed is up to date
(`Progress`); every answer is with its entry, or a person's replaced it
(`Remembered`). So `CleanIsAccepted`: what a clean run leaves is what the loader takes.

**EvidenceIntake** (in `EvidenceVectors_proofs`: `IntakeInductive`, `UsableIsSound`,
`ReviewerAdds`, `PagesAreHeard`). What the run checks speaks mostly of evidence that is
kept, and follows from what the upload had in hand one step earlier. `IntakeIInv` says
for each phase what that is: a file under way is one the case may take (`UnderWay`), an
upload in OCR has made no call to a reviewer, a review has the batches its file and mode
call for, has heard every finding of the rules and nothing critical of the reviewer's own
(`HeardOf`), and has made at most `MaxAttempts` calls for each batch before the present
one. The rest is about what the code computes from a file:

- every word of a page lies in a window, every window in a batch (`ReviewedIs`), so a
  strict review that ended has seen everything;
- `Masked` leaves no occurrence of a quote that does not hold the mask, and a later
  mask brings none back, so the text is clean whatever the order among equals
  (`SafeTextClean`), and so is every reference drawn from it;
- `Deduplicated` keeps of each passage and category one that is as strong;
- in the bounded review the pages take turns: a passage that was left out comes after,
  in turns, every one that was taken. Where a page repeats a passage, it is the first
  occurrence that has the turn. `EveryPageHeard` says so: an earlier form of it, about
  every occurrence, is false.

**NoticeGrounds** (in `EvidenceVectors_proofs`: `NoticeInductive`, `CitationsAreSound`,
`ReaderIsInformed`). `NoticeIInv` says of the traces which query each answers, that no
chunk is twice in one list and that those both channels returned come first
(`TracesOK`); of the grounds what a notice may list (`Listable`) and that the Civil Code
stands beside the CDC (`AnchorHeld`); of the exhibits that they are the citations of some
ranking; that a warning is due exactly where something was lost; and that a notice that
was made is what `Draft` writes (`Written`). What carries it:

- *Agreement first.* With a reranker `WithinTiers` restores the order of the tiers.
  Without one nothing sorts them; the scores do, where `TiersByScore` holds: a chunk of
  both channels has at least their two worst shares, one of a single channel at most its
  best (`SharesAre`, `ScoresAre`, `TwoExceedOne`). `Unit` is a common multiple of the
  denominators, so the shares are exact. Of the weights and the constant nothing else
  is assumed than that they are positive.
- *Places.* The greatest admitted position of a complementary law has fewer than
  `MaxComplementary` such laws before it, so all the admitted are at most that many.
  `Listable` and the provisions being apart survive any removal, so the floor, the
  anchor and the verifier need only `Anchored` to be applied last.
- *Support.* A candidate is of a provision one of whose chunks in force was supported,
  `Disambiguated` included.
- *Audit.* Of the places of a chunk with the best score, the first trace has one only,
  because a list has a chunk once: exactly one place wins.
- *Quotes.* The heaviest window exists, it begins at a word of the chunk, and stepping
  back to the sentence and cutting at a full stop leave a contiguous run. What
  `Supports` accepts names an identifier or shares two terms with the account; the
  service asks it of the quote.

**Settlement and the offer** (in `EvidenceVectors_proofs`: `OfferBounded`,
`ComponentsBacked`, used by `ReaderIsInformed`). No state: the premise `Sound` is what
the two validators let by, and `MoneyOrdered`, that rounding keeps the order of amounts,
carries both. The sum over the components is a fold over a set of at most two.

**Only model-checked.** Liveness (`RequestsEnd`, `Forgotten`, `CallersEnd`,
`EventuallyReady`, `CallsEnd`) under fairness, which is out of the prover's reach. Operators
that take an operator are, too: where a definition could be a set, a recursive function
or a count instead, it is, and what it computes is proved by the least counterexample. What
regular expressions find and what a channel or a reranker returns is data: the theorems
hold for whatever it is.

## 5. Not modelled

- The text of statutes, PDFs and OCR results, the regular expressions of the scope
  rules and of the injection scan, chunking by size, vector arithmetic and
  reranker scores, the wording of the notice, wire formats of the providers: they
  are functions of text or files. Where the code branches on their outcome, the
  model takes any outcome.
- The layout of the letter (`notice_markdown.py`) and its escapes. That it shows the
  offer and never the reservation holds by its parameters: it is not given the
  second.
- Evaluation and the security benchmark (`evaluation/`), report conversion and the
  migration of the legal index to PostgreSQL: sequential commands that change
  nothing the service keeps, the last one a copy of one document.
- The body limit and the API key (`api/security.py`): one request's bytes, and a
  comparison of texts. Case tokens are left out for the same reason: the model's
  clients are those that hold one.
- Layout and wording of the page, and its other views.
- Several processes on one vector store namespace: the code says that its startup
  purge must then be disabled (`service.py:698-702`).
- The service's cached readiness of the legal index (`service.py:719-741`) beside a
  rebuild by another process: `EmbeddingGeneration` has the index, `ConsumerCase`
  takes retrieval as an answer or a failure.

## 6. Plan

Done: the case and its session, its uploads, vectors and grounds, the guard and the
stores, the limiter, the corpus and its generations. What would add most:

1. `ReadinessCache`: the service's cached readiness beside a `--force` rebuild, as
   a composition with `EmbeddingGeneration` reduced to *active* or not.
2. An abstract limiter (at most the limit per window) and the interleavings of
   `RateLimiter` that refine it, in place of the bound on the excess.
3. The support gate of the evidence queries over their own rankings, and the merge
   of verifier answers where a ground is named twice.
4. Proofs: `EvidenceVectors` without the assumption `Calm`, one circumstance at a time;
   that a run of `EvidenceIntake` is what `Scanned` of `ConsumerCase` takes it for, as a
   refinement.
