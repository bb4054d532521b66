---------------------------- MODULE VectorStore ----------------------------
(***************************************************************************)
(* The vector stores of app/rag/vector_store.py behind app/rag/pipeline.py: *)
(* replacing, deleting and searching documents from several coroutines of  *)
(* one event loop.  The in-memory store works on the loop; Chroma and      *)
(* PostgreSQL work in threads, which go on when the coroutine that awaits  *)
(* them is cancelled.  Chroma replaces a document in two steps; PostgreSQL *)
(* in one transaction, once the schema is there and a pool is open.  The   *)
(* first two keep the lexical tokens of the chunks they searched.          *)
(*                                                                         *)
(* A chunk's id is its position in its document, so the chunks of a new    *)
(* revision overwrite those of the old one.  A process only ever writes    *)
(* the revision its own chunker makes; the other one is an earlier         *)
(* process's.                                                              *)
(***************************************************************************)
EXTENDS Integers, FiniteSets

CONSTANTS
    Calls,      \* coroutines that use the store
    Docs,
    Backends,   \* which of "memory", "chroma", "postgres"
    Size,       \* of each document, the chunks of its revisions "old" and "new"
    MaxPools,   \* bound: connection pools opened (the code opens two)
    None

ASSUME StoreAssumption ==
    /\ Backends \subseteq {"memory", "chroma", "postgres"}
    /\ Size \in [Docs -> [{"old", "new"} -> Nat \ {0}]]
    /\ MaxPools \in Nat
    /\ None \notin Nat

VARIABLES
    backend,
    rows,       \* the stored chunks of each document: revision by position
    tokens,     \* _LexicalTokenCache._documents, as rows
    call,       \* each coroutine's operation in progress
    disturbed,  \* history: documents whose last write raised or was cut off
    schema,     \* holder of _schema_lock and _schema_ready
    pools,      \* _pool, and the pools that are open
    down        \* progress of close() at shutdown

vars == <<backend, rows, tokens, call, disturbed, schema, pools, down>>

-----------------------------------------------------------------------------
Ids(d, revision) == 1 .. Size[d][revision]

Whole(d, revision) == [i \in Ids(d, revision) |-> revision]

Nothing == <<>>

Idle == [op |-> "none", doc |-> None, phase |-> "idle", awaited |-> FALSE,
         fresh |-> FALSE, used |-> Nothing]

(* The rows a write leaves.                                                 *)
Upserted(d) ==
    [i \in DOMAIN rows[d] \cup Ids(d, "new") |-> IF i \in Ids(d, "new") THEN "new" ELSE rows[d][i]]

Without(d, ids) == [i \in DOMAIN rows[d] \ ids |-> rows[d][i]]

Writes == {"replace", "delete"}

Writing(d) == {c \in Calls : call[c].doc = d /\ call[c].op \in Writes}

-----------------------------------------------------------------------------
(* The lexical token cache: forget drops the documents written and makes    *)
(* every search in progress stale; remember keeps what a fresh one used.    *)
Forget(d, calls) ==
    /\ tokens' = [tokens EXCEPT ![d] = Nothing]
    /\ call' = [e \in Calls |-> [calls[e] EXCEPT !.fresh = FALSE]]

RememberAll(c, used) ==
    tokens' = IF used # Nothing THEN [tokens EXCEPT ![call[c].doc] = used] ELSE tokens

Remember(c, used) ==
    tokens' = IF used # Nothing /\ call[c].fresh THEN [tokens EXCEPT ![call[c].doc] = used] ELSE tokens

-----------------------------------------------------------------------------
(* An earlier process may have left documents of the old revision.          *)
Init ==
    /\ backend \in Backends
    /\ rows \in {r \in [Docs -> {Nothing} \cup {Whole(d, "old") : d \in Docs}] :
                   \A d \in Docs : r[d] \in {Nothing, Whole(d, "old")}}
    /\ tokens = [d \in Docs |-> Nothing]
    /\ call = [c \in Calls |-> Idle]
    /\ disturbed = {}
    /\ schema = [ready |-> FALSE, holder |-> None]
    /\ pools = [current |-> None, open |-> {}, closing |-> None, made |-> 0]
    /\ down = "up"

Begin(c, op, d, phase) ==
    call' = [call EXCEPT ![c] = [op |-> op, doc |-> d, phase |-> phase, awaited |-> TRUE,
                                 fresh |-> op = "lexical", used |-> Nothing]]

Ends(c, phase) == call' = [call EXCEPT ![c].phase = phase]

(* index_document embeds before it touches the store; a deletion and a      *)
(* document without chunks go straight to delete_document.                  *)
StartIndex(c, d) ==
    /\ call[c] = Idle /\ down = "up"
    /\ Begin(c, "replace", d, "embedding")
    /\ UNCHANGED <<backend, rows, tokens, disturbed, schema, pools, down>>

EmbeddingFails(c) ==
    /\ call[c].phase = "embedding"
    /\ call' = [call EXCEPT ![c] = Idle]
    /\ UNCHANGED <<backend, rows, tokens, disturbed, schema, pools, down>>

Embedded(c) ==
    /\ call[c].phase = "embedding" /\ backend # "memory"
    /\ Ends(c, "queued")
    /\ UNCHANGED <<backend, rows, tokens, disturbed, schema, pools, down>>

(* replace_document and delete_document of the in-memory store do not await. *)
ReplaceInMemory(c) ==
    /\ call[c].phase = "embedding" /\ backend = "memory"
    /\ rows' = [rows EXCEPT ![call[c].doc] = Whole(call[c].doc, "new")]
    /\ Forget(call[c].doc, [call EXCEPT ![c] = Idle])
    /\ UNCHANGED <<backend, disturbed, schema, pools, down>>

DeleteInMemory(c, d) ==
    /\ call[c] = Idle /\ down = "up" /\ backend = "memory"
    /\ rows' = [rows EXCEPT ![d] = Nothing]
    /\ Forget(d, call)
    /\ UNCHANGED <<backend, disturbed, schema, pools, down>>

LexicalInMemory(c, d) ==
    /\ call[c] = Idle /\ down = "up" /\ backend = "memory"
    /\ tokens' = IF rows[d] # Nothing THEN [tokens EXCEPT ![d] = rows[d]] ELSE tokens
    /\ UNCHANGED <<backend, rows, call, disturbed, schema, pools, down>>

(* A thread is queued; a lexical search takes its tokenizer now.            *)
StartCall(c, op, d) ==
    /\ call[c] = Idle /\ down = "up" /\ backend # "memory"
    /\ Begin(c, op, d, "queued")
    /\ UNCHANGED <<backend, rows, tokens, disturbed, schema, pools, down>>

-----------------------------------------------------------------------------
(* Chroma's threads.                                                        *)
ChromaDelete(c) ==
    /\ backend = "chroma" /\ call[c].phase = "queued" /\ call[c].op = "delete"
    /\ rows' = [rows EXCEPT ![call[c].doc] = Nothing]
    /\ Ends(c, "done")
    /\ UNCHANGED <<backend, tokens, disturbed, schema, pools, down>>

StaleAll(d) == DOMAIN rows[d]

(* _replace reads the ids, upserts, then deletes those it did not write.     *)
Stale(d) == DOMAIN rows[d] \ Ids(d, "new")

ChromaExisting(c) ==
    /\ backend = "chroma" /\ call[c].phase = "queued" /\ call[c].op = "replace"
    /\ call' = [call EXCEPT ![c].phase = "read", ![c].used = Stale(call[c].doc)]
    /\ UNCHANGED <<backend, rows, tokens, disturbed, schema, pools, down>>

ChromaUpsert(c) ==
    /\ call[c].phase = "read"
    /\ rows' = [rows EXCEPT ![call[c].doc] = Upserted(call[c].doc)]
    /\ Ends(c, "upserted")
    /\ UNCHANGED <<backend, tokens, disturbed, schema, pools, down>>

ChromaDeleteStale(c) ==
    /\ call[c].phase = "upserted"
    /\ rows' = [rows EXCEPT ![call[c].doc] = Without(call[c].doc, call[c].used)]
    /\ call' = [call EXCEPT ![c].phase = "done", ![c].used = Nothing]
    /\ UNCHANGED <<backend, tokens, disturbed, schema, pools, down>>

ChromaLexical(c) ==
    /\ backend = "chroma" /\ call[c].phase = "queued" /\ call[c].op = "lexical"
    /\ call' = [call EXCEPT ![c].phase = "done", ![c].used = rows[call[c].doc]]
    /\ UNCHANGED <<backend, rows, tokens, disturbed, schema, pools, down>>

(* Any call of the provider may raise, having done nothing.                 *)
ThreadRaises(c) ==
    /\ call[c].phase \in {"queued", "read", "upserted", "unpooled", "connected"}
    /\ call' = [call EXCEPT ![c].phase = "raised", ![c].used = Nothing]
    /\ UNCHANGED <<backend, rows, tokens, disturbed, schema, pools, down>>

-----------------------------------------------------------------------------
(* Without the second look under the lock.                                  *)
Reopened ==
    [pools EXCEPT !.current = pools.made + 1, !.open = @ \cup {pools.made + 1}, !.made = @ + 1]

(* PostgreSQL's threads: the schema once, under its lock, then a connection *)
(* of the pool, which the first thread opens, then one transaction.  Schema *)
(* and pool are looked at before their lock is taken and again under it.    *)
Opened ==
    IF pools.current # None THEN pools
    ELSE [pools EXCEPT !.current = pools.made + 1, !.open = @ \cup {pools.made + 1}, !.made = @ + 1]

SeesNoSchema(c) ==
    /\ backend = "postgres" /\ call[c].phase = "queued" /\ ~schema.ready
    /\ Ends(c, "unmigrated")
    /\ UNCHANGED <<backend, rows, tokens, disturbed, schema, pools, down>>

LockSchema(c) ==
    /\ call[c].phase = "unmigrated" /\ schema.holder = None
    /\ IF schema.ready THEN Ends(c, "queued") /\ UNCHANGED schema
                       ELSE Ends(c, "migrating") /\ schema' = [schema EXCEPT !.holder = c]
    /\ UNCHANGED <<backend, rows, tokens, disturbed, pools, down>>

Migrated(c) ==
    /\ call[c].phase = "migrating" /\ pools.made < MaxPools
    /\ pools' = Opened
    /\ schema' = [ready |-> TRUE, holder |-> None]
    /\ Ends(c, "queued")
    /\ UNCHANGED <<backend, rows, tokens, disturbed, down>>

MigrationStuck(c) ==
    /\ call[c].phase = "migrating"
    /\ Ends(c, "raised")
    /\ UNCHANGED <<backend, rows, tokens, disturbed, schema, pools, down>>

MigrationRaises(c) ==
    /\ call[c].phase = "migrating"
    /\ schema' = [schema EXCEPT !.holder = None]
    /\ Ends(c, "raised")
    /\ UNCHANGED <<backend, rows, tokens, disturbed, pools, down>>

Connect(c) ==
    /\ backend = "postgres" /\ call[c].phase = "queued" /\ schema.ready
    /\ IF pools.current = None THEN Ends(c, "unpooled")
       ELSE call' = [call EXCEPT ![c].phase = "connected", ![c].used = pools.current]
    /\ UNCHANGED <<backend, rows, tokens, disturbed, schema, pools, down>>

OpenPool(c) ==
    /\ call[c].phase = "unpooled" /\ pools.made < MaxPools
    /\ pools' = Opened
    /\ call' = [call EXCEPT ![c].phase = "connected", ![c].used = Opened.current]
    /\ UNCHANGED <<backend, rows, tokens, disturbed, schema, down>>

PoolGone(c) ==
    /\ call[c].phase = "connected" /\ call[c].used \notin pools.open
    /\ call' = [call EXCEPT ![c].phase = "raised", ![c].used = Nothing]
    /\ UNCHANGED <<backend, rows, tokens, disturbed, schema, pools, down>>

(* A pool closed in between raises; otherwise the transaction commits.      *)
Transact(c) ==
    /\ call[c].phase = "connected" /\ call[c].used \in pools.open
    /\ rows' = CASE call[c].op = "replace" -> [rows EXCEPT ![call[c].doc] = Whole(call[c].doc, "new")]
                 [] call[c].op = "delete"  -> [rows EXCEPT ![call[c].doc] = Nothing]
                 [] OTHER                  -> rows
    /\ call' = [call EXCEPT ![c].phase = "done", ![c].used = Nothing]
    /\ UNCHANGED <<backend, tokens, disturbed, schema, pools, down>>

-----------------------------------------------------------------------------
(* The coroutine resumes: a write forgets, a search remembers.              *)
WriteReturns(c) ==
    /\ call[c].phase = "done" /\ call[c].awaited /\ call[c].op \in Writes
    /\ IF backend = "postgres"
       THEN call' = [call EXCEPT ![c] = Idle] /\ UNCHANGED tokens
       ELSE Forget(call[c].doc, [call EXCEPT ![c] = Idle])
    /\ disturbed' = disturbed \ {call[c].doc}
    /\ UNCHANGED <<backend, rows, schema, pools, down>>

SearchReturns(c) ==
    /\ call[c].phase = "done" /\ call[c].awaited /\ call[c].op \notin Writes
    /\ call' = [call EXCEPT ![c] = Idle]
    /\ Remember(c, call[c].used)
    /\ UNCHANGED <<backend, rows, disturbed, schema, pools, down>>

(* The exception passes the line that would have forgotten.                 *)
CallRaises(c) ==
    /\ call[c].phase = "raised" \/ (call[c].phase = "done" /\ ~call[c].awaited)
    /\ disturbed' = IF call[c].op \in Writes THEN disturbed \cup {call[c].doc} ELSE disturbed
    /\ call' = [call EXCEPT ![c] = Idle]
    /\ UNCHANGED <<backend, rows, tokens, schema, pools, down>>

(* The awaiting coroutine is cancelled; its thread goes on.                 *)
Cancel(c) ==
    /\ call[c].awaited /\ call[c].phase # "embedding"
    /\ call' = [call EXCEPT ![c].awaited = FALSE]
    /\ UNCHANGED <<backend, rows, tokens, disturbed, schema, pools, down>>

(* The pipeline's owner closes the store: the pool is taken, then closed.   *)
TakePool ==
    /\ down = "up" /\ backend = "postgres"
    /\ \A c \in Calls : ~call[c].awaited
    /\ down' = IF pools.current = None THEN "down" ELSE "closing"
    /\ pools' = [pools EXCEPT !.current = None, !.closing = pools.current]
    /\ UNCHANGED <<backend, rows, tokens, call, disturbed, schema>>

ClosePool ==
    /\ down = "closing"
    /\ down' = "down"
    /\ pools' = [pools EXCEPT !.open = @ \ {pools.closing}, !.closing = None]
    /\ UNCHANGED <<backend, rows, tokens, call, disturbed, schema>>

-----------------------------------------------------------------------------
Thread(c) ==
    \/ ChromaDelete(c) \/ ChromaExisting(c) \/ ChromaUpsert(c) \/ ChromaDeleteStale(c)
    \/ ChromaLexical(c)
    \/ SeesNoSchema(c) \/ LockSchema(c) \/ Migrated(c) \/ MigrationRaises(c)
    \/ Connect(c) \/ OpenPool(c) \/ Transact(c) \/ PoolGone(c)

Resume(c) == WriteReturns(c) \/ SearchReturns(c) \/ CallRaises(c)

Embed(c) == EmbeddingFails(c) \/ Embedded(c) \/ ReplaceInMemory(c)

Begins(c) ==
    \/ \E d \in Docs : StartIndex(c, d) \/ DeleteInMemory(c, d) \/ LexicalInMemory(c, d)
    \/ \E d \in Docs, op \in {"delete", "lexical"} : StartCall(c, op, d)

Next ==
    \/ TakePool \/ ClosePool
    \/ \E c \in Calls :
          Thread(c) \/ ThreadRaises(c) \/ Resume(c) \/ Embed(c) \/ Begins(c) \/ Cancel(c)

(* Threads run on, the embedding answers or fails, the loop resumes what is  *)
(* ready, and a close once begun goes on.                                   *)
Fairness ==
    /\ WF_vars(ClosePool)
    /\ \A c \in Calls : WF_vars(Thread(c)) /\ WF_vars(Resume(c)) /\ WF_vars(Embed(c))

Spec == Init /\ [][Next]_vars /\ Fairness

-----------------------------------------------------------------------------
Contents(d) ==
    UNION {[ids -> {"old", "new"}] : ids \in SUBSET (Ids(d, "old") \cup Ids(d, "new"))}

TypeOK ==
    /\ backend \in Backends
    /\ \A d \in Docs : rows[d] \in Contents(d) /\ tokens[d] \in Contents(d)
    /\ \A c \in Calls :
          /\ call[c].op \in {"none", "replace", "delete", "lexical"}
          /\ call[c].doc \in Docs \cup {None}
          /\ call[c].op = "none" <=> call[c].phase = "idle"
    /\ disturbed \subseteq Docs
    /\ schema \in [ready : BOOLEAN, holder : Calls \cup {None}]
    /\ pools.open \subseteq 1 .. pools.made
    /\ down \in {"up", "closing", "down"}

(* A document is stored whole, one revision or none, whatever writes met    *)
(* over it: Chroma's stale chunks show beside the new ones only while its   *)
(* thread is between its two calls, or after one of them failed             *)
(* (ChromaVectorStore.replace_document, PostgresVectorStore's transaction). *)
WholeDocuments ==
    \A d \in Docs :
        \/ rows[d] \in {Nothing, Whole(d, "old"), Whole(d, "new")}
        \/ /\ rows[d] \in Contents(d) /\ DOMAIN rows[d] = Ids(d, "old")
           /\ \A i \in Ids(d, "new") : rows[d][i] = "new"
           /\ d \in disturbed \/ \E c \in Writing(d) : call[c].phase \in {"upserted", "raised"}

(* Text that a write removed from the store does not outlive it in the token *)
(* cache, whatever searches raced the write; unless the write raised or was *)
(* cut off before its forget (_LexicalTokenCache).                          *)
CacheFaithful ==
    \A d \in Docs \ disturbed :
        \/ \A i \in DOMAIN tokens[d] : i \in DOMAIN rows[d] /\ rows[d][i] = tokens[d][i]
        \/ \E c \in Writing(d) : call[c].phase \in {"upserted", "done", "raised"}

(* No open connection pool is lost to a race: it is the store's current one *)
(* or the one being closed, although threads open pools concurrently and    *)
(* close() runs between (_connection_pool, close).  The current one may     *)
(* have been opened after close() took its predecessor: then only another   *)
(* close() would end it.                                                    *)
EveryPoolOwned == pools.open \subseteq {pools.current, pools.closing}

(* Every operation ends, on every backend, unless migrations keep failing   *)
(* one after the other: a failed one hands its lock on.                     *)
CallsEnd ==
    \A c \in Calls :
        []<>(call[c] = Idle) \/ ([]<>(schema.holder # None) /\ []<>(schema.holder = None))

(* Racing writes, migrations and close() leave whole documents, and no open *)
(* pool that the store no longer refers to.                                 *)
StoreSound == TypeOK /\ WholeDocuments /\ EveryPoolOwned
=============================================================================
