------------------------ MODULE EmbeddingGeneration ------------------------
(***************************************************************************)
(* How the legal corpus becomes a vector index                             *)
(* (app/consumer/embedding_generation.py, vector_reuse.py, legal_index.py, *)
(* run by preindex_legal.py): a run embeds the corpus shard by shard into  *)
(* files, records every shard in a manifest, imports the whole into the    *)
(* vector store and marks the generation active.  A run may be killed at   *)
(* any await or between two writes; the next one resumes what verifies, or *)
(* takes the vectors of an earlier release whose texts have not changed.   *)
(*                                                                         *)
(* A vector is abstracted to the embedding space it lies in, a shard's     *)
(* file to the vectors by chunk text, and a checksum to the content it was *)
(* computed from, so a shard verifies when its file is what the manifest   *)
(* recorded.  Chunks are named by their texts.                             *)
(***************************************************************************)
EXTENDS Integers, FiniteSets

CONSTANTS
    Releases,      \* corpus releases, each a generation: 1 .. n
    ShardsOf,      \* the texts of each shard of each release
    Spaces,        \* embedding spaces the model may produce, by machine
    Foreign,       \* a space no configured model produces
    LegacySpaces,  \* spaces of the vectors that may be adopted
    CanarySize,    \* CANARY_SIZE
    MaxTroubles,   \* bound: kills, errors and damaged files
    None

Texts == UNION {UNION {ShardsOf[g][i] : i \in DOMAIN ShardsOf[g]} : g \in Releases}

(* Texts are numbered in the order of their hashes.                         *)
ASSUME GenerationAssumption ==
    /\ Releases = 1 .. Cardinality(Releases) /\ 1 \in Releases
    /\ \A g \in Releases :
        /\ ShardsOf[g] # <<>>
        /\ IsFiniteSet(DOMAIN ShardsOf[g])
        /\ DOMAIN ShardsOf[g] = 1 .. Cardinality(DOMAIN ShardsOf[g])
        /\ \A i \in DOMAIN ShardsOf[g] : ShardsOf[g][i] # {}
        /\ \A i, j \in DOMAIN ShardsOf[g] :
              i # j => ShardsOf[g][i] \cap ShardsOf[g][j] = {}
    /\ Texts \subseteq Nat /\ IsFiniteSet(Texts)
    /\ Foreign \notin Spaces /\ LegacySpaces \subseteq Spaces \cup {Foreign}
    /\ None \notin Spaces /\ None \notin Releases
    /\ CanarySize \in Nat \ {0}
    /\ MaxTroubles \in Nat

VARIABLES
    release,   \* the release whose corpus is deployed
    manifest,  \* manifest.json of each generation
    file,      \* the shard files of each generation; <<>> is none, or no gzip
    store,     \* each release's document in the vector store, <<>> if absent
    run,       \* the indexing process
    troubles

vars == <<release, manifest, file, store, run, troubles>>

-----------------------------------------------------------------------------
Shards(g) == DOMAIN ShardsOf[g]

Corpus(g) == UNION {ShardsOf[g][i] : i \in Shards(g)}

AnySpace == Spaces \cup {Foreign}

(* A line of a shard file: a vector, and the generation it was reused from. *)
Vectors == [space : AnySpace, source : Releases \cup {None}]

Contents(T) == [T -> Vectors]

Files(g, i) == Contents(ShardsOf[g][i]) \cup {<<>>}

(* The shards a manifest records: those whose files it has seen written.    *)
Records(g, shards) ==
    /\ DOMAIN shards \subseteq Shards(g)
    /\ \A i \in DOMAIN shards : shards[i] \in Contents(ShardsOf[g][i])

Fields == {"status", "provenance", "shards", "canary"}

IsManifest(g, m) ==
    /\ DOMAIN m = Fields
    /\ m.status \in {"building", "validated", "active", "failed"}
    /\ m.provenance \in {"embedded", "adopted"}
    /\ m.canary \in {"passed", "failed", None}
    /\ Records(g, m.shards)

Stages == {"canary", "embedding", "recording", "failing", "adopting", "importing", "activating"}

IsRun(g, r) ==
    /\ DOMAIN r = {"stage", "force", "model", "manifest", "pending", "index"}
    /\ r.stage \in Stages /\ r.force \in BOOLEAN /\ r.model \in Spaces \cup {None}
    /\ IsManifest(g, r.manifest)
    /\ r.pending \subseteq Shards(g)
    /\ DOMAIN r.index \subseteq Texts /\ \A t \in DOMAIN r.index : r.index[t] \in Vectors

-----------------------------------------------------------------------------
(* _new_manifest.                                                           *)
Fresh(provenance) ==
    [status |-> "building", provenance |-> provenance, shards |-> <<>>, canary |-> None]

(* reused_chunk_count # 0, over the shards the manifest records.            *)
Reuses(m) ==
    \E i \in DOMAIN m.shards : \E t \in DOMAIN m.shards[i] : m.shards[i][t].source # None

(* _validate_provenance_fields, which runs when a manifest is parsed and    *)
(* not when a field of one in memory is assigned.                           *)
Readable(m) == ~ (m.provenance = "adopted" /\ Reuses(m))

(* _load_manifest raises on anything but a missing file.                    *)
Parses(g) == manifest[g] # None => Readable(manifest[g])

(* _verified_shard_entries: the file is the one the manifest recorded.      *)
Verified(g, m, i) == i \in DOMAIN m.shards /\ m.shards[i] = file[g][i]

(* _load_complete_generation.                                               *)
Complete(g, m) == \A i \in Shards(g) : Verified(g, m, i)

(* What the vector store receives: it keeps the vectors and not their       *)
(* sources.                                                                 *)
Imported(g, m) ==
    [t \in Corpus(g) |->
        LET i == CHOOSE j \in Shards(g) : t \in ShardsOf[g][j] IN m.shards[i][t].space]

(* legal_corpus_is_indexed, with is_ready.                                  *)
Ready(g) ==
    /\ store[g] # <<>>
    /\ manifest[g] # None /\ Parses(g)
    /\ manifest[g].status = "active"
    /\ Complete(g, manifest[g])
    /\ store[g] = Imported(g, manifest[g])

(* Mutant: any finished generation is a source.                             *)
SourcesOfAnyProvenance(g) ==
    {h \in Releases \ {g} :
        /\ manifest[h] # None /\ Parses(h)
        /\ manifest[h].status \in {"validated", "active"}}

(* _is_source: finished, embedded, of another release.                      *)
Sources(g) ==
    {h \in Releases \ {g} :
        /\ manifest[h] # None /\ Parses(h)
        /\ manifest[h].status \in {"validated", "active"}
        /\ manifest[h].provenance = "embedded"}

(* What the verified shards of generation h offer for t.                    *)
Offers(h, t) ==
    {[space |-> manifest[h].shards[i][t].space, source |-> h] :
        i \in {j \in Shards(h) : Verified(h, manifest[h], j) /\ t \in ShardsOf[h][j]}}

Offering(g, t) == {h \in Sources(g) : Offers(h, t) # {}}

Active(h) == manifest[h].status = "active"

(* _preference: an active source before a merely validated one, then the    *)
(* newest release, as each was finished while it was the one deployed.      *)
Precedes(k, h) == (Active(k) /\ ~Active(h)) \/ ((Active(k) <=> Active(h)) /\ k > h)

Preferred(g, t) == {h \in Offering(g, t) : \A k \in Offering(g, t) : ~ Precedes(k, h)}

(* ReusableVectorIndex.from_artifacts: the index it returns.                *)
ReuseIndexes(g) ==
    {index \in [{t \in Texts : Offering(g, t) # {}} -> [space : AnySpace, source : Releases]] :
        \A t \in DOMAIN index : \E h \in Preferred(g, t) : index[t] \in Offers(h, t)}

(* Mutants: nothing is resumed; the manifest is believed and no file read.  *)
PendingAll(g, m) == Shards(g)
PendingBelieved(g, m) == {i \in Shards(g) : i \notin DOMAIN m.shards}

(* _pending_shards.                                                         *)
Pending(g, m) == {i \in Shards(g) : ~ Verified(g, m, i)}

(* _check_reuse_canary: the reused texts with the lowest hashes.            *)
Reusable(g, pending, index) ==
    {t \in DOMAIN index : \E i \in pending : t \in ShardsOf[g][i]}

Probe(g, pending, index) ==
    LET reusable == Reusable(g, pending, index)
    IN  {t \in reusable : Cardinality({u \in reusable : u < t}) < CanarySize}

-----------------------------------------------------------------------------
Init ==
    /\ release = 1
    /\ manifest = [g \in Releases |-> None]
    /\ file = [g \in Releases |-> [i \in Shards(g) |-> <<>>]]
    /\ store = [g \in Releases |-> <<>>]
    /\ run = None
    /\ troubles = 0

Save(m) == manifest' = [manifest EXCEPT ![release] = m]

Stops == run' = None

(* A release with another corpus is deployed, between two runs.             *)
Deploy ==
    /\ run = None /\ release + 1 \in Releases
    /\ release' = release + 1
    /\ UNCHANGED <<manifest, file, store, run, troubles>>

(* The manifest a run goes on from.                                         *)
Resumed(force) ==
    LET old == IF force \/ manifest[release] = None THEN Fresh("embedded") ELSE manifest[release]
    IN  [old EXCEPT !.status = "building", !.canary = IF Reuses(old) THEN @ ELSE None]

(* preindex_legal_corpus and build_and_activate up to the first await, on a *)
(* machine whose model embeds into the given space.  A ready index ends an  *)
(* unforced run, and so does a manifest that cannot be parsed.              *)
Start(force, reuse, space) ==
    /\ run = None
    /\ force \/ ~ Ready(release)
    /\ force \/ Parses(release)
    /\ \E index \in IF reuse /\ ~force THEN ReuseIndexes(release) ELSE {<<>>} :
        LET m == Resumed(force)
            pending == Pending(release, m)
        IN  /\ Save(m)
            /\ run' = [stage |-> IF Reusable(release, pending, index) = {}
                                 THEN "embedding" ELSE "canary",
                       force |-> force, model |-> space, manifest |-> m,
                       pending |-> pending, index |-> index]
    /\ UNCHANGED <<release, file, store, troubles>>

(* adopt_and_activate: the vectors of a legacy namespace, which need not be *)
(* the model's, are written over the shard files; the manifest is saved     *)
(* when all are.                                                            *)
Adopt(vectors) ==
    /\ run = None
    /\ run' = [stage |-> "adopting", force |-> FALSE, model |-> None,
               manifest |-> Fresh("adopted"), pending |-> Shards(release),
               index |-> vectors]
    /\ UNCHANGED <<release, manifest, file, store, troubles>>

(* Mutant: the verdict is recorded and nothing more.                        *)
CheckReuseCanaryOnly ==
    /\ run # None /\ run.stage = "canary"
    /\ LET passed == \A t \in Probe(release, run.pending, run.index) :
                        run.index[t].space = run.model
           m == [run.manifest EXCEPT !.canary = IF passed THEN "passed" ELSE "failed"]
       IN  /\ Save(m)
           /\ run' = [run EXCEPT !.manifest = m, !.stage = "embedding"]
    /\ UNCHANGED <<release, file, store, troubles>>

(* The canary's texts are embedded afresh and compared with what would be   *)
(* reused; the verdict is saved before it is acted on.                      *)
CheckReuseCanary ==
    /\ run # None /\ run.stage = "canary"
    /\ LET passed == \A t \in Probe(release, run.pending, run.index) :
                        run.index[t].space = run.model
           m == [run.manifest EXCEPT !.canary = IF passed THEN "passed" ELSE "failed"]
       IN  /\ Save(m)
           /\ run' = [run EXCEPT !.manifest = m,
                                 !.stage = IF passed THEN "embedding" ELSE "failing"]
    /\ UNCHANGED <<release, file, store, troubles>>

(* Shards are built in order.                                               *)
IsNext(i) == i \in run.pending /\ \A j \in run.pending : i <= j

(* What _build_shard puts into shard i.                                     *)
Built(i) ==
    [t \in ShardsOf[release][i] |->
        IF t \in DOMAIN run.index THEN run.index[t]
        ELSE [space |-> run.model, source |-> None]]

(* _write_shard: the next pending shard's file is replaced atomically.      *)
WriteShard(i) ==
    /\ run # None /\ run.stage = "embedding" /\ IsNext(i)
    /\ file' = [file EXCEPT ![release][i] = Built(i)]
    /\ run' = [run EXCEPT !.stage = "recording"]
    /\ UNCHANGED <<release, manifest, store, troubles>>

(* manifest.shards without the shard's old entry and with the new one.      *)
With(shards, i, content) ==
    [j \in DOMAIN shards \cup {i} |-> IF j = i THEN content ELSE shards[j]]

(* The rest of _build_shard: the manifest names the new file.               *)
RecordShard(i) ==
    /\ run # None /\ run.stage = "recording" /\ IsNext(i)
    /\ LET m == [run.manifest EXCEPT !.shards = With(@, i, Built(i))]
       IN  /\ Save(m)
           /\ run' = [run EXCEPT !.manifest = m, !.pending = @ \ {i}, !.stage = "embedding"]
    /\ UNCHANGED <<release, file, store, troubles>>

(* One turn of adopt_and_activate's loop.                                   *)
AdoptShard(i) ==
    /\ run # None /\ run.stage = "adopting" /\ IsNext(i)
    /\ LET content == [t \in ShardsOf[release][i] |-> run.index[t]]
       IN  /\ file' = [file EXCEPT ![release][i] = content]
           /\ run' = [run EXCEPT !.manifest.shards = With(@, i, content), !.pending = @ \ {i}]
    /\ UNCHANGED <<release, manifest, store, troubles>>

(* Mutant: the generation is active once its files are complete.            *)
ValidateActive ==
    /\ run # None /\ run.stage \in {"embedding", "adopting"} /\ run.pending = {}
    /\ run.stage = "embedding" => Complete(release, run.manifest)
    /\ LET m == [run.manifest EXCEPT !.status = "active"]
       IN  Save(m) /\ run' = [run EXCEPT !.manifest = m, !.stage = "importing"]
    /\ UNCHANGED <<release, file, store, troubles>>

(* _load_complete_generation of a build reads every file again; an adopted  *)
(* generation is what was just written.  _mark_validated saves the manifest.*)
Validate ==
    /\ run # None /\ run.stage \in {"embedding", "adopting"} /\ run.pending = {}
    /\ run.stage = "embedding" => Complete(release, run.manifest)
    /\ LET m == [run.manifest EXCEPT !.status = "validated"]
       IN  Save(m) /\ run' = [run EXCEPT !.manifest = m, !.stage = "importing"]
    /\ UNCHANGED <<release, file, store, troubles>>

(* A shard was damaged under the run: it raises and stays "building".       *)
LoadFails ==
    /\ run # None /\ run.stage = "embedding" /\ run.pending = {}
    /\ ~ Complete(release, run.manifest)
    /\ Stops
    /\ UNCHANGED <<release, manifest, file, store, troubles>>

(* index_precomputed_chunks replaces the release's document.                *)
Import ==
    /\ run # None /\ run.stage = "importing"
    /\ store' = [store EXCEPT ![release] = Imported(release, run.manifest)]
    /\ run' = [run EXCEPT !.stage = "activating"]
    /\ UNCHANGED <<release, manifest, file, troubles>>

(* _activate after the export: the store returns what it was given, and the *)
(* generation becomes active.                                               *)
Activate ==
    /\ run # None /\ run.stage = "activating"
    /\ store[release] = Imported(release, run.manifest)
    /\ Save([run.manifest EXCEPT !.status = "active"])
    /\ Stops
    /\ UNCHANGED <<release, file, store, troubles>>

(* The except clause of build_and_activate.                                 *)
RecordFailure ==
    /\ run # None /\ run.stage = "failing"
    /\ Save([run.manifest EXCEPT !.status = "failed"])
    /\ Stops
    /\ UNCHANGED <<release, file, store, troubles>>

-----------------------------------------------------------------------------
(* Troubles, bounded together.                                              *)
Trouble == troubles < MaxTroubles /\ troubles' = troubles + 1

(* The model raises while it embeds, or a shard cannot be written: what the *)
(* except clause of build_and_activate catches.  A manifest that cannot be  *)
(* saved ends the run as Kill does.                                         *)
BuildFails ==
    /\ Trouble
    /\ run # None
    /\ \/ run.stage = "canary"
       \/ run.stage = "embedding" /\ run.pending # {}
    /\ run' = [run EXCEPT !.stage = "failing"]
    /\ UNCHANGED <<release, manifest, file, store>>

(* The process is killed or interrupted: no except clause runs.             *)
Kill ==
    /\ Trouble
    /\ run # None
    /\ Stops
    /\ UNCHANGED <<release, manifest, file, store>>

(* The vector store fails within an upsert, or the process is killed there: *)
(* some of the vectors have been written.                                   *)
ImportBreaksOff ==
    /\ Trouble
    /\ run # None /\ run.stage = "importing"
    /\ \E T \in SUBSET Corpus(release) :
          store' = [store EXCEPT ![release] =
                      [t \in T \cup DOMAIN @ |->
                          IF t \in T THEN Imported(release, run.manifest)[t] ELSE @[t]]]
    /\ Stops
    /\ UNCHANGED <<release, manifest, file>>

(* A shard's file is lost or damaged.                                       *)
Damage(g, i) ==
    /\ Trouble
    /\ file[g][i] # <<>>
    /\ file' = [file EXCEPT ![g][i] = <<>>]
    /\ UNCHANGED <<release, manifest, store, run>>

-----------------------------------------------------------------------------
Step ==
    \/ CheckReuseCanary
    \/ \E i \in Shards(release) : WriteShard(i) \/ RecordShard(i) \/ AdoptShard(i)
    \/ Validate \/ LoadFails \/ Import \/ Activate \/ RecordFailure

(* A legacy namespace's vectors by text.                                    *)
Legacy(g) == [Corpus(g) -> [space : LegacySpaces, source : {None}]]

Next ==
    \/ Step
    \/ \E force, reuse \in BOOLEAN, space \in Spaces : Start(force, reuse, space)
    \/ \E vectors \in Legacy(release) : Adopt(vectors)
    \/ Deploy
    \/ BuildFails \/ Kill \/ ImportBreaksOff
    \/ \E g \in Releases : \E i \in Shards(g) : Damage(g, i)

(* A run goes on until it ends.  An operator whose last run stopped runs    *)
(* the same command again, with --no-reuse once the canary has failed, as   *)
(* its error advises.                                                       *)
Refused == manifest[release] # None /\ manifest[release].canary = "failed"

Retry == \E space \in Spaces : Start(FALSE, ~Refused, space)

Spec == Init /\ [][Next]_vars /\ WF_vars(Step) /\ SF_vars(Retry)

-----------------------------------------------------------------------------
TypeOK ==
    /\ release \in Releases
    /\ DOMAIN manifest = Releases /\ DOMAIN file = Releases /\ DOMAIN store = Releases
    /\ \A g \in Releases :
        /\ DOMAIN file[g] = Shards(g)
        /\ manifest[g] # None => IsManifest(g, manifest[g])
        /\ \A i \in Shards(g) : file[g][i] \in Files(g, i)
        /\ DOMAIN store[g] \subseteq Corpus(g) /\ \A t \in DOMAIN store[g] : store[g][t] \in AnySpace
    /\ run # None => IsRun(release, run)
    /\ troubles \in 0 .. MaxTroubles

(* Whatever kills, failures, rebuilds and adoptions came before, a manifest *)
(* that says active describes exactly the vectors the store holds.          *)
ActiveIsStored ==
    \A g \in Releases :
        manifest[g] # None /\ manifest[g].status = "active"
            => store[g] = Imported(g, manifest[g])

(* docs/adr/0017: vectors whose model is only attested never end up in a    *)
(* generation that says it was embedded, not even through reuse.            *)
EmbeddedHoldsNoForeign ==
    \A g \in Releases :
        manifest[g] # None /\ manifest[g].provenance = "embedded"
            => \A i \in DOMAIN manifest[g].shards : \A t \in DOMAIN manifest[g].shards[i] :
                    manifest[g].shards[i][t].space # Foreign

(* A run without --force never writes over a shard that verifies.           *)
ResumeKeepsWork ==
    [][run # None /\ run.stage = "embedding" /\ ~run.force /\ manifest[release] # None =>
        \A i \in Shards(release) :
            Verified(release, manifest[release], i) /\ troubles' = troubles
                => file'[release][i] = file[release][i]]_vars

(* A shard with reused vectors is written only by a run whose canary was    *)
(* saved as passed and whose model did agree with a reused vector, although *)
(* the machine, and so the model's space, may change between two runs.      *)
ReuseIsProbed ==
    [][\A i \in Shards(release) :
        /\ file'[release][i] # file[release][i]
        /\ \E t \in DOMAIN file'[release][i] : file'[release][i][t].source # None
        => /\ manifest[release].canary = "passed"
           /\ \E t \in DOMAIN run.index : run.index[t].space = run.model]_vars

(* Every manifest the program saves is one it can read back.                *)
SavedIsReadable ==
    \A g \in Releases : Parses(g)

(* Once a build is not stuck on an unreadable manifest, repeating it makes  *)
(* the index of the deployed release ready, again and again after damage.   *)
EventuallyReady ==
    []<>(Ready(release) \/ ~Parses(release))
=============================================================================
