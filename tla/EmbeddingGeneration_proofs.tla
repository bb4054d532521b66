--------------------- MODULE EmbeddingGeneration_proofs ---------------------
(***************************************************************************)
(* Proofs about EmbeddingGeneration, for any number of releases, any       *)
(* layout of their shards and any number of kills and failures.            *)
(***************************************************************************)
EXTENDS EmbeddingGeneration, FiniteSetTheorems, WellFoundedInduction, TLAPS

Building == {"canary", "embedding", "recording", "failing"}

Clean(m) ==
    m.provenance = "embedded" =>
        \A i \in DOMAIN m.shards : \A t \in DOMAIN m.shards[i] : m.shards[i][t].space # Foreign

(* A run that imports has written every shard.                              *)
Covers(g, r) ==
    /\ r.stage \in {"importing", "activating"} => r.pending = {}
    /\ \A i \in Shards(g) : i \in r.pending \/ i \in DOMAIN r.manifest.shards

(* What a run may put into a shard: an adopting one the legacy namespace's  *)
(* vectors, under a manifest that says so; a build only the model's and     *)
(* those of embedded generations.                                           *)
Material(g, r) ==
    /\ r.stage = "adopting" =>
        DOMAIN r.index = Corpus(g) /\ r.manifest.provenance = "adopted"
    /\ r.stage \in Building =>
        r.model \in Spaces /\ \A t \in DOMAIN r.index : r.index[t].space # Foreign
    /\ Clean(r.manifest)

(* Neither the run's manifest nor, for a build, the one on disk says active.*)
Unmarked(r, m) ==
    /\ r.manifest.status # "active"
    /\ r.stage # "adopting" => m.status # "active"

RunInv(g, r, m) == IsRun(g, r) /\ Covers(g, r) /\ Material(g, r) /\ Unmarked(r, m)

IInv ==
    /\ TypeOK
    /\ run # None => RunInv(release, run, manifest[release])
    /\ ActiveIsStored
    /\ EmbeddedHoldsNoForeign

-----------------------------------------------------------------------------
(* Recording one more shard leaves a manifest, with that shard.             *)
LEMMA ManifestWith ==
    ASSUME NEW g \in Releases, NEW m, IsManifest(g, m),
           NEW i \in Shards(g), NEW content \in Contents(ShardsOf[g][i])
    PROVE  LET n == [m EXCEPT !.shards = With(m.shards, i, content)]
           IN  /\ IsManifest(g, n)
               /\ n.status = m.status /\ n.provenance = m.provenance /\ n.canary = m.canary
               /\ n.shards = With(m.shards, i, content)
               /\ DOMAIN n.shards = DOMAIN m.shards \cup {i}
               /\ n.shards[i] = content
               /\ \A j \in DOMAIN m.shards \ {i} : n.shards[j] = m.shards[j]
<1> DEFINE w == With(m.shards, i, content)
           n == [m EXCEPT !.shards = w]
<1>1. /\ DOMAIN w = DOMAIN m.shards \cup {i} /\ w[i] = content
      /\ \A j \in DOMAIN m.shards \ {i} : w[j] = m.shards[j]
    BY DEF With
<1> HIDE DEF w
<1>2. DOMAIN n = DOMAIN m /\ n.shards = w /\ n.status = m.status
      /\ n.provenance = m.provenance /\ n.canary = m.canary
    BY DEF IsManifest, Fields
<1> HIDE DEF n
<1>3. Records(g, n.shards)
    BY <1>1, <1>2 DEF IsManifest, Records
<1>4. IsManifest(g, n)
    BY <1>2, <1>3 DEF IsManifest
<1>5. QED
    BY <1>1, <1>2, <1>4 DEF n, w

(* A new manifest is one, whatever its provenance.                          *)
LEMMA FreshManifest ==
    ASSUME NEW g \in Releases, NEW p \in {"embedded", "adopted"}
    PROVE  /\ IsManifest(g, Fresh(p)) /\ Clean(Fresh(p))
           /\ Fresh(p).status = "building" /\ Fresh(p).provenance = p
           /\ DOMAIN Fresh(p).shards = {}
<1>1. DOMAIN Fresh(p) = Fields /\ Fresh(p).status = "building"
      /\ Fresh(p).provenance = p /\ Fresh(p).shards = <<>> /\ Fresh(p).canary = None
    BY DEF Fresh, Fields
<1>2. DOMAIN <<>> = {}
    OBVIOUS
<1>3. QED
    BY <1>1, <1>2 DEF IsManifest, Records, Clean

-----------------------------------------------------------------------------
(* What a step may do to the manifest of the deployed release.              *)
LEMMA SaveStep ==
    ASSUME IInv, NEW m, IsManifest(release, m), Clean(m), Save(m),
           m.status = "active" => store[release] = Imported(release, m),
           UNCHANGED <<release, file, store, troubles>>,
           run' = None \/ RunInv(release, run', m)
    PROVE  IInv'
<1>1. /\ DOMAIN manifest' = Releases /\ release \in Releases
      /\ manifest'[release] = m
      /\ \A g \in Releases \ {release} : manifest'[g] = manifest[g]
    BY DEF IInv, TypeOK, Save
<1>2. TypeOK'
  <2>1. \A g \in Releases : manifest'[g] # None => IsManifest(g, manifest'[g])
    BY <1>1 DEF IInv, TypeOK
  <2>2. run' # None => IsRun(release, run')
    BY DEF RunInv
  <2>3. QED
    BY <1>1, <2>1, <2>2 DEF IInv, TypeOK
<1>3. ActiveIsStored'
    BY <1>1 DEF IInv, ActiveIsStored, Imported
<1>4. EmbeddedHoldsNoForeign'
    BY <1>1 DEF IInv, EmbeddedHoldsNoForeign, Clean
<1>5. run' # None => RunInv(release', run', manifest'[release'])
    BY <1>1
<1>6. QED
    BY <1>2, <1>3, <1>4, <1>5 DEF IInv

-----------------------------------------------------------------------------
(* The steps of a run, each leading SaveStep's conditions back to the state *)
(* before it.                                                               *)

(* What may be reused is well typed and was embedded.                       *)
LEMMA ReuseIsClean ==
    ASSUME IInv, NEW index \in ReuseIndexes(release)
    PROVE  /\ DOMAIN index \subseteq Texts
           /\ \A t \in DOMAIN index : index[t] \in Vectors /\ index[t].space # Foreign
<1>1. /\ DOMAIN index \subseteq Texts
      /\ \A t \in DOMAIN index : index[t] \in [space : AnySpace, source : Releases]
      /\ \A t \in DOMAIN index : \E h \in Sources(release) : index[t] \in Offers(h, t)
    BY DEF ReuseIndexes, Preferred, Offering
<1>2. \A t \in DOMAIN index : index[t] \in Vectors
    BY <1>1 DEF Vectors
<1>3. ASSUME NEW t \in DOMAIN index PROVE index[t].space # Foreign
  <2>1. PICK h \in Sources(release) : index[t] \in Offers(h, t)
    BY <1>1
  <2>2. PICK i \in Shards(h) :
            /\ i \in DOMAIN manifest[h].shards /\ t \in ShardsOf[h][i]
            /\ index[t].space = manifest[h].shards[i][t].space
    BY <2>1 DEF Offers, Verified
  <2>3. h \in Releases /\ manifest[h] # None /\ manifest[h].provenance = "embedded"
    BY <2>1 DEF Sources
  <2>4. t \in DOMAIN manifest[h].shards[i]
    BY <2>2, <2>3 DEF IInv, TypeOK, IsManifest, Records, Contents
  <2>5. QED
    BY <2>2, <2>3, <2>4 DEF IInv, EmbeddedHoldsNoForeign
<1>4. QED
    BY <1>1, <1>2, <1>3

(* The manifest a run goes on from is a clean one that is being built.      *)
LEMMA ResumedManifest ==
    ASSUME IInv, NEW force \in BOOLEAN
    PROVE  /\ IsManifest(release, Resumed(force)) /\ Clean(Resumed(force))
           /\ Resumed(force).status = "building"
<1> DEFINE old == IF force \/ manifest[release] = None THEN Fresh("embedded")
                  ELSE manifest[release]
           c == IF Reuses(old) THEN old.canary ELSE None
           m == [old EXCEPT !.status = "building", !.canary = c]
<1>1. release \in Releases
    BY DEF IInv, TypeOK
<1>2. IsManifest(release, old) /\ Clean(old)
    BY <1>1, FreshManifest DEF IInv, TypeOK, EmbeddedHoldsNoForeign, Clean
<1>3. c \in {"passed", "failed", None}
    BY <1>2 DEF IsManifest
<1>4. Resumed(force) = m
    BY DEF Resumed
<1> HIDE DEF c, old
<1>5. /\ DOMAIN m = Fields /\ m.status = "building" /\ m.canary = c
      /\ m.shards = old.shards /\ m.provenance = old.provenance
    BY <1>2 DEF IsManifest, Fields
<1> HIDE DEF m
<1>6. QED
    BY <1>2, <1>3, <1>4, <1>5 DEF IsManifest, Clean

LEMMA StartStep ==
    ASSUME IInv, NEW force \in BOOLEAN, NEW reuse \in BOOLEAN, NEW space \in Spaces,
           Start(force, reuse, space)
    PROVE  IInv'
<1>1. PICK index \in IF reuse /\ ~force THEN ReuseIndexes(release) ELSE {<<>>} :
        LET m == Resumed(force)
            pending == Pending(release, m)
        IN  /\ Save(m)
            /\ run' = [stage |-> IF Reusable(release, pending, index) = {}
                                 THEN "embedding" ELSE "canary",
                       force |-> force, model |-> space, manifest |-> m,
                       pending |-> pending, index |-> index]
    BY DEF Start
<1> DEFINE m == Resumed(force)
<1>2. IsManifest(release, m) /\ Clean(m) /\ m.status = "building"
    BY ResumedManifest
<1>3. /\ DOMAIN index \subseteq Texts
      /\ \A t \in DOMAIN index : index[t] \in Vectors /\ index[t].space # Foreign
    <2>1. CASE index \in ReuseIndexes(release)
        BY <2>1, ReuseIsClean
    <2>2. CASE index = <<>>
        BY <2>2
    <2>3. QED
        BY <1>1, <2>1, <2>2
<1> HIDE DEF m
<1>4. /\ DOMAIN run' = {"stage", "force", "model", "manifest", "pending", "index"}
      /\ run'.stage \in {"embedding", "canary"} /\ run'.force = force /\ run'.model = space
      /\ run'.manifest = m /\ run'.pending = Pending(release, m) /\ run'.index = index
    BY <1>1 DEF m
<1>5. /\ run'.pending \subseteq Shards(release)
      /\ \A i \in Shards(release) : i \in run'.pending \/ i \in DOMAIN m.shards
    BY <1>4 DEF Pending, Verified
<1>6. IsRun(release, run')
    BY <1>2, <1>3, <1>4, <1>5 DEF IsRun, Stages
<1>7. RunInv(release, run', m)
    BY <1>2, <1>3, <1>4, <1>5, <1>6 DEF RunInv, Covers, Material, Unmarked, Building
<1>8. QED
    BY <1>1, <1>2, <1>7, SaveStep DEF Start, m

LEMMA CanaryStep ==
    ASSUME IInv, CheckReuseCanary
    PROVE  IInv'
<1> DEFINE passed == \A t \in Probe(release, run.pending, run.index) :
                        run.index[t].space = run.model
           c == IF passed THEN "passed" ELSE "failed"
           stage == IF passed THEN "embedding" ELSE "failing"
           m == [run.manifest EXCEPT !.canary = c]
<1>1. /\ release \in Releases /\ run # None /\ run.stage = "canary"
      /\ RunInv(release, run, manifest[release]) /\ Save(m)
      /\ run' = [run EXCEPT !.manifest = m, !.stage = stage]
      /\ UNCHANGED <<release, file, store, troubles>>
    BY DEF CheckReuseCanary, IInv, TypeOK
<1>2. c \in {"passed", "failed", None} /\ stage \in {"embedding", "failing"}
    OBVIOUS
<1> HIDE DEF passed, c, stage
<1>3. /\ IsManifest(release, m) /\ m.status = run.manifest.status
      /\ m.shards = run.manifest.shards /\ m.provenance = run.manifest.provenance
    BY <1>1, <1>2 DEF RunInv, IsRun, IsManifest, Fields
<1> HIDE DEF m
<1>4. /\ IsRun(release, run') /\ run'.manifest = m /\ run'.stage = stage
      /\ run'.index = run.index /\ run'.model = run.model /\ run'.pending = run.pending
    BY <1>1, <1>2, <1>3 DEF RunInv, IsRun, Stages
<1>5. RunInv(release, run', m)
    BY <1>1, <1>2, <1>3, <1>4 DEF RunInv, Covers, Material, Unmarked, Building, Clean
<1>6. QED
    BY <1>1, <1>3, <1>5, SaveStep DEF RunInv, Unmarked, Material, Clean

(* What a build puts into a shard is well typed, and none of it foreign.    *)
LEMMA BuiltIsClean ==
    ASSUME IInv, run # None, run.stage \in Building, NEW i \in Shards(release)
    PROVE  /\ Built(i) \in Contents(ShardsOf[release][i])
           /\ \A t \in DOMAIN Built(i) : Built(i)[t].space # Foreign
<1>1. /\ \A t \in DOMAIN run.index : run.index[t] \in Vectors /\ run.index[t].space # Foreign
      /\ run.model \in Spaces
    BY DEF IInv, RunInv, IsRun, Material
<1>2. [space |-> run.model, source |-> None] \in Vectors
    BY <1>1 DEF Vectors, AnySpace
<1>3. run.model # Foreign
    BY <1>1, GenerationAssumption
<1>4. QED
    BY <1>1, <1>2, <1>3 DEF Built, Contents

LEMMA RecordStep ==
    ASSUME IInv, NEW i \in Shards(release), RecordShard(i)
    PROVE  IInv'
<1> DEFINE content == Built(i)
           m == [run.manifest EXCEPT !.shards = With(run.manifest.shards, i, content)]
<1>1. /\ release \in Releases /\ run # None /\ run.stage = "recording"
      /\ RunInv(release, run, manifest[release]) /\ Save(m)
      /\ run' = [run EXCEPT !.manifest = m, !.pending = run.pending \ {i}, !.stage = "embedding"]
      /\ UNCHANGED <<release, file, store, troubles>>
    BY DEF RecordShard, IInv, TypeOK
<1>2. /\ content \in Contents(ShardsOf[release][i])
      /\ \A t \in DOMAIN content : content[t].space # Foreign
    BY <1>1, BuiltIsClean DEF Building
<1> HIDE DEF content
<1>3. /\ IsManifest(release, m) /\ m.status = run.manifest.status
      /\ m.provenance = run.manifest.provenance
      /\ DOMAIN m.shards = DOMAIN run.manifest.shards \cup {i} /\ m.shards[i] = content
      /\ \A j \in DOMAIN run.manifest.shards \ {i} : m.shards[j] = run.manifest.shards[j]
    BY <1>1, <1>2, ManifestWith DEF RunInv, IsRun
<1> HIDE DEF m
<1>4. /\ IsRun(release, run') /\ run'.manifest = m /\ run'.stage = "embedding"
      /\ run'.index = run.index /\ run'.model = run.model /\ run'.pending = run.pending \ {i}
    BY <1>1, <1>3 DEF RunInv, IsRun, Stages
<1>5. Clean(m)
    BY <1>1, <1>2, <1>3 DEF Clean, RunInv, Material
<1>6. RunInv(release, run', m)
    BY <1>1, <1>3, <1>4, <1>5 DEF RunInv, Covers, Material, Unmarked, Building
<1>7. QED
    BY <1>1, <1>3, <1>5, <1>6, SaveStep DEF RunInv, Unmarked

LEMMA ValidateStep ==
    ASSUME IInv, Validate
    PROVE  IInv'
<1> DEFINE m == [run.manifest EXCEPT !.status = "validated"]
<1>1. /\ release \in Releases /\ run # None /\ run.pending = {}
      /\ RunInv(release, run, manifest[release]) /\ Save(m)
      /\ run' = [run EXCEPT !.manifest = m, !.stage = "importing"]
      /\ UNCHANGED <<release, file, store, troubles>>
    BY DEF Validate, IInv, TypeOK
<1>2. /\ IsManifest(release, m) /\ m.status = "validated"
      /\ m.shards = run.manifest.shards /\ m.provenance = run.manifest.provenance
    BY <1>1 DEF RunInv, IsRun, IsManifest, Fields
<1> HIDE DEF m
<1>3. /\ IsRun(release, run') /\ run'.manifest = m /\ run'.stage = "importing"
      /\ run'.pending = {}
    BY <1>1, <1>2 DEF RunInv, IsRun, Stages
<1>4. Clean(m)
    BY <1>1, <1>2 DEF Clean, RunInv, Material
<1>5. RunInv(release, run', m)
    BY <1>1, <1>2, <1>3, <1>4 DEF RunInv, Covers, Material, Unmarked, Building
<1>6. QED
    BY <1>1, <1>2, <1>4, <1>5, SaveStep

LEMMA ActivateStep ==
    ASSUME IInv, Activate
    PROVE  IInv'
<1> DEFINE m == [run.manifest EXCEPT !.status = "active"]
<1>1. /\ release \in Releases /\ run # None
      /\ RunInv(release, run, manifest[release]) /\ Save(m) /\ run' = None
      /\ store[release] = Imported(release, run.manifest)
      /\ UNCHANGED <<release, file, store, troubles>>
    BY DEF Activate, Stops, IInv, TypeOK
<1>2. /\ IsManifest(release, m)
      /\ m.shards = run.manifest.shards /\ m.provenance = run.manifest.provenance
    BY <1>1 DEF RunInv, IsRun, IsManifest, Fields
<1> HIDE DEF m
<1>3. store[release] = Imported(release, m)
    BY <1>1, <1>2 DEF Imported
<1>4. Clean(m)
    BY <1>1, <1>2 DEF Clean, RunInv, Material
<1>5. QED
    BY <1>1, <1>2, <1>3, <1>4, SaveStep

LEMMA FailureStep ==
    ASSUME IInv, RecordFailure
    PROVE  IInv'
<1> DEFINE m == [run.manifest EXCEPT !.status = "failed"]
<1>1. /\ release \in Releases /\ run # None
      /\ RunInv(release, run, manifest[release]) /\ Save(m) /\ run' = None
      /\ UNCHANGED <<release, file, store, troubles>>
    BY DEF RecordFailure, Stops, IInv, TypeOK
<1>2. /\ IsManifest(release, m) /\ m.status = "failed"
      /\ m.shards = run.manifest.shards /\ m.provenance = run.manifest.provenance
    BY <1>1 DEF RunInv, IsRun, IsManifest, Fields
<1> HIDE DEF m
<1>3. Clean(m)
    BY <1>1, <1>2 DEF Clean, RunInv, Material
<1>4. QED
    BY <1>1, <1>2, <1>3, SaveStep

-----------------------------------------------------------------------------
(* The steps that leave every manifest alone.                               *)
LEMMA OtherStep ==
    ASSUME IInv, UNCHANGED manifest,
           release' = release \/ (run = None /\ release' \in Releases),
           DOMAIN file' = Releases, DOMAIN store' = Releases,
           \A g \in Releases :
               /\ DOMAIN file'[g] = Shards(g)
               /\ \A i \in Shards(g) : file'[g][i] \in Files(g, i)
               /\ DOMAIN store'[g] \subseteq Corpus(g)
               /\ \A t \in DOMAIN store'[g] : store'[g][t] \in AnySpace
               /\ manifest[g] # None /\ manifest[g].status = "active" => store'[g] = store[g],
           troubles' \in 0 .. MaxTroubles,
           run' = None \/ RunInv(release', run', manifest[release'])
    PROVE  IInv'
<1>1. TypeOK'
  <2>1. release' \in Releases /\ DOMAIN manifest' = Releases
      BY DEF IInv, TypeOK
  <2>2. \A g \in Releases : manifest'[g] # None => IsManifest(g, manifest'[g])
      BY DEF IInv, TypeOK
  <2>3. run' # None => IsRun(release', run')
      BY DEF RunInv
  <2>4. QED
      BY <2>1, <2>2, <2>3 DEF TypeOK
<1>2. ActiveIsStored'
  <2>1. \A g \in Releases :
            manifest[g] # None /\ manifest[g].status = "active"
                => store'[g] = Imported(g, manifest[g])
      BY DEF IInv, ActiveIsStored
  <2>2. QED
      BY <2>1 DEF ActiveIsStored, Imported
<1>3. EmbeddedHoldsNoForeign'
    BY DEF IInv, EmbeddedHoldsNoForeign
<1>4. QED
    BY <1>1, <1>2, <1>3 DEF IInv

(* A shard's file is replaced by one of the right shape.                    *)
LEMMA FileStep ==
    ASSUME IInv, UNCHANGED <<release, manifest, store>>,
           NEW g \in Releases, NEW i \in Shards(g), NEW content \in Files(g, i),
           file' = [file EXCEPT ![g][i] = content],
           troubles' \in 0 .. MaxTroubles,
           run' = None \/ RunInv(release, run', manifest[release])
    PROVE  IInv'
<1>1. DOMAIN file' = Releases /\ \A h \in Releases \ {g} : file'[h] = file[h]
    BY DEF IInv, TypeOK
<1>2. file'[g] = [file[g] EXCEPT ![i] = content]
    BY DEF IInv, TypeOK
<1>3. /\ DOMAIN file'[g] = Shards(g) /\ file'[g][i] = content
      /\ \A j \in Shards(g) \ {i} : file'[g][j] = file[g][j]
    BY <1>2 DEF IInv, TypeOK
<1>4. \A h \in Releases : DOMAIN file'[h] = Shards(h)
                          /\ \A j \in Shards(h) : file'[h][j] \in Files(h, j)
    BY <1>1, <1>3 DEF IInv, TypeOK
<1>5. QED
    BY <1>1, <1>4, OtherStep DEF IInv, TypeOK

LEMMA WriteStep ==
    ASSUME IInv, NEW i \in Shards(release), WriteShard(i)
    PROVE  IInv'
<1>1. /\ release \in Releases /\ run # None /\ run.stage = "embedding"
      /\ RunInv(release, run, manifest[release])
      /\ file' = [file EXCEPT ![release][i] = Built(i)]
      /\ run' = [run EXCEPT !.stage = "recording"]
      /\ UNCHANGED <<release, manifest, store, troubles>>
    BY DEF WriteShard, IInv, TypeOK
<1>2. Built(i) \in Files(release, i)
    BY <1>1, BuiltIsClean DEF Building, Files
<1>3. /\ IsRun(release, run') /\ run'.manifest = run.manifest /\ run'.stage = "recording"
      /\ run'.index = run.index /\ run'.model = run.model /\ run'.pending = run.pending
    BY <1>1 DEF RunInv, IsRun, Stages
<1>4. RunInv(release, run', manifest[release])
    BY <1>1, <1>3 DEF RunInv, Covers, Material, Unmarked, Building
<1>5. QED
    BY <1>1, <1>2, <1>4, FileStep DEF IInv, TypeOK

LEMMA AdoptShardStep ==
    ASSUME IInv, NEW i \in Shards(release), AdoptShard(i)
    PROVE  IInv'
<1> DEFINE content == [t \in ShardsOf[release][i] |-> run.index[t]]
           m == [run.manifest EXCEPT !.shards = With(run.manifest.shards, i, content)]
<1>1. /\ release \in Releases /\ run # None /\ run.stage = "adopting"
      /\ RunInv(release, run, manifest[release])
      /\ file' = [file EXCEPT ![release][i] = content]
      /\ run' = [run EXCEPT !.manifest = m, !.pending = run.pending \ {i}]
      /\ UNCHANGED <<release, manifest, store, troubles>>
  <2>1. /\ release \in Releases /\ run # None /\ run.stage = "adopting"
        /\ RunInv(release, run, manifest[release])
        /\ file' = [file EXCEPT ![release][i] = content]
        /\ UNCHANGED <<release, manifest, store, troubles>>
      BY DEF AdoptShard, IInv, TypeOK
  <2>2. run' = [run EXCEPT !.manifest.shards = With(@, i, content), !.pending = @ \ {i}]
      BY DEF AdoptShard
  <2>3. DOMAIN run = {"stage", "force", "model", "manifest", "pending", "index"}
        /\ DOMAIN run.manifest = Fields
      BY <2>1 DEF RunInv, IsRun, IsManifest
  <2> HIDE DEF content
  <2>4. run' = [run EXCEPT !.manifest = m, !.pending = run.pending \ {i}]
      BY <2>2, <2>3 DEF Fields
  <2>5. QED
      BY <2>1, <2>4
<1>2. content \in Contents(ShardsOf[release][i])
  <2>1. ShardsOf[release][i] \subseteq DOMAIN run.index
      BY <1>1 DEF RunInv, Material, Corpus
  <2>2. \A t \in ShardsOf[release][i] : run.index[t] \in Vectors
      BY <1>1, <2>1 DEF RunInv, IsRun
  <2>3. QED
      BY <2>2 DEF Contents
<1> HIDE DEF content
<1>3. /\ IsManifest(release, m) /\ m.status = run.manifest.status
      /\ m.provenance = run.manifest.provenance
      /\ DOMAIN m.shards = DOMAIN run.manifest.shards \cup {i}
  <2>1. IsManifest(release, run.manifest) /\ release \in Releases
      BY <1>1 DEF RunInv, IsRun
  <2>2. /\ IsManifest(release, m) /\ m.status = run.manifest.status
        /\ m.provenance = run.manifest.provenance /\ m.canary = run.manifest.canary
        /\ m.shards = With(run.manifest.shards, i, content)
        /\ DOMAIN m.shards = DOMAIN run.manifest.shards \cup {i}
        /\ m.shards[i] = content
        /\ \A j \in DOMAIN run.manifest.shards \ {i} : m.shards[j] = run.manifest.shards[j]
      BY <1>2, <2>1, ManifestWith
  <2>3. QED
      BY <2>2
<1> HIDE DEF m
<1>4. /\ IsRun(release, run') /\ run'.manifest = m /\ run'.stage = "adopting"
      /\ run'.index = run.index /\ run'.model = run.model /\ run'.pending = run.pending \ {i}
    BY <1>1, <1>3 DEF RunInv, IsRun
<1>5. RunInv(release, run', manifest[release])
    BY <1>1, <1>3, <1>4 DEF RunInv, Covers, Material, Unmarked, Building, Clean
<1>6. QED
    BY <1>1, <1>2, <1>5, FileStep DEF Files, IInv, TypeOK

LEMMA AdoptStep ==
    ASSUME IInv, NEW vectors \in Legacy(release), Adopt(vectors)
    PROVE  IInv'
<1>1. /\ release \in Releases /\ DOMAIN vectors = Corpus(release)
      /\ \A t \in DOMAIN vectors : vectors[t] \in [space : LegacySpaces, source : {None}]
    BY DEF Legacy, IInv, TypeOK
<1>2. Corpus(release) \subseteq Texts /\ \A t \in DOMAIN vectors : vectors[t] \in Vectors
    BY <1>1, GenerationAssumption DEF Vectors, AnySpace, Corpus, Texts, Shards
<1>3. /\ DOMAIN run' = {"stage", "force", "model", "manifest", "pending", "index"}
      /\ run'.stage = "adopting" /\ run'.force = FALSE /\ run'.model = None
      /\ run'.manifest = Fresh("adopted") /\ run'.pending = Shards(release)
      /\ run'.index = vectors /\ UNCHANGED <<release, manifest, file, store, troubles>>
    BY DEF Adopt
<1>4. /\ IsManifest(release, Fresh("adopted")) /\ Clean(Fresh("adopted"))
      /\ Fresh("adopted").status = "building" /\ Fresh("adopted").provenance = "adopted"
    BY <1>1, FreshManifest
<1>5. IsRun(release, run')
    BY <1>1, <1>2, <1>3, <1>4 DEF IsRun, Stages
<1>6. RunInv(release, run', manifest[release])
    BY <1>1, <1>3, <1>4, <1>5 DEF RunInv, Covers, Material, Unmarked, Building
<1>7. QED
    BY <1>3, <1>6, OtherStep DEF IInv, TypeOK

(* What is imported is a document of the release.                           *)
LEMMA ImportedTyped ==
    ASSUME NEW g \in Releases, NEW m, IsManifest(g, m), Shards(g) \subseteq DOMAIN m.shards
    PROVE  /\ DOMAIN Imported(g, m) = Corpus(g)
           /\ \A t \in Corpus(g) : Imported(g, m)[t] \in AnySpace
<1>1. DOMAIN Imported(g, m) = Corpus(g)
    BY DEF Imported
<1>2. ASSUME NEW t \in Corpus(g) PROVE Imported(g, m)[t] \in AnySpace
  <2> DEFINE i == CHOOSE j \in Shards(g) : t \in ShardsOf[g][j]
  <2>1. i \in Shards(g) /\ t \in ShardsOf[g][i]
      BY DEF Corpus
  <2>2. Imported(g, m)[t] = m.shards[i][t].space
      BY DEF Imported
  <2> HIDE DEF i
  <2>3. m.shards[i] \in [ShardsOf[g][i] -> Vectors]
      BY <2>1 DEF IsManifest, Records, Contents
  <2>4. QED
      BY <2>1, <2>2, <2>3 DEF Vectors
<1>3. QED
    BY <1>1, <1>2

LEMMA ImportStep ==
    ASSUME IInv, Import \/ ImportBreaksOff
    PROVE  IInv'
<1> DEFINE new == Imported(release, run.manifest)
<1>1. /\ release \in Releases /\ run # None /\ run.stage = "importing"
      /\ RunInv(release, run, manifest[release])
      /\ UNCHANGED <<release, manifest, file>> /\ troubles' \in 0 .. MaxTroubles
    BY GenerationAssumption DEF Import, ImportBreaksOff, Trouble, IInv, TypeOK
<1>2. DOMAIN new = Corpus(release) /\ \A t \in Corpus(release) : new[t] \in AnySpace
    BY <1>1, ImportedTyped DEF RunInv, IsRun, Covers
<1>3. \E document :
        /\ store' = [store EXCEPT ![release] = document]
        /\ DOMAIN document \subseteq Corpus(release)
        /\ \A t \in DOMAIN document : document[t] \in AnySpace
  <2>1. CASE Import
      BY <1>2, <2>1 DEF Import
  <2>2. CASE ImportBreaksOff
    <3>1. PICK T \in SUBSET Corpus(release) :
            store' = [store EXCEPT ![release] =
                        [t \in T \cup DOMAIN store[release] |->
                            IF t \in T THEN new[t] ELSE store[release][t]]]
        BY <2>2 DEF ImportBreaksOff
    <3>2. DOMAIN store[release] \subseteq Corpus(release)
          /\ \A t \in DOMAIN store[release] : store[release][t] \in AnySpace
        BY <1>1 DEF IInv, TypeOK
    <3> DEFINE document == [t \in T \cup DOMAIN store[release] |->
                                IF t \in T THEN new[t] ELSE store[release][t]]
    <3> HIDE DEF new
    <3>3. /\ DOMAIN document \subseteq Corpus(release)
          /\ \A t \in DOMAIN document : document[t] \in AnySpace
        BY <1>2, <3>2
    <3>4. store' = [store EXCEPT ![release] = document]
        BY <3>1
    <3> HIDE DEF document
    <3>5. QED
        BY <3>3, <3>4
  <2>3. QED
      BY <2>1, <2>2
<1>4. run' = None \/ RunInv(release, run', manifest[release])
  <2>1. CASE Import
    <3>1. run' = [run EXCEPT !.stage = "activating"]
        BY <2>1 DEF Import
    <3>2. /\ IsRun(release, run') /\ run'.stage = "activating"
          /\ run'.manifest = run.manifest /\ run'.pending = run.pending
        BY <1>1, <3>1 DEF RunInv, IsRun, Stages
    <3>3. QED
        BY <1>1, <3>2 DEF RunInv, Covers, Material, Unmarked, Building
  <2>2. CASE ImportBreaksOff
      BY <2>2 DEF ImportBreaksOff, Stops
  <2>3. QED
      BY <2>1, <2>2
<1>5. manifest[release].status # "active"
    BY <1>1 DEF RunInv, Unmarked
<1>6. QED
  <2>1. /\ DOMAIN store' = Releases
        /\ \A g \in Releases :
              /\ DOMAIN store'[g] \subseteq Corpus(g)
              /\ \A t \in DOMAIN store'[g] : store'[g][t] \in AnySpace
              /\ g # release => store'[g] = store[g]
      BY <1>1, <1>3 DEF IInv, TypeOK
  <2>2. QED
      BY <1>1, <1>4, <1>5, <2>1, OtherStep DEF IInv, TypeOK

LEMMA TroubleStep ==
    ASSUME IInv, BuildFails \/ Kill \/ LoadFails \/ Deploy
    PROVE  IInv'
<1>1. /\ UNCHANGED <<manifest, file, store>> /\ troubles' \in 0 .. MaxTroubles
      /\ release' = release \/ (run = None /\ release' \in Releases /\ run' = None)
    BY GenerationAssumption
       DEF BuildFails, Kill, LoadFails, Deploy, Trouble, Stops, IInv, TypeOK
<1>2. CASE BuildFails
  <2>1. /\ run # None /\ run.stage \in {"canary", "embedding"} /\ release' = release
        /\ run' = [run EXCEPT !.stage = "failing"]
      BY <1>2 DEF BuildFails
  <2>2. RunInv(release, run, manifest[release])
      BY <2>1 DEF IInv
  <2>3. /\ IsRun(release, run') /\ run'.manifest = run.manifest /\ run'.stage = "failing"
        /\ run'.index = run.index /\ run'.model = run.model /\ run'.pending = run.pending
      BY <2>1, <2>2 DEF RunInv, IsRun, Stages
  <2>4. RunInv(release, run', manifest[release])
      BY <2>1, <2>2, <2>3 DEF RunInv, Covers, Material, Unmarked, Building
  <2>5. QED
      BY <1>1, <2>1, <2>4, OtherStep DEF IInv, TypeOK
<1>3. CASE Kill \/ LoadFails \/ Deploy
  <2>1. run' = None
      BY <1>3 DEF Kill, LoadFails, Deploy, Stops
  <2>2. QED
      BY <1>1, <2>1, OtherStep DEF IInv, TypeOK
<1>4. QED
    BY <1>2, <1>3

LEMMA DamageStep ==
    ASSUME IInv, NEW g \in Releases, NEW i \in Shards(g), Damage(g, i)
    PROVE  IInv'
<1>1. /\ UNCHANGED <<release, manifest, store, run>> /\ troubles' \in 0 .. MaxTroubles
      /\ file' = [file EXCEPT ![g][i] = <<>>]
    BY GenerationAssumption DEF Damage, Trouble, IInv, TypeOK
<1>2. <<>> \in Files(g, i)
    BY DEF Files
<1>3. QED
    BY <1>1, <1>2, FileStep DEF IInv

LEMMA InitStep ==
    ASSUME Init
    PROVE  IInv
<1>1. 1 \in Releases /\ 0 \in 0 .. MaxTroubles
    BY GenerationAssumption
<1>2. DOMAIN <<>> = {}
    OBVIOUS
<1>3. /\ DOMAIN manifest = Releases /\ DOMAIN file = Releases /\ DOMAIN store = Releases
      /\ \A g \in Releases : /\ manifest[g] = None /\ store[g] = <<>>
                             /\ DOMAIN file[g] = Shards(g)
                             /\ \A i \in Shards(g) : file[g][i] = <<>>
      /\ run = None
    BY DEF Init
<1>4. TypeOK
    BY <1>1, <1>2, <1>3 DEF Init, TypeOK, Files
<1>5. ActiveIsStored /\ EmbeddedHoldsNoForeign
    BY <1>3 DEF ActiveIsStored, EmbeddedHoldsNoForeign
<1>6. QED
    BY <1>3, <1>4, <1>5 DEF IInv

LEMMA NextStep ==
    ASSUME IInv, [Next]_vars
    PROVE  IInv'
<1>1. CASE Step
  <2>1. CASE CheckReuseCanary
      BY <2>1, CanaryStep
  <2>2. CASE \E i \in Shards(release) : WriteShard(i) \/ RecordShard(i) \/ AdoptShard(i)
      BY <2>2, WriteStep, RecordStep, AdoptShardStep
  <2>3. CASE Validate
      BY <2>3, ValidateStep
  <2>4. CASE LoadFails
      BY <2>4, TroubleStep
  <2>5. CASE Import
      BY <2>5, ImportStep
  <2>6. CASE Activate
      BY <2>6, ActivateStep
  <2>7. CASE RecordFailure
      BY <2>7, FailureStep
  <2>8. QED
      BY <1>1, <2>1, <2>2, <2>3, <2>4, <2>5, <2>6, <2>7 DEF Step
<1>2. CASE \E force, reuse \in BOOLEAN, space \in Spaces : Start(force, reuse, space)
    BY <1>2, StartStep
<1>3. CASE \E vectors \in Legacy(release) : Adopt(vectors)
    BY <1>3, AdoptStep
<1>4. CASE Deploy \/ BuildFails \/ Kill
    BY <1>4, TroubleStep
<1>5. CASE ImportBreaksOff
    BY <1>5, ImportStep
<1>6. CASE \E g \in Releases : \E i \in Shards(g) : Damage(g, i)
    BY <1>6, DamageStep
<1>7. CASE UNCHANGED vars
  <2>1. /\ UNCHANGED <<release, manifest, file, store, troubles>> /\ run' = run
      BY <1>7 DEF vars
  <2>2. TypeOK'
    <3>1. TypeOK
        BY DEF IInv
    <3>2. QED
        BY <2>1, <3>1 DEF TypeOK
  <2>3. ActiveIsStored' /\ EmbeddedHoldsNoForeign'
      BY <2>1 DEF IInv, ActiveIsStored, EmbeddedHoldsNoForeign
  <2>4. run' # None => RunInv(release', run', manifest'[release'])
      BY <2>1 DEF IInv
  <2>5. QED
      BY <2>2, <2>3, <2>4 DEF IInv
<1>8. QED
    BY <1>1, <1>2, <1>3, <1>4, <1>5, <1>6, <1>7 DEF Next

LEMMA Inductive == Spec => []IInv
<1>1. Init => IInv
    BY InitStep
<1>2. IInv /\ [Next]_vars => IInv'
    BY NextStep
<1>3. QED
    BY <1>1, <1>2, PTL DEF Spec

(* Every state has the shape TypeOK gives it: whatever is resumed, adopted, *)
(* reused or damaged, a manifest records only shards of its own release,    *)
(* each as a full map of that shard's texts (embedding_generation.py).      *)
THEOREM TypeCorrect == Spec => []TypeOK
<1>1. IInv => TypeOK
    BY DEF IInv
<1>2. QED
    BY <1>1, Inductive, PTL

(* A manifest that says active describes exactly the vectors the store      *)
(* holds, for any releases and any number of kills, failures and damaged    *)
(* files: the manifest on disk says something else by the time a run        *)
(* touches the store (build_and_activate, adopt_and_activate, _activate).   *)
THEOREM ActiveMatchesStore == Spec => []ActiveIsStored
<1>1. IInv => ActiveIsStored
    BY DEF IInv
<1>2. QED
    BY <1>1, Inductive, PTL

(* Vectors whose model is only attested never reach a generation that says  *)
(* it was embedded, along any chain of reuse (_is_source, docs/adr/0017).   *)
THEOREM EmbeddedIsEmbedded == Spec => []EmbeddedHoldsNoForeign
<1>1. IInv => EmbeddedHoldsNoForeign
    BY DEF IInv
<1>2. QED
    BY <1>1, Inductive, PTL

-----------------------------------------------------------------------------
(* What a build has in hand: the manifest on disk is its own, what is       *)
(* pending does not verify, and what it would reuse has been probed.        *)

(* The manifest a build saved last is the one it goes on with.              *)
Saved(r, m) == r.stage \in Building => m = r.manifest

(* A pending shard that verifies was written a moment ago.                  *)
Unverified(r, f) == r.stage \in {"canary", "embedding", "recording"} =>
    \A i \in r.pending :
        i \in DOMAIN r.manifest.shards /\ r.manifest.shards[i] = f[i]
            => r.stage = "recording" /\ \A j \in r.pending : i <= j

(* The canary comes before the first reused vector.                         *)
Probing(g, r) ==
    /\ r.stage = "canary" => Reusable(g, r.pending, r.index) # {}
    /\ r.stage \in {"embedding", "recording"} /\ Reusable(g, r.pending, r.index) # {} =>
          /\ r.manifest.canary = "passed"
          /\ \E t \in DOMAIN r.index : r.index[t].space = r.model
    /\ r.stage = "adopting" => \A t \in DOMAIN r.index : r.index[t].source = None

InHand(g, r, m, f) == Saved(r, m) /\ Unverified(r, f) /\ Probing(g, r)

WorkInv == IInv /\ (run # None => InHand(release, run, manifest[release], file[release]))

(* A set of numbers has a least one.                                        *)
Below == {p \in Nat \X Nat : p[1] < p[2]}

LEMMA Least ==
    ASSUME NEW T \in SUBSET Nat, T # {}
    PROVE  \E m \in T : \A k \in T : m <= k
<1>1. IsWellFoundedOn(Below, Nat)
  BY NatLessThanWellFounded DEF OpToRel, Below
<1>2. PICK m \in T : \A k \in T : ~(<<k, m>> \in Below)
  BY <1>1, WFMin
<1>3. ASSUME NEW k \in T PROVE m <= k
  <2>1. k \in Nat /\ m \in Nat /\ ~(<<k, m>> \in Below)
    BY <1>2
  <2>2. ~(k < m)
    BY <2>1 DEF Below
  <2> QED BY <2>1, <2>2
<1> QED BY <1>3

(* Where something may be reused, something is probed.                      *)
LEMMA SomethingProbed ==
    ASSUME NEW g \in Releases, NEW pending, NEW index, Reusable(g, pending, index) # {},
           DOMAIN index \subseteq Texts
    PROVE  \E t \in DOMAIN index : t \in Probe(g, pending, index)
<1> DEFINE reusable == Reusable(g, pending, index)
<1>1. reusable \in SUBSET Nat /\ reusable \subseteq DOMAIN index
  BY GenerationAssumption DEF Reusable
<1>2. PICK t \in reusable : \A u \in reusable : t <= u
  BY <1>1, Least
<1>3. {u \in reusable : u < t} = {}
  BY <1>1, <1>2
<1>4. Cardinality({u \in reusable : u < t}) = 0
  BY <1>3, FS_EmptySet
<1>5. Cardinality({u \in reusable : u < t}) < CanarySize
  BY <1>4, GenerationAssumption
<1>6. t \in Probe(g, pending, index)
  BY <1>2, <1>5 DEF Probe
<1> QED BY <1>1, <1>2, <1>6

(* Shards are numbered, so at most one is next.                             *)
LEMMA OneIsNext ==
    ASSUME NEW g \in Releases, NEW i \in Shards(g), NEW j \in Shards(g), i <= j, j <= i
    PROVE  i = j
<1>1. Shards(g) = 1 .. Cardinality(Shards(g)) /\ Cardinality(Shards(g)) \in Nat
  BY GenerationAssumption, FS_CardinalityType DEF Shards
<1>2. i \in Int /\ j \in Int
  BY <1>1
<1> QED BY <1>2

-----------------------------------------------------------------------------
(* The steps, one by one.                                                   *)

LEMMA StartInHand ==
    ASSUME WorkInv, NEW force \in BOOLEAN, NEW reuse \in BOOLEAN, NEW space \in Spaces,
           Start(force, reuse, space)
    PROVE  InHand(release, run', manifest'[release], file[release])
<1>1. PICK index :
        LET m == Resumed(force)
            pending == Pending(release, m)
        IN  /\ Save(m)
            /\ run' = [stage |-> IF Reusable(release, pending, index) = {}
                                 THEN "embedding" ELSE "canary",
                       force |-> force, model |-> space, manifest |-> m,
                       pending |-> pending, index |-> index]
  BY DEF Start
<1> DEFINE m == Resumed(force)
           stage == IF Reusable(release, Pending(release, m), index) = {}
                    THEN "embedding" ELSE "canary"
<1>2. /\ run'.stage = stage /\ run'.manifest = m /\ run'.model = space
      /\ run'.pending = Pending(release, m) /\ run'.index = index
  BY <1>1
<1>3. manifest'[release] = m
  BY <1>1 DEF Save, WorkInv, IInv, TypeOK
<1> HIDE DEF m
<1>4. Unverified(run', file[release])
  BY <1>2 DEF Unverified, Pending, Verified
<1>5. Saved(run', manifest'[release]) /\ Probing(release, run')
  BY <1>2, <1>3 DEF Saved, Probing
<1> QED BY <1>4, <1>5 DEF InHand

LEMMA CanaryInHand ==
    ASSUME WorkInv, CheckReuseCanary
    PROVE  InHand(release, run', manifest'[release], file[release])
<1> DEFINE passed == \A t \in Probe(release, run.pending, run.index) :
                        run.index[t].space = run.model
           c == IF passed THEN "passed" ELSE "failed"
           stage == IF passed THEN "embedding" ELSE "failing"
           m == [run.manifest EXCEPT !.canary = c]
<1>1. /\ release \in Releases /\ run # None /\ run.stage = "canary"
      /\ IsRun(release, run) /\ InHand(release, run, manifest[release], file[release])
      /\ Save(m) /\ run' = [run EXCEPT !.manifest = m, !.stage = stage]
  BY DEF CheckReuseCanary, WorkInv, IInv, TypeOK
<1>2. /\ m.shards = run.manifest.shards /\ m.canary = c
      /\ run'.manifest = m /\ run'.stage = stage /\ run'.pending = run.pending
      /\ run'.index = run.index /\ run'.model = run.model
      /\ manifest'[release] = m
  BY <1>1 DEF IsRun, IsManifest, Fields, Save, WorkInv, IInv, TypeOK
<1>3. stage = "embedding" => \E t \in DOMAIN run.index : run.index[t].space = run.model
  <2> SUFFICES ASSUME stage = "embedding"
               PROVE  \E t \in DOMAIN run.index : run.index[t].space = run.model
    OBVIOUS
  <2>1. passed
    OBVIOUS
  <2>2. Reusable(release, run.pending, run.index) # {} /\ DOMAIN run.index \subseteq Texts
    BY <1>1 DEF InHand, Probing, IsRun
  <2>3. PICK t \in DOMAIN run.index : t \in Probe(release, run.pending, run.index)
    BY <1>1, <2>2, SomethingProbed
  <2> QED BY <2>1, <2>3
<1>4. stage = "embedding" => c = "passed"
  OBVIOUS
<1>5. stage \in {"embedding", "failing"}
  OBVIOUS
<1> HIDE DEF passed, c, stage, m
<1>6. Saved(run', manifest'[release])
  BY <1>2 DEF Saved
<1>7. Unverified(run', file[release])
  BY <1>1, <1>2, <1>5 DEF InHand, Unverified
<1>8. Probing(release, run')
  BY <1>2, <1>3, <1>4, <1>5 DEF Probing
<1> QED BY <1>6, <1>7, <1>8 DEF InHand

(* The next pending shard is written.                                       *)
LEMMA WriteInHand ==
    ASSUME WorkInv, NEW i \in Shards(release), WriteShard(i)
    PROVE  InHand(release, run', manifest'[release], file'[release])
<1>1. /\ release \in Releases /\ run # None /\ run.stage = "embedding" /\ IsNext(i)
      /\ IsRun(release, run) /\ InHand(release, run, manifest[release], file[release])
      /\ run' = [run EXCEPT !.stage = "recording"]
      /\ manifest' = manifest
  BY DEF WriteShard, WorkInv, IInv, TypeOK
<1>2. /\ run'.manifest = run.manifest /\ run'.stage = "recording" /\ run'.pending = run.pending
      /\ run'.index = run.index /\ run'.model = run.model
  BY <1>1 DEF IsRun
<1>3. \A j \in Shards(release) \ {i} : file'[release][j] = file[release][j]
  BY DEF WriteShard, WorkInv, IInv, TypeOK
<1>4. Unverified(run', file'[release])
  <2> SUFFICES ASSUME NEW j \in run.pending, j \in DOMAIN run.manifest.shards,
                      run.manifest.shards[j] = file'[release][j]
               PROVE  \A k \in run.pending : j <= k
    BY <1>2 DEF Unverified
  <2>1. CASE j = i
    BY <1>1, <2>1 DEF IsNext
  <2>2. CASE j # i
    <3>1. j \in Shards(release) /\ file'[release][j] = file[release][j]
      BY <1>1, <1>3, <2>2 DEF IsRun
    <3> QED BY <1>1, <3>1 DEF InHand, Unverified
  <2> QED BY <2>1, <2>2
<1>5. Saved(run', manifest'[release]) /\ Probing(release, run')
  BY <1>1, <1>2 DEF InHand, Saved, Probing, Building
<1> QED BY <1>4, <1>5 DEF InHand

LEMMA RecordInHand ==
    ASSUME WorkInv, NEW i \in Shards(release), RecordShard(i)
    PROVE  InHand(release, run', manifest'[release], file[release])
<1> DEFINE content == Built(i)
           m == [run.manifest EXCEPT !.shards = With(run.manifest.shards, i, content)]
<1>1. /\ release \in Releases /\ run # None /\ run.stage = "recording" /\ IsNext(i)
      /\ IsRun(release, run) /\ InHand(release, run, manifest[release], file[release])
      /\ Save(m)
      /\ run' = [run EXCEPT !.manifest = m, !.pending = run.pending \ {i}, !.stage = "embedding"]
  BY DEF RecordShard, WorkInv, IInv, TypeOK
<1>2. content \in Contents(ShardsOf[release][i])
  BY <1>1, BuiltIsClean DEF Building, WorkInv
<1> HIDE DEF content
<1>3. /\ m.canary = run.manifest.canary
      /\ DOMAIN m.shards = DOMAIN run.manifest.shards \cup {i}
      /\ \A j \in DOMAIN run.manifest.shards \ {i} : m.shards[j] = run.manifest.shards[j]
  BY <1>1, <1>2, ManifestWith DEF IsRun
<1> HIDE DEF m
<1>4. /\ run'.manifest = m /\ run'.stage = "embedding" /\ run'.pending = run.pending \ {i}
      /\ run'.index = run.index /\ run'.model = run.model /\ manifest'[release] = m
  BY <1>1 DEF IsRun, Save, WorkInv, IInv, TypeOK
<1>5. Unverified(run', file[release])
  <2> SUFFICES ASSUME NEW j \in run.pending \ {i}, j \in DOMAIN m.shards,
                      m.shards[j] = file[release][j]
               PROVE  FALSE
    BY <1>4 DEF Unverified
  <2>1. j \in DOMAIN run.manifest.shards /\ run.manifest.shards[j] = file[release][j]
    BY <1>3
  <2>2. \A k \in run.pending : j <= k
    BY <1>1, <2>1 DEF InHand, Unverified
  <2>3. i \in run.pending /\ i <= j /\ j \in Shards(release)
    BY <1>1 DEF IsNext, IsRun
  <2>4. j <= i
    BY <2>2, <2>3
  <2> QED BY <1>1, <2>3, <2>4, OneIsNext
<1>6. Reusable(release, run'.pending, run'.index) \subseteq Reusable(release, run.pending, run.index)
  BY <1>4 DEF Reusable
<1>7. Probing(release, run')
  BY <1>1, <1>3, <1>4, <1>6 DEF InHand, Probing
<1>8. Saved(run', manifest'[release])
  BY <1>4 DEF Saved
<1> QED BY <1>5, <1>7, <1>8 DEF InHand

LEMMA AdoptInHand ==
    ASSUME WorkInv, NEW vectors \in Legacy(release), Adopt(vectors)
    PROVE  InHand(release, run', manifest'[release], file[release])
<1>1. run'.stage = "adopting" /\ run'.index = vectors
  BY DEF Adopt
<1>2. \A t \in DOMAIN vectors : vectors[t].source = None
  BY DEF Legacy
<1> QED BY <1>1, <1>2 DEF InHand, Saved, Unverified, Probing, Building

(* A run that goes on in the same stage, or leaves its build, keeps what it *)
(* has in hand.                                                             *)
LEMMA AdoptShardInHand ==
    ASSUME WorkInv, NEW i \in Shards(release), AdoptShard(i)
    PROVE  InHand(release, run', manifest'[release], file'[release])
<1>1. run # None /\ run.stage = "adopting" /\ IsRun(release, run)
      /\ InHand(release, run, manifest[release], file[release])
  BY DEF AdoptShard, WorkInv, IInv, TypeOK
<1>2. run'.stage = "adopting" /\ run'.index = run.index
  BY <1>1 DEF AdoptShard, IsRun
<1> QED BY <1>1, <1>2 DEF InHand, Saved, Unverified, Probing, Building

LEMMA LaterInHand ==
    ASSUME WorkInv, Validate \/ Import \/ BuildFails
    PROVE  InHand(release, run', manifest'[release], file[release])
<1>1. run # None /\ IsRun(release, run) /\ InHand(release, run, manifest[release], file[release])
  BY DEF Validate, Import, BuildFails, WorkInv, IInv, TypeOK
<1>2. CASE Validate \/ Import
  <2>1. run'.stage \in {"importing", "activating"}
    BY <1>1, <1>2 DEF Validate, Import, IsRun
  <2> QED BY <2>1 DEF InHand, Saved, Unverified, Probing, Building
<1>3. CASE BuildFails
  <2>1. /\ run'.stage = "failing" /\ run'.manifest = run.manifest /\ manifest' = manifest
        /\ run.stage \in Building
    BY <1>1, <1>3 DEF BuildFails, IsRun, Building
  <2> QED BY <1>1, <2>1 DEF InHand, Saved, Unverified, Probing, Building
<1> QED BY <1>2, <1>3

(* A damaged file verifies against no manifest: shards are not empty.       *)
LEMMA DamageInHand ==
    ASSUME WorkInv, run # None, NEW g \in Releases, NEW i \in Shards(g), Damage(g, i)
    PROVE  InHand(release, run', manifest'[release], file'[release])
<1>1. /\ release \in Releases /\ run' = run /\ manifest' = manifest
      /\ IsRun(release, run) /\ InHand(release, run, manifest[release], file[release])
      /\ file' = [file EXCEPT ![g][i] = <<>>]
  BY DEF Damage, WorkInv, IInv, TypeOK
<1>2. \A j \in Shards(release) :
          file'[release][j] = file[release][j] \/ file'[release][j] = <<>>
  BY <1>1 DEF WorkInv, IInv, TypeOK
<1>3. \A j \in DOMAIN run.manifest.shards : run.manifest.shards[j] # <<>>
  <2> SUFFICES ASSUME NEW j \in DOMAIN run.manifest.shards PROVE run.manifest.shards[j] # <<>>
    OBVIOUS
  <2>1. j \in Shards(release) /\ run.manifest.shards[j] \in [ShardsOf[release][j] -> Vectors]
    BY <1>1 DEF IsRun, IsManifest, Records, Contents
  <2>2. DOMAIN run.manifest.shards[j] # {}
    BY <1>1, <2>1, GenerationAssumption DEF Shards
  <2> QED BY <2>2
<1>4. Unverified(run, file'[release])
  BY <1>1, <1>2, <1>3 DEF InHand, Unverified, IsRun
<1> QED BY <1>1, <1>4 DEF InHand

LEMMA WorkStep ==
    ASSUME WorkInv, [Next]_vars
    PROVE  WorkInv'
<1>1. IInv'
  BY NextStep DEF WorkInv
<1>2. SUFFICES ASSUME run' # None
               PROVE  InHand(release', run', manifest'[release'], file'[release'])
  BY <1>1 DEF WorkInv
<1>3. CASE CheckReuseCanary
  BY <1>3, CanaryInHand DEF CheckReuseCanary
<1>4. ASSUME NEW i \in Shards(release), WriteShard(i) \/ RecordShard(i) \/ AdoptShard(i)
      PROVE  InHand(release', run', manifest'[release'], file'[release'])
  <2>1. CASE WriteShard(i)
    BY <2>1, WriteInHand DEF WriteShard
  <2>2. CASE RecordShard(i)
    <3>1. release' = release /\ file' = file
      BY <2>2, Zenon DEF RecordShard
    <3>2. InHand(release, run', manifest'[release], file[release])
      BY <2>2, RecordInHand
    <3> QED BY <3>1, <3>2
  <2>3. CASE AdoptShard(i)
    <3>1. release' = release
      BY <2>3, Zenon DEF AdoptShard
    <3>2. InHand(release, run', manifest'[release], file'[release])
      BY <2>3, AdoptShardInHand
    <3> QED BY <3>1, <3>2
  <2> QED BY <1>4, <2>1, <2>2, <2>3
<1>5. CASE Validate \/ Import \/ BuildFails
  BY <1>5, LaterInHand DEF Validate, Import, BuildFails
<1>6. CASE LoadFails \/ Activate \/ RecordFailure \/ Deploy \/ Kill \/ ImportBreaksOff
  BY <1>2, <1>6 DEF LoadFails, Activate, RecordFailure, Deploy, Kill, ImportBreaksOff, Stops
<1>7. ASSUME NEW force \in BOOLEAN, NEW reuse \in BOOLEAN, NEW space \in Spaces,
             Start(force, reuse, space)
      PROVE  InHand(release', run', manifest'[release'], file'[release'])
  BY <1>7, StartInHand DEF Start
<1>8. ASSUME NEW vectors \in Legacy(release), Adopt(vectors)
      PROVE  InHand(release', run', manifest'[release'], file'[release'])
  BY <1>8, AdoptInHand DEF Adopt
<1>9. ASSUME NEW g \in Releases, NEW i \in Shards(g), Damage(g, i)
      PROVE  InHand(release', run', manifest'[release'], file'[release'])
  BY <1>2, <1>9, DamageInHand DEF Damage
<1>10. CASE UNCHANGED vars
  BY <1>2, <1>10 DEF vars, WorkInv
<1> QED BY <1>3, <1>4, <1>5, <1>6, <1>7, <1>8, <1>9, <1>10 DEF Next, Step

LEMMA WorkIsInHand == Spec => []WorkInv
<1>1. Init => WorkInv
  BY InitStep DEF Init, WorkInv
<1>2. WorkInv /\ [Next]_vars => WorkInv'
  BY WorkStep
<1> QED BY <1>1, <1>2, PTL DEF Spec

-----------------------------------------------------------------------------
(* Which steps write a shard of the deployed release.                       *)
LEMMA Writers ==
    ASSUME WorkInv, [Next]_vars, NEW i \in Shards(release), file'[release][i] # file[release][i]
    PROVE  \/ WriteShard(i) \/ AdoptShard(i)
           \/ file'[release][i] = <<>> /\ troubles' # troubles
<1>0. release \in Releases /\ DOMAIN file = Releases /\ DOMAIN file[release] = Shards(release)
  BY DEF WorkInv, IInv, TypeOK
<1>1. ASSUME NEW j \in Shards(release), WriteShard(j) \/ AdoptShard(j) PROVE j = i
  <2>1. \E content : file' = [file EXCEPT ![release][j] = content]
    BY <1>1 DEF WriteShard, AdoptShard
  <2> QED BY <1>0, <2>1
<1>2. ASSUME NEW g \in Releases, NEW j \in Shards(g), Damage(g, j)
      PROVE  file'[release][i] = <<>> /\ troubles' # troubles
  <2>1. file' = [file EXCEPT ![g][j] = <<>>] /\ troubles' = troubles + 1 /\ troubles \in Nat
    BY <1>2, GenerationAssumption DEF Damage, Trouble, WorkInv, IInv, TypeOK
  <2>2. file'[release][i] = <<>>
    BY <1>0, <2>1
  <2> QED BY <2>1, <2>2
<1>3. ASSUME file' = file PROVE FALSE
  BY <1>3
<1>4. CASE Step
  <2>1. CASE \E j \in Shards(release) : WriteShard(j) \/ AdoptShard(j)
    BY <1>1, <2>1
  <2>2. CASE \E j \in Shards(release) : RecordShard(j)
    BY <1>3, <2>2 DEF RecordShard
  <2>3. CASE CheckReuseCanary \/ Validate \/ LoadFails \/ Import \/ Activate \/ RecordFailure
    BY <1>3, <2>3 DEF CheckReuseCanary, Validate, LoadFails, Import, Activate, RecordFailure
  <2> QED BY <1>4, <2>1, <2>2, <2>3 DEF Step
<1>5. CASE \/ \E force, reuse \in BOOLEAN, space \in Spaces : Start(force, reuse, space)
           \/ \E vectors \in Legacy(release) : Adopt(vectors)
           \/ Deploy \/ BuildFails \/ Kill \/ ImportBreaksOff \/ UNCHANGED vars
  BY <1>3, <1>5 DEF Start, Adopt, Deploy, BuildFails, Kill, ImportBreaksOff, vars
<1> QED BY <1>2, <1>4, <1>5 DEF Next

(* A run never writes over a shard that verifies: neither a resumed build   *)
(* nor, as its manifest is new, a forced one.  What is embedded once and    *)
(* recorded is not embedded again (_pending_shards).                        *)
Keeps ==
    run # None /\ run.stage = "embedding" /\ ~run.force /\ manifest[release] # None =>
        \A i \in Shards(release) :
            Verified(release, manifest[release], i) /\ troubles' = troubles
                => file'[release][i] = file[release][i]

THEOREM WorkIsKept == Spec => ResumeKeepsWork
<1>1. WorkInv /\ [Next]_vars => [Keeps]_vars
  <2> SUFFICES ASSUME WorkInv, [Next]_vars, run # None, run.stage = "embedding",
                      NEW i \in Shards(release), Verified(release, manifest[release], i),
                      troubles' = troubles, file'[release][i] # file[release][i]
               PROVE  FALSE
    BY DEF Keeps
  <2>1. WriteShard(i)
    BY Writers DEF AdoptShard
  <2>2. i \in run.pending
    BY <2>1 DEF WriteShard, IsNext
  <2>3. InHand(release, run, manifest[release], file[release])
    BY DEF WorkInv
  <2>4. run.manifest = manifest[release]
    BY <2>3 DEF InHand, Saved, Building
  <2> QED BY <2>2, <2>3, <2>4 DEF InHand, Unverified, Verified
<1> QED BY <1>1, WorkIsInHand, PTL DEF ResumeKeepsWork, Keeps, Spec

(* No vector is reused unprobed: a shard with reused vectors is written     *)
(* only under a manifest that says the canary passed, and by a run whose    *)
(* model did agree with a reused vector (_check_reuse_canary).              *)
Probed ==
    \A i \in Shards(release) :
        /\ file'[release][i] # file[release][i]
        /\ \E t \in DOMAIN file'[release][i] : file'[release][i][t].source # None
        => /\ manifest[release].canary = "passed"
           /\ \E t \in DOMAIN run.index : run.index[t].space = run.model

THEOREM ReuseAfterCanary == Spec => ReuseIsProbed
<1>1. WorkInv /\ [Next]_vars => [Probed]_vars
  <2> SUFFICES ASSUME WorkInv, [Next]_vars, NEW i \in Shards(release),
                      file'[release][i] # file[release][i],
                      NEW t \in DOMAIN file'[release][i], file'[release][i][t].source # None
               PROVE  /\ manifest[release].canary = "passed"
                      /\ \E u \in DOMAIN run.index : run.index[u].space = run.model
    BY DEF Probed
  <2>0. release \in Releases /\ DOMAIN file = Releases /\ DOMAIN file[release] = Shards(release)
    BY DEF WorkInv, IInv, TypeOK
  <2>1. CASE WriteShard(i)
    <3>1. /\ run # None /\ run.stage = "embedding" /\ i \in run.pending
          /\ file'[release][i] = Built(i)
          /\ InHand(release, run, manifest[release], file[release])
      BY <2>0, <2>1 DEF WriteShard, IsNext, WorkInv
    <3>2. t \in ShardsOf[release][i] /\ t \in DOMAIN run.index
      BY <3>1 DEF Built
    <3>3. Reusable(release, run.pending, run.index) # {}
      BY <3>1, <3>2 DEF Reusable
    <3> QED BY <3>1, <3>3 DEF InHand, Saved, Probing, Building
  <2>2. CASE AdoptShard(i)
    <3>1. /\ run # None /\ run.stage = "adopting"
          /\ file'[release][i] = [u \in ShardsOf[release][i] |-> run.index[u]]
          /\ Material(release, run)
          /\ InHand(release, run, manifest[release], file[release])
      BY <2>0, <2>2 DEF AdoptShard, WorkInv, IInv, RunInv
    <3>2. t \in DOMAIN run.index /\ file'[release][i][t] = run.index[t]
      BY <3>1 DEF Material, Corpus
    <3> QED BY <3>1, <3>2 DEF InHand, Probing
  <2>3. CASE file'[release][i] = <<>>
    BY <2>3
  <2> QED BY <2>1, <2>2, <2>3, Writers
<1> QED BY <1>1, WorkIsInHand, PTL DEF ReuseIsProbed, Probed, Spec
=============================================================================
