---------------------------- MODULE LegalSources ----------------------------
(***************************************************************************)
(* How the legal corpus comes to be.  A maintainer refreshes the pinned page *)
(* of a statute (app/consumer/update_statute_snapshot.py) and promotes it    *)
(* after a comparison; a generator writes lay aliases of the units article   *)
(* by article (alias_generation.py) and a person reviews them; every process *)
(* verifies the files while it loads the corpus (statutes/snapshot.py,       *)
(* legal_corpus.py).  All of them share the files and nothing else.          *)
(* A page is a sequence of paragraphs; statutes/parser.py makes units of it. *)
(* Laws are numbered in corpus order.                                        *)
(***************************************************************************)
EXTENDS Integers, Sequences, FiniteSets, SequencesExt, FiniteSetsExt

CONSTANTS
    Laws,             \* 1 .. n, in the order they are loaded
    AliasLaws,        \* ALIAS_LAW_IDS
    Pages,            \* Pages[l]: what the official page or a local copy of it may hold
    LastArticle,      \* LastArticle[l]: the statute's last article
    ArticleLevelMin,  \* ARTICLE_LEVEL_MIN_SUBDIVISIONS
    InitialAliases,   \* alias files earlier versions of the generator left
    MaxRefreshes, MaxRuns, MaxEdits, MaxEvents   \* bounds, of each and of all together

Forms == {"heading", "article", "paragraph", "inciso", "alinea", "amendment", "note", "end"}

ParagraphOK(p) ==
    /\ p.form \in Forms /\ p.number \in Nat
    /\ p.citable \in BOOLEAN                       \* of a heading: its division
    /\ p.active \in BOOLEAN /\ p.defense \in BOOLEAN
    /\ p.amends \in BOOLEAN                        \* instructs to amend another statute

VARIABLES
    disk,      \* snapshot and manifest of each law, and the alias file
    refresh,   \* the maintainer's refresh in progress
    load,      \* the corpus being loaded, for a service or for the generator
    served,    \* the corpus the last service that started serves
    run,       \* the generator's run
    approved,  \* history: the pages a person compared with the official one
    answered,  \* history: the answers the model gave
    used       \* bound: what has been started

vars == <<disk, refresh, load, served, run, approved, answered, used>>

-----------------------------------------------------------------------------
(* Parsing.                                                                 *)
LastOf(page, i, form) == Max({j \in 1 .. i : page[j].form = form} \cup {0})

EndOf(page) == Min({j \in DOMAIN page : page[j].form = "end"} \cup {Len(page) + 1})

(* The article a paragraph stands in; a heading closes it.                  *)
ArticleAt(page, i) ==
    LET a == LastOf(page, i, "article") IN IF a > LastOf(page, i, "heading") THEN a ELSE 0

ParagraphAt(page, i) ==
    LET p == LastOf(page, i, "paragraph") IN IF p > ArticleAt(page, i) THEN p ELSE 0

IncisoAt(page, i) ==
    LET n == LastOf(page, i, "inciso")
    IN  IF n > ArticleAt(page, i) /\ n > ParagraphAt(page, i) THEN n ELSE 0

NumberAt(page, j) == IF j = 0 THEN 0 ELSE page[j].number

Articles(page) == {i \in 1 .. EndOf(page) - 1 : page[i].form = "article"}

(* Articles in sequence to the last one and the signature after it.         *)
Complete(l, page) ==
    /\ EndOf(page) <= Len(page)
    /\ Cardinality(Articles(page)) = LastArticle[l]
    /\ \A i \in Articles(page) : page[i].number = Cardinality({j \in Articles(page) : j <= i})

Loose == {"amendment", "note"}

Fragment(page, i) ==
    LET form == page[i].form
    IN  IF form \in Loose THEN <<form, 0, 0, 0>>
        ELSE <<"", NumberAt(page, ParagraphAt(page, i)), NumberAt(page, IncisoAt(page, i)),
               IF form = "alinea" THEN page[i].number ELSE 0>>

(* A repeated label gets an ordinal.                                        *)
Nth(page, i) ==
    Cardinality({j \in ArticleAt(page, i) .. i : Fragment(page, j) = Fragment(page, i)})

UnitAt(l, page, i) ==
    LET p == page[i]
        a == ArticleAt(page, i)
    IN  [key |-> <<l, page[a].number, Fragment(page, i), Nth(page, i)>>, law |-> l, article |-> page[a].number,
         place |-> i, kind |-> p.form, body |-> p.body, active |-> p.active, defense |-> p.defense, amends |-> p.amends,
         citable |-> page[LastOf(page, i, "heading")].citable,
         paragraph |-> IF p.form = "amendment" THEN p.number ELSE NumberAt(page, ParagraphAt(page, i)),
         inciso |-> IF p.form = "amendment" THEN 0 ELSE NumberAt(page, IncisoAt(page, i)),
         alinea |-> IF p.form = "alinea" THEN p.number ELSE 0]

Units(l, page) == {UnitAt(l, page, i) : i \in {j \in 1 .. EndOf(page) - 1 : ArticleAt(page, j) # 0}}

(* Parsed once.                                                             *)
Parsed == [l \in Laws |-> [n \in DOMAIN Pages[l] |-> Units(l, Pages[l][n])]]

Statuses == {"generated", "declined", "reviewed", "rejected"}

EntryOK(e) ==
    /\ DOMAIN e = {"key", "source", "status", "prompt"}
    /\ e.status \in Statuses /\ e.prompt \in {"old", "current"}

(* An alias file has at most one entry of a unit.                           *)
OneEach(entries) == \A e, f \in entries : e.key = f.key => e = f

ASSUME SourcesAssumption ==
    /\ IsFiniteSet(Laws) /\ Laws # {} /\ Laws = 1 .. Cardinality(Laws)
    /\ \A entries \in InitialAliases : OneEach(entries) /\ \A e \in entries : EntryOK(e)
    /\ AliasLaws \subseteq Laws /\ ArticleLevelMin \in Nat /\ {MaxRefreshes, MaxRuns, MaxEdits, MaxEvents} \subseteq Nat
    /\ \A l \in Laws : /\ 1 \in DOMAIN Pages[l] /\ Complete(l, Pages[l][1])
                       /\ \A n \in DOMAIN Pages[l] : /\ Pages[l][n] \in Seq(Range(Pages[l][n])) /\ Pages[l][n][1].form = "heading"
                                                     /\ \A p \in Range(Pages[l][n]) : ParagraphOK(p)

-----------------------------------------------------------------------------
(* The units of a corpus: pages[l] is the number of the page of law l.      *)
Corpus(pages) == UNION {Parsed[l][pages[l]] : l \in Laws}

Siblings(corpus, u) == {v \in corpus : v.law = u.law /\ v.article = u.article}

(* An article that amends or only transcribes another statute is never      *)
(* indexed.                                                                 *)
AmendmentOnly(corpus, u) ==
    LET siblings == Siblings(corpus, u)
        kinds == {v.kind : v \in siblings}
    IN  \/ \E v \in siblings : v.kind = "article" /\ v.amends
        \/ "amendment" \in kinds /\ kinds \subseteq {"amendment", "article", "note"}

Retrievable(corpus) == {u \in corpus : u.citable /\ ~AmendmentOnly(corpus, u)}

(* The units an inciso or alinea hangs from, outermost first; that a long   *)
(* chain loses its outermost words is left out.                             *)
LeadIns(corpus, u) ==
    {v \in Siblings(corpus, u) :
        /\ u.kind \in {"inciso", "alinea"} /\ v.key # u.key /\ v.active
        /\ \/ v.kind = "article"
           \/ u.paragraph # 0 /\ v.paragraph = u.paragraph /\ v.inciso = 0 /\ v.alinea = 0
           \/ u.alinea # 0 /\ v.paragraph = u.paragraph /\ v.inciso = u.inciso /\ v.alinea = 0}

(* The text an alias is written from, what the unit hangs from in the order *)
(* of the page and then the unit; its hash pins the alias.                  *)
Source(corpus, u) ==
    LET above == LeadIns(corpus, u)
        nth(k) == CHOOSE v \in above : Cardinality({w \in above : w.place < v.place}) = k - 1
    IN  [k \in 1 .. Cardinality(above) |-> nth(k).body] \o <<u.body>>

Covered(corpus) == {u \in Retrievable(corpus) : u.law \in AliasLaws}

Aliasable(corpus) == {u \in Covered(corpus) : u.kind # "amendment" /\ u.active}

(* A defense is never sent to the model, nor what hangs from one.           *)
ExcludedAlone(corpus, u) == u.defense

Excluded(corpus, u) == u.defense \/ \E v \in LeadIns(corpus, u) : v.defense

Requestable(corpus) == {u \in Aliasable(corpus) : ~Excluded(corpus, u)}

Keys(things) == {x.key : x \in things}

Of(things, key) == CHOOSE x \in things : x.key = key

Indexed(entries) == {e \in entries : e.status \in {"generated", "reviewed"}}

(* What stops a corpus from loading with these aliases.                     *)
Mismatched(corpus, e) ==
    \/ e.key \notin Keys(corpus)
    \/ /\ e \in Indexed({e})
       /\ Excluded(corpus, Of(corpus, e.key)) \/ e.source # Source(corpus, Of(corpus, e.key))

Accepts(corpus, entries) ==
    \A e \in entries : ~Mismatched(corpus, e) /\ Of(corpus, e.key).law \in AliasLaws

(* The chunks of the index: units, whole articles, aliases.                 *)
Chunks(corpus, entries) ==
    LET inForce  == {u \in Retrievable(corpus) : u.kind # "amendment" /\ u.active}
        parts(u) == {v \in Siblings(corpus, u) : v.kind \in {"inciso", "alinea"} /\ v.active}
    IN  {<<"unit", u.key>> : u \in inForce}
        \cup {<<"article", <<u.law, u.article>>>> : u \in {v \in inForce : Cardinality(parts(v)) >= ArticleLevelMin}}
        \cup {<<"alias", e.key>> : e \in {f \in Indexed(entries) : f.key \in Keys(Aliasable(corpus))}}

-----------------------------------------------------------------------------
Pinned(page, raw, status) == [page |-> page, raw |-> raw, status |-> status]

IdleRefresh == [phase |-> "idle", law |-> 0, page |-> 0, raw |-> 0]

IdleLoad == [phase |-> "idle", purpose |-> "serve", read |-> <<>>, aliases |-> {}]

IdleRun == [phase |-> "idle", pages |-> <<>>, todo |-> {}, entries |-> {}, dirty |-> FALSE, pending |-> {},
            failed |-> FALSE, review |-> {}, full |-> TRUE, force |-> FALSE]

NothingServed == [made |-> FALSE, pages |-> <<>>, manifests |-> <<>>, aliases |-> {}]

Init ==
    /\ \E entries \in InitialAliases :
         disk = [snapshot |-> [l \in Laws |-> [page |-> 1, raw |-> 1]],
                 manifest |-> [l \in Laws |-> Pinned(1, 1, "validated")], aliases |-> entries]
    /\ refresh = IdleRefresh /\ load = IdleLoad /\ served = NothingServed /\ run = IdleRun
    /\ approved = {<<l, 1>> : l \in Laws}
    /\ answered = {}
    /\ used = [refreshes |-> 0, runs |-> 0, edits |-> 0]

Started == used.refreshes + used.runs + used.edits

(* The maintainer.  Two downloads of one text differ in their bytes.        *)
(* A page that does not parse, or parses to the pinned text, writes nothing. *)
BeginRefresh(l, page, raw, force) ==
    /\ refresh.phase = "idle" /\ used.refreshes < MaxRefreshes /\ Started < MaxEvents
    /\ Complete(l, Pages[l][page])
    /\ raw # disk.snapshot[l].raw
    /\ force \/ disk.manifest[l].page # page
    /\ refresh' = [phase |-> "snapshot", law |-> l, page |-> page, raw |-> raw]
    /\ used' = [used EXCEPT !.refreshes = @ + 1]
    /\ UNCHANGED <<disk, load, served, run, approved, answered>>

WriteSnapshot ==
    /\ refresh.phase = "snapshot"
    /\ disk' = [disk EXCEPT !.snapshot[refresh.law] = [page |-> refresh.page, raw |-> refresh.raw]]
    /\ refresh' = [refresh EXCEPT !.phase = "manifest"]
    /\ UNCHANGED <<load, served, run, approved, answered, used>>

NewManifest == Pinned(refresh.page, refresh.raw, "pending")

WriteManifest ==
    /\ refresh.phase = "manifest"
    /\ disk' = [disk EXCEPT !.manifest[refresh.law] = NewManifest]
    /\ refresh' = IdleRefresh
    /\ UNCHANGED <<load, served, run, approved, answered, used>>

RefreshDies ==
    /\ refresh.phase # "idle"
    /\ refresh' = IdleRefresh
    /\ UNCHANGED <<disk, load, served, run, approved, answered, used>>

(* A person promotes what a finished refresh wrote, after comparing it.     *)
Promote(l) ==
    /\ refresh.phase = "idle" /\ disk.manifest[l].status = "pending"
    /\ disk.snapshot[l] = [page |-> disk.manifest[l].page, raw |-> disk.manifest[l].raw]
    /\ disk' = [disk EXCEPT !.manifest[l].status = "validated"]
    /\ approved' = approved \cup {<<l, disk.manifest[l].page>>}
    /\ UNCHANGED <<refresh, load, served, run, answered, used>>

-----------------------------------------------------------------------------
(* Loading: each law's manifest and then its page, the alias file, and the  *)
(* manifests once more.  A service starts between two runs only: it reads   *)
(* the alias file once, and a run that stops leaves what a running one has. *)
Reading == Len(load.read)

BeginLoad(purpose) ==
    /\ load.phase = "idle" /\ run.phase \in {"idle", "ended"}
    /\ purpose = "generate" => used.runs < MaxRuns /\ Started < MaxEvents
    /\ load' = [IdleLoad EXCEPT !.phase = "manifest", !.purpose = purpose]
    /\ IF purpose = "generate"
       THEN run' = IdleRun /\ used' = [used EXCEPT !.runs = @ + 1] /\ UNCHANGED served
       ELSE served' = NothingServed /\ UNCHANGED <<run, used>>
    /\ UNCHANGED <<disk, refresh, approved, answered>>

Usable(manifest) == manifest.status # "pending"

ReadManifest ==
    /\ load.phase = "manifest"
    /\ LET l == Reading + 1
       IN  load' = IF Usable(disk.manifest[l])
                   THEN [load EXCEPT !.phase = "page", !.read = Append(@, disk.manifest[l])]
                   ELSE IdleLoad
    /\ UNCHANGED <<disk, refresh, served, run, approved, answered, used>>

Verified(l, manifest) == disk.snapshot[l] = [page |-> manifest.page, raw |-> manifest.raw]

ReadPage ==
    /\ load.phase = "page"
    /\ load' = IF ~Verified(Reading, load.read[Reading]) THEN IdleLoad
               ELSE [load EXCEPT !.phase = IF Reading < Cardinality(Laws) THEN "manifest"
                                           ELSE IF load.purpose = "serve" THEN "aliases" ELSE "build"]
    /\ UNCHANGED <<disk, refresh, served, run, approved, answered, used>>

ReadAliases ==
    /\ load.phase = "aliases"
    /\ load' = [load EXCEPT !.phase = "build", !.aliases = disk.aliases]
    /\ UNCHANGED <<disk, refresh, served, run, approved, answered, used>>

LoadedPages == [l \in Laws |-> load.read[l].page]

ProvenAsRead == \A l \in Laws : Usable(disk.manifest[l])

Proven ==
    \A l \in Laws : /\ Usable(disk.manifest[l])
                    /\ <<load.read[l].page, load.read[l].raw>> = <<disk.manifest[l].page, disk.manifest[l].raw>>

Build ==
    /\ load.phase = "build" /\ load.purpose = "serve"
    /\ load' = IdleLoad
    /\ served' = IF Proven /\ Accepts(Corpus(LoadedPages), load.aliases)
                 THEN [made |-> TRUE, pages |-> LoadedPages, manifests |-> disk.manifest, aliases |-> load.aliases]
                 ELSE NothingServed
    /\ UNCHANGED <<disk, refresh, run, approved, answered, used>>

-----------------------------------------------------------------------------
(* The generator.                                                           *)
Owned(e) == e.status \in {"generated", "declined"}

(* The generator's own entries of units it no longer asks about.            *)
Pruned(entries, corpus) == {e \in entries : Owned(e) /\ e.key \notin Keys(Requestable(corpus))}

(* What only a person can settle.                                           *)
Unsettled(entries, corpus) ==
    {e \in entries :
        \/ /\ e.key \in Keys(Requestable(corpus)) /\ e.status = "reviewed"
           /\ e.source # Source(corpus, Of(corpus, e.key))
        \/ /\ e.key \notin Keys(Requestable(corpus)) /\ ~Owned(e)
           /\ e.key \notin Keys(Aliasable(corpus)) \/ e.status = "reviewed"}

Provision(u) == <<u.law, u.article>>

Earlier(p, q) == p[1] < q[1] \/ (p[1] = q[1] /\ p[2] < q[2])

BeginRun(only, force) ==
    /\ load.phase = "build" /\ load.purpose = "generate"
    /\ load' = IdleLoad
    /\ LET corpus   == Corpus(LoadedPages)
           requests == {Provision(u) : u \in Requestable(corpus)}
           pruned   == Pruned(disk.aliases, corpus)
       IN  /\ only \subseteq requests
           /\ run' = IF ~Proven THEN IdleRun
                     ELSE [IdleRun EXCEPT !.phase = "ready", !.pages = LoadedPages, !.full = only = {},
                                          !.todo = IF only = {} THEN requests ELSE only, !.force = force,
                                          !.entries = disk.aliases \ pruned, !.dirty = pruned # {},
                                          !.review = Unsettled(disk.aliases, corpus)]
           /\ answered' = IF Proven THEN {a \in answered : a[1] \in Keys(Requestable(corpus))} ELSE answered
    /\ UNCHANGED <<disk, refresh, served, approved, used>>

Outdated(entries, corpus, u) ==
    \/ u.key \notin Keys(entries)
    \/ LET e == Of(entries, u.key) IN Owned(e) /\ (e.prompt = "old" \/ e.source # Source(corpus, u))

Pending(p) ==
    LET corpus == Corpus(run.pages)
    IN  {u \in Requestable(corpus) : Provision(u) = p /\ (run.force \/ Outdated(run.entries, corpus, u))}

Asked == {p \in run.todo : Pending(p) # {}}

Ask ==
    /\ run.phase = "ready" /\ Asked # {}
    /\ LET p == CHOOSE q \in Asked : \A r \in Asked \ {q} : Earlier(q, r)
       IN  run' = [run EXCEPT !.phase = "asking", !.pending = Keys(Pending(p)),
                              !.todo = {q \in @ : Earlier(p, q)}]
    /\ UNCHANGED <<disk, refresh, load, served, approved, answered, used>>

ReplacedForced(entries, new) == {e \in entries : e.key \notin Keys(new)} \cup new

(* A stale entry of the generator's goes when its unit got no answer; what  *)
(* a person settled stays unless a forced run brings aliases.               *)
ReplacedKeepingMissing(entries, new) ==
    LET installed == {n \in new : \A e \in entries : e.key = n.key => Owned(e) \/ n.status # "declined"}
    IN  {e \in entries : e.key \notin Keys(installed)} \cup installed

Replaced(entries, new) ==
    LET installed == {n \in new : \A e \in entries : e.key = n.key => Owned(e) \/ n.status # "declined"}
        missing   == {e \in entries : Owned(e) /\ e.key \in run.pending \ Keys(new)}
    IN  {e \in entries \ missing : e.key \notin Keys(installed)} \cup installed

SavedLate(entries, changed) == disk

Saved(entries, changed) == IF changed THEN [disk EXCEPT !.aliases = entries] ELSE disk

(* The model names some of the units and declines some of those it names.   *)
Answer(named, declined) ==
    /\ run.phase = "asking" /\ named \in SUBSET run.pending \ {{}} /\ declined \subseteq named
    /\ LET corpus  == Corpus(run.pages)
           new     == {[key |-> k, source |-> Source(corpus, Of(corpus, k)), prompt |-> "current",
                        status |-> IF k \in declined THEN "declined" ELSE "generated"] : k \in named}
           entries == Replaced(run.entries, new)
           changed == run.dirty \/ entries # run.entries
       IN  /\ disk' = Saved(entries, changed)
           /\ run' = [run EXCEPT !.phase = "ready", !.pending = {}, !.entries = entries, !.dirty = FALSE]
           /\ answered' = {a \in answered : a[1] \notin run.pending} \cup {<<n.key, n.source>> : n \in new}
    /\ UNCHANGED <<refresh, load, served, approved, used>>

(* An answer about none of the units asked about changes nothing.           *)
AnswerNothing ==
    /\ run.phase = "asking"
    /\ run' = [run EXCEPT !.phase = "ready", !.pending = {}, !.failed = TRUE]
    /\ UNCHANGED <<disk, refresh, load, served, approved, answered, used>>

EndRun ==
    /\ run.phase = "ready" /\ Asked = {}
    /\ disk' = Saved(run.entries, run.dirty)
    /\ run' = [run EXCEPT !.phase = "ended", !.todo = {}, !.entries = {}, !.force = FALSE, !.dirty = FALSE]
    /\ UNCHANGED <<refresh, load, served, approved, answered, used>>

(* The model's error ends the run, and so does a kill.                      *)
RunStops ==
    /\ run.phase \in {"ready", "asking"}
    /\ run' = IdleRun
    /\ UNCHANGED <<disk, refresh, load, served, approved, answered, used>>

(* A person settles or removes an entry between two runs.                   *)
Settle(e, status) ==
    /\ run.phase \in {"idle", "ended"} /\ used.edits < MaxEdits /\ Started < MaxEvents
    /\ e.status # "declined" /\ status # e.status
    /\ disk' = [disk EXCEPT !.aliases =
                   (@ \ {e}) \cup (IF status = "removed" THEN {} ELSE {[e EXCEPT !.status = status]})]
    /\ answered' = {a \in answered : a[1] # e.key}
    /\ run' = IdleRun
    /\ used' = [used EXCEPT !.edits = @ + 1]
    /\ UNCHANGED <<refresh, load, served, approved>>

Next ==
    \/ \E l \in Laws, raw \in 1 .. 2, force \in BOOLEAN : \E page \in DOMAIN Pages[l] : BeginRefresh(l, page, raw, force)
    \/ WriteSnapshot \/ WriteManifest \/ RefreshDies
    \/ \E l \in Laws : Promote(l)
    \/ \E purpose \in {"serve", "generate"} : BeginLoad(purpose)
    \/ ReadManifest \/ ReadPage \/ ReadAliases \/ Build
    \/ \E only \in {{}} \cup {{p} : p \in Laws \X (1 .. Max({LastArticle[l] : l \in Laws}))}, force \in BOOLEAN : BeginRun(only, force)
    \/ Ask \/ AnswerNothing \/ EndRun \/ RunStops
    \/ \E named, declined \in SUBSET run.pending : Answer(named, declined)
    \/ \E e \in disk.aliases, status \in {"generated", "reviewed", "rejected", "removed"} : Settle(e, status)

Spec == Init /\ [][Next]_vars

-----------------------------------------------------------------------------
TypeOK ==
    /\ refresh.phase \in {"idle", "snapshot", "manifest"}
    /\ load.phase \in {"idle", "manifest", "page", "aliases", "build"} /\ Reading <= Cardinality(Laws)
    /\ run.phase \in {"idle", "ready", "asking", "ended"} /\ (run.phase = "asking" <=> run.pending # {})
    /\ \A e \in disk.aliases \cup run.entries : EntryOK(e)
    /\ OneEach(disk.aliases)

(* A service serves only pages a person compared with the official ones,    *)
(* under the very manifests it reports, whatever was refreshed while it     *)
(* loaded and wherever a refresh died (load_statute,                        *)
(* _validate_snapshot_provenance).                                          *)
ServedPinned ==
    served.made => \A l \in Laws :
        /\ served.manifests[l].status = "validated" /\ served.manifests[l].page = served.pages[l]
        /\ <<l, served.pages[l]>> \in approved

(* Every alias a service indexes was written from the words its unit has in *)
(* the served corpus, the words it hangs from included, states no defense,  *)
(* and leads to exactly one chunk a notice can quote (_quoted_chunk).       *)
ServedQuotable ==
    served.made =>
        LET corpus == Corpus(served.pages)
            chunks == Chunks(corpus, served.aliases)
        IN  \A e \in {f \in Indexed(served.aliases) : <<"alias", f.key>> \in chunks} :
                LET named == {u \in corpus : u.key = e.key}
                IN  /\ Cardinality(named) = 1 /\ <<"unit", e.key>> \in chunks
                    /\ \A u \in named : /\ ~u.defense /\ Last(e.source) = u.body
                                        /\ \A v \in LeadIns(corpus, u) : v.body \in Range(e.source) /\ ~v.defense

(* A full run that reports nothing left to do leaves a file its corpus      *)
(* loads with, and no entry of the generator's from older words or an older *)
(* prompt: what _prune and _replace leave is what _attach_aliases accepts.  *)
CleanRunLoads ==
    run.phase = "ended" /\ run.full /\ ~run.failed /\ run.review = {} =>
        LET corpus == Corpus(run.pages)
        IN  /\ Accepts(corpus, disk.aliases)
            /\ \A e \in disk.aliases : Owned(e) => e.prompt = "current" /\ e.source = Source(corpus, Of(corpus, e.key))

(* What a person reviewed or rejected is gone only by a person's edit or    *)
(* for the aliases of a forced run.                                         *)
PersonsWorkKept ==
    [][\A e \in {f \in disk.aliases : ~Owned(f)} :
          \/ e \in disk'.aliases
          \/ used'.edits # used.edits
          \/ run.force /\ \E n \in disk'.aliases : n.key = e.key /\ n.status = "generated"]_vars

(* A run resumed after a stop asks the model nothing it has answered and    *)
(* kept before, declines included.                                          *)
NothingAskedAgain ==
    run.phase = "asking" /\ ~run.force =>
        \A k \in run.pending :
            LET corpus == Corpus(run.pages) IN <<k, Source(corpus, Of(corpus, k))>> \notin answered

(* A service serves pinned pages only, and aliases only of words that a     *)
(* notice can quote from them (load_statute, _attach_aliases).              *)
ServedSound == TypeOK /\ ServedPinned /\ ServedQuotable

(* The generator and the loader agree: a full run that ends clean is        *)
(* accepted, and one that was stopped goes on where it was (_prune, _save). *)
RunsSound == CleanRunLoads /\ NothingAskedAgain
=============================================================================
