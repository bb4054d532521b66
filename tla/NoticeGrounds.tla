--------------------------- MODULE NoticeGrounds ---------------------------
(***************************************************************************)
(* What one notice may cite.  Two ranking queries search the legal corpus   *)
(* through a dense and a lexical channel (app/rag/pipeline.py); when the    *)
(* embeddings fail, the lexical channel alone answers and two independent   *)
(* queries corroborate (app/consumer/retrieval.py).  Candidates pass the    *)
(* support gate, the precedence of laws and an optional verifier            *)
(* (legal_policy.py, ground_selection.py, ground_verifier.py) before the    *)
(* notice is composed with its citations of the consumer's own documents,   *)
(* its settlement, its prose, its warnings and its audit (service.py).      *)
(* Chunks are numbered in the order of their ids.                           *)
(***************************************************************************)
EXTENDS EvidenceCitations, Settlement

CONSTANTS
    Given,             \* bound: a sequence of corpora, sequences of chunks, each with a file
    EvidenceRankings,  \* bound: merged orders of the evidence chunks the gate supports
    Composers,         \* configured: "deterministic", "llm"
    DenseLists,        \* bound: what a dense search may return, best first
    LexicalLists,      \* bound: what a lexical search may return
    CandidateK,        \* results asked of each channel
    RequestedK,        \* results kept for each query
    RrfConstant,
    Weights,           \* bound: the weights configured for the two channels
    Unit,              \* a common multiple of the denominators, so that fused scores are integers
    AgreementMaxRank,
    AliasCap,          \* ALIAS_SUPPORT_CAP
    CorroborationRank,
    MaxComplementary,  \* MAX_COMPLEMENTARY_GROUNDS
    MaxGrounds,        \* MAX_GROUND_CANDIDATES and MAX_LEGAL_GROUNDS
    Rerankers          \* whether a reranker is configured

Laws == {"constitution", "cdc", "lgpd", "civil"}

(* Only article 42 has parts, and what quotes for a chunk is of its own      *)
(* provision.                                                               *)
ChunkOK(corpus, c) ==
    /\ corpus[c].law \in Laws /\ corpus[c].kind \in {"unit", "article", "alias"}
    /\ corpus[c].part # "" => corpus[c].provision = "cdc-42"
    /\ corpus[c].quotes \in DOMAIN corpus /\ corpus[corpus[c].quotes].kind # "alias"
    /\ corpus[corpus[c].quotes].provision = corpus[c].provision
    /\ corpus[c].citable \in BOOLEAN

WordOK(word) == word.tokens \in Seq(Range(word.tokens)) /\ word.amount \in Nat

(* The facts and the chunks of the consumer's documents.  A value chosen in *)
(* a document is the loss, and no known payment exceeds a known loss.       *)
FileOK(file) ==
    /\ file.facts.narrative \in Seq(Range(file.facts.narrative)) /\ file.facts.doubled \in BOOLEAN
    /\ file.facts.loss \in Nat /\ file.facts.improper \in Nat /\ file.facts.cost \in Nat
    /\ file.facts.loss # 0 => file.facts.improper <= file.facts.loss
    /\ file.facts.reference # 0 =>
         /\ file.facts.reference = file.facts.loss
         /\ \E c \in DOMAIN file.chunks : file.facts.loss \in Stated(file.chunks[c].words)
    /\ \A c \in DOMAIN file.chunks : LET chunk == file.chunks[c] IN
         /\ chunk.first \in Nat /\ chunk.last \in Nat
         /\ chunk.words \in Seq(Range(chunk.words))
         /\ \A word \in Range(chunk.words) : WordOK(word) /\ word.page \in chunk.first .. chunk.last

ASSUME GroundsAssumption ==
    /\ \A given \in Range(Given) :
         /\ FileOK(given.file) /\ given.corpus \in Seq(Range(given.corpus))
         /\ \A c \in DOMAIN given.corpus : ChunkOK(given.corpus, c)
    /\ \A l \in DenseLists \cup LexicalLists :
         /\ l \in Seq(Nat) /\ IsInjective(l) /\ Len(l) <= CandidateK
         /\ \A given \in Range(Given) : Range(l) \subseteq DOMAIN given.corpus
    /\ \A l \in EvidenceRankings :
         l \in Seq(Nat) /\ IsInjective(l) /\ \A given \in Range(Given) : Range(l) \subseteq DOMAIN given.file.chunks
    /\ Composers \subseteq {"deterministic", "llm"}
    /\ CandidateK \in Nat \ {0} /\ RequestedK \in 1 .. CandidateK /\ AgreementMaxRank \in 1 .. CandidateK
    /\ RrfConstant \in Nat \ {0} /\ Weights \subseteq [dense : Nat \ {0}, lexical : Nat \ {0}]
    /\ Unit \in Nat \ {0} /\ \A r \in 1 .. CandidateK : Unit % (RrfConstant + r) = 0
    /\ AliasCap \in Nat /\ CorroborationRank \in Nat /\ MaxComplementary \in Nat
    /\ MaxGrounds \in Nat \ {0} /\ Rerankers \subseteq BOOLEAN

VARIABLES
    case,      \* what is fixed for the generation: which corpus and file, mode, configuration
    phase,
    traces,    \* of the legal queries: the ranking ones, then the corroborating ones
    exhibits,  \* what is attached: whether, lexical (fell back), the citations
    grounds,   \* selected, then verified
    lost,      \* history: what was unavailable on the way
    notice

noticeVars == <<case, phase, traces, exhibits, grounds, lost, notice>>

Corpus == Given[case.given].corpus

File == Given[case.given].file

-----------------------------------------------------------------------------
(* Ranked lists: items with the rank each channel gave, 0 for none.         *)
RankIn(ranking, c) ==
    IF c \in Range(ranking) THEN CHOOSE r \in DOMAIN ranking : ranking[r] = c ELSE 0

Share(r) == IF r = 0 THEN 0 ELSE Unit \div (RrfConstant + r)

Before(a, b) == a.score > b.score \/ (a.score = b.score /\ a.chunk < b.chunk)

ByScore(items) == InOrder(items, {p \in items \X items : Before(p[1], p[2])})

(* Reciprocal rank fusion: each channel adds its weighted share.            *)
Fused(dense, lexical) ==
    FirstK(ByScore({[chunk |-> c, dense |-> RankIn(dense, c), lexical |-> RankIn(lexical, c),
                     score |-> case.weights.dense * Share(RankIn(dense, c))
                               + case.weights.lexical * Share(RankIn(lexical, c))]
                    : c \in Range(dense) \cup Range(lexical)}), CandidateK)

LexicalOnly(lexical) ==
    [r \in DOMAIN lexical |->
        [chunk |-> lexical[r], dense |-> 0, lexical |-> r, score |-> CandidateK + 1 - r]]

Agreed(item) == item.dense # 0 /\ item.lexical # 0

Rescored(items) == [r \in DOMAIN items |-> [items[r] EXCEPT !.score = CandidateK + 1 - r]]

(* The pipeline puts those both channels returned before the others.        *)
WithinTiersOnly(items) == items

WithinTiers(items) ==
    Those(items, {r \in DOMAIN items : Agreed(items[r])})
    \o Those(items, {r \in DOMAIN items : ~Agreed(items[r])})

(* Bound: a reranker keeps the candidates in their order or reverses it.    *)
Ranked(candidates) ==
    IF ~case.reranker THEN {FirstK(candidates, RequestedK)}
    ELSE {FirstK(WithinTiers(Rescored(list)), RequestedK) : list \in {candidates, Reverse(candidates)}}

Trace(query, results, lexical) ==
    [query |-> query, results |-> results, lexical |-> lexical,
     fused |-> ~lexical /\ ~case.reranker]

Searches(query, lexical) ==
    {Trace(query, results, lexical) : results \in UNION
        {Ranked(candidates) : candidates \in
           IF lexical THEN {LexicalOnly(w) : w \in LexicalLists}
           ELSE {Fused(d, w) : d \in DenseLists, w \in LexicalLists}}}

-----------------------------------------------------------------------------
(* The support gate.  The framed query holds the bare narrative, which holds *)
(* the complaint and the remedy.                                            *)
Independent(p, q) == {p, q} = {"complaint", "remedy"}

AgreeEither(item) ==
    item.dense \in 1 .. AgreementMaxRank \/ item.lexical \in 1 .. AgreementMaxRank

Agree(item) ==
    /\ item.dense \in 1 .. AgreementMaxRank /\ item.lexical \in 1 .. AgreementMaxRank

IsAlias(c) == Corpus[c].kind = "alias"

Agreeing(trace) ==
    LET agreeing == {r \in DOMAIN trace.results : Agree(trace.results[r])}
        aliases  == {r \in agreeing : IsAlias(trace.results[r].chunk)}
    IN  {trace.results[r].chunk :
            r \in {a \in agreeing : a \in aliases => Cardinality({b \in aliases : b <= a}) <= AliasCap}}

TopIn(c, trace) ==
    \E r \in DOMAIN trace.results : r <= CorroborationRank /\ trace.results[r].chunk = c

Corroborated(c) ==
    \E s, t \in Range(traces) : s.lexical /\ t.lexical /\ Independent(s.query, t.query)
                                /\ TopIn(c, s) /\ TopIn(c, t)

Supported ==
    (UNION {Agreeing(t) : t \in {t \in Range(traces) : ~t.lexical}})
    \cup {c \in DOMAIN Corpus : Corroborated(c)}

-----------------------------------------------------------------------------
(* Selection.                                                               *)
RankingQueries == {"framed", "bare"}

(* The best scored result of each chunk, best first.                        *)
MergeOf(ts) ==
    LET items == UNION {Range(t.results) : t \in ts}
        best(c) == Max({i.score : i \in {j \in items : j.chunk = c}})
    IN  ByScore({[chunk |-> c, score |-> best(c)] : c \in {i.chunk : i \in items}})

Merged == MergeOf({t \in Range(traces) : t.query \in RankingQueries})

Occurrences(c) == Cardinality({t.query : t \in {u \in Range(traces) : \E i \in Range(u.results) : i.chunk = c}})

Chunk(c) == Corpus[c]

Candidate(r) == [rank |-> r, chunk |-> Merged[r].chunk, score |-> Merged[r].score]

Eligible ==
    {Candidate(r) : r \in {q \in DOMAIN Merged :
                             Merged[q].chunk \in Supported /\ Chunk(Merged[q].chunk).citable}}

OfProvision(p, candidates) == {x \in candidates : Chunk(x.chunk).provision = p}

(* Collection harassment without a payment takes the caput of article 42    *)
(* where its sole paragraph was found, supported itself or not.             *)
Disambiguated(candidates) ==
    LET found == OfProvision("cdc-42", candidates)
        kept  == {x \in found : Chunk(x.chunk).part # "sole paragraph"}
        caput == {r \in DOMAIN Merged : Chunk(Merged[r].chunk).part = "caput"}
        taken == IF caput = {} THEN {} ELSE
                 {[rank |-> Min({x.rank : x \in found}), chunk |-> Merged[Min(caput)].chunk,
                   score |-> Max({Merged[Min(caput)].score} \cup {x.score : x \in found})]}
    IN  IF found = {} \/ ~case.harassment THEN candidates
        ELSE (candidates \ found) \cup (IF kept # {} THEN kept ELSE taken)

OfUnit(c) == Chunk(c).kind # "article"

(* Most queries first, then a unit before its article, then the score.      *)
Preferred(x, y) ==
    \/ Occurrences(x.chunk) > Occurrences(y.chunk)
    \/ Occurrences(x.chunk) = Occurrences(y.chunk) /\ OfUnit(x.chunk) /\ ~OfUnit(y.chunk)
    \/ /\ Occurrences(x.chunk) = Occurrences(y.chunk) /\ OfUnit(x.chunk) = OfUnit(y.chunk)
       /\ Before(x, y)

(* One candidate for each provision: its siblings' best place and score,    *)
(* and the unit most queries found.                                         *)
Standing(siblings) ==
    LET chosen == CHOOSE x \in siblings : \A y \in siblings \ {x} : Preferred(x, y)
    IN  [place |-> Min({x.rank : x \in siblings}), score |-> Max({x.score : x \in siblings}),
         rank |-> chosen.rank, matched |-> chosen.chunk, quoted |-> Chunk(chosen.chunk).quotes,
         provision |-> Chunk(chosen.chunk).provision, law |-> Chunk(chosen.chunk).law]

ByPlace(standings) ==
    InOrder(standings, {p \in standings \X standings :
                          \/ p[1].place < p[2].place
                          \/ p[1].place = p[2].place /\ p[1].matched < p[2].matched})

StandingsOfChunks == ByPlace({Standing({x}) : x \in Disambiguated(Eligible)})

Standings ==
    LET candidates == Disambiguated(Eligible)
    IN  ByPlace({Standing(OfProvision(p, candidates)) : p \in {Chunk(x.chunk).provision : x \in candidates}})

Complementary == {"lgpd", "civil"}

AdmitsUncounted(standings, k) ==
    standings[k].law \in Complementary => ~\E t \in Range(traces) : t.lexical

(* Complementary laws take few places and none without semantic retrieval.  *)
Admits(standings, k) ==
    standings[k].law \in Complementary =>
        /\ ~\E t \in Range(traces) : t.lexical
        /\ Cardinality({j \in 1 .. k - 1 : standings[j].law \in Complementary}) < MaxComplementary

GroundWindow ==
    LET standings == Standings
    IN  FirstK(Those(standings, {k \in DOMAIN standings : Admits(standings, k)}), MaxGrounds)

(* Half of the best score, except on fused ranks.                           *)
AboveFloor(g) ==
    \/ \A t \in Range(traces) : t.fused
    \/ Merged[1].score <= 0
    \/ 2 * g.score >= Merged[1].score

Unanchored(gs) == gs

(* The Civil Code stands only beside the CDC.                               *)
Anchored(gs) ==
    IF \E g \in Range(gs) : g.law = "cdc" THEN gs
    ELSE Those(gs, {k \in DOMAIN gs : gs[k].law # "civil"})

Selected ==
    LET window == GroundWindow
    IN  Anchored(Those(window, {k \in DOMAIN window : AboveFloor(window[k])}))

-----------------------------------------------------------------------------
(* The audit of the notice: the one place where each chunk of a citation is *)
(* marked as included.                                                      *)
Places(ts) == Positions([i \in DOMAIN ts |-> ts[i].results])

At(ts, p) == ts[p[1]].results[p[2]]

WinsOften(ts, p) ==
    \A q \in Places(ts) \ {p} : At(ts, q).chunk = At(ts, p).chunk => At(ts, p).score >= At(ts, q).score

Wins(ts, p) ==
    \A q \in Places(ts) \ {p} : At(ts, q).chunk = At(ts, p).chunk =>
        \/ At(ts, p).score > At(ts, q).score
        \/ (At(ts, p).score = At(ts, q).score /\ p[1] < q[1])

CitedChunks == UNION {{g.matched, g.quoted} : g \in Range(grounds)}

Included == {p \in Places(traces) : At(traces, p).chunk \in CitedChunks /\ Wins(traces, p)}

-----------------------------------------------------------------------------
NoNotice ==
    [made |-> FALSE, grounds |-> <<>>, cited |-> <<>>, warnings |-> {}, included |-> {},
     offer |-> 0, components |-> {}, mode |-> "none"]

NoticeInit ==
    /\ case \in [given : DOMAIN Given, mode : {"case", "prompt"}, harassment : BOOLEAN,
                reranker : Rerankers, weights : Weights]
    /\ case.harassment => \E c \in DOMAIN Corpus : Corpus[c].provision = "cdc-42"
    /\ phase = "ranking"
    /\ traces = <<>>
    /\ exhibits \in [attached : BOOLEAN, lexical : {FALSE}, cited : {<<>>}]
    /\ case.mode = "case" \/ File.facts.reference # 0 => exhibits.attached
    /\ grounds = <<>>
    /\ lost = {}
    /\ notice = NoNotice

RefuseFrom(from) ==
    /\ phase = from
    /\ phase' = "refused"
    /\ UNCHANGED <<case, traces, exhibits, grounds, lost, notice>>

(* A batch is embedded as one: it falls back as one.                        *)
Batch(p, q, lexical) ==
    /\ \E s \in Searches(p, lexical), t \in Searches(q, lexical) : traces' = traces \o <<s, t>>
    /\ lost' = IF lexical THEN lost \cup {"embedding"} ELSE lost
    /\ UNCHANGED <<case, exhibits, grounds, notice>>

RankLaws ==
    /\ phase = "ranking"
    /\ \E lexical \in BOOLEAN :
          /\ Batch("framed", "bare", lexical)
          /\ phase' = IF lexical THEN "corroborating" ELSE "evidence"

Corroborate ==
    /\ phase = "corroborating"
    /\ \E lexical \in BOOLEAN : Batch("complaint", "remedy", lexical)
    /\ phase' = "evidence"

(* The complaint says it all: the remedy adds no second query.              *)
NothingToCorroborate ==
    /\ phase = "corroborating" /\ phase' = "evidence"
    /\ UNCHANGED <<case, traces, exhibits, grounds, lost, notice>>

CitationsOf ==
    [given \in DOMAIN Given |-> [ranking \in EvidenceRankings |-> Citations(Given[given].file, ranking)]]

(* The gate and the merge are those of the legal queries.                   *)
RetrieveEvidence ==
    /\ phase = "evidence"
    /\ phase' = "verifying"
    /\ IF exhibits.attached
       THEN \E lexical \in BOOLEAN, ranking \in EvidenceRankings :
              /\ exhibits' = [exhibits EXCEPT !.lexical = lexical, !.cited = CitationsOf[case.given][ranking]]
              /\ lost' = IF lexical THEN lost \cup {"embedding"} ELSE lost
       ELSE UNCHANGED <<exhibits, lost>>
    /\ grounds' = Selected
    /\ UNCHANGED <<case, traces, notice>>

(* The model rejects some grounds, or none where it proves nothing.         *)
Verify ==
    /\ phase = "verifying" /\ phase' = "composing"
    /\ \E rejected \in SUBSET DOMAIN grounds :
         grounds' = Anchored(Those(grounds, DOMAIN grounds \ rejected))
    /\ UNCHANGED <<case, traces, exhibits, lost, notice>>

VerifierFails ==
    /\ phase = "verifying" /\ phase' = "composing" /\ grounds # <<>>
    /\ lost' = lost \cup {"verifier"}
    /\ UNCHANGED <<case, traces, exhibits, grounds, notice>>

Grounded == grounds # <<>> /\ (case.mode = "case" => exhibits.cited # <<>>)

RefuseUngrounded == ~Grounded /\ RefuseFrom("composing")

RefuseAmounts == Grounded /\ ~Computable(File.facts) /\ RefuseFrom("composing")

DegradedRanking == \E t \in Range(traces) : t.lexical

Degraded == exhibits.lexical \/ \E t \in Range(traces) : t.lexical

Warnings ==
    {w \in {"unreviewed", "no document", "nothing cited", "verifier", "degraded"} :
        \/ w = "unreviewed" /\ case.mode = "prompt"
        \/ w = "no document" /\ case.mode = "prompt" /\ ~exhibits.attached
        \/ w = "nothing cited" /\ case.mode = "prompt" /\ exhibits.attached /\ exhibits.cited = <<>>
        \/ w = "verifier" /\ "verifier" \in lost
        \/ w = "degraded" /\ Degraded}

(* The letter, with the model's prose or the renderer's fixed one.          *)
Draft(mode, warnings) ==
    /\ notice' = [made |-> TRUE, grounds |-> grounds, cited |-> exhibits.cited, included |-> Included,
                  offer |-> PublicProposal(File.facts), components |-> Components(File.facts),
                  mode |-> mode, warnings |-> Warnings \cup warnings]
    /\ UNCHANGED <<case, traces, exhibits, grounds>>

CanCompose ==
    phase = "composing" /\ Grounded /\ Computable(File.facts) /\ phase' = "made"

ComposeFixed ==
    /\ CanCompose /\ "deterministic" \in Composers
    /\ Draft("deterministic", {}) /\ UNCHANGED lost

(* Whether prose is accepted is left to chance: its text is not modelled.   *)
ComposeProse ==
    /\ CanCompose /\ "llm" \in Composers
    /\ Draft("llm", {}) /\ UNCHANGED lost

(* The model is unavailable or its prose is rejected.                       *)
ComposerFails ==
    /\ CanCompose /\ "llm" \in Composers
    /\ Draft("deterministic", {"composer"}) /\ lost' = lost \cup {"composer"}

NoticeNext ==
    \/ RankLaws \/ Corroborate \/ NothingToCorroborate \/ RetrieveEvidence
    \/ Verify \/ VerifierFails \/ RefuseUngrounded \/ RefuseAmounts
    \/ ComposeFixed \/ ComposeProse \/ ComposerFails
    \/ \E from \in {"ranking", "corroborating", "evidence"} : RefuseFrom(from)

NoticeSpec == NoticeInit /\ [][NoticeNext]_noticeVars

-----------------------------------------------------------------------------
NoticeTypeOK ==
    /\ phase \in {"ranking", "corroborating", "evidence", "verifying", "composing", "made", "refused"}
    /\ Len(traces) \in {0, 2, 4} /\ Len(grounds) <= MaxGrounds
    /\ \A t \in Range(traces) : Len(t.results) <= RequestedK
    /\ notice.made <=> phase = "made"

(* Every provision a notice cites was returned by a ranking query, and both *)
(* channels of one healthy query ranked one of its chunks high or two       *)
(* independent queries did (strongly_supported_chunk_ids); what it quotes   *)
(* is the statute's own text.                                               *)
CitedOnAgreement ==
    \A g \in Range(notice.grounds) :
        /\ Chunk(g.quoted).kind # "alias" /\ Chunk(g.quoted).provision = g.provision
        /\ Chunk(g.matched).citable \/ Chunk(g.matched).part = "caput"
        /\ \E i \in 1 .. 2 : \E item \in Range(traces[i].results) : item.chunk = g.matched
        /\ \E c \in DOMAIN Corpus :
             /\ Chunk(c).provision = g.provision /\ Chunk(c).citable
             /\ \/ \E t \in Range(traces) : \E item \in Range(t.results) :
                     item.chunk = c /\ item.dense \in 1 .. AgreementMaxRank
                                    /\ item.lexical \in 1 .. AgreementMaxRank
                \/ Cardinality({t.query : t \in {u \in Range(traces) : TopIn(c, u)}}) >= 2

(* Complementary laws never crowd a notice, never enter one retrieved       *)
(* without embeddings, and the Civil Code never stands without the CDC,     *)
(* whatever the verifier removed (precedence_window, apply_verdicts).       *)
ComplementaryHeld ==
    LET extra == {g \in Range(notice.grounds) : g.law \in Complementary}
    IN  /\ Cardinality(extra) <= MaxComplementary
        /\ (\E t \in Range(traces) : t.lexical) => extra = {}
        /\ (\E g \in extra : g.law = "civil") => \E g \in Range(notice.grounds) : g.law = "cdc"

(* A provision is cited once.                                               *)
CitedOnce == \A i, j \in DOMAIN notice.grounds : i # j => notice.grounds[i].provision # notice.grounds[j].provision

(* The reader is told of everything that was missing, and of nothing else,  *)
(* and prose is not the model's where the warning says that it failed.      *)
ReaderTold ==
    notice.made =>
        /\ "degraded" \in notice.warnings <=> "embedding" \in lost
        /\ \A w \in {"verifier", "composer"} : w \in notice.warnings <=> w \in lost
        /\ "composer" \in notice.warnings => notice.mode = "deterministic"
        /\ notice.cited = <<>> <=> notice.warnings \cap {"no document", "nothing cited"} # {}

(* The audit marks each chunk that was matched in exactly one place, and    *)
(* marks no chunk that no citation rests on.                                *)
AuditNamesCitations ==
    notice.made =>
        /\ \A g \in Range(notice.grounds) :
             Cardinality({p \in notice.included : At(traces, p).chunk = g.matched}) = 1
        /\ \A p \in notice.included : \E g \in Range(notice.grounds) :
             Chunk(At(traces, p).chunk).provision = g.provision

(* Two worst ranks that agree outweigh the best rank of either channel.     *)
TiersByScore ==
    LET w == case.weights
    IN  \A one \in {w.dense, w.lexical} :
          one * (RrfConstant + CandidateK) < (w.dense + w.lexical) * (RrfConstant + 1)

(* A chunk both channels returned is never behind one of a single channel,  *)
(* so the places kept go to what can be cited: always with a reranker, and  *)
(* without one where the weights are close enough for the scores to say so  *)
(* (_run_searches says it of any weights).                                  *)
AgreedFirst ==
    case.reranker \/ TiersByScore =>
        \A t \in Range(traces) : \A r, s \in DOMAIN t.results :
            r < s /\ Agreed(t.results[s]) => Agreed(t.results[r])

(* A quote is a contiguous run of its chunk, read from the page it is       *)
(* attributed to, fits the letter, and alone names the case: an identifier, *)
(* or two terms of the account (_evidence_references, supporting_quote).    *)
QuotesStandAlone ==
    \A c \in Range(notice.cited) :
        LET facts == File.facts
            words == File.chunks[c.chunk].words
        IN  /\ Len(c.quote) <= QuoteWords
            /\ \E i \in DOMAIN words : SubSeq(words, i, i + Len(c.quote) - 1) = c.quote
            /\ \A i \in DOMAIN c.quote : c.quote[i].page = c.page
            /\ \/ \E id \in facts.identifiers :
                    ContainsIdentifier(Tokens(c.quote), FlattenSeq(id))
               \/ Cardinality(Range(Tokens(c.quote)) \cap Range(facts.narrative)) >= 2

(* The letter offers the sum of what its components offer, each with a      *)
(* source; what is attributed to a document is the amount it states; and    *)
(* doubling never asks for more than twice the loss (SettlementCalculator,  *)
(* _settlement_inputs).                                                     *)
OfferAccountedFor ==
    notice.made =>
        LET offered == {c \in notice.components : c.offered}
        IN  /\ notice.offer = FoldSet(LAMBDA c, sum : sum + c.amount, 0, offered)
            /\ notice.offer <= 2 * Reservation(File.facts)
            /\ \A c \in notice.components :
                 c.sources # {} /\ \A source \in c.sources : Money(source.states) = c.amount

(* What a notice cites was agreed on, stands beside the consumer code and   *)
(* is cited once, the ranking kept room for it (_within_agreement_tiers,    *)
(* select_legal_grounds), and what it quotes of the documents stands alone. *)
CitationsSound ==
    NoticeTypeOK /\ CitedOnAgreement /\ ComplementaryHeld /\ CitedOnce /\ AgreedFirst /\ QuotesStandAlone

(* Reader and audit are told what happened: the warnings of everything that *)
(* was missing, the matched chunk of every citation                         *)
(* (_annotate_composer_selection), and where each amount comes from.        *)
ReaderInformed == ReaderTold /\ AuditNamesCitations /\ OfferAccountedFor
=============================================================================
