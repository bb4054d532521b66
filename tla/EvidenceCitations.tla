------------------------- MODULE EvidenceCitations -------------------------
(***************************************************************************)
(* Which passages of the consumer's uploads a notice quotes                 *)
(* (app/consumer/evidence_support.py, service.py).  A text is a sequence of *)
(* words of one width; a word has its lexical tokens, the amount it states, *)
(* how it ends a sentence and the page it was read from.  A token is the    *)
(* sequence of its pieces, so that an identifier may be split by            *)
(* punctuation.  What regular expressions find in the facts is given:       *)
(* identifiers, dates, amounts, and the tokens that weigh twice.            *)
(***************************************************************************)
EXTENDS Ordered, SequencesExt, FiniteSetsExt

CONSTANTS
    Topical,         \* tokens that can carry a topic: long, no number, not generic
    IdentifierSize,  \* pieces an identifier has at least
    QuoteWords,      \* QUOTE_MAX_CHARS
    MaxCitations     \* citations of one notice

ASSUME EvidenceAssumption ==
    IdentifierSize \in Nat \ {0} /\ QuoteWords \in Nat \ {0} /\ MaxCitations \in Nat \ {0}

Tokens(words) == FlattenSeq([i \in DOMAIN words |-> words[i].tokens])

Stated(words) == {words[i].amount : i \in DOMAIN words} \ {0}

Slice(seq, from, width) ==
    SubSeq(seq, from, IF from + width - 1 < Len(seq) THEN from + width - 1 ELSE Len(seq))

-----------------------------------------------------------------------------
(* Whether words support the facts.                                         *)
ContainsRun(tokens, run) ==
    run # <<>> /\ \E i \in DOMAIN tokens : Slice(tokens, i, Len(run)) = run

ContainsIdentifier(tokens, compact) ==
    \E i, j \in DOMAIN tokens : i <= j /\ FlattenSeq(SubSeq(tokens, i, j)) = compact

Identified(words, facts) ==
    \E id \in facts.identifiers :
        /\ Len(FlattenSeq(id)) >= IdentifierSize
        /\ ContainsIdentifier(Tokens(words), FlattenSeq(id))

Topic(tokens, facts) ==
    Those(tokens, {k \in DOMAIN tokens : tokens[k] \in Topical \ Range(facts.supplier)})

Anchors(words, facts) ==
    {a \in {"amount", "supplier", "date"} :
        \/ a = "amount" /\ Stated(words) \cap ({facts.loss, facts.improper, facts.cost} \cup facts.told) # {}
        \/ a = "supplier" /\ ContainsRun(Tokens(words), facts.supplier)
        \/ a = "date" /\ \E date \in facts.dates : ContainsRun(Tokens(words), date)}

Bigrams(tokens) == {Slice(tokens, i, 2) : i \in 1 .. Len(tokens) - 1}

(* Terms that stand together in a window of either text.                    *)
Groups(tokens, shared, size, width) ==
    UNION {kSubset(size, Range(Slice(tokens, i, width)) \cap shared) : i \in DOMAIN tokens}

Overlap(told, read, anchors) ==
    LET shared == Range(told) \cap Range(read)
        size   == IF anchors = 0 THEN 3 ELSE 2
        width  == IF anchors = 0 THEN 6 ELSE 4
    IN  /\ Cardinality(shared) >= 2
        /\ \/ anchors >= 2
           \/ Bigrams(told) \cap Bigrams(read) # {}
           \/ Groups(told, shared, size, width) \cap Groups(read, shared, size, width) # {}

Supports(words, facts) ==
    /\ Tokens(words) # <<>>
    /\ \/ Identified(words, facts)
       \/ Overlap(Topic(facts.narrative, facts), Topic(Tokens(words), facts),
                  Cardinality(Anchors(words, facts)))

-----------------------------------------------------------------------------
(* The passage of a long text that is shown.  Tokens of three characters or *)
(* more, not all zeros, of the listed protocols, the period and the amounts *)
(* lost or paid weigh twice; an identifier the narrative alone names weighs *)
(* nothing.                                                                 *)
Weight(word, facts) ==
    LET topical == Range(Topic(facts.narrative, facts)) \ facts.anchored
        among(terms) == Cardinality({k \in DOMAIN word.tokens : word.tokens[k] \in terms})
    IN  2 * among(facts.anchored) + among(topical)

(* A word stands for as many points as it weighs.                           *)
WindowWeight(words, from, facts) ==
    LET window == {i \in DOMAIN words : from <= i /\ i < from + QuoteWords}
    IN  Cardinality(UNION {{i} \X (1 .. Weight(words[i], facts)) : i \in window})

(* The first matching word of the earliest heaviest window.                 *)
BestStart(words, facts) ==
    LET weight == [i \in DOMAIN words |-> WindowWeight(words, i, facts)]
        best   == Min({i \in DOMAIN words : \A j \in DOMAIN words : weight[j] <= weight[i]})
    IN  IF weight[best] = 0 THEN 1
        ELSE Min({i \in DOMAIN words : i >= best /\ Weight(words[i], facts) > 0})

(* Back to the start of its sentence, by a quarter of the quote at most.    *)
SentenceStart(words, start) ==
    LET back == QuoteWords \div 4
        ends == {i \in DOMAIN words : start - back <= i /\ i < start /\ words[i].ends # "no"}
    IN  IF ends # {} THEN Max(ends) + 1
        ELSE IF start - 1 <= back THEN 1 ELSE start

(* Cut at a full stop in the second half.                                   *)
WordBounded(words, start) ==
    LET window == Slice(words, start, QuoteWords)
        stops  == {i \in DOMAIN window : window[i].ends = "stop" /\ 2 * i > QuoteWords}
    IN  IF start + QuoteWords > Len(words) \/ stops = {} THEN window
        ELSE SubSeq(window, 1, Max(stops))

Quote(words, facts) ==
    IF Len(words) <= QuoteWords THEN words
    ELSE WordBounded(words, SentenceStart(words, BestStart(words, facts)))

-----------------------------------------------------------------------------
OfAnyPages(chunk) == TRUE

(* Every page of the combined document has a source; a chunk packed from    *)
(* several pages is attributed to none.                                     *)
OfOnePage(chunk) == chunk.first = chunk.last

ShownWhereChunkSupports(chunk, facts) == Supports(chunk.words, facts)

SupportsAsQuoted(chunk, facts) == Supports(Quote(chunk.words, facts), facts)

(* The merged chunks that passed the support gate, best first, as quoted.   *)
Citations(file, ranking) ==
    LET kept == FirstK(Those(ranking, {k \in DOMAIN ranking : LET chunk == file.chunks[ranking[k]]
                                                              IN  OfOnePage(chunk) /\ SupportsAsQuoted(chunk, file.facts)}),
                       MaxCitations)
    IN  [k \in DOMAIN kept |->
           [chunk |-> kept[k], page |-> file.chunks[kept[k]].first,
            quote |-> Quote(file.chunks[kept[k]].words, file.facts)]]
=============================================================================
