--------------------------- MODULE EvidenceIntake ---------------------------
(***************************************************************************)
(* What becomes of one uploaded file: it is read page by page, with OCR     *)
(* where a page is a scan (app/ingestion), screened by rules and by a       *)
(* reviewing model in batches (app/security/prompt_injection.py), judged,   *)
(* masked (sanitization.py) and recorded in its case, all under the case's  *)
(* mutation_lock (consumer/service.py).  One upload at a time is therefore  *)
(* enough: ConsumerCase has the requests that wait for the lock.            *)
(*                                                                         *)
(* A page is a sequence of pieces, the sentences the patterns of the code   *)
(* tell apart; a passage and a quote are sequences of the pieces' names.    *)
(***************************************************************************)
EXTENDS Integers, Sequences, FiniteSets, SequencesExt, FiniteSetsExt, Ordered

CONSTANTS
    Files,              \* distinct uploads
    Content,            \* Content[f]: whether f is admissible, and its pages
    MaxDocuments,       \* max_documents_per_case
    MaxCandidates,      \* MAX_CANDIDATES
    BatchRoom,          \* MAX_SEMANTIC_CONTEXT_CHARS, in pieces
    Window,             \* MAX_CANDIDATE_CHARS, in pieces; windows overlap by one
    StrictMaxPieces,    \* strict_max_chars, in pieces
    StrictMaxBatches,   \* strict_max_batches
    MaxAttempts,        \* llm_retry_max_attempts
    MaxReferences,      \* monetary references kept of one file
    MaxOffers,          \* bound
    Mask

Severities == {"none", "low", "medium", "high", "critical"}

Rank == [none |-> 0, low |-> 1, medium |-> 2, high |-> 3, critical |-> 4]

(* rule: the strongest rule that matches the piece, legal uses excused;     *)
(* hidden: the strength of an instruction it carries encoded, in a comment  *)
(* or among invisible characters, "none" if it carries none; cue: it       *)
(* addresses an AI or itself; half: it opens or closes an instruction that  *)
(* runs over the end of a page; money: it names an amount.                  *)
PieceOK(piece) ==
    /\ {piece.rule, piece.hidden} \subseteq Severities \ {"low"} /\ piece.half \in {"", "opens", "closes"}
    /\ piece.cue \in BOOLEAN /\ piece.money \in BOOLEAN

ASSUME IntakeAssumption ==
    /\ {MaxDocuments, MaxCandidates, BatchRoom, StrictMaxPieces, StrictMaxBatches, MaxAttempts,
        MaxReferences} \subseteq Nat \ {0}
    /\ Window \in Nat \ {0, 1}
    /\ \A f \in Files :
          /\ Content[f].fits \in BOOLEAN /\ Content[f].pages \in Seq(Range(Content[f].pages))
          /\ Content[f].fits => Content[f].pages # <<>>
          /\ \A page \in Range(Content[f].pages) :
                /\ page.scanned \in BOOLEAN /\ page.text \in Seq(Range(page.text)) /\ page.text # <<>>
                /\ \A piece \in Range(page.text) : PieceOK(piece)

VARIABLES
    settings,    \* the scan mode, and whether an OCR engine was found
    documents,   \* the files of record.documents
    upload,      \* the upload in progress, or the evidence the last one left
    offers       \* bound: uploads so far

intakeVars == <<settings, documents, upload, offers>>

-----------------------------------------------------------------------------
(* Reading.                                                                 *)
Pages(f) == Content[f].pages

Scans(f) == {p \in DOMAIN Pages(f) : Pages(f)[p].scanned}

Named(text) == [k \in DOMAIN text |-> text[k].name]

Text(f) == [p \in DOMAIN Pages(f) |-> Named(Pages(f)[p].text)]

PieceAt(f, place) == Pages(f)[place[1]].text[place[2]]

Matches(text, quote) ==
    {i \in 1 .. Len(text) - Len(quote) + 1 : SubSeq(text, i, i + Len(quote) - 1) = quote}

Occurs(quote, text) == Matches(text, quote) # {}

-----------------------------------------------------------------------------
(* Rules.                                                                   *)
Found(page, last, quote, severity, category) ==
    [page |-> page, last |-> last, quote |-> quote, severity |-> severity, category |-> category, source |-> "rule"]

OnPages(f) ==
    {Found(place[1], 0, <<PieceAt(f, place).name>>, PieceAt(f, place).rule, "override")
        : place \in {s \in Positions(Text(f)) : PieceAt(f, s).rule # "none"}}

Hides(piece) == piece.hidden # "none"

(* To hide an instruction is at least as bad as a strong one.               *)
Obfuscated(f) ==
    {Found(place[1], 0, <<PieceAt(f, place).name>>,
           IF PieceAt(f, place).hidden = "critical" THEN "critical" ELSE "high", "obfuscated")
        : place \in {s \in Positions(Text(f)) : Hides(PieceAt(f, s))}}

OverPageEnds(f) ==
    LET split == {p \in 1 .. Len(Pages(f)) - 1 :
                     Last(Pages(f)[p].text).half = "opens" /\ Head(Pages(f)[p + 1].text).half = "closes"}
    IN  {Found(p, p + 1, <<Last(Text(f)[p]), Head(Text(f)[p + 1])>>, "high", "override") : p \in split}

SameKey(x, y) == <<x.page, x.last, x.quote, x.category>> = <<y.page, y.last, y.quote, y.category>>

(* The strongest finding of each passage and category; a rule's if equal.   *)
Deduplicated(findings) ==
    {x \in findings : \A y \in findings \ {x} :
        SameKey(x, y) => \/ Rank[x.severity] > Rank[y.severity]
                         \/ x.severity = y.severity /\ x.source = "rule"}

RuleFindings(f) == Deduplicated(OnPages(f) \cup Obfuscated(f) \cup OverPageEnds(f))

-----------------------------------------------------------------------------
(* What the reviewer is shown.                                              *)
Passage(page, quote) == [page |-> page, quote |-> quote]

FocusPassages(f, p) ==
    LET cues == Those(Pages(f)[p].text, {i \in DOMAIN Pages(f)[p].text : Pages(f)[p].text[i].cue})
    IN  [k \in DOMAIN cues |-> Passage(p, <<cues[k].name>>)]

(* A turn of a page is <<its k-th passage, the page>>.                      *)
Turns(f) ==
    {<<place[2], place[1]>> : place \in Positions([p \in DOMAIN Pages(f) |-> FocusPassages(f, p)])}

InDocumentOrder(turns) ==
    InOrder(turns, {p \in turns \X turns : p[1][2] < p[2][2] \/ (p[1][2] = p[2][2] /\ p[1][1] < p[2][1])})

(* Every page's first passage, then every page's second, and so on.         *)
RoundRobin(turns) == InOrder(turns, Lexicographic(turns))

ByStrength(x, y) ==
    Rank[x.severity] > Rank[y.severity] \/ (x.severity = y.severity /\ x.page < y.page)

(* Strongest first; what ties stays as it was found.                        *)
Strongest(found) ==
    {p \in (DOMAIN found) \X (DOMAIN found) :
        \/ ByStrength(found[p[1]], found[p[2]])
        \/ ~ByStrength(found[p[2]], found[p[1]]) /\ p[1] < p[2]}

Flagged(f) ==
    LET found == SetToSeq(RuleFindings(f))
        order == InOrder(DOMAIN found, Strongest(found))
    IN  [k \in DOMAIN order |-> Passage(found[order[k]].page, found[order[k]].quote)]

InTurn(f) ==
    LET order == RoundRobin(Turns(f))
    IN  [k \in DOMAIN order |-> FocusPassages(f, order[k][2])[order[k][1]]]

(* What the rules found, then the pages in turn; nothing twice.             *)
Balanced(f) == FirstK(Unrepeated(Flagged(f) \o InTurn(f)), MaxCandidates)

(* Windows of a page overlap by one piece.                                  *)
WindowStarts(f) == {place \in Positions(Text(f)) : (place[2] - 1) % (Window - 1) = 0}

Windows(f) ==
    LET order == InOrder(WindowStarts(f), Lexicographic(WindowStarts(f)))
    IN  [k \in DOMAIN order |->
            LET p == order[k][1]
                i == order[k][2]
            IN  Passage(p, SubSeq(Text(f)[p], i, Min({i + Window - 1, Len(Text(f)[p])})))]

Size(passages) == FoldLeft(LAMBDA n, passage : n + Len(passage.quote), 0, passages)

(* A passage that does not fit begins a batch of its own.                   *)
Packed(batches, passage) ==
    IF batches # <<>> /\ Size(Last(batches)) + Len(passage.quote) <= BatchRoom
    THEN [batches EXCEPT ![Len(batches)] = Append(@, passage)]
    ELSE Append(batches, <<passage>>)

Batches(candidates) ==
    LET upTo[k \in 0 .. Len(candidates)] ==
            IF k = 0 THEN <<>> ELSE Packed(upTo[k - 1], candidates[k])
    IN  upTo[Len(candidates)]

PieceCount(f) == FoldLeft(LAMBDA n, page : n + Len(page.text), 0, Pages(f))

WithinBudget(f) == PieceCount(f) <= StrictMaxPieces /\ Len(Batches(Windows(f))) <= StrictMaxBatches

ReviewBatches(f) ==
    CASE settings.mode = "balanced" -> Batches(Balanced(f))
      [] settings.mode = "strict"   -> IF WithinBudget(f) THEN Batches(Windows(f)) ELSE <<>>
      [] settings.mode = "rules"    -> <<>>

-----------------------------------------------------------------------------
(* What the reviewer's answer is worth.                                     *)
Validated(f, batch, answer) ==
    {[x EXCEPT !.severity = IF @ = "critical" THEN "high" ELSE @] :
        x \in {y \in answer : /\ y.page \in DOMAIN Pages(f) /\ Occurs(y.quote, Text(f)[y.page])
                              /\ \E c \in Range(batch) : c.page = y.page /\ Occurs(y.quote, c.quote)
                              /\ y.sure /\ y.severity # "none"}}

AsFindings(answer) ==
    {[page |-> x.page, last |-> 0, quote |-> x.quote, severity |-> x.severity, category |-> x.category,
      source |-> "semantic"] : x \in answer}

-----------------------------------------------------------------------------
(* The verdict, and the text that may be analysed.                          *)
RiskOf(findings) ==
    CHOOSE s \in Severities : /\ \A x \in findings : Rank[x.severity] <= Rank[s]
                              /\ s = "none" \/ \E x \in findings : x.severity = s

StatusOf(findings, complete) ==
    LET risk == IF complete THEN RiskOf(findings) ELSE "critical"
    IN  CASE risk \in {"none", "low"} -> "accepted"
          [] risk = "medium"          -> "accepted_with_warning"
          [] risk = "high"            -> "review_required"
          [] risk = "critical"        -> "blocked"

Allows(status) == status \in {"accepted", "accepted_with_warning"}

(* A match that begins inside the one before is none.                       *)
LeftToRight(hits, matches, length) ==
    \A i \in matches : i \in hits <=> ~\E j \in hits : j < i /\ i < j + length

Hits(text, quote) ==
    CHOOSE hits \in SUBSET Matches(text, quote) : LeftToRight(hits, Matches(text, quote), Len(quote))

Masked(text, quote) ==
    LET hits == Hits(text, quote)
        kept == {i \in DOMAIN text : ~\E j \in hits : j < i /\ i < j + Len(quote)}
    IN  Those([i \in DOMAIN text |-> IF i \in hits THEN Mask ELSE text[i]], kept)

QuotesOnThePage(findings, p) == {x.quote : x \in {y \in findings : y.page = p}}

Quotes(findings, p) == {x.quote : x \in findings}

LongestFirst(quotes) ==
    {order \in SetToSeqs(quotes) : \A i, j \in DOMAIN order : i < j => Len(order[i]) >= Len(order[j])}

MaskedOn(text, quote, findings, p) == IF quote \in Quotes(findings, p) THEN Masked(text, quote) ELSE text

(* The quotes are one set, so their order among equals is the set's.        *)
Sanitized(f, findings, order) ==
    [p \in DOMAIN Pages(f) |->
        LET upTo[k \in 0 .. Len(order)] ==
                IF k = 0 THEN Text(f)[p] ELSE MaskedOn(upTo[k - 1], order[k], findings, p)
        IN  upTo[Len(order)]]

Amounts(f) ==
    {piece.name : piece \in {x \in UNION {Range(page.text) : page \in Range(Pages(f))} : x.money}}

(* An amount with the words around it.                                      *)
References(f, safe) ==
    LET mentions == {place \in Positions(safe) : safe[place[1]][place[2]] \in Amounts(f)}
        order == FirstK(InOrder(mentions, Lexicographic(mentions)), MaxReferences)
        around(p, i) == Passage(p, SubSeq(safe[p], Max({1, i - 1}), Min({Len(safe[p]), i + 1})))
    IN  {around(order[k][1], order[k][2]) : k \in DOMAIN order}

-----------------------------------------------------------------------------
NoUpload == [phase |-> "idle", file |-> 0, scans |-> {}, read |-> {}, findings |-> {}, batches |-> <<>>, next |-> 0,
         attempt |-> 0, heard |-> {}, calls |-> 0]

IntakeInit ==
    /\ settings \in [mode : {"rules", "balanced", "strict"}, ocr : BOOLEAN]
    /\ documents = <<>> /\ upload = NoUpload /\ offers = 0

Free == upload.phase \in {"idle", "kept"}

Admissible(f) == Content[f].fits /\ f \notin Range(documents) /\ Len(documents) < MaxDocuments

(* Too large, not what its name says, over the page limit, a duplicate or   *)
(* one document too many: nothing changes.                                  *)
TurnAway(f) ==
    /\ Free /\ offers < MaxOffers /\ ~Admissible(f)
    /\ offers' = offers + 1
    /\ upload' = NoUpload
    /\ UNCHANGED <<settings, documents>>

Offer(f) ==
    /\ Free /\ offers < MaxOffers /\ Admissible(f)
    /\ upload' = IF Scans(f) = {} THEN [NoUpload EXCEPT !.phase = "scan", !.file = f]
                 ELSE IF settings.ocr THEN [NoUpload EXCEPT !.phase = "ocr", !.file = f, !.scans = Scans(f)]
                 ELSE NoUpload
    /\ offers' = offers + 1
    /\ UNCHANGED <<settings, documents>>

(* An unreadable page spoils the file: evidence is required to have text.   *)
TextAvailable(read) == read = Scans(upload.file)

(* One page's OCR fails or reads it.                                        *)
Recognize(readable) ==
    /\ upload.phase = "ocr"
    /\ LET page == Min(upload.scans)
           read == upload.read \cup (IF readable THEN {page} ELSE {})
       IN  upload' = IF upload.scans # {page}
                     THEN [upload EXCEPT !.scans = @ \ {page}, !.read = read]
                     ELSE IF TextAvailable(read)
                          THEN [upload EXCEPT !.phase = "scan", !.scans = {}, !.read = read]
                          ELSE NoUpload
    /\ UNCHANGED <<settings, documents, offers>>

(* The evidence, appended to the record and never changed again.  heard and *)
(* seen are kept for the properties only.                                   *)
Record(findings, complete, reviewed, heard, seen) ==
    LET status == StatusOf(findings, complete)
    IN  /\ documents' = Append(documents, upload.file)
        /\ \E order \in LongestFirst({x.quote : x \in findings}) :
             LET safe == IF Allows(status) THEN Sanitized(upload.file, findings, order) ELSE <<>>
             IN  upload' = [phase |-> "kept", file |-> upload.file, status |-> status, findings |-> findings,
                            complete |-> complete, reviewed |-> reviewed, safe |-> safe,
                            references |-> References(upload.file, safe),
                            read |-> upload.read, heard |-> heard, seen |-> seen]
        /\ UNCHANGED <<settings, offers>>

Screen ==
    /\ upload.phase = "scan"
    /\ LET f        == upload.file
           findings == RuleFindings(f)
           batches  == ReviewBatches(f)
           complete == settings.mode = "strict" => WithinBudget(f)
       IN  IF batches = <<>>
           THEN Record(findings, complete, complete /\ settings.mode = "strict", findings, {})
           ELSE /\ upload' = [upload EXCEPT !.phase = "review", !.findings = findings, !.batches = batches,
                                            !.next = 1, !.attempt = 1, !.heard = findings]
                /\ UNCHANGED <<settings, documents, offers>>

(* The screening itself breaks: the file is kept, blocked.                  *)
ScreenBreaks ==
    /\ upload.phase = "scan"
    /\ Record({}, FALSE, FALSE, {}, {})

Seen(n) == UNION {Range(upload.batches[k]) : k \in 1 .. n}

Answered(answer) ==
    /\ upload.phase = "review"
    /\ LET heard == upload.heard \cup AsFindings(answer)
       IN  IF upload.next = Len(upload.batches)
           THEN Record(Deduplicated(heard), TRUE, TRUE, heard, Seen(upload.next))
           ELSE /\ upload' = [upload EXCEPT !.next = @ + 1, !.attempt = 1, !.heard = heard, !.calls = @ + 1]
                /\ UNCHANGED <<settings, documents, offers>>

MayRetryOnceMore == upload.attempt <= MaxAttempts

MayRetry == upload.attempt < MaxAttempts

(* A transient error is retried.                                            *)
Retry ==
    /\ upload.phase = "review" /\ MayRetry
    /\ upload' = [upload EXCEPT !.attempt = @ + 1, !.calls = @ + 1]
    /\ UNCHANGED <<settings, documents, offers>>

CompleteAnyway == TRUE

CompleteWithoutReview == settings.mode # "strict"

KeptOfRules == upload.findings

Kept == Deduplicated(upload.heard)

(* Any other error, or one transient error too many, ends the review.       *)
ReviewFails ==
    /\ upload.phase = "review"
    /\ Record(Kept, CompleteWithoutReview, FALSE, upload.heard, Seen(upload.next - 1))

(* What the reviewer may report of one file: one or two pieces on end.      *)
Reports(f) ==
    LET spans == {s \in Positions(Text(f)) \X (0 .. 1) : s[1][2] + s[2] <= Len(Text(f)[s[1][1]])}
        quotes == {SubSeq(Text(f)[s[1][1]], s[1][2], s[1][2] + s[2]) : s \in spans}
    IN  [page : 1 .. Len(Pages(f)) + 1, quote : quotes, severity : {"none", "medium", "critical"},
         sure : BOOLEAN, category : {"override", "output"}]

(* What may be left of an answer that raises at most one thing.             *)
Answers ==
    {{}} \cup {Validated(upload.file, upload.batches[upload.next], {x}) : x \in Reports(upload.file)}

IntakeNext ==
    \/ \E f \in Files : TurnAway(f) \/ Offer(f)
    \/ \E readable \in BOOLEAN : Recognize(readable)
    \/ Screen \/ ScreenBreaks \/ Retry \/ ReviewFails
    \/ upload.phase = "review" /\ \E answer \in Answers : Answered(answer)

IntakeSpec == IntakeInit /\ [][IntakeNext]_intakeVars

-----------------------------------------------------------------------------
IntakeTypeOK ==
    /\ upload.phase \in {"idle", "ocr", "scan", "review", "kept"}
    /\ upload.phase = "review" => upload.next \in DOMAIN upload.batches
    /\ upload.phase = "ocr" => upload.scans # {}
    /\ Len(documents) <= MaxDocuments /\ IsInjective(documents)
    /\ upload.phase = "kept" => (Allows(upload.status) <=> upload.safe # <<>>) /\ upload.file = Last(documents)

Evidence == IF upload.phase = "kept" THEN {upload} ELSE {}

Usable == {d \in Evidence : Allows(d.status)}

(* No text is analysed unless its file was read to the last page and        *)
(* screened to the end, in strict mode by a reviewer that answered for      *)
(* every word of every page; a budget or a reviewer that gives out leaves   *)
(* nothing half screened in use (_ingest_document, scan).                   *)
UsableOnlyScreened ==
    \A d \in Usable :
        /\ d.complete /\ d.read = Scans(d.file)
        /\ \A x \in RuleFindings(d.file) \cup d.heard : Rank[x.severity] < Rank["high"]
        /\ settings.mode = "strict" =>
               \A p \in DOMAIN Pages(d.file), k \in 1 .. PieceCount(d.file) :
                   k \in DOMAIN Text(d.file)[p] =>
                       \E c \in d.seen : c.page = p /\ Text(d.file)[p][k] \in Range(c.quote)

(* What was flagged anywhere is quoted whole nowhere in the text that may   *)
(* be analysed, and in no monetary reference drawn from it (mask_flagged_   *)
(* text, _extract_monetary_references); a quote of the mask itself, which   *)
(* only a file that spells it out can hold, stays as it is.                 *)
SafeTextClean ==
    \A d \in Usable : \A x \in d.findings :
        Mask \notin Range(x.quote) =>
            /\ \A p \in DOMAIN d.safe : ~Occurs(x.quote, d.safe[p])
            /\ \A r \in d.references : ~Occurs(x.quote, r.quote)

(* The reviewer only adds: what the rules found, and what it reported in    *)
(* the batches before the one that failed, is in the assessment as strong   *)
(* or stronger, and it never blocks a file by itself (module docstring,     *)
(* _review_semantically).                                                   *)
ReviewerOnlyAdds ==
    \A d \in Evidence :
        /\ \A x \in d.heard : \E y \in d.findings : SameKey(x, y) /\ Rank[y.severity] >= Rank[x.severity]
        /\ d.complete /\ d.status = "blocked" => \E x \in RuleFindings(d.file) : x.severity = "critical"

(* No page crowds another out of the bounded review: a passage is left out  *)
(* only when every other page got no further into its own, what the rules   *)
(* found and what a page repeats excepted (_semantic_candidates).           *)
EveryPageHeard ==
    upload.phase = "review" /\ settings.mode = "balanced" =>
        LET f     == upload.file
            shown == Seen(Len(upload.batches))
            ruled == {Passage(x.page, x.quote) : x \in RuleFindings(f)}
        IN  \A p, q \in DOMAIN Pages(f) :
              \A i \in DOMAIN FocusPassages(f, p), j \in DOMAIN FocusPassages(f, q) :
                  /\ FocusPassages(f, p)[i] \notin shown
                  /\ FocusPassages(f, q)[j] \in shown \ ruled
                  /\ \A k \in 1 .. j - 1 : FocusPassages(f, q)[k] # FocusPassages(f, q)[j]
                  => j <= i

(* A review spends no more calls than its budget, retries included          *)
(* (RetryingLLMClient, _review_batches).                                    *)
CallsBounded ==
    upload.phase = "review" =>
        upload.calls < MaxAttempts * (IF settings.mode = "strict" THEN StrictMaxBatches ELSE MaxCandidates)

(* Text comes into use only screened to the end and masked, and screening   *)
(* it costs no more calls than its budget (_ingest_document, scan).         *)
UsableSound == IntakeTypeOK /\ UsableOnlyScreened /\ SafeTextClean /\ CallsBounded
=============================================================================
