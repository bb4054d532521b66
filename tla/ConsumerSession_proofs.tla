----------------------- MODULE ConsumerSession_proofs -----------------------
(***************************************************************************)
(* Proofs about ConsumerSession: what counts as confirmed was ticked, a     *)
(* page that missed nothing is in step, and a repeat is not early.          *)
(***************************************************************************)
EXTENDS ConsumerSession, FiniteSetTheorems, SequenceTheorems, TLAPS

(* What travels, and what the record and the page are made of.              *)
Kinds == {"none", "create", "message", "facts", "loss", "upload", "generate", "get", "notice", "delete"}

Told == {"create", "message", "facts", "loss", "upload", "get"}

Replies == [ok : BOOLEAN, case : Snapshots \cup {None}, notice : Notices \cup {None}]

Requests ==
    [kind : Kinds, facts : Facts, tick : BOOLEAN \cup {None}, id : MessageIds \cup {None},
     state : {"sent", "working", "answered", "done"}, clean : BOOLEAN, reply : Replies \cup {None}]

Records ==
    [alive : BOOLEAN, facts : Facts, confirmed : BOOLEAN, docs : Nat, vectors : BOOLEAN,
     notice : Notices \cup {None}, replies : Seq(MessageIds), log : Seq({"user", "assistant"}),
     stamp : Nat]

Pages ==
    [creds : BOOLEAN, case : Snapshots \cup {None}, notice : Notices \cup {None}, synced : Nat,
     form : Facts, tick : BOOLEAN, at : {"render", "offline", "rest", "waits"}, waits : Nat,
     missed : BOOLEAN]

Routes == {"none", "uploading", "generating", "delivered", "failing", "cleaning", "cleaned", "gone"}

Typed ==
    /\ client \in Clients
    /\ server \in Records
    /\ Len(server.replies) <= MaxKeys /\ Len(server.log) <= MaxMessages
    /\ wire \in Seq(Requests)
    /\ page \in Pages
    /\ route \in Routes
    /\ ticked \subseteq Facts
    /\ applied \in Seq(MessageIds)

(* A notice drawn without an edit meeting it is of facts sent ticked.       *)
Seen(notice) == notice # None /\ notice.clean => notice.facts \in ticked

(* Who does what: one client, and only the program names its messages.      *)
Roles ==
    /\ client # "page" => page = Away
    /\ client = "prompt" => wire = <<>>
    /\ route # "none" => client = "prompt"
    /\ client # "program" => applied = <<>>
    /\ client = "page" => \A i \in DOMAIN wire : wire[i].id = None

(* The page waits for one request, which is still on the wire; only a       *)
(* creation is waited for without a case.                                   *)
PageSound ==
    /\ page.at = "waits" <=> page.waits # 0
    /\ page.creds <=> page.case # None
    /\ page.waits # 0 =>
        /\ page.waits \in DOMAIN wire
        /\ wire[page.waits].state # "done" /\ wire[page.waits].kind # "none"
        /\ wire[page.waits].kind = "create" <=> page.case = None
    /\ Seen(page.notice)

(* The case is created once, and while that is under way nothing else is.    *)
Created(i) ==
    wire[i].kind = "create" =>
        /\ i = 1 /\ client = "page"
        /\ wire[i].state = "sent" => page.case = None /\ Len(wire) = 1

(* Only the request waited for keeps its answer.                            *)
ReplySound(i) ==
    wire[i].state = "answered" =>
        /\ Waited(i) /\ page.at = "waits"
        /\ wire[i].reply \in Replies
        /\ IF wire[i].reply.ok /\ wire[i].kind \in Told THEN wire[i].reply.case # None
           ELSE wire[i].reply.case = None
        /\ Seen(wire[i].reply.notice)

(* A request with the box ticked is in the history, and a generation that   *)
(* no edit has met works on confirmed facts.                                *)
WireSound ==
    \A i \in DOMAIN wire :
        /\ Created(i)
        /\ ReplySound(i)
        /\ wire[i].kind = "facts" /\ wire[i].tick = TRUE => wire[i].facts \in ticked
        /\ wire[i].state = "working" =>
              wire[i].kind = "generate" /\ (wire[i].clean => server.confirmed)

RecordSound ==
    /\ ConfirmedWasSeen
    /\ client # "prompt" => Seen(server.notice)

(* A page that has missed nothing has, or is about to be given, the case as  *)
(* the service holds it.                                                    *)
InStep(c) ==
    LET held == Snapshot(server) IN
    /\ c.facts = held.facts /\ c.confirmed = held.confirmed
    /\ c.docs = held.docs /\ c.ready = held.ready
    /\ c.available => held.available

Heard ==
    IF page.waits # 0 /\ wire[page.waits].state = "answered" /\ wire[page.waits].reply.case # None
    THEN wire[page.waits].reply.case
    ELSE page.case

StepSound ==
    client = "page" /\ ~page.missed /\ server.alive =>
        /\ Heard # None => InStep(Heard)
        /\ page.waits # 0 /\ wire[page.waits].state = "answered" /\ wire[page.waits].reply.ok
              /\ wire[page.waits].kind = "generate" => server.notice # None

(* The keys remembered are the last ids applied, all of them different.     *)
WindowSound ==
    /\ server.replies = LastOf(applied, MaxKeys)
    /\ \A i, j \in DOMAIN applied : i < j /\ j - i <= MaxKeys => applied[i] # applied[j]

IInv ==
    /\ Typed /\ Roles /\ PageSound /\ WireSound /\ RecordSound /\ StepSound /\ WindowSound
    /\ NothingKept

-----------------------------------------------------------------------------
(* Operators.                                                               *)
LEMMA NoFactsTyped == NoFacts \in Facts
<1>1. 0 \in 0 .. MaxStories
  BY SessionAssumption
<1> QED BY <1>1 DEF NoFacts, Facts

LEMMA FactsTyped ==
    ASSUME NEW f \in Facts, NEW story \in 0 .. MaxStories
    PROVE  [f EXCEPT !.story = story] \in Facts /\ [f EXCEPT !.loss = TRUE] \in Facts
BY DEF Facts

LEMMA SnapshotTyped ==
    ASSUME NEW r \in Records
    PROVE  Snapshot(r) \in Snapshots
BY DEF Records, Snapshot, Snapshots, Ready

LEMMA NoneApart ==
    /\ \A r \in Records : Snapshot(r) # None
    /\ \A n \in Notices : n # None
    /\ \A id \in MessageIds : id # None
    /\ TRUE # None /\ FALSE # None
BY SnapshotTyped, NoneAssumption

LEMMA LastOfTyped ==
    ASSUME NEW S, NEW seq \in Seq(S), NEW n \in Nat \ {0}
    PROVE  /\ LastOf(seq, n) \in Seq(S)
           /\ Len(LastOf(seq, n)) = IF Len(seq) > n THEN n ELSE Len(seq)
           /\ \A k \in 1 .. Len(LastOf(seq, n)) :
                 LastOf(seq, n)[k] = seq[Len(seq) - Len(LastOf(seq, n)) + k]
<1> DEFINE m == Len(seq) - n + 1
<1>1. CASE Len(seq) > n
  <2>1. m \in Int /\ Len(seq) \in Int /\ \A i \in m .. Len(seq) : seq[i] \in S
    BY <1>1
  <2>2. /\ SubSeq(seq, m, Len(seq)) \in Seq(S)
        /\ Len(SubSeq(seq, m, Len(seq))) = IF m <= Len(seq) THEN Len(seq) - m + 1 ELSE 0
        /\ \A i \in 1 .. Len(seq) - m + 1 : SubSeq(seq, m, Len(seq))[i] = seq[m + i - 1]
    BY <2>1, SubSeqProperties
  <2>3. LastOf(seq, n) = SubSeq(seq, m, Len(seq))
    BY <1>1 DEF LastOf
  <2>4. Len(SubSeq(seq, m, Len(seq))) = n
    BY <2>2, <1>1
  <2>5. ASSUME NEW k \in 1 .. n
        PROVE  SubSeq(seq, m, Len(seq))[k] = seq[Len(seq) - n + k]
    <3>1. k \in 1 .. Len(seq) - m + 1 /\ m + k - 1 = Len(seq) - n + k
      BY <1>1
    <3> QED BY <3>1, <2>2
  <2> QED BY <1>1, <2>2, <2>3, <2>4, <2>5
<1>2. CASE ~(Len(seq) > n)
  BY <1>2 DEF LastOf
<1> QED BY <1>1, <1>2

Kept(r) == r \in Records /\ Len(r.replies) <= MaxKeys /\ Len(r.log) <= MaxMessages

LastFits(seq, n, S) == LastOf(seq, n) \in Seq(S) /\ Len(LastOf(seq, n)) <= n

LEMMA LastOfFits ==
    ASSUME NEW S, NEW seq \in Seq(S), NEW n \in Nat \ {0}
    PROVE  LastFits(seq, n, S)
<1>1. Len(seq) \in Nat
  OBVIOUS
<1>2. LastOf(seq, n) \in Seq(S) /\ Len(LastOf(seq, n)) = IF Len(seq) > n THEN n ELSE Len(seq)
  BY LastOfTyped
<1> QED BY <1>1, <1>2 DEF LastFits

LEMMA TouchedKept ==
    ASSUME NEW r, Kept(r)
    PROVE  Kept(Touched(r))
BY DEF Kept, Records, Touched

LEMMA LoggedTyped ==
    ASSUME NEW r, Kept(r), NEW messages \in Seq({"user", "assistant"})
    PROVE  Logged(r, messages) \in Seq({"user", "assistant"}) /\ Len(Logged(r, messages)) <= MaxMessages
<1>1. r.log \o messages \in Seq({"user", "assistant"}) /\ MaxMessages \in Nat \ {0}
  BY ConcatProperties, SessionAssumption DEF Kept, Records
<1>2. LastFits(r.log \o messages, MaxMessages, {"user", "assistant"})
  BY <1>1, LastOfFits
<1> QED BY <1>2 DEF Logged, LastFits

LEMMA RememberedTyped ==
    ASSUME NEW r, Kept(r), NEW id \in MessageIds \cup {None}
    PROVE  Remembered(r, id) \in Seq(MessageIds) /\ Len(Remembered(r, id)) <= MaxKeys
<1>1. MaxKeys \in Nat \ {0} /\ r.replies \in Seq(MessageIds)
  BY SessionAssumption DEF Kept, Records
<1>2. CASE id = None
  BY <1>1, <1>2 DEF Remembered, Kept
<1>3. CASE id # None
  <2>1. Append(r.replies, id) \in Seq(MessageIds)
    BY <1>1, <1>3
  <2>2. LastFits(Append(r.replies, id), MaxKeys, MessageIds)
    BY <1>1, <2>1, LastOfFits
  <2> QED BY <1>3, <2>2 DEF Remembered, LastFits
<1> QED BY <1>2, <1>3

LEMMA FactsKept ==
    ASSUME NEW r, Kept(r), NEW f \in Facts, NEW tick \in BOOLEAN \cup {None}
    PROVE  Kept(WithFacts(r, f, tick))
<1>1. (IF tick # None THEN tick ELSE r.confirmed /\ f = r.facts) \in BOOLEAN
  BY DEF Kept, Records
<1>2. (IF f = r.facts THEN r.notice ELSE None) \in Notices \cup {None}
  BY DEF Kept, Records
<1> DEFINE held == [r EXCEPT !.facts = f, !.notice = IF f = r.facts THEN @ ELSE None,
                            !.confirmed = IF tick # None THEN tick ELSE @ /\ f = r.facts]
<1>3. Kept(held)
  BY <1>1, <1>2 DEF Kept, Records
<1> QED BY <1>3, TouchedKept DEF WithFacts

LEMMA DocumentKept ==
    ASSUME NEW r, Kept(r)
    PROVE  Kept(WithDocument(r))
<1>1. <<"assistant">> \in Seq({"user", "assistant"})
  OBVIOUS
<1>2. /\ Logged(r, <<"assistant">>) \in Seq({"user", "assistant"})
      /\ Len(Logged(r, <<"assistant">>)) <= MaxMessages
  BY <1>1, LoggedTyped
<1> DEFINE n == r.docs + 1
           held == [r EXCEPT !.docs = n, !.notice = None, !.confirmed = FALSE,
                            !.log = Logged(r, <<"assistant">>)]
<1>3. n \in Nat
  BY DEF Kept, Records
<1>4. Kept(held)
  <2> HIDE DEF n
  <2> QED BY <1>2, <1>3 DEF Kept, Records
<1> QED BY <1>4, TouchedKept DEF WithDocument

LEMMA NoticeKept ==
    ASSUME NEW r, Kept(r), NEW clean \in BOOLEAN
    PROVE  /\ WithNotice(r, clean).notice \in Notices
           /\ Kept(WithNotice(r, clean))
<1>1. [facts |-> r.facts, clean |-> clean] \in Notices
  BY DEF Kept, Records, Notices
<1> DEFINE held == [r EXCEPT !.notice = [facts |-> r.facts, clean |-> clean], !.vectors = TRUE]
<1>2. Kept(held) /\ held.notice = [facts |-> r.facts, clean |-> clean]
  BY <1>1 DEF Kept, Records
<1>3. Touched(held).notice = held.notice
  BY DEF Touched
<1> QED BY <1>1, <1>2, <1>3, TouchedKept DEF WithNotice

LEMMA FlagsKept ==
    ASSUME NEW r, Kept(r), NEW flag \in BOOLEAN
    PROVE  Kept([r EXCEPT !.alive = flag]) /\ Kept([r EXCEPT !.vectors = flag])
BY DEF Kept, Records

LEMMA MessageKept ==
    ASSUME NEW r, Kept(r), NEW id \in MessageIds \cup {None}, NEW story \in 0 .. MaxStories
    PROVE  Kept(WithMessage(r, id, story))
<1>1. <<"user", "assistant">> \in Seq({"user", "assistant"})
  OBVIOUS
<1>2. /\ Logged(r, <<"user", "assistant">>) \in Seq({"user", "assistant"})
      /\ Len(Logged(r, <<"user", "assistant">>)) <= MaxMessages
  BY <1>1, LoggedTyped
<1>3. Remembered(r, id) \in Seq(MessageIds) /\ Len(Remembered(r, id)) <= MaxKeys
  BY RememberedTyped
<1>4. [r.facts EXCEPT !.story = story] \in Facts
  BY FactsTyped DEF Kept, Records
<1> DEFINE held == [r EXCEPT !.facts.story = story, !.confirmed = FALSE, !.notice = None,
                            !.replies = Remembered(r, id), !.log = Logged(r, <<"user", "assistant">>)]
<1>5. Kept(held)
  BY <1>2, <1>3, <1>4 DEF Kept, Records
<1> QED BY <1>5, TouchedKept DEF WithMessage

LEMMA NewRecordKept == Kept(NewRecord) /\ Kept(Touched(NewRecord))
<1>1. NewRecord \in Records /\ Len(NewRecord.replies) = 0 /\ Len(NewRecord.log) = 0
  BY NoFactsTyped DEF NewRecord, Records
<1>2. Touched(NewRecord) \in Records
  BY <1>1 DEF Touched, Records
<1>3. Touched(NewRecord).replies = <<>> /\ Touched(NewRecord).log = <<>>
  BY DEF Touched, NewRecord
<1> QED BY <1>1, <1>2, <1>3, SessionAssumption DEF Kept

LEMMA RequestTyped ==
    ASSUME NEW kind \in Kinds, NEW f \in Facts, NEW tick \in BOOLEAN \cup {None},
           NEW id \in MessageIds \cup {None}
    PROVE  /\ Request(kind, f, tick, id) \in Requests
           /\ Request(kind, f, tick, id).state = "sent"
BY DEF Request, Requests

LEMMA OverTyped == Over \in Requests /\ Over.kind = "none" /\ Over.state = "done" /\ Over.id = None
<1>1. Request("none", NoFacts, None, None) \in Requests
  BY NoFactsTyped, RequestTyped DEF Kinds
<1>2. Over \in Requests
  BY <1>1 DEF Over, Requests
<1> QED BY <1>2 DEF Over, Request

(* Answering, marking and forgetting requests keeps the wire one.           *)
LEMMA WireTyped ==
    ASSUME wire \in Seq(Requests), NEW w, w = [j \in DOMAIN wire |-> w[j]],
           \A j \in DOMAIN wire : w[j] \in Requests
    PROVE  w \in Seq(Requests) /\ Len(w) = Len(wire) /\ DOMAIN w = DOMAIN wire
<1>1. Len(wire) \in Nat /\ DOMAIN wire = 1 .. Len(wire)
  OBVIOUS
<1>2. w \in [1 .. Len(wire) -> Requests]
  BY <1>1
<1>3. w \in Seq(Requests)
  BY <1>1, <1>2, SeqDef
<1> QED BY <1>1, <1>2, <1>3

-----------------------------------------------------------------------------
(* Steps that send: one more request, and perhaps a page that waits.        *)
LEMMA InitSound == Init => IInv
<1> SUFFICES ASSUME Init PROVE IInv
  OBVIOUS
<1> USE DEF Init
<1>1. Kept(server) /\ server.replies = <<>> /\ ~server.confirmed /\ server.notice = None
  BY NewRecordKept DEF Kept, NewRecord, Records
<1>2. page \in Pages
  BY NoFactsTyped DEF Away, Pages
<1>3. wire \in Seq(Requests) /\ DOMAIN wire = {} /\ applied \in Seq(MessageIds) /\ DOMAIN applied = {}
  OBVIOUS
<1>4. Typed
  BY <1>1, <1>2, <1>3 DEF Typed, Kept, Routes
<1>5. Roles
  BY DEF Roles
<1>6. PageSound
  BY DEF PageSound, Away, Seen
<1>7. WireSound
  BY <1>3 DEF WireSound
<1>8. RecordSound
  BY <1>1 DEF RecordSound, ConfirmedWasSeen, Seen
<1>9. StepSound
  BY DEF StepSound, Heard, Away
<1>10. WindowSound
  BY <1>1, SessionAssumption DEF WindowSound, LastOf
<1>11. NothingKept
  BY DEF NothingKept
<1> QED BY <1>4, <1>5, <1>6, <1>7, <1>8, <1>9, <1>10, <1>11 DEF IInv

(* The wire with a request more.                                            *)
LEMMA AppendedWire ==
    ASSUME wire \in Seq(Requests), NEW q \in Requests, wire' = Append(wire, q)
    PROVE  /\ wire' \in Seq(Requests) /\ Len(wire) \in Nat /\ Len(wire') = Len(wire) + 1
           /\ DOMAIN wire = 1 .. Len(wire) /\ DOMAIN wire' = DOMAIN wire \cup {Len(wire) + 1}
           /\ Len(wire) + 1 \notin DOMAIN wire
           /\ wire'[Len(wire) + 1] = q
           /\ \A i \in DOMAIN wire : wire'[i] = wire[i]
OBVIOUS

(* The page sends and waits, showing what it showed.                        *)
LEMMA PageSends ==
    ASSUME IInv, client = "page", page.waits = 0,
           NEW kind \in Kinds \ {"none"}, NEW f \in Facts, NEW tick \in BOOLEAN \cup {None},
           kind = "create" => wire = <<>> /\ page.case = None,
           kind # "create" => page.case # None,
           wire' = Append(wire, Request(kind, f, tick, None)),
           page' \in Pages, page'.at = "waits", page'.waits = Len(wire) + 1,
           page'.case = page.case, page'.notice = page.notice,
           page'.creds = page.creds, page'.missed = page.missed,
           ticked \subseteq ticked', ticked' \subseteq Facts,
           kind = "facts" /\ tick = TRUE => f \in ticked',
           UNCHANGED <<client, server, route, applied>>
    PROVE  IInv'
<1> DEFINE q == Request(kind, f, tick, None)
           n == Len(wire) + 1
<1>1. q \in Requests /\ q.kind = kind /\ q.facts = f /\ q.tick = tick /\ q.id = None /\ q.state = "sent"
  BY RequestTyped DEF Request
<1>2. /\ wire' \in Seq(Requests) /\ Len(wire) \in Nat /\ Len(wire') = n
      /\ DOMAIN wire = 1 .. Len(wire) /\ DOMAIN wire' = DOMAIN wire \cup {n} /\ n \notin DOMAIN wire
      /\ wire'[n] = q /\ \A i \in DOMAIN wire : wire'[i] = wire[i]
  BY <1>1, AppendedWire DEF IInv, Typed
<1> HIDE DEF q
<1>3. Typed'
  BY <1>2 DEF IInv, Typed, Kept
<1>4. Roles'
  BY <1>1, <1>2 DEF IInv, Roles
<1>5. PageSound'
  BY <1>1, <1>2 DEF IInv, PageSound, Seen
<1>6. WireSound'
  <2> SUFFICES ASSUME NEW i \in DOMAIN wire'
               PROVE  (/\ Created(i) /\ ReplySound(i)
                       /\ wire[i].kind = "facts" /\ wire[i].tick = TRUE => wire[i].facts \in ticked
                       /\ wire[i].state = "working" =>
                             wire[i].kind = "generate" /\ (wire[i].clean => server.confirmed))'
    BY DEF WireSound
  <2>1. CASE i = n
    <3>1. Created(i)'
      BY <2>1, <1>1, <1>2 DEF Created
    <3> QED BY <3>1, <2>1, <1>1, <1>2 DEF ReplySound
  <2>2. CASE i \in DOMAIN wire
    <3>1. wire'[i] = wire[i] /\ Created(i) /\ ReplySound(i)
      BY <2>2, <1>2 DEF IInv, WireSound
    <3>2. wire[i].state # "answered"
      BY <3>1, <2>2, <1>2 DEF ReplySound, Waited
    <3>3. Created(i)'
      <4>1. wire # <<>>
        BY <2>2
      <4>2. wire[i].kind = "create" /\ wire[i].state = "sent" => kind = "create"
        BY <3>1 DEF Created
      <4> QED BY <4>1, <4>2, <3>1 DEF Created
    <3> QED BY <3>1, <3>2, <3>3, <2>2 DEF IInv, WireSound, ReplySound
  <2> QED BY <2>1, <2>2, <1>2
<1>7. RecordSound'
  BY DEF IInv, RecordSound, ConfirmedWasSeen, Seen
<1>8. StepSound'
  <2>1. Heard = page.case /\ Heard' = page.case
    BY <1>1, <1>2 DEF Heard
  <2> QED BY <2>1, <1>1, <1>2 DEF IInv, StepSound, InStep
<1>9. WindowSound' /\ NothingKept'
  BY DEF IInv, WindowSound, NothingKept
<1> QED BY <1>3, <1>4, <1>5, <1>6, <1>7, <1>8, <1>9 DEF IInv

(* The page moves on without sending, or its case ends unheard.             *)
LEMMA PageStays ==
    ASSUME IInv, client = "page", page.waits = 0,
           page' \in Pages, page'.at # "waits", page'.waits = 0,
           page'.case = page.case, page'.notice = page.notice,
           page'.creds = page.creds, page'.missed = page.missed,
           UNCHANGED <<client, server, wire, route, ticked, applied>>
    PROVE  IInv'
<1>1. Typed' /\ Roles' /\ PageSound'
  BY DEF IInv, Typed, Roles, PageSound, Seen
<1>2. WireSound'
  <2> SUFFICES ASSUME NEW i \in DOMAIN wire
               PROVE  Created(i)' /\ ReplySound(i)'
    BY DEF IInv, WireSound
  <2>1. i # 0 /\ Created(i) /\ ReplySound(i)
    BY DEF IInv, WireSound, Typed
  <2> QED BY <2>1 DEF Created, ReplySound, Waited
<1>3. RecordSound' /\ WindowSound' /\ NothingKept'
  BY DEF IInv, RecordSound, ConfirmedWasSeen, Seen, WindowSound, NothingKept
<1>4. StepSound'
  <2>1. Heard = page.case /\ Heard' = page.case
    BY DEF Heard
  <2> QED BY <2>1 DEF IInv, StepSound, InStep
<1> QED BY <1>1, <1>2, <1>3, <1>4 DEF IInv

-----------------------------------------------------------------------------
(* Steps of the service.                                                    *)

(* What the service may answer to a request: as ReplySound says, with the   *)
(* record as it is from then on.                                            *)
Answerable(q, reply, r) ==
    /\ q.state \in {"sent", "working"}
    /\ reply \in Replies
    /\ IF reply.ok /\ q.kind \in Told THEN reply.case = Snapshot(r) ELSE reply.case = None
    /\ reply.notice # None => reply.notice = r.notice
    /\ reply.ok /\ q.kind = "generate" => r.notice # None

(* Other requests keep everything but the mark of a generation.             *)
Marked(q, was) == \E clean \in BOOLEAN : (clean => was.clean) /\ q = [was EXCEPT !.clean = clean]

(* The record keeps what was confirmed, and what a page in step would show. *)
Follows(r) ==
    /\ Kept(r)
    /\ r.confirmed => r.facts \in ticked
    /\ client # "prompt" => Seen(r.notice)

SameShown(r) ==
    /\ r.facts = server.facts /\ r.confirmed = server.confirmed /\ r.docs = server.docs
    /\ r.alive => server.alive
    /\ server.notice # None => r.notice # None

LEMMA AnswerSound ==
    ASSUME IInv, NEW i \in DOMAIN wire, NEW reply,
           Follows(server'), Answerable(wire[i], reply, server'),
           reply.case = None => SameShown(server'),
           wire' = [j \in DOMAIN wire |-> wire'[j]],
           wire'[i] = Answered(i, reply),
           \A j \in DOMAIN wire \ {i} :
              /\ Marked(wire'[j], wire[j])
              /\ wire'[j].state = "working" /\ wire'[j].clean => server'.confirmed,
           Behind(i, reply),
           WindowSound', applied' \in Seq(MessageIds), client # "program" => applied' = applied,
           UNCHANGED <<client, route, ticked>>
    PROVE  IInv'
<1> DEFINE q == wire[i]
<1>1. q \in Requests /\ DOMAIN wire = 1 .. Len(wire) /\ Len(wire) \in Nat
  BY DEF IInv, Typed
<1>2. Answered(i, reply) \in Requests
  BY <1>1, OverTyped DEF Answered, Requests, Answerable
<1>3. /\ Waited(i) => /\ wire'[i].kind = q.kind /\ wire'[i].facts = q.facts /\ wire'[i].tick = q.tick
                      /\ wire'[i].id = q.id /\ wire'[i].state = "answered" /\ wire'[i].reply = reply
      /\ ~Waited(i) => wire'[i] = Over
  BY <1>1 DEF Answered, Requests
<1>4. ASSUME NEW j \in DOMAIN wire, j # i
      PROVE  /\ wire'[j] \in Requests
             /\ wire'[j].kind = wire[j].kind /\ wire'[j].facts = wire[j].facts
             /\ wire'[j].tick = wire[j].tick /\ wire'[j].id = wire[j].id
             /\ wire'[j].state = wire[j].state /\ wire'[j].reply = wire[j].reply
             /\ wire'[j].clean => wire[j].clean
  <2>1. wire[j] \in Requests
    BY DEF IInv, Typed
  <2>2. PICK clean \in BOOLEAN : (clean => wire[j].clean) /\ wire'[j] = [wire[j] EXCEPT !.clean = clean]
    BY <1>4 DEF Marked
  <2> QED BY <2>1, <2>2 DEF Requests
<1>5. wire' \in Seq(Requests) /\ Len(wire') = Len(wire) /\ DOMAIN wire' = DOMAIN wire
  <2>1. \A j \in DOMAIN wire : wire'[j] \in Requests
    BY <1>2, <1>4
  <2> QED BY <2>1, WireTyped DEF IInv, Typed
<1>6. /\ page' = [page EXCEPT !.missed = IF ~Waited(i) THEN client = "page" ELSE @ /\ reply.case = None]
      /\ page \in Pages
  BY DEF Behind, IInv, Typed
<1>7. /\ page' \in Pages /\ page'.at = page.at /\ page'.waits = page.waits /\ page'.case = page.case
      /\ page'.creds = page.creds /\ page'.notice = page.notice
      /\ page'.missed \in BOOLEAN /\ page' = [page EXCEPT !.missed = page'.missed]
  BY <1>6 DEF Pages
<1>71. ASSUME Waited(i) PROVE page'.missed <=> page.missed /\ reply.case = None
  BY <1>6, <1>71 DEF Pages
<1>72. ASSUME ~Waited(i) PROVE page'.missed <=> client = "page"
  BY <1>6, <1>72 DEF Pages
<1>8. client # "prompt"
  BY <1>1 DEF IInv, Roles
<1>9. Typed'
  BY <1>5, <1>7 DEF IInv, Typed, Follows, Kept
<1>10. Roles'
  <2>1. client # "page" => page' = page
    <3> SUFFICES ASSUME client # "page" PROVE page' = page
      OBVIOUS
    <3>1. page'.missed = FALSE
      BY <1>7, <1>72 DEF Waited
    <3>2. page.missed = FALSE
      BY DEF IInv, Roles, Away
    <3> QED BY <3>1, <3>2, <1>6, <1>7 DEF Pages
  <2>2. ASSUME client = "page", NEW j \in DOMAIN wire' PROVE wire'[j].id = None
    BY <2>2, <1>3, <1>4, <1>5, OverTyped DEF IInv, Roles
  <2> QED BY <2>1, <2>2, <1>8 DEF IInv, Roles
<1>11. PageSound'
  <2>1. page.waits # 0 => client = "page"
    BY DEF IInv, Roles, Away
  <2> QED BY <2>1, <1>3, <1>4, <1>5, <1>7 DEF IInv, PageSound, Seen, Waited
<1>12. WireSound'
  <2> SUFFICES ASSUME NEW j \in DOMAIN wire
               PROVE  (/\ Created(j) /\ ReplySound(j)
                       /\ wire[j].kind = "facts" /\ wire[j].tick = TRUE => wire[j].facts \in ticked
                       /\ wire[j].state = "working" =>
                             wire[j].kind = "generate" /\ (wire[j].clean => server.confirmed))'
    BY <1>5 DEF WireSound
  <2>1. /\ Created(j) /\ ReplySound(j)
        /\ wire[j].kind = "facts" /\ wire[j].tick = TRUE => wire[j].facts \in ticked
        /\ wire[j].state = "working" => wire[j].kind = "generate"
    BY DEF IInv, WireSound
  <2>2. CASE j # i
    BY <2>1, <2>2, <1>4, <1>5, <1>7 DEF Created, ReplySound, Waited, Seen
  <2>3. CASE j = i /\ ~Waited(i)
    BY <2>3, <1>3, OverTyped DEF Created, ReplySound
  <2>4. CASE j = i /\ Waited(i)
    <3>1. Created(i)'
      BY <2>1, <2>4, <1>3 DEF Created
    <3>2. page.at = "waits"
      BY <2>4, <1>1 DEF IInv, PageSound, Waited
    <3>3. reply.ok /\ q.kind \in Told => reply.case # None
      BY NoneApart DEF Answerable, Follows, Kept
    <3>4. Seen(reply.notice)'
      BY <1>8 DEF Answerable, Follows, Seen
    <3>5. ReplySound(i)'
      BY <3>2, <3>3, <3>4, <2>4, <1>3, <1>7 DEF ReplySound, Answerable, Waited
    <3> QED BY <3>1, <3>5, <2>1, <2>4, <1>3
  <2> QED BY <2>2, <2>3, <2>4
<1>13. RecordSound'
  BY DEF Follows, RecordSound, ConfirmedWasSeen, Seen
<1>14. StepSound'
  <2> SUFFICES ASSUME client = "page", ~page'.missed, server'.alive
               PROVE  /\ Heard' # None => InStep(Heard)'
                      /\ wire'[i].reply.ok /\ wire'[i].kind = "generate" => server'.notice # None
                      /\ page.waits = i
    BY <1>7 DEF StepSound
  <2> Waited(i)
    BY <1>72
  <2>1. page.waits = i /\ i # 0 /\ wire'[i].kind = q.kind /\ wire'[i].reply = reply
        /\ wire'[i].state = "answered"
    BY <1>1, <1>3, <1>7 DEF Waited
  <2>2. CASE reply.case # None
    <3>1. Heard' = Snapshot(server')
      BY <2>1, <2>2, <1>7 DEF Heard, Answerable
    <3> QED BY <3>1, <2>1 DEF InStep, Snapshot, Answerable
  <2>3. CASE reply.case = None
    <3>1. ~page.missed /\ SameShown(server')
      BY <2>3, <1>71
    <3>2. Heard = page.case /\ Heard' = page.case
      BY <2>1, <2>3, <1>7 DEF Heard, Answerable
    <3>3. page.case # None => InStep(page.case)
      BY <3>1, <3>2 DEF IInv, StepSound, SameShown
    <3> QED BY <3>1, <3>2, <3>3, <2>1 DEF InStep, SameShown, Snapshot, Ready, Answerable
  <2> QED BY <2>2, <2>3, <2>1
<1>15. NothingKept'
  BY <1>8 DEF IInv, Roles, NothingKept
<1> QED BY <1>9, <1>10, <1>11, <1>12, <1>13, <1>14, <1>15 DEF IInv

LEMMA RepliesTyped ==
    /\ Refusal \in Replies
    /\ \A ok \in BOOLEAN, n \in Notices \cup {None} : [ok |-> ok, case |-> None, notice |-> n] \in Replies
    /\ \A r \in Records : Case(r) \in Replies
BY SnapshotTyped DEF Refusal, Case, Replies

(* An answer that marks nothing.                                            *)
LEMMA PlainAnswer ==
    ASSUME IInv, NEW i \in DOMAIN wire, NEW reply, Answer(i, reply),
           Follows(server'), Answerable(wire[i], reply, server'),
           reply.case = None => SameShown(server'),
           server'.confirmed = server.confirmed \/ Working \subseteq {i},
           WindowSound', UNCHANGED <<client, route, ticked, applied>>
    PROVE  IInv'
<1>1. wire \in Seq(Requests) /\ wire' = [wire EXCEPT ![i] = Answered(i, reply)]
  BY DEF IInv, Typed, Answer
<1>2. wire' = [j \in DOMAIN wire |-> wire'[j]] /\ wire'[i] = Answered(i, reply)
  BY <1>1
<1>3. ASSUME NEW j \in DOMAIN wire \ {i}
      PROVE  /\ Marked(wire'[j], wire[j])
             /\ wire'[j].state = "working" /\ wire'[j].clean => server'.confirmed
  <2>1. wire'[j] = wire[j] /\ wire[j] \in Requests
    BY <1>1
  <2>2. wire[j] = [wire[j] EXCEPT !.clean = wire[j].clean] /\ wire[j].clean \in BOOLEAN
    BY <2>1 DEF Requests
  <2>3. wire[j].state = "working" => j \in Working
    BY DEF Working
  <2>4. wire[j].state = "working" /\ wire[j].clean => server.confirmed
    BY DEF IInv, WireSound
  <2> QED BY <2>1, <2>2, <2>3, <2>4 DEF Marked
<1>4. applied' \in Seq(MessageIds)
  BY DEF IInv, Typed
<1> QED BY <1>2, <1>3, <1>4, AnswerSound DEF Answer

(* An edit's answer, which marks the generation it meets.                   *)
LEMMA EditAnswer ==
    ASSUME IInv, NEW i \in DOMAIN wire, AnswerEdit(i, server'), Follows(server'),
           wire[i].state = "sent", wire[i].kind \in Edits,
           WindowSound', applied' \in Seq(MessageIds), client # "program" => applied' = applied,
           UNCHANGED <<client, route, ticked>>
    PROVE  IInv'
<1> DEFINE reply == Case(server')
<1>1. reply \in Replies /\ reply.ok /\ reply.case = Snapshot(server') /\ reply.notice = None
  BY RepliesTyped DEF Follows, Kept, Case
<1>2. Answerable(wire[i], reply, server') /\ reply.case # None
  BY <1>1, NoneApart DEF Answerable, Follows, Kept, Edits, Told
<1>3. ASSUME NEW j \in DOMAIN wire \ {i}
      PROVE  /\ Marked(wire'[j], wire[j])
             /\ wire'[j].state = "working" /\ wire'[j].clean => server'.confirmed
  <2> DEFINE clean == wire[j].clean /\
                        (j \in Working => server'.facts = server.facts /\ server'.confirmed)
  <2>1. wire'[j] = [wire[j] EXCEPT !.clean = clean] /\ wire[j] \in Requests
    BY DEF AnswerEdit, IInv, Typed
  <2>2. clean \in BOOLEAN /\ (clean => wire[j].clean)
    OBVIOUS
  <2>3. wire'[j].state = wire[j].state /\ (wire'[j].clean <=> clean)
    BY <2>1 DEF Requests
  <2>4. wire[j].state = "working" => j \in Working
    BY DEF Working
  <2> QED BY <2>1, <2>2, <2>3, <2>4 DEF Marked
<1>4. wire' = [j \in DOMAIN wire |-> wire'[j]] /\ wire'[i] = Answered(i, reply) /\ Behind(i, reply)
  BY DEF AnswerEdit
<1> HIDE DEF reply
<1> QED BY <1>2, <1>3, <1>4, AnswerSound

LEMMA RecordFollows == IInv => Follows(server)
BY DEF IInv, Follows, RecordSound, ConfirmedWasSeen, Typed, Kept

LEMMA WindowStays ==
    ASSUME WindowSound, server'.replies = server.replies, UNCHANGED applied
    PROVE  WindowSound'
BY DEF WindowSound

(* Answers that leave the record as it is.                                  *)
LEMMA IdleAnswer ==
    ASSUME IInv, NEW i \in DOMAIN wire, NEW reply, Answer(i, reply),
           Answerable(wire[i], reply, server),
           UNCHANGED <<client, server, route, ticked, applied>>
    PROVE  IInv'
<1>1. Follows(server') /\ SameShown(server') /\ WindowSound'
  <2>1. Follows(server) /\ WindowSound
    BY RecordFollows DEF IInv
  <2> QED BY <2>1 DEF Follows, SameShown, WindowSound, Kept, Seen
<1> QED BY <1>1, PlainAnswer

LEMMA CreateSound ==
    ASSUME IInv, NEW i \in DOMAIN wire, ApplyCreate(i)
    PROVE  IInv'
<1>1. server' = Touched(NewRecord) /\ wire[i].kind = "create" /\ wire[i].state = "sent"
      /\ Answer(i, Case(server'))
  BY DEF ApplyCreate
<1>2. Kept(server') /\ server'.replies = <<>> /\ server'.confirmed = FALSE /\ server'.notice = None
  <2>1. Kept(Touched(NewRecord))
    BY NewRecordKept
  <2>2. /\ Touched(NewRecord).replies = <<>> /\ Touched(NewRecord).confirmed = FALSE
        /\ Touched(NewRecord).notice = None
    BY DEF Touched, NewRecord
  <2> QED BY <2>1, <2>2, <1>1
<1>3. Follows(server')
  BY <1>2 DEF Follows, Seen
<1>4. Case(server') \in Replies /\ Case(server').case = Snapshot(server') /\ Snapshot(server') # None
      /\ Case(server').ok /\ Case(server').notice = None
  BY <1>2, RepliesTyped, NoneApart DEF Case, Kept
<1>5. Answerable(wire[i], Case(server'), server')
  BY <1>1, <1>4 DEF Answerable, Told
<1>6. Working \subseteq {i} /\ client = "page"
  <2>1. i = 1 /\ client = "page" /\ Len(wire) = 1
    BY <1>1 DEF IInv, WireSound, Created
  <2> QED BY <2>1 DEF Working, IInv, Typed
<1>7. WindowSound'
  <2>1. applied' = <<>>
    BY <1>6 DEF IInv, Roles, ApplyCreate
  <2> QED BY <2>1, <1>2, SessionAssumption DEF WindowSound, LastOf
<1> QED BY <1>1, <1>3, <1>4, <1>5, <1>6, <1>7, PlainAnswer DEF ApplyCreate

LEMMA GoneSound ==
    ASSUME IInv, NEW i \in DOMAIN wire, ApplyGone(i)
    PROVE  IInv'
<1>1. Answerable(wire[i], Refusal, server)
  BY RepliesTyped DEF Answerable, Refusal, ApplyGone
<1> QED BY <1>1, IdleAnswer DEF ApplyGone

LEMMA ReadSound ==
    ASSUME IInv, NEW i \in DOMAIN wire, ApplyRead(i)
    PROVE  IInv'
<1>1. server \in Records /\ server.notice \in Notices \cup {None} /\ wire[i].state = "sent"
  BY DEF IInv, Typed, Records, ApplyRead
<1>2. CASE wire[i].kind = "get"
  <2>1. Answerable(wire[i], Case(server), server)
    BY <1>1, <1>2, RepliesTyped DEF Answerable, Case, Told
  <2> QED BY <1>2, <2>1, IdleAnswer DEF ApplyRead
<1>3. CASE wire[i].kind = "notice"
  <2> DEFINE reply == [ok |-> server.notice # None, case |-> None, notice |-> server.notice]
  <2>1. reply \in Replies
    BY <1>1, RepliesTyped
  <2>2. Answerable(wire[i], reply, server) /\ Answer(i, reply)
    BY <1>1, <1>3, <2>1 DEF Answerable, Told, ApplyRead
  <2> HIDE DEF reply
  <2> QED BY <2>2, IdleAnswer DEF ApplyRead
<1> QED BY <1>2, <1>3 DEF ApplyRead

LEMMA FactsFields ==
    ASSUME NEW r, Kept(r), NEW f \in Facts, NEW tick \in BOOLEAN \cup {None}
    PROVE  /\ WithFacts(r, f, tick).facts = f
           /\ WithFacts(r, f, tick).replies = r.replies
           /\ WithFacts(r, f, tick).notice = IF f = r.facts THEN r.notice ELSE None
           /\ tick # None => WithFacts(r, f, tick).confirmed = tick
           /\ tick = None => (WithFacts(r, f, tick).confirmed <=> r.confirmed /\ f = r.facts)
<1> DEFINE held == [r EXCEPT !.facts = f, !.notice = IF f = r.facts THEN @ ELSE None,
                            !.confirmed = IF tick # None THEN tick ELSE @ /\ f = r.facts]
<1>1. /\ held.facts = f /\ held.replies = r.replies
      /\ held.notice = IF f = r.facts THEN r.notice ELSE None
      /\ tick # None => held.confirmed = tick
      /\ tick = None => (held.confirmed <=> r.confirmed /\ f = r.facts)
  BY DEF Kept, Records
<1>2. /\ Touched(held).facts = held.facts /\ Touched(held).replies = held.replies
      /\ Touched(held).notice = held.notice /\ Touched(held).confirmed = held.confirmed
  BY DEF Touched
<1> QED BY <1>1, <1>2 DEF WithFacts

LEMMA ApplyFactsSound ==
    ASSUME IInv, NEW i \in DOMAIN wire, ApplyFacts(i)
    PROVE  IInv'
<1>1. Kept(server) /\ Follows(server) /\ wire[i] \in Requests /\ server.facts \in Facts
      /\ server.confirmed \in BOOLEAN
  BY RecordFollows DEF IInv, Typed, Kept, Records
<1>2. CASE wire[i].kind = "facts"
  <2>1. server' = WithFacts(server, wire[i].facts, wire[i].tick)
        /\ wire[i].facts \in Facts /\ wire[i].tick \in BOOLEAN \cup {None}
    BY <1>1, <1>2 DEF ApplyFacts, Requests
  <2>2. wire[i].tick = TRUE => wire[i].facts \in ticked
    BY <1>2 DEF IInv, WireSound
  <2>3. Kept(server') /\ server'.replies = server.replies
    BY <1>1, <2>1, FactsKept, FactsFields
  <2>4. server'.confirmed => server'.facts \in ticked
    <3>1. CASE wire[i].tick = None
      BY <3>1, <2>1, <1>1, FactsFields DEF Follows
    <3>2. CASE wire[i].tick # None
      BY <3>2, <2>1, <2>2, <1>1, FactsFields
    <3> QED BY <3>1, <3>2
  <2>5. server'.notice = server.notice \/ server'.notice = None
    BY <1>1, <2>1, FactsFields
  <2>6. Follows(server')
    BY <1>1, <2>3, <2>4, <2>5 DEF Follows, Seen
  <2> QED BY <2>3, <2>6, <1>2, EditAnswer, WindowStays DEF ApplyFacts, Edits, IInv, Typed
<1>3. CASE wire[i].kind = "loss"
  <2> DEFINE f == [server.facts EXCEPT !.loss = TRUE]
  <2>1. server' = WithFacts(server, f, None) /\ f \in Facts
    BY <1>1, <1>3, FactsTyped, SessionAssumption DEF ApplyFacts, Facts
  <2> HIDE DEF f
  <2>2. Kept(server') /\ server'.replies = server.replies
    BY <1>1, <2>1, FactsKept, FactsFields
  <2>3. server'.confirmed => server'.facts \in ticked
    BY <1>1, <2>1, FactsFields DEF Follows
  <2>4. server'.notice = server.notice \/ server'.notice = None
    BY <1>1, <2>1, FactsFields
  <2>5. Follows(server')
    BY <1>1, <2>2, <2>3, <2>4 DEF Follows, Seen
  <2> QED BY <2>2, <2>5, <1>3, EditAnswer, WindowStays DEF ApplyFacts, Edits, IInv, Typed
<1> QED BY <1>2, <1>3 DEF ApplyFacts

LEMMA DocumentFields ==
    ASSUME NEW r, Kept(r)
    PROVE  /\ WithDocument(r).confirmed = FALSE /\ WithDocument(r).notice = None
           /\ WithDocument(r).replies = r.replies
<1> DEFINE held == [r EXCEPT !.docs = @ + 1, !.notice = None, !.confirmed = FALSE,
                            !.log = Logged(r, <<"assistant">>)]
<1>1. held.confirmed = FALSE /\ held.notice = None /\ held.replies = r.replies
  BY DEF Kept, Records
<1>2. /\ Touched(held).replies = held.replies
      /\ Touched(held).notice = held.notice /\ Touched(held).confirmed = held.confirmed
  BY DEF Touched
<1> QED BY <1>1, <1>2 DEF WithDocument

LEMMA UploadSound ==
    ASSUME IInv, NEW i \in DOMAIN wire, ApplyUpload(i)
    PROVE  IInv'
<1>1. Kept(server) /\ server \in Records /\ wire[i].kind = "upload" /\ wire[i].state = "sent"
  BY DEF IInv, Typed, Kept, ApplyUpload
<1>2. CASE server' = WithDocument(server) /\ Answer(i, Case(server'))
  <2>1. Kept(server') /\ server'.confirmed = FALSE /\ server'.notice = None
        /\ server'.replies = server.replies
    BY <1>1, <1>2, DocumentKept, DocumentFields
  <2>2. Case(server') \in Replies /\ Case(server').case = Snapshot(server') /\ Snapshot(server') # None
        /\ Case(server').ok /\ Case(server').notice = None
    BY <2>1, RepliesTyped, NoneApart DEF Case, Kept
  <2>3. Answerable(wire[i], Case(server'), server')
    BY <1>1, <2>2 DEF Answerable, Told
  <2>4. Follows(server') /\ WindowSound'
    BY <2>1, WindowStays DEF Follows, Seen, IInv, ApplyUpload
  <2> QED BY <1>2, <2>2, <2>3, <2>4, PlainAnswer DEF ApplyUpload
<1>3. CASE Answer(i, Case(server)) /\ UNCHANGED server
  <2>1. Answerable(wire[i], Case(server), server)
    BY <1>1, RepliesTyped DEF Answerable, Case, Told
  <2> QED BY <1>3, <2>1, IdleAnswer DEF ApplyUpload
<1>4. CASE Answer(i, Refusal) /\ UNCHANGED server
  <2>1. Answerable(wire[i], Refusal, server)
    BY <1>1, RepliesTyped DEF Answerable, Refusal
  <2> QED BY <1>4, <2>1, IdleAnswer DEF ApplyUpload
<1> QED BY <1>2, <1>3, <1>4 DEF ApplyUpload

LEMMA ApplyDeleteSound ==
    ASSUME IInv, NEW i \in DOMAIN wire, ApplyDelete(i)
    PROVE  IInv'
<1> DEFINE reply == [Refusal EXCEPT !.ok = TRUE]
<1>1. reply.ok /\ reply.case = None /\ reply.notice = None /\ reply \in Replies
  BY RepliesTyped DEF Refusal, Replies
<1>2. Answer(i, reply) /\ wire[i].kind = "delete" /\ wire[i].state = "sent"
  BY DEF ApplyDelete
<1>3. Answerable(wire[i], reply, server')
  BY <1>1, <1>2 DEF Answerable, Told
<1>4. Kept(server') /\ server' = [server EXCEPT !.alive = FALSE]
  BY FlagsKept DEF ApplyDelete, IInv, Typed, Kept
<1>5. Follows(server') /\ SameShown(server') /\ server'.replies = server.replies
  <2>1. Follows(server) /\ server \in Records
    BY RecordFollows DEF IInv, Typed
  <2> QED BY <2>1, <1>4 DEF Follows, SameShown, Records, Seen
<1>6. WindowSound'
  BY <1>5, WindowStays DEF IInv, ApplyDelete
<1> HIDE DEF reply
<1> QED BY <1>2, <1>3, <1>4, <1>5, <1>6, PlainAnswer DEF ApplyDelete, SameShown

(* A generation begins on confirmed facts, and while it works an edit that  *)
(* takes the confirmation back marks it.                                    *)
LEMMA BeginSound ==
    ASSUME IInv, NEW i \in DOMAIN wire, BeginGeneration(i)
    PROVE  IInv'
<1>1. wire \in Seq(Requests) /\ wire[i] \in Requests /\ wire[i].kind = "generate" /\ wire[i].state = "sent"
  BY DEF IInv, Typed, BeginGeneration
<1>2. CASE ~Ready(server)
  <2>1. Answerable(wire[i], Refusal, server)
    BY <1>1, RepliesTyped DEF Answerable, Refusal
  <2> QED BY <1>2, <2>1, IdleAnswer DEF BeginGeneration
<1>3. CASE Ready(server)
  <2>1. wire' = [wire EXCEPT ![i].state = "working"] /\ server.confirmed
        /\ UNCHANGED <<client, server, page, route, ticked, applied>>
    BY <1>3 DEF BeginGeneration, Ready
  <2>2. /\ wire' = [j \in DOMAIN wire |-> wire'[j]] /\ wire'[i] = [wire[i] EXCEPT !.state = "working"]
        /\ \A j \in DOMAIN wire : j # i => wire'[j] = wire[j]
    BY <2>1, <1>1
  <2>3. wire'[i] \in Requests /\ wire'[i].state = "working" /\ wire'[i].kind = "generate"
        /\ wire'[i].id = wire[i].id /\ wire'[i].tick = wire[i].tick
    BY <2>2, <1>1 DEF Requests
  <2>4. wire' \in Seq(Requests) /\ DOMAIN wire' = DOMAIN wire /\ Len(wire') = Len(wire)
    BY <2>2, <2>3, <1>1, WireTyped
  <2>5. Typed' /\ RecordSound' /\ WindowSound' /\ NothingKept'
    BY <2>1, <2>4 DEF IInv, Typed, RecordSound, ConfirmedWasSeen, Seen, WindowSound, NothingKept
  <2>6. Roles' /\ PageSound'
    BY <2>1, <2>2, <2>3, <2>4, <1>1 DEF IInv, Roles, PageSound, Seen
  <2>7. WireSound'
    <3> SUFFICES ASSUME NEW j \in DOMAIN wire
                 PROVE  (/\ Created(j) /\ ReplySound(j)
                         /\ wire[j].kind = "facts" /\ wire[j].tick = TRUE => wire[j].facts \in ticked
                         /\ wire[j].state = "working" =>
                               wire[j].kind = "generate" /\ (wire[j].clean => server.confirmed))'
      BY <2>4 DEF WireSound
    <3>1. CASE j = i
      BY <3>1, <2>1, <2>3 DEF Created, ReplySound
    <3>2. CASE j # i
      BY <3>2, <2>1, <2>2, <2>4 DEF IInv, WireSound, Created, ReplySound, Waited, Seen
    <3> QED BY <3>1, <3>2
  <2>8. StepSound'
    <3>1. page.waits # 0 => page.waits \in DOMAIN wire
      BY DEF IInv, PageSound
    <3>2. page.waits # 0 => (wire'[page.waits].state = "answered" <=> wire[page.waits].state = "answered")
      BY <3>1, <2>2, <2>3, <1>1
    <3>3. page.waits # 0 /\ wire[page.waits].state = "answered" => wire'[page.waits] = wire[page.waits]
      BY <3>1, <2>2, <1>1
    <3> QED BY <2>1, <3>2, <3>3 DEF IInv, StepSound, Heard, InStep
  <2> QED BY <2>5, <2>6, <2>7, <2>8 DEF IInv
<1> QED BY <1>2, <1>3

LEMMA NoticeFields ==
    ASSUME NEW r, Kept(r), NEW clean \in BOOLEAN
    PROVE  /\ WithNotice(r, clean).notice = [facts |-> r.facts, clean |-> clean]
           /\ WithNotice(r, clean).facts = r.facts /\ WithNotice(r, clean).confirmed = r.confirmed
           /\ WithNotice(r, clean).docs = r.docs /\ WithNotice(r, clean).alive = r.alive
           /\ WithNotice(r, clean).replies = r.replies
<1> DEFINE held == [r EXCEPT !.notice = [facts |-> r.facts, clean |-> clean], !.vectors = TRUE]
<1>1. /\ held.notice = [facts |-> r.facts, clean |-> clean] /\ held.facts = r.facts
      /\ held.confirmed = r.confirmed /\ held.docs = r.docs /\ held.alive = r.alive
      /\ held.replies = r.replies
  BY DEF Kept, Records
<1>2. /\ Touched(held).notice = held.notice /\ Touched(held).facts = held.facts
      /\ Touched(held).confirmed = held.confirmed /\ Touched(held).docs = held.docs
      /\ Touched(held).alive = held.alive /\ Touched(held).replies = held.replies
  BY DEF Touched
<1> QED BY <1>1, <1>2 DEF WithNotice

LEMMA EndSound ==
    ASSUME IInv, NEW i \in DOMAIN wire, EndGeneration(i)
    PROVE  IInv'
<1>1. wire[i] \in Requests /\ wire[i].kind = "generate" /\ wire[i].state = "working"
      /\ (wire[i].clean => server.confirmed) /\ wire[i].clean \in BOOLEAN
  <2>1. wire[i].state = "working"
    BY DEF EndGeneration, Working
  <2>2. wire[i] \in Requests
    BY DEF IInv, Typed, EndGeneration, Working
  <2>3. wire[i].clean \in BOOLEAN
    BY <2>2 DEF Requests
  <2> QED BY <2>1, <2>2, <2>3 DEF IInv, WireSound
<1>2. Kept(server) /\ Follows(server)
  BY RecordFollows DEF IInv, Typed, Kept
<1>3. CASE Answer(i, Refusal) /\ UNCHANGED server
  <2>1. Answerable(wire[i], Refusal, server)
    BY <1>1, RepliesTyped DEF Answerable, Refusal
  <2> QED BY <1>3, <2>1, IdleAnswer DEF EndGeneration
<1>4. CASE /\ server' = WithNotice(server, wire[i].clean)
           /\ Answer(i, [ok |-> TRUE, case |-> None, notice |-> server'.notice])
  <2> DEFINE reply == [ok |-> TRUE, case |-> None, notice |-> server'.notice]
  <2>1. /\ Kept(server') /\ server'.notice \in Notices
        /\ server'.notice = [facts |-> server.facts, clean |-> wire[i].clean]
        /\ server'.facts = server.facts /\ server'.confirmed = server.confirmed
        /\ server'.docs = server.docs /\ server'.alive = server.alive
        /\ server'.replies = server.replies
    BY <1>1, <1>2, <1>4, NoticeKept, NoticeFields
  <2>2. server'.notice # None
    BY <2>1, NoneApart
  <2>3. Follows(server') /\ SameShown(server') /\ WindowSound'
    BY <1>1, <1>2, <2>1, <2>2, WindowStays DEF Follows, SameShown, Seen, IInv, EndGeneration
  <2>4. reply \in Replies
    BY <2>1, RepliesTyped
  <2>5. Answerable(wire[i], reply, server')
    BY <1>1, <2>2, <2>4 DEF Answerable, Told
  <2> HIDE DEF reply
  <2> QED BY <1>4, <2>1, <2>3, <2>5, PlainAnswer DEF EndGeneration, reply
<1> QED BY <1>3, <1>4 DEF EndGeneration

-----------------------------------------------------------------------------
(* Messages: the keys remembered are the last ids applied, and a message is *)
(* applied only if its id is not among them.                                *)
LEMMA RememberedLast ==
    ASSUME applied \in Seq(MessageIds), NEW id \in MessageIds
    PROVE  LastOf(Append(LastOf(applied, MaxKeys), id), MaxKeys) = LastOf(Append(applied, id), MaxKeys)
<1> DEFINE n == MaxKeys
           L == LastOf(applied, n)
           A == Append(L, id)
           B == Append(applied, id)
           LA == LastOf(A, n)
           LB == LastOf(B, n)
<1>1. n \in Nat \ {0} /\ Len(applied) \in Nat
  BY SessionAssumption
<1>2. /\ L \in Seq(MessageIds) /\ Len(L) = IF Len(applied) > n THEN n ELSE Len(applied)
      /\ \A k \in 1 .. Len(L) : L[k] = applied[Len(applied) - Len(L) + k]
  BY <1>1, LastOfTyped
<1> HIDE DEF L
<1>3. /\ A \in Seq(MessageIds) /\ Len(A) = Len(L) + 1 /\ A[Len(L) + 1] = id
      /\ \A k \in 1 .. Len(L) : A[k] = L[k]
  BY <1>2, AppendProperties
<1>4. /\ B \in Seq(MessageIds) /\ Len(B) = Len(applied) + 1 /\ B[Len(applied) + 1] = id
      /\ \A k \in 1 .. Len(applied) : B[k] = applied[k]
  BY AppendProperties
<1> HIDE DEF A, B
<1>5. /\ LA \in Seq(MessageIds) /\ Len(LA) = IF Len(A) > n THEN n ELSE Len(A)
      /\ \A k \in 1 .. Len(LA) : LA[k] = A[Len(A) - Len(LA) + k]
  BY <1>1, <1>3, LastOfTyped
<1>6. /\ LB \in Seq(MessageIds) /\ Len(LB) = IF Len(B) > n THEN n ELSE Len(B)
      /\ \A k \in 1 .. Len(LB) : LB[k] = B[Len(B) - Len(LB) + k]
  BY <1>1, <1>4, LastOfTyped
<1> HIDE DEF LA, LB
<1>7. Len(LA) = Len(LB) /\ Len(L) \in Nat /\ Len(LA) \in Nat
  BY <1>1, <1>2, <1>3, <1>4, <1>5, <1>6
<1>8. ASSUME NEW k \in 1 .. Len(LA)
      PROVE  LA[k] = LB[k]
  <2>1. LA[k] = A[Len(L) + 1 - Len(LA) + k] /\ LB[k] = B[Len(applied) + 1 - Len(LA) + k]
    <3>1. LA[k] = A[Len(A) - Len(LA) + k] /\ Len(A) = Len(L) + 1
      BY <1>3, <1>5
    <3>2. LB[k] = B[Len(B) - Len(LA) + k] /\ Len(B) = Len(applied) + 1
      BY <1>4, <1>6, <1>7
    <3> QED BY <3>1, <3>2
  <2>2. CASE k = Len(LA)
    BY <2>1, <2>2, <1>1, <1>3, <1>4, <1>7
  <2>3. CASE k < Len(LA)
    <3>1. Len(L) + 1 - Len(LA) + k \in 1 .. Len(L) /\ Len(applied) + 1 - Len(LA) + k \in 1 .. Len(applied)
      <4>1. /\ Len(L) = IF Len(applied) > n THEN n ELSE Len(applied)
            /\ Len(LA) = IF Len(L) + 1 > n THEN n ELSE Len(L) + 1
        BY <1>2, <1>3, <1>5
      <4>2. Len(LA) <= Len(L) + 1 /\ Len(L) <= Len(applied)
        BY <4>1, <1>1, <1>7
      <4>3. k \in Nat /\ k >= 1 /\ k < Len(LA)
        BY <2>3, <1>7
      <4> QED BY <4>2, <4>3, <1>1, <1>7
    <3>2. L[Len(L) + 1 - Len(LA) + k] = applied[Len(applied) - Len(L) + (Len(L) + 1 - Len(LA) + k)]
      BY <3>1, <1>2
    <3>3. Len(applied) - Len(L) + (Len(L) + 1 - Len(LA) + k) = Len(applied) + 1 - Len(LA) + k
      BY <1>1, <1>7
    <3> QED BY <2>1, <3>1, <3>2, <3>3, <1>3, <1>4
  <2> QED BY <2>2, <2>3, <1>7
<1>9. LA = LB
  BY <1>5, <1>6, <1>7, <1>8, SeqEqual
<1> QED BY <1>9 DEF LA, LB, A, B, L

LEMMA WindowGrows ==
    ASSUME IInv, NEW id \in MessageIds, ~Contains(server.replies, id),
           applied' = Append(applied, id), server'.replies = Remembered(server, id)
    PROVE  WindowSound'
<1> DEFINE n == MaxKeys
           N == Len(applied)
<1>1. applied \in Seq(MessageIds) /\ n \in Nat \ {0} /\ N \in Nat /\ server.replies = LastOf(applied, n)
  BY SessionAssumption DEF IInv, Typed, WindowSound
<1>2. server'.replies = LastOf(applied', n)
  BY <1>1, NoneApart, RememberedLast DEF Remembered
<1>3. /\ Len(server.replies) = IF N > n THEN n ELSE N
      /\ \A k \in 1 .. Len(server.replies) : server.replies[k] = applied[N - Len(server.replies) + k]
  <2>1. /\ Len(LastOf(applied, n)) = IF Len(applied) > n THEN n ELSE Len(applied)
        /\ \A k \in 1 .. Len(LastOf(applied, n)) :
              LastOf(applied, n)[k] = applied[Len(applied) - Len(LastOf(applied, n)) + k]
    BY <1>1, LastOfTyped
  <2> QED BY <2>1, <1>1
<1>4. ASSUME NEW i \in DOMAIN applied', NEW j \in DOMAIN applied', i < j, j - i <= n
      PROVE  applied'[i] # applied'[j]
  <2>1. /\ DOMAIN applied = 1 .. N /\ DOMAIN applied' = 1 .. N + 1 /\ applied'[N + 1] = id
        /\ \A k \in 1 .. N : applied'[k] = applied[k]
    BY <1>1
  <2>2. CASE j <= N
    BY <1>4, <2>1, <2>2, <1>1 DEF IInv, WindowSound
  <2>3. CASE j = N + 1
    <3> DEFINE k == i - (N - Len(server.replies))
    <3>1. k \in 1 .. Len(server.replies) /\ N - Len(server.replies) + k = i /\ i \in 1 .. N
      BY <1>4, <2>1, <2>3, <1>1, <1>3
    <3>2. server.replies[k] = applied[i] /\ server.replies[k] # id
      BY <3>1, <1>3 DEF Contains
    <3> QED BY <3>1, <3>2, <2>1, <2>3
  <2> QED BY <2>1, <2>2, <2>3, <1>1
<1> QED BY <1>2, <1>4 DEF WindowSound

LEMMA MessageFields ==
    ASSUME NEW r, Kept(r), NEW id, NEW story \in 0 .. MaxStories
    PROVE  /\ WithMessage(r, id, story).confirmed = FALSE
           /\ WithMessage(r, id, story).notice = None
           /\ WithMessage(r, id, story).replies = Remembered(r, id)
<1> DEFINE held == [r EXCEPT !.facts.story = story, !.confirmed = FALSE, !.notice = None,
                            !.replies = Remembered(r, id), !.log = Logged(r, <<"user", "assistant">>)]
<1>1. held.confirmed = FALSE /\ held.notice = None /\ held.replies = Remembered(r, id)
  BY DEF Kept, Records
<1>2. /\ Touched(held).confirmed = held.confirmed /\ Touched(held).notice = held.notice
      /\ Touched(held).replies = held.replies
  BY DEF Touched
<1> QED BY <1>1, <1>2 DEF WithMessage

LEMMA ApplyMessageSound ==
    ASSUME IInv, NEW i \in DOMAIN wire, ApplyMessage(i)
    PROVE  IInv'
<1> DEFINE id == wire[i].id
<1>1. /\ Kept(server) /\ server \in Records /\ wire[i] \in Requests
      /\ wire[i].kind = "message" /\ wire[i].state = "sent"
  BY DEF IInv, Typed, Kept, ApplyMessage
<1>2. id \in MessageIds \cup {None} /\ wire[i].facts.story \in 0 .. MaxStories
      /\ server.facts.story \in 0 .. MaxStories
  BY <1>1 DEF Requests, Records, Facts
<1>3. CASE id # None /\ Contains(server.replies, id)
  <2>1. Answerable(wire[i], Case(server), server)
    BY <1>1, RepliesTyped DEF Answerable, Case, Told
  <2> QED BY <1>3, <2>1, IdleAnswer DEF ApplyMessage
<1>4. CASE ~(id # None /\ Contains(server.replies, id))
  <2>1. PICK story \in Stories(i) : server' = WithMessage(server, id, story)
    BY <1>4 DEF ApplyMessage
  <2>2. story \in 0 .. MaxStories
    BY <1>2 DEF Stories
  <2>3. /\ Kept(server') /\ server'.confirmed = FALSE /\ server'.notice = None
        /\ server'.replies = Remembered(server, id)
    BY <1>1, <1>2, <2>1, <2>2, MessageKept, MessageFields
  <2>4. Follows(server')
    BY <2>3 DEF Follows, Seen
  <2>5. AnswerEdit(i, server') /\ applied' = IF id = None THEN applied ELSE Append(applied, id)
    BY <1>4 DEF ApplyMessage
  <2>6. applied \in Seq(MessageIds) /\ applied' \in Seq(MessageIds)
    BY <1>2, <2>5 DEF IInv, Typed
  <2>7. client # "program" => id = None
    BY SessionAssumption DEF IInv, Typed, Roles
  <2>8. WindowSound'
    <3>1. CASE id = None
      BY <3>1, <2>3, <2>5, WindowStays DEF Remembered, IInv
    <3>2. CASE id # None
      BY <3>2, <1>2, <1>4, <2>3, <2>5, WindowGrows
    <3> QED BY <3>1, <3>2
  <2> QED BY <1>1, <2>4, <2>5, <2>6, <2>7, <2>8, EditAnswer DEF ApplyMessage, Edits
<1> QED BY <1>3, <1>4

LEMMA ServeSound ==
    ASSUME IInv, NEW i \in DOMAIN wire, Serve(i)
    PROVE  IInv'
BY CreateSound, GoneSound, ApplyMessageSound, ApplyFactsSound, UploadSound, ReadSound, BeginSound,
   EndSound, ApplyDeleteSound DEF Serve

-----------------------------------------------------------------------------
(* Steps of the page.                                                       *)

LEMMA RestSound ==
    ASSUME IInv, client = "page", page.at = "rest"
    PROVE  page \in Pages /\ page.waits = 0 /\ page.form \in Facts /\ page.creds \in BOOLEAN
BY DEF IInv, Typed, PageSound, Pages

LEMMA SendsSound ==
    ASSUME IInv, page.at = "rest", client = "page",
           NEW kind \in Kinds \ {"none"}, NEW f \in Facts, NEW tick \in BOOLEAN \cup {None},
           kind = "create" => wire = <<>> /\ page.case = None,
           kind # "create" => page.case # None,
           kind = "facts" => tick # TRUE,
           Sends(kind, f, tick), UNCHANGED <<client, server, route, ticked, applied>>
    PROVE  IInv'
<1>1. page \in Pages /\ page.waits = 0 /\ Len(wire) + 1 \in Nat
  BY RestSound DEF IInv, Typed
<1>2. /\ page' \in Pages /\ page'.at = "waits" /\ page'.waits = Len(wire) + 1
      /\ page'.case = page.case /\ page'.notice = page.notice
      /\ page'.creds = page.creds /\ page'.missed = page.missed
  BY <1>1 DEF Sends, Pages
<1>3. wire' = Append(wire, Request(kind, f, tick, None)) /\ ticked \subseteq Facts
  BY DEF Sends, IInv, Typed
<1> QED BY <1>1, <1>2, <1>3, PageSends

LEMMA SubmitSound ==
    ASSUME IInv, NEW story \in {page.form.story} \cup 1 .. MaxStories, NEW tick \in BOOLEAN,
           client = "page", SubmitFacts(story, tick)
    PROVE  IInv'
<1> DEFINE f == [page.form EXCEPT !.story = story]
<1>1. page \in Pages /\ page.waits = 0 /\ Len(wire) + 1 \in Nat /\ page.case # None
  BY RestSound DEF IInv, Typed, SubmitFacts, InCase
<1>2. f \in Facts
  <2>1. page.form \in Facts
    BY <1>1 DEF Pages
  <2>2. story \in 0 .. MaxStories
    BY <2>1, SessionAssumption DEF Facts
  <2> QED BY <2>1, <2>2, FactsTyped
<1> HIDE DEF f
<1>3. /\ wire' = Append(wire, Request("facts", f, tick, None))
      /\ page' = [page EXCEPT !.at = "waits", !.waits = Len(wire) + 1, !.form = f, !.tick = tick]
      /\ ticked' = IF tick THEN ticked \cup {f} ELSE ticked
      /\ UNCHANGED <<client, server, route, applied>>
  BY DEF SubmitFacts, f
<1>4. /\ page' \in Pages /\ page'.at = "waits" /\ page'.waits = Len(wire) + 1
      /\ page'.case = page.case /\ page'.notice = page.notice
      /\ page'.creds = page.creds /\ page'.missed = page.missed
  BY <1>1, <1>2, <1>3 DEF Pages
<1>5. ticked \subseteq ticked' /\ ticked' \subseteq Facts /\ (tick = TRUE => f \in ticked')
  BY <1>2, <1>3 DEF IInv, Typed
<1>6. "facts" \in Kinds \ {"none"} /\ "facts" # "create"
  BY DEF Kinds
<1> QED BY <1>1, <1>2, <1>3, <1>4, <1>5, <1>6, PageSends

LEMMA RenderSound ==
    ASSUME IInv, Render
    PROVE  IInv'
<1>1. client = "page" /\ page.at = "render" /\ page \in Pages /\ page.waits = 0
      /\ Len(wire) + 1 \in Nat /\ UNCHANGED <<client, server, route, ticked, applied>>
  BY DEF Render, IInv, Typed, PageSound
<1>2. CASE page' = [page EXCEPT !.at = "rest"] /\ UNCHANGED wire
  <2>1. /\ page' \in Pages /\ page'.at = "rest" /\ page'.waits = 0
        /\ page'.case = page.case /\ page'.notice = page.notice
        /\ page'.creds = page.creds /\ page'.missed = page.missed
    BY <1>1, <1>2 DEF Pages
  <2> QED BY <1>1, <1>2, <2>1, PageStays
<1>3. ASSUME page.case # None
      PROVE  /\ Synced \in Pages /\ Synced.at = page.at /\ Synced.waits = 0
             /\ Synced.case = page.case /\ Synced.notice = page.notice
             /\ Synced.creds = page.creds /\ Synced.missed = page.missed
  <2>1. page.case \in Snapshots
    BY <1>1, <1>3 DEF Pages
  <2>2. page.case.stamp \in Nat /\ page.case.facts \in Facts /\ page.case.confirmed \in BOOLEAN
    BY <2>1 DEF Snapshots
  <2> QED BY <1>1, <2>2 DEF Pages, Synced
<1>4. CASE page.case # None /\ page' = [Synced EXCEPT !.at = "rest"] /\ UNCHANGED wire
  <2>1. /\ page' \in Pages /\ page'.at = "rest" /\ page'.waits = 0
        /\ page'.case = page.case /\ page'.notice = page.notice
        /\ page'.creds = page.creds /\ page'.missed = page.missed
    BY <1>3, <1>4 DEF Pages
  <2> QED BY <1>1, <1>4, <2>1, PageStays
<1>5. CASE /\ page.case # None
           /\ wire' = Append(wire, Request("notice", NoFacts, None, None))
           /\ page' = [Synced EXCEPT !.at = "waits", !.waits = Len(wire) + 1]
  <2>1. /\ page' \in Pages /\ page'.at = "waits" /\ page'.waits = Len(wire) + 1
        /\ page'.case = page.case /\ page'.notice = page.notice
        /\ page'.creds = page.creds /\ page'.missed = page.missed
    BY <1>1, <1>3, <1>5 DEF Pages
  <2>2. "notice" \in Kinds \ {"none"} /\ "notice" # "create" /\ "notice" # "facts"
    BY DEF Kinds
  <2>3. ticked \subseteq ticked' /\ ticked' \subseteq Facts
    BY <1>1 DEF IInv, Typed
  <2> QED BY <1>1, <1>5, <2>1, <2>2, <2>3, NoFactsTyped, PageSends
<1> QED BY <1>2, <1>4, <1>5 DEF Render

(* The page stops waiting: the answer is taken, or given up, and off the    *)
(* wire; a request not yet answered stays on it.                            *)
LEMMA PageTurns ==
    ASSUME IInv, page.waits # 0, client = "page",
           \/ wire' = [wire EXCEPT ![page.waits] = Over]
           \/ wire' = wire /\ wire[page.waits].state # "answered",
           page' \in Pages, page'.at # "waits", page'.waits = 0,
           page'.creds <=> page'.case # None, Seen(page'.notice),
           page.case = None /\ page'.case # None =>
              wire[page.waits].kind = "create" /\ wire' = [wire EXCEPT ![page.waits] = Over],
           ~page'.missed /\ server.alive /\ page'.case # None => InStep(page'.case),
           UNCHANGED <<client, server, route, ticked, applied>>
    PROVE  IInv'
<1> DEFINE i == page.waits
<1>1. i \in DOMAIN wire /\ wire \in Seq(Requests)
  BY DEF IInv, PageSound, Typed
<1>2. /\ wire' = [j \in DOMAIN wire |-> wire'[j]]
      /\ \A j \in DOMAIN wire : j # i => wire'[j] = wire[j]
      /\ \/ wire'[i] = Over
         \/ wire'[i] = wire[i] /\ wire[i].state # "answered"
  <2>1. CASE wire' = [wire EXCEPT ![i] = Over]
    <3>1. wire' = [j \in DOMAIN wire |-> wire'[j]]
      BY <2>1, <1>1
    <3>2. wire'[i] = Over /\ \A j \in DOMAIN wire : j # i => wire'[j] = wire[j]
      BY <2>1, <1>1
    <3> QED BY <3>1, <3>2
  <2>2. CASE wire' = wire /\ wire[i].state # "answered"
    BY <2>2, <1>1
  <2> QED BY <2>1, <2>2
<1>3. \A j \in DOMAIN wire : wire'[j] \in Requests
  BY <1>1, <1>2, OverTyped
<1>4. wire' \in Seq(Requests) /\ DOMAIN wire' = DOMAIN wire /\ Len(wire') = Len(wire)
  BY <1>1, <1>2, <1>3, WireTyped
<1>5. Typed' /\ RecordSound' /\ WindowSound' /\ NothingKept'
  BY <1>4 DEF IInv, Typed, RecordSound, ConfirmedWasSeen, Seen, WindowSound, NothingKept
<1>6. Roles' /\ PageSound'
  BY <1>1, <1>2, <1>4, OverTyped DEF IInv, Roles, PageSound, Seen
<1>7. WireSound'
  <2> SUFFICES ASSUME NEW j \in DOMAIN wire
               PROVE  (/\ Created(j) /\ ReplySound(j)
                       /\ wire[j].kind = "facts" /\ wire[j].tick = TRUE => wire[j].facts \in ticked
                       /\ wire[j].state = "working" =>
                             wire[j].kind = "generate" /\ (wire[j].clean => server.confirmed))'
    BY <1>4 DEF WireSound
  <2>1. /\ Created(j) /\ ReplySound(j)
        /\ wire[j].kind = "facts" /\ wire[j].tick = TRUE => wire[j].facts \in ticked
        /\ wire[j].state = "working" =>
              wire[j].kind = "generate" /\ (wire[j].clean => server.confirmed)
    BY DEF IInv, WireSound
  <2>2. CASE wire'[j] = Over
    BY <2>2, OverTyped DEF Created, ReplySound
  <2>3. CASE wire'[j] # Over
    <3>1. wire'[j] = wire[j] /\ (j = i => wire[j].state # "answered")
      BY <2>3, <1>2
    <3>2. wire[j].state # "answered"
      BY <2>1, <3>1 DEF ReplySound, Waited
    <3>3. Created(j)'
      <4>1. CASE page.case = None /\ page'.case # None
        <5>1. wire[i].kind = "create" /\ wire'[i] = Over
          BY <4>1, <1>1
        <5>2. i = 1
          BY <5>1, <1>1 DEF IInv, WireSound, Created
        <5> QED BY <5>1, <5>2, <3>1, <2>1, <2>3 DEF Created
      <4>2. CASE ~(page.case = None /\ page'.case # None)
        BY <4>2, <3>1, <2>1, <1>4 DEF Created
      <4> QED BY <4>1, <4>2
    <3> QED BY <3>1, <3>2, <3>3, <2>1 DEF ReplySound
  <2> QED BY <2>2, <2>3
<1>8. StepSound'
  <2>1. Heard' = page'.case
    BY DEF Heard
  <2> QED BY <2>1 DEF StepSound, InStep
<1> QED BY <1>5, <1>6, <1>7, <1>8 DEF IInv

LEMMA WaitingSound ==
    ASSUME IInv, page.at = "waits"
    PROVE  /\ client = "page" /\ page.waits # 0 /\ page \in Pages
           /\ page.waits \in DOMAIN wire /\ wire[page.waits] \in Requests
           /\ wire[page.waits].kind \in Kinds \ {"none"}
           /\ wire[page.waits].kind = "create" <=> page.case = None
           /\ page.creds <=> page.case # None
           /\ Seen(page.notice)
<1>1. page.waits # 0 /\ page.waits \in DOMAIN wire /\ page \in Pages
  BY DEF IInv, PageSound, Typed
<1>2. wire[page.waits] \in Requests
  BY <1>1 DEF IInv, Typed
<1>3. client = "page"
  BY DEF IInv, Roles, Away
<1>4. wire[page.waits].kind \in Kinds \ {"none"}
  BY <1>1, <1>2 DEF IInv, PageSound, Requests
<1> QED BY <1>1, <1>2, <1>3, <1>4 DEF IInv, PageSound

LEMMA FailedFields ==
    ASSUME page \in Pages, NEW kind
    PROVE  /\ Failed(kind) \in Pages /\ Failed(kind).at # "waits" /\ Failed(kind).waits = 0
           /\ Failed(kind).creds = page.creds /\ Failed(kind).case = page.case
           /\ Failed(kind).missed = page.missed
           /\ Seen(page.notice) => Seen(Failed(kind).notice)
BY DEF Failed, Pages, Seen

LEMMA TimeOutSound ==
    ASSUME IInv, TimeOut
    PROVE  IInv'
<1> DEFINE i == page.waits
           missed == page.missed \/ wire[i].state = "answered"
<1>1. /\ client = "page" /\ i # 0 /\ page \in Pages
      /\ page.creds <=> page.case # None
      /\ Seen(page.notice) /\ page.missed \in BOOLEAN
  BY WaitingSound DEF TimeOut, Pages
<1>2. page' = [Failed(wire[i].kind) EXCEPT !.missed = missed] /\ missed \in BOOLEAN
  BY <1>1, FailedFields DEF TimeOut, Pages
<1>3. /\ page' \in Pages /\ page'.at # "waits" /\ page'.waits = 0 /\ page'.case = page.case
      /\ page'.creds = page.creds /\ page'.notice = Failed(wire[i].kind).notice
      /\ page'.missed <=> page.missed \/ wire[i].state = "answered"
  BY <1>1, <1>2, FailedFields DEF Pages
<1>4. Seen(page'.notice)
  BY <1>1, <1>3, FailedFields DEF Seen
<1>5. ~page'.missed /\ server.alive /\ page'.case # None => InStep(page'.case)
  <2>1. ~page'.missed => Heard = page.case /\ ~page.missed
    BY <1>3 DEF Heard
  <2> QED BY <2>1, <1>1, <1>3 DEF IInv, StepSound
<1>6. \/ wire' = [wire EXCEPT ![i] = Over]
      \/ wire' = wire /\ wire[i].state # "answered"
  BY DEF TimeOut
<1> QED BY <1>1, <1>3, <1>4, <1>5, <1>6, PageTurns DEF TimeOut

(* What the page shows of an answer it was waiting for.                     *)
LEMMA ShownSound ==
    ASSUME IInv, page.at = "waits", wire[page.waits].state = "answered", wire[page.waits].reply.ok
    PROVE  LET p == Shown(wire[page.waits].kind, wire[page.waits].reply) IN
           /\ p \in Pages /\ p.at # "waits" /\ p.waits = 0
           /\ p.creds <=> p.case # None
           /\ Seen(p.notice)
           /\ page.case = None /\ p.case # None => wire[page.waits].kind = "create"
           /\ ~p.missed /\ server.alive /\ p.case # None => InStep(p.case)
<1> DEFINE i == page.waits
           kind == wire[i].kind
           reply == wire[i].reply
           p == Shown(kind, reply)
           q == [page EXCEPT !.at = "render", !.waits = 0]
<1>1. /\ client = "page" /\ i # 0 /\ page \in Pages /\ i \in DOMAIN wire
      /\ kind \in Kinds \ {"none"} /\ (kind = "create" <=> page.case = None)
      /\ (page.creds <=> page.case # None) /\ Seen(page.notice)
  BY WaitingSound
<1>2. /\ reply \in Replies /\ Seen(reply.notice)
      /\ IF kind \in Told THEN reply.case # None ELSE reply.case = None
  BY <1>1 DEF IInv, WireSound, ReplySound
<1>3. /\ q \in Pages /\ q.at = "render" /\ q.waits = 0 /\ q.case = page.case /\ q.creds = page.creds
      /\ q.notice = page.notice /\ q.missed = page.missed
  BY <1>1 DEF Pages
<1>4. reply.case \in Snapshots \cup {None} /\ reply.notice \in Notices \cup {None}
      /\ page.case \in Snapshots \cup {None} /\ page.creds \in BOOLEAN
  BY <1>1, <1>2 DEF Replies, Pages
<1>5. ~page.missed /\ server.alive =>
        /\ kind \in Told => InStep(reply.case)
        /\ kind \notin Told /\ page.case # None => InStep(page.case)
        /\ kind = "generate" => server.notice # None
  BY <1>1, <1>2 DEF IInv, StepSound, Heard
<1> HIDE DEF i, kind, reply, q
<1>6. CASE kind \in Told
  <2>1. reply.case # None /\ reply.case \in Snapshots
    BY <1>2, <1>4, <1>6
  <2>2. CASE kind = "create"
    <3>1. p = [[q EXCEPT !.case = reply.case] EXCEPT !.creds = TRUE]
      BY <2>2 DEF Shown, StoreCase, q
    <3> QED BY <3>1, <2>1, <2>2, <1>1, <1>3, <1>4, <1>5, <1>6 DEF Pages, kind, reply, i
  <2>3. CASE kind \in {"get", "loss"}
    <3>1. p = [q EXCEPT !.case = reply.case]
      BY <2>3 DEF Shown, StoreCase, q
    <3> QED BY <3>1, <2>1, <2>3, <1>1, <1>3, <1>4, <1>5, <1>6 DEF Pages, kind, reply, i
  <2>4. CASE kind \in {"message", "facts", "upload"}
    <3>1. p = [[q EXCEPT !.case = reply.case] EXCEPT !.notice = None]
      BY <2>4 DEF Shown, StoreCase, q
    <3> QED BY <3>1, <2>1, <2>4, <1>1, <1>3, <1>4, <1>5, <1>6 DEF Pages, Seen, kind, reply, i
  <2> QED BY <2>2, <2>3, <2>4, <1>6 DEF Told
<1>7. CASE kind = "generate"
  <2>1. p = [q EXCEPT !.notice = reply.notice, !.case.available = TRUE]
    BY <1>7 DEF Shown, q
  <2> DEFINE c == [page.case EXCEPT !.available = TRUE]
  <2>2. page.case \in Snapshots /\ kind \notin Told
    BY <1>1, <1>4, <1>7 DEF Told
  <2>3. /\ c \in Snapshots /\ c.facts = page.case.facts /\ c.confirmed = page.case.confirmed
        /\ c.docs = page.case.docs /\ c.ready = page.case.ready
    BY <2>2 DEF Snapshots
  <2>4. c # None
    BY <2>3, NoneAssumption
  <2>5. p = [q EXCEPT !.notice = reply.notice, !.case = c]
    BY <2>1, <1>3 DEF Pages
  <2>6. ~page.missed /\ server.alive => InStep(c)
    BY <2>2, <2>3, <1>1, <1>5, <1>7 DEF InStep, Snapshot
  <2> HIDE DEF c
  <2>7. /\ p \in Pages /\ p.at = "render" /\ p.waits = 0 /\ p.creds = page.creds /\ p.case = c
        /\ p.notice = reply.notice /\ p.missed = page.missed
    BY <2>3, <2>5, <1>3, <1>4 DEF Pages
  <2> QED BY <2>4, <2>6, <2>7, <1>1, <1>2, <1>7 DEF kind, reply, i
<1>8. CASE kind = "notice"
  <2>1. p = [q EXCEPT !.at = "rest", !.notice = reply.notice]
    BY <1>8 DEF Shown, q
  <2>2. /\ p \in Pages /\ p.at = "rest" /\ p.waits = 0 /\ p.creds = page.creds /\ p.case = page.case
        /\ p.notice = reply.notice /\ p.missed = page.missed
    BY <2>1, <1>3, <1>4 DEF Pages
  <2> QED BY <2>2, <1>1, <1>2, <1>5, <1>8 DEF kind, reply, i, Told
<1>9. CASE kind = "delete"
  <2>1. p = Away /\ Away \in Pages
    BY <1>9, NoFactsTyped DEF Shown, Away, Pages
  <2> QED BY <2>1 DEF Away, Seen, kind, reply, i
<1> QED BY <1>1, <1>6, <1>7, <1>8, <1>9 DEF Kinds, Told

LEMMA ReceiveSound ==
    ASSUME IInv, Receive
    PROVE  IInv'
<1> DEFINE i == page.waits
<1>1. /\ page.at = "waits" /\ wire[i].state = "answered" /\ wire' = [wire EXCEPT ![i] = Over]
      /\ UNCHANGED <<client, server, route, ticked, applied>>
  BY DEF Receive
<1>2. /\ client = "page" /\ i # 0 /\ page \in Pages /\ i \in DOMAIN wire
      /\ page.creds <=> page.case # None
      /\ Seen(page.notice)
  BY <1>1, WaitingSound
<1>3. CASE wire[i].reply.ok
  <2>1. page' = Shown(wire[i].kind, wire[i].reply)
    BY <1>3 DEF Receive
  <2> QED BY <1>1, <1>2, <1>3, <2>1, ShownSound, PageTurns
<1>4. CASE ~wire[i].reply.ok
  <2>1. page' = Failed(wire[i].kind)
    BY <1>4 DEF Receive
  <2>2. /\ page' \in Pages /\ page'.at # "waits" /\ page'.waits = 0 /\ page'.case = page.case
        /\ page'.creds = page.creds /\ page'.missed = page.missed /\ Seen(page'.notice)
    BY <2>1, <1>2, FailedFields
  <2>3. ~page.missed /\ server.alive /\ page.case # None => InStep(page.case)
    <3>1. wire[i].reply.case = None
      BY <1>1, <1>2, <1>4 DEF IInv, WireSound, ReplySound
    <3> QED BY <3>1, <1>2 DEF IInv, StepSound, Heard
  <2> QED BY <1>1, <1>2, <2>2, <2>3, PageTurns
<1> QED BY <1>3, <1>4

LEMMA PageSoundSteps ==
    ASSUME IInv, Page
    PROVE  IInv'
<1>1. ASSUME InCase
      PROVE  client = "page" /\ page.at = "rest" /\ page.case # None
  BY <1>1 DEF InCase, IInv, Roles, Away
<1>2. CASE RenderOffline \/ Rerun
  <2>1. client = "page" /\ page.waits = 0 /\ page \in Pages
    BY <1>2 DEF RenderOffline, Rerun, IInv, Typed, PageSound
  <2>2. /\ page' \in Pages /\ page'.at # "waits" /\ page'.waits = 0
        /\ page'.case = page.case /\ page'.notice = page.notice
        /\ page'.creds = page.creds /\ page'.missed = page.missed
    BY <2>1, <1>2 DEF RenderOffline, Rerun, Pages
  <2> QED BY <2>1, <2>2, <1>2, PageStays DEF RenderOffline, Rerun
<1>3. CASE StartCase
  <2>1. client = "page" /\ page.at = "rest" /\ wire = <<>> /\ page.case = None
    BY <1>3 DEF StartCase, IInv, PageSound
  <2>2. "create" \in Kinds \ {"none"} /\ "create" # "facts"
    BY DEF Kinds
  <2> QED BY <1>3, <2>1, <2>2, NoFactsTyped, SendsSound DEF StartCase
<1>4. ASSUME NEW story \in 1 .. MaxStories, Say(story) PROVE IInv'
  <2>1. [NoFacts EXCEPT !.story = story] \in Facts
    <3>1. story \in 0 .. MaxStories
      BY SessionAssumption
    <3> QED BY <3>1, NoFactsTyped, FactsTyped
  <2>2. "message" \in Kinds \ {"none"} /\ "message" # "facts" /\ "message" # "create"
    BY DEF Kinds
  <2> QED BY <1>1, <1>4, <2>1, <2>2, SendsSound DEF Say
<1>5. ASSUME NEW story \in {page.form.story} \cup 1 .. MaxStories, NEW tick \in BOOLEAN,
             SubmitFacts(story, tick)
      PROVE  IInv'
  BY <1>1, <1>5, SubmitSound DEF SubmitFacts
<1>6. CASE ConfirmLoss
  <2>1. [NoFacts EXCEPT !.loss = TRUE] \in Facts
    BY NoFactsTyped DEF Facts
  <2>2. "loss" \in Kinds \ {"none"} /\ "loss" # "facts" /\ "loss" # "create"
    BY DEF Kinds
  <2> QED BY <1>1, <1>6, <2>1, <2>2, SendsSound DEF ConfirmLoss
<1>7. ASSUME NEW kind \in {"upload", "generate", "get", "delete"}, InCase,
             Sends(kind, NoFacts, None), UNCHANGED <<client, server, route, ticked, applied>>
      PROVE  IInv'
  <2>1. kind \in Kinds \ {"none"} /\ kind # "facts" /\ kind # "create"
    BY DEF Kinds
  <2> QED BY <1>1, <1>7, <2>1, NoFactsTyped, SendsSound
<1>8. CASE UploadFile \/ Generate \/ Refresh \/ Delete
  BY <1>7, <1>8 DEF UploadFile, Generate, Refresh, Delete
<1> QED BY <1>2, <1>3, <1>4, <1>5, <1>6, <1>8, RenderSound, ReceiveSound, TimeOutSound DEF Page

-----------------------------------------------------------------------------
(* Steps of the program, the sweeper and the prompt-notice route.           *)

LEMMA ProgramSound ==
    ASSUME IInv, NEW name \in MessageIds, ProgramSends(name)
    PROVE  IInv'
<1> DEFINE f == [NoFacts EXCEPT !.story = 1]
           q == Request("message", f, None, name)
           n == Len(wire) + 1
<1>1. f \in Facts
  <2>1. 1 \in 0 .. MaxStories
    BY SessionAssumption
  <2> QED BY <2>1, NoFactsTyped, FactsTyped
<1>2. q \in Requests /\ q.kind = "message" /\ q.state = "sent"
  BY <1>1, RequestTyped DEF Request, Kinds
<1>3. client = "program" /\ wire' = Append(wire, q) /\ UNCHANGED <<client, server, page, route, ticked, applied>>
  BY DEF ProgramSends
<1> HIDE DEF q
<1>4. /\ wire' \in Seq(Requests) /\ Len(wire) \in Nat /\ Len(wire') = n
      /\ DOMAIN wire = 1 .. Len(wire) /\ DOMAIN wire' = DOMAIN wire \cup {n} /\ n \notin DOMAIN wire
      /\ wire'[n] = q /\ \A i \in DOMAIN wire : wire'[i] = wire[i]
  BY <1>2, <1>3, AppendedWire DEF IInv, Typed
<1>5. page.waits = 0
  BY <1>3 DEF IInv, Roles, Away
<1>6. Typed' /\ Roles' /\ PageSound' /\ RecordSound' /\ StepSound' /\ WindowSound' /\ NothingKept'
  BY <1>3, <1>4, <1>5 DEF IInv, Typed, Roles, PageSound, RecordSound, ConfirmedWasSeen, Seen,
     StepSound, WindowSound, NothingKept
<1>7. WireSound'
  <2> SUFFICES ASSUME NEW i \in DOMAIN wire'
               PROVE  (/\ Created(i) /\ ReplySound(i)
                       /\ wire[i].kind = "facts" /\ wire[i].tick = TRUE => wire[i].facts \in ticked
                       /\ wire[i].state = "working" =>
                             wire[i].kind = "generate" /\ (wire[i].clean => server.confirmed))'
    BY DEF WireSound
  <2>1. CASE i = n
    BY <2>1, <1>2, <1>4 DEF Created, ReplySound
  <2>2. CASE i \in DOMAIN wire
    <3>1. wire'[i] = wire[i] /\ Created(i) /\ ReplySound(i)
      BY <2>2, <1>4 DEF IInv, WireSound
    <3> QED BY <3>1, <2>2, <1>3 DEF IInv, WireSound, Created, ReplySound, Waited
  <2> QED BY <2>1, <2>2, <1>4
<1> QED BY <1>6, <1>7 DEF IInv

LEMMA ExpireSound ==
    ASSUME IInv, Expire
    PROVE  IInv'
<1>1. server' = [server EXCEPT !.alive = FALSE] /\ UNCHANGED <<client, wire, page, route, ticked, applied>>
  BY DEF Expire
<1>2. /\ Kept(server') /\ server'.alive = FALSE /\ server'.facts = server.facts
      /\ server'.confirmed = server.confirmed /\ server'.notice = server.notice
      /\ server'.replies = server.replies /\ server'.vectors = server.vectors
  BY <1>1, FlagsKept DEF IInv, Typed, Kept, Records
<1>3. Typed' /\ Roles' /\ PageSound' /\ RecordSound' /\ StepSound' /\ WindowSound' /\ NothingKept'
  BY <1>1, <1>2 DEF IInv, Typed, Kept, Roles, PageSound, RecordSound, ConfirmedWasSeen, Seen,
     StepSound, WindowSound, NothingKept
<1>4. WireSound'
  BY <1>1, <1>2 DEF IInv, WireSound, Created, ReplySound, Waited, Seen
<1> QED BY <1>3, <1>4 DEF IInv

(* No request travels on the prompt-notice route, and no page shows it.     *)
LEMMA PromptStep ==
    ASSUME IInv, client = "prompt", Kept(server'), server'.confirmed => server'.facts \in ticked,
           server'.replies = <<>>, NEW next \in Routes, Goes(next), NothingKept'
    PROVE  IInv'
<1>1. /\ wire = <<>> /\ wire' = <<>> /\ page = Away /\ page' = Away /\ applied = <<>> /\ client' = client
      /\ route' = next /\ ticked' = ticked /\ applied' = applied
  BY DEF IInv, Roles, Goes
<1>2. Typed' /\ Roles' /\ PageSound'
  BY <1>1 DEF IInv, Typed, Kept, Roles, PageSound, Seen
<1>3. WireSound' /\ RecordSound' /\ StepSound'
  BY <1>1 DEF WireSound, RecordSound, ConfirmedWasSeen, StepSound
<1>4. WindowSound'
  BY <1>1, SessionAssumption DEF WindowSound, LastOf
<1> QED BY <1>2, <1>3, <1>4 DEF IInv

LEMMA PromptSound ==
    ASSUME IInv, Prompt
    PROVE  IInv'
<1>1. client = "prompt"
  BY DEF Prompt, OpenPromptCase, ReceivePromptFile, IndexPromptEvidence, EndPromptGeneration,
     PromptFails, DeletePromptCase, CleanPromptCase, IInv, Roles
<1>2. /\ Kept(server) /\ (server.confirmed => server.facts \in ticked) /\ server.replies = <<>>
      /\ server \in Records
  <2>1. applied = <<>>
    BY <1>1 DEF IInv, Roles
  <2> QED BY <2>1, SessionAssumption
        DEF IInv, Typed, Kept, RecordSound, ConfirmedWasSeen, WindowSound, LastOf
<1>3. CASE OpenPromptCase
  <2>1. PICK next \in {"uploading", "generating"} : Goes(next)
    BY <1>3 DEF OpenPromptCase
  <2>2. server' = WithMessage(NewRecord, None, 1) /\ 1 \in 0 .. MaxStories
    BY <1>3, SessionAssumption DEF OpenPromptCase
  <2>3. Kept(server') /\ server'.confirmed = FALSE /\ server'.replies = Remembered(NewRecord, None)
    BY <2>2, NewRecordKept, MessageKept, MessageFields
  <2>4. Remembered(NewRecord, None) = <<>>
    BY DEF Remembered, NewRecord
  <2>5. NothingKept'
    BY <2>1 DEF NothingKept, Goes
  <2> QED BY <1>1, <2>1, <2>3, <2>4, <2>5, PromptStep DEF Routes
<1>4. CASE ReceivePromptFile
  <2>1. PICK next \in {"generating", "failing"} :
           Goes(next) /\ (server' = WithDocument(server) \/ server' = server)
    BY <1>4 DEF ReceivePromptFile
  <2>2. Kept(server') /\ (server'.confirmed => server'.facts \in ticked) /\ server'.replies = <<>>
    BY <1>2, <2>1, DocumentKept, DocumentFields
  <2>3. NothingKept'
    BY <2>1 DEF NothingKept, Goes
  <2> QED BY <1>1, <2>1, <2>2, <2>3, PromptStep DEF Routes
<1>5. CASE IndexPromptEvidence
  <2>1. Goes(route) /\ route = "generating" /\ server' = [server EXCEPT !.vectors = TRUE]
    BY <1>5 DEF IndexPromptEvidence
  <2>2. Kept(server') /\ (server'.confirmed => server'.facts \in ticked) /\ server'.replies = <<>>
    BY <1>2, <2>1, FlagsKept DEF Records
  <2>3. NothingKept'
    BY <2>1 DEF NothingKept, Goes
  <2> QED BY <1>1, <2>1, <2>2, <2>3, PromptStep DEF Routes
<1>6. CASE EndPromptGeneration
  <2>1. Goes("delivered") /\ server' = WithNotice(server, TRUE)
    BY <1>6 DEF EndPromptGeneration
  <2>2. Kept(server') /\ (server'.confirmed => server'.facts \in ticked) /\ server'.replies = <<>>
    BY <1>2, <2>1, NoticeKept, NoticeFields
  <2>3. NothingKept'
    BY <2>1 DEF NothingKept, Goes
  <2> QED BY <1>1, <2>1, <2>2, <2>3, PromptStep DEF Routes
<1>7. CASE PromptFails
  <2>1. Goes("failing") /\ server' = server
    BY <1>7 DEF PromptFails
  <2>2. NothingKept'
    BY <2>1 DEF NothingKept, Goes
  <2> QED BY <1>1, <1>2, <2>1, <2>2, PromptStep DEF Routes
<1>8. CASE DeletePromptCase
  <2>1. PICK next \in {"cleaning", "gone"} :
           Goes(next) /\ (\/ server' = [server EXCEPT !.alive = FALSE]
                          \/ server' = server /\ ~server.alive)
    <3>1. CASE server.alive
      <4>1. Goes("cleaning") /\ server' = [server EXCEPT !.alive = FALSE]
        BY <1>8, <3>1 DEF DeletePromptCase
      <4> QED BY <4>1 DEF Goes
    <3>2. CASE ~server.alive
      BY <1>8, <3>2 DEF DeletePromptCase
    <3> QED BY <3>1, <3>2
  <2>2. Kept(server') /\ (server'.confirmed => server'.facts \in ticked) /\ server'.replies = <<>>
        /\ ~server'.alive
    BY <1>2, <2>1, FlagsKept DEF Records
  <2>3. NothingKept'
    BY <2>1, <2>2 DEF NothingKept, Goes
  <2> QED BY <1>1, <2>1, <2>2, <2>3, PromptStep DEF Routes
<1>9. CASE CleanPromptCase
  <2>1. ~server.alive
    BY <1>9 DEF CleanPromptCase, IInv, NothingKept
  <2>2. PICK next \in {"cleaned", "gone"} :
           Goes(next) /\ (\/ server' = [server EXCEPT !.vectors = FALSE]
                          \/ server' = server /\ next = "gone")
    BY <1>9 DEF CleanPromptCase
  <2>3. Kept(server') /\ (server'.confirmed => server'.facts \in ticked) /\ server'.replies = <<>>
        /\ ~server'.alive /\ (next = "cleaned" => ~server'.vectors)
    BY <1>2, <2>1, <2>2, FlagsKept DEF Records
  <2>4. NothingKept'
    BY <2>2, <2>3 DEF NothingKept, Goes
  <2> QED BY <1>1, <2>2, <2>3, <2>4, PromptStep DEF Routes
<1> QED BY <1>3, <1>4, <1>5, <1>6, <1>7, <1>8, <1>9 DEF Prompt

LEMMA StepIInv ==
    ASSUME IInv, [Next]_vars
    PROVE  IInv'
<1>1. CASE UNCHANGED vars
  BY <1>1 DEF vars, IInv, Typed, Roles, PageSound, WireSound, Created, ReplySound, Waited,
     RecordSound, ConfirmedWasSeen, Seen, StepSound, Heard, InStep, WindowSound, NothingKept
<1>2. CASE Next
  BY <1>2, PageSoundSteps, PromptSound, ExpireSound, ProgramSound, ServeSound DEF Next
<1> QED BY <1>1, <1>2

-----------------------------------------------------------------------------
LEMMA Inductive == Spec => []IInv
<1>1. Init => IInv
  BY InitSound
<1>2. IInv /\ [Next]_vars => IInv'
  BY StepIInv
<1> QED BY <1>1, <1>2, PTL DEF Spec

(* A confirmation, and the notice drawn from it, are of facts the consumer  *)
(* saw and ticked, whichever requests were late, lost or repeated.          *)
THEOREM ConfirmationIsSound == Spec => []ConfirmationSound
<1>1. IInv => ConfirmationSound
  <2> SUFFICES ASSUME IInv PROVE ConfirmationSound
    OBVIOUS
  <2>1. server \in Records /\ page \in Pages
    BY DEF IInv, Typed
  <2>2. TypeOK
    BY <2>1 DEF IInv, Typed, PageSound, TypeOK, Records, Pages
  <2>3. ConfirmedWasSeen /\ NoticeFromConfirmed
    BY DEF IInv, RecordSound, PageSound, Seen, NoticeFromConfirmed
  <2> QED BY <2>2, <2>3 DEF ConfirmationSound
<1> QED BY <1>1, Inductive, PTL

(* A page that has missed no answer offers what the service would accept.   *)
THEOREM PageStaysInStep == Spec => []PageInStep
<1>1. IInv => PageInStep
  <2> SUFFICES ASSUME IInv, page.at = "rest", page.case # None, ~page.missed, server.alive
               PROVE  InStep(page.case)
    BY DEF PageInStep, InStep
  <2>1. client = "page" /\ Heard = page.case
    BY DEF IInv, Roles, Away, PageSound, Heard
  <2> QED BY <2>1 DEF IInv, StepSound
<1> QED BY <1>1, Inductive, PTL

(* A prompt-notice request that ends without its credentials keeps no case, *)
(* and no vectors where it was the one that removed the case and their      *)
(* deletion did not raise (prompt_notice's handler).                        *)
THEOREM PromptKeepsNothing == Spec => []NothingKept
<1>1. IInv => NothingKept
  BY DEF IInv
<1> QED BY <1>1, Inductive, PTL

(* Between two applications of one message lie as many others, all          *)
(* different, as keys are kept.                                             *)
THEOREM NoRepeatIsEarly == Spec => []NoEarlyRepeat
<1>1. IInv => NoEarlyRepeat
  <2> SUFFICES ASSUME IInv, NEW i \in DOMAIN applied, NEW j \in DOMAIN applied,
                      i < j, applied[i] = applied[j]
               PROVE  Cardinality({applied[k] : k \in i + 1 .. j - 1}) >= MaxKeys
    BY DEF NoEarlyRepeat
  <2> DEFINE n == MaxKeys
             Near == j - n .. j - 1
             f == [k \in Near |-> applied[k]]
             Latest == {applied[k] : k \in Near}
             Between == {applied[k] : k \in i + 1 .. j - 1}
  <2>1. n \in Nat \ {0} /\ applied \in Seq(MessageIds) /\ i \in Nat /\ j \in Nat /\ i >= 1
        /\ DOMAIN applied = 1 .. Len(applied) /\ Len(applied) \in Nat
    BY SessionAssumption DEF IInv, Typed
  <2>2. j - i > n
    BY <2>1 DEF IInv, WindowSound
  <2>3. Near \subseteq i + 1 .. j - 1 /\ i + 1 .. j - 1 \subseteq DOMAIN applied
    BY <2>1, <2>2
  <2>4. \A k, m \in Near : k < m => applied[k] # applied[m]
    <3> SUFFICES ASSUME NEW k \in Near, NEW m \in Near, k < m PROVE applied[k] # applied[m]
      OBVIOUS
    <3>1. k \in DOMAIN applied /\ m \in DOMAIN applied /\ m - k <= n
      BY <2>1, <2>3
    <3> QED BY <3>1 DEF IInv, WindowSound
  <2>5. f \in Bijection(Near, Latest)
    <3>1. f \in Injection(Near, Latest)
      <4>1. f \in [Near -> Latest]
        OBVIOUS
      <4>2. \A k, m \in Near : f[k] = f[m] => k = m
        BY <2>1, <2>4
      <4> QED BY <4>1, <4>2 DEF Injection, IsInjective
    <3>2. f \in Surjection(Near, Latest)
      BY DEF Surjection
    <3> QED BY <3>1, <3>2 DEF Bijection
  <2>6. IsFiniteSet(Near) /\ Cardinality(Near) = n
    <3>1. j - n \in Int /\ j - 1 \in Int
      BY <2>1
    <3>2. /\ IsFiniteSet((j - n) .. (j - 1))
          /\ Cardinality((j - n) .. (j - 1)) = IF j - n > j - 1 THEN 0 ELSE (j - 1) - (j - n) + 1
      BY <3>1, FS_Interval
    <3> QED BY <3>2, <2>1
  <2>7. IsFiniteSet(Latest) /\ Cardinality(Latest) = n
    BY <2>5, <2>6, FS_Bijection DEF ExistsBijection
  <2>8. IsFiniteSet(Between)
    <3>1. IsFiniteSet(i + 1 .. j - 1)
      BY <2>1, FS_Interval
    <3> DEFINE g == [k \in i + 1 .. j - 1 |-> applied[k]]
    <3>2. g \in Surjection(i + 1 .. j - 1, Between)
      BY DEF Surjection
    <3> QED BY <3>1, <3>2, FS_Surjection
  <2>9. Latest \subseteq Between
    BY <2>3
  <2>10. Cardinality(Latest) <= Cardinality(Between)
    BY <2>8, <2>9, FS_Subset
  <2> QED BY <2>1, <2>7, <2>8, <2>10, FS_CardinalityType
<1> QED BY <1>1, Inductive, PTL
=============================================================================
