-------------------------- MODULE ConsumerSession --------------------------
(***************************************************************************)
(* One case seen over HTTP (app/api/consumer_routes.py), by one of three    *)
(* clients: the browser page of frontend/consumer_view.py, which runs its   *)
(* script from the top after every answer and gives up waiting on timeouts; *)
(* a program that repeats messages whose reply it lost; and the             *)
(* prompt-notice route, which opens, fills and deletes a case by itself.    *)
(* A request the client no longer waits for is still applied.  What ConsumerCase *)
(* models step by step is here one step, except that edits may be applied   *)
(* while a notice is generated.                                             *)
(***************************************************************************)
EXTENDS Integers, Sequences, FiniteSets, SequencesExt

CONSTANTS
    Clients,      \* which of "page", "program", "prompt"
    MessageIds,   \* client_message_id of the program's messages
    MaxKeys,      \* max_idempotency_keys_per_case
    MaxMessages,  \* max_messages_per_case
    MaxStories,   \* bound: different texts the consumer tells
    MaxRequests,  \* bound: requests of the page or the program
    None

ASSUME SessionAssumption ==
    /\ Clients \subseteq {"page", "program", "prompt"}
    /\ MaxKeys \in Nat \ {0} /\ MaxMessages \in Nat \ {0}
    /\ MaxStories \in Nat \ {0} /\ MaxRequests \in Nat

VARIABLES
    client,
    server,   \* the case's record
    wire,     \* requests by number: waiting, being worked on, answered or done
    page,     \* st.session_state and what the script is doing
    route,    \* progress of the prompt-notice route
    ticked,   \* history: facts sent with the confirmation box ticked
    applied   \* history: ids of the messages applied, in order

vars == <<client, server, wire, page, route, ticked, applied>>

-----------------------------------------------------------------------------
(* The record and the service's handlers.                                   *)
NoFacts == [story |-> 0, loss |-> FALSE]

NewRecord ==
    [alive |-> TRUE, facts |-> NoFacts, confirmed |-> FALSE, docs |-> 0, vectors |-> FALSE,
     notice |-> None, replies |-> <<>>, log |-> <<>>, stamp |-> 1]

ReadyUnconfirmed(r) == r.facts.story # 0 /\ r.docs > 0

Ready(r) == r.facts.story # 0 /\ r.docs > 0 /\ r.confirmed

(* What the facts, a snapshot of the case and a notice may be.              *)
Facts == [story : 0 .. MaxStories, loss : BOOLEAN]

Snapshots ==
    [facts : Facts, confirmed : BOOLEAN, docs : Nat, ready : BOOLEAN, available : BOOLEAN, stamp : Nat]

Notices == [facts : Facts, clean : BOOLEAN]

ASSUME NoneAssumption == None \notin BOOLEAN \cup MessageIds \cup Snapshots \cup Notices

Snapshot(r) ==
    [facts |-> r.facts, confirmed |-> r.confirmed, docs |-> r.docs, ready |-> Ready(r),
     available |-> r.notice # None, stamp |-> r.stamp]

LastOf(seq, n) == IF Len(seq) > n THEN SubSeq(seq, Len(seq) - n + 1, Len(seq)) ELSE seq

FirstOf(seq, n) == IF Len(seq) > n THEN SubSeq(seq, 1, n) ELSE seq

RememberedFirst(r, id) == IF id = None THEN r.replies ELSE FirstOf(Append(r.replies, id), MaxKeys)

(* remember_assistant_reply and append_message drop the oldest.             *)
Remembered(r, id) == IF id = None THEN r.replies ELSE LastOf(Append(r.replies, id), MaxKeys)

Logged(r, messages) == LastOf(r.log \o messages, MaxMessages)

Touched(r) == [r EXCEPT !.stamp = @ + 1]

(* A message may say what the extractor maps to a fact, or nothing it maps; *)
(* either way the facts need a new confirmation.                            *)
WithMessage(r, id, story) ==
    Touched([r EXCEPT !.facts.story = story, !.confirmed = FALSE, !.notice = None,
                      !.replies = Remembered(r, id), !.log = Logged(r, <<"user", "assistant">>)])

WithFactsKeepingConfirmation(r, facts, tick) ==
    Touched([r EXCEPT !.facts = facts, !.notice = IF facts = r.facts THEN @ ELSE None,
                      !.confirmed = IF tick = None THEN @ ELSE tick])

WithFacts(r, facts, tick) ==
    Touched([r EXCEPT !.facts = facts,
                      !.notice = IF facts = r.facts THEN @ ELSE None,
                      !.confirmed = IF tick # None THEN tick ELSE @ /\ facts = r.facts])

WithDocument(r) ==
    Touched([r EXCEPT !.docs = @ + 1, !.notice = None, !.confirmed = FALSE,
                      !.log = Logged(r, <<"assistant">>)])

WithNotice(r, clean) ==
    Touched([r EXCEPT !.notice = [facts |-> r.facts, clean |-> clean],
                      !.vectors = TRUE])

-----------------------------------------------------------------------------
Away == [creds |-> FALSE, case |-> None, notice |-> None, synced |-> 0, form |-> NoFacts,
         tick |-> FALSE, at |-> "render", waits |-> 0, missed |-> FALSE]

Init ==
    /\ client \in Clients
    /\ server = [NewRecord EXCEPT !.alive = client = "program"]
    /\ wire = <<>>
    /\ page = Away
    /\ route = "none"
    /\ ticked = {}
    /\ applied = <<>>

Request(kind, facts, tick, id) ==
    [kind |-> kind, facts |-> facts, tick |-> tick, id |-> id, state |-> "sent",
     clean |-> TRUE, reply |-> None]

Over == [Request("none", NoFacts, None, None) EXCEPT !.state = "done"]

Sends(kind, facts, tick) ==
    /\ Len(wire) < MaxRequests
    /\ wire' = Append(wire, Request(kind, facts, tick, None))
    /\ page' = [page EXCEPT !.at = "waits", !.waits = Len(wire) + 1]

-----------------------------------------------------------------------------
(* The page: the script renders from the top, fetching the notice where the *)
(* session lacks it, and refills the form whenever the case has a newer     *)
(* time stamp.  Credentials and case enter and leave the session together,  *)
(* so it never fetches a case it lacks nor offers to start anew.            *)
Synced ==
    IF page.synced = page.case.stamp THEN page
    ELSE [page EXCEPT !.synced = page.case.stamp, !.form = page.case.facts,
                      !.tick = page.case.confirmed]

RenderOffline ==
    /\ client = "page" /\ page.at = "render"
    /\ page' = [page EXCEPT !.at = "offline"]
    /\ UNCHANGED <<client, server, wire, route, ticked, applied>>

Render ==
    /\ client = "page" /\ page.at = "render"
    /\ \/ /\ ~page.creds
          /\ page' = [page EXCEPT !.at = "rest"]
          /\ UNCHANGED wire
       \/ /\ page.case # None
          /\ IF page.notice = None /\ page.case.available
             THEN /\ Len(wire) < MaxRequests
                  /\ wire' = Append(wire, Request("notice", NoFacts, None, None))
                  /\ page' = [Synced EXCEPT !.at = "waits", !.waits = Len(wire) + 1]
             ELSE page' = [Synced EXCEPT !.at = "rest"] /\ UNCHANGED wire
    /\ UNCHANGED <<client, server, route, ticked, applied>>

Rerun ==
    /\ client = "page" /\ page.at \in {"rest", "offline"}
    /\ page' = [page EXCEPT !.at = "render"]
    /\ UNCHANGED <<client, server, wire, route, ticked, applied>>

(* A creation the page gave up leaves a case no client has the token of:   *)
(* the one created next is another.                                         *)
StartCase ==
    /\ page.at = "rest" /\ ~page.creds /\ client = "page" /\ wire = <<>>
    /\ Sends("create", NoFacts, None)
    /\ UNCHANGED <<client, server, route, ticked, applied>>

InCase == page.at = "rest" /\ page.creds /\ page.case # None

Say(story) ==
    /\ InCase
    /\ Sends("message", [NoFacts EXCEPT !.story = story], None)
    /\ UNCHANGED <<client, server, route, ticked, applied>>

(* The form sends what it shows, edited or not, and its box.                *)
SubmitFacts(story, tick) ==
    /\ InCase /\ story # 0
    /\ LET facts == [page.form EXCEPT !.story = story]
       IN  /\ Len(wire) < MaxRequests
           /\ wire' = Append(wire, Request("facts", facts, tick, None))
           /\ page' = [page EXCEPT !.at = "waits", !.waits = Len(wire) + 1, !.form = facts, !.tick = tick]
           /\ ticked' = IF tick THEN ticked \cup {facts} ELSE ticked
    /\ UNCHANGED <<client, server, route, applied>>

ConfirmLoss ==
    /\ InCase /\ page.case.docs > 0
    /\ Sends("loss", [NoFacts EXCEPT !.loss = TRUE], None)
    /\ UNCHANGED <<client, server, route, ticked, applied>>

UploadFile ==
    /\ InCase /\ Sends("upload", NoFacts, None)
    /\ UNCHANGED <<client, server, route, ticked, applied>>

(* The button is disabled by what the page last heard.                      *)
Generate ==
    /\ InCase /\ page.case.ready /\ page.case.confirmed /\ page.case.docs > 0
    /\ Sends("generate", NoFacts, None)
    /\ UNCHANGED <<client, server, route, ticked, applied>>

Refresh ==
    /\ InCase /\ Sends("get", NoFacts, None)
    /\ UNCHANGED <<client, server, route, ticked, applied>>

Delete ==
    /\ InCase /\ Sends("delete", NoFacts, None)
    /\ UNCHANGED <<client, server, route, ticked, applied>>

-----------------------------------------------------------------------------
(* The service answers.  Uploads and generations wait for each other; edits *)
(* do not wait for them.  An answer nobody waits for is lost, and a page     *)
(* that lost one is behind until it is answered with the case again.        *)
Waited(i) == client = "page" /\ page.waits = i

Answered(i, reply) ==
    IF Waited(i) THEN [wire[i] EXCEPT !.state = "answered", !.reply = reply] ELSE Over

Behind(i, reply) ==
    page' = [page EXCEPT !.missed = IF ~Waited(i) THEN client = "page" ELSE @ /\ reply.case = None]

Answer(i, reply) == wire' = [wire EXCEPT ![i] = Answered(i, reply)] /\ Behind(i, reply)

Refusal == [ok |-> FALSE, case |-> None, notice |-> None]

Case(r) == [ok |-> TRUE, case |-> Snapshot(r), notice |-> None]

Working == {i \in DOMAIN wire : wire[i].state = "working"}

Edits == {"message", "facts", "loss"}

(* An edit marks a generation that it meets.                                *)
AnswerEdit(i, r) ==
    /\ wire' = [j \in DOMAIN wire |->
                   IF j = i THEN Answered(i, Case(r))
                   ELSE [wire[j] EXCEPT !.clean = @ /\ (j \in Working => r.facts = server.facts /\ r.confirmed)]]
    /\ Behind(i, Case(r))

Stories(i) ==
    IF wire[i].kind = "message" THEN {server.facts.story, wire[i].facts.story} ELSE {wire[i].facts.story}

ApplyCreate(i) ==
    /\ wire[i].kind = "create" /\ wire[i].state = "sent"
    /\ server' = Touched(NewRecord)
    /\ Answer(i, Case(server'))
    /\ UNCHANGED <<client, route, ticked, applied>>

ApplyGone(i) ==
    /\ ~server.alive /\ wire[i].kind # "create" /\ wire[i].state = "sent"
    /\ Answer(i, Refusal)
    /\ UNCHANGED <<client, server, route, ticked, applied>>

ApplyMessage(i) ==
    /\ server.alive /\ wire[i].kind = "message" /\ wire[i].state = "sent"
    /\ IF wire[i].id # None /\ Contains(server.replies, wire[i].id)
       THEN Answer(i, Case(server)) /\ UNCHANGED <<server, applied>>
       ELSE /\ \E story \in Stories(i) : server' = WithMessage(server, wire[i].id, story)
            /\ AnswerEdit(i, server')
            /\ applied' = IF wire[i].id = None THEN applied ELSE Append(applied, wire[i].id)
    /\ UNCHANGED <<client, route, ticked>>

ApplyFacts(i) ==
    /\ server.alive /\ wire[i].kind \in {"facts", "loss"} /\ wire[i].state = "sent"
    /\ server' = IF wire[i].kind = "facts" THEN WithFacts(server, wire[i].facts, wire[i].tick)
                 ELSE WithFacts(server, [server.facts EXCEPT !.loss = TRUE], None)
    /\ AnswerEdit(i, server')
    /\ UNCHANGED <<client, route, ticked, applied>>

(* A duplicate, a file beyond the ceiling and an unreadable one leave the   *)
(* case as it is.                                                           *)
ApplyUpload(i) ==
    /\ server.alive /\ wire[i].kind = "upload" /\ wire[i].state = "sent" /\ Working = {}
    /\ \/ server.docs = 0 /\ server' = WithDocument(server) /\ Answer(i, Case(server'))
       \/ server.docs > 0 /\ Answer(i, Case(server)) /\ UNCHANGED server
       \/ Answer(i, Refusal) /\ UNCHANGED server
    /\ UNCHANGED <<client, route, ticked, applied>>

ApplyRead(i) ==
    /\ server.alive /\ wire[i].kind \in {"get", "notice"} /\ wire[i].state = "sent"
    /\ Answer(i, IF wire[i].kind # "notice" THEN Case(server)
                 ELSE [ok |-> server.notice # None, case |-> None, notice |-> server.notice])
    /\ UNCHANGED <<client, server, route, ticked, applied>>

BeginGeneration(i) ==
    /\ server.alive /\ wire[i].kind = "generate" /\ wire[i].state = "sent" /\ Working = {}
    /\ IF Ready(server) THEN wire' = [wire EXCEPT ![i].state = "working"] /\ UNCHANGED page
       ELSE Answer(i, Refusal)
    /\ UNCHANGED <<client, server, route, ticked, applied>>

EndGeneration(i) ==
    /\ i \in Working
    /\ \/ /\ server' = WithNotice(server, wire[i].clean)
          /\ Answer(i, [ok |-> TRUE, case |-> None, notice |-> server'.notice])
       \/ Answer(i, Refusal) /\ UNCHANGED server
    /\ UNCHANGED <<client, route, ticked, applied>>

ApplyDelete(i) ==
    /\ server.alive /\ wire[i].kind = "delete" /\ wire[i].state = "sent"
    /\ server' = [server EXCEPT !.alive = FALSE]
    /\ Answer(i, [Refusal EXCEPT !.ok = TRUE])
    /\ UNCHANGED <<client, route, ticked, applied>>

Serve(i) ==
    \/ ApplyCreate(i) \/ ApplyGone(i) \/ ApplyMessage(i) \/ ApplyFacts(i) \/ ApplyUpload(i)
    \/ ApplyRead(i) \/ BeginGeneration(i) \/ EndGeneration(i) \/ ApplyDelete(i)

(* The sweeper drops a case long idle.                                      *)
Expire ==
    /\ server.alive /\ \A i \in DOMAIN wire : wire[i].state \notin {"sent", "working"}
    /\ client # "prompt" \/ route \in {"uploading", "generating"}
    /\ server' = [server EXCEPT !.alive = FALSE]
    /\ UNCHANGED <<client, wire, page, route, ticked, applied>>

-----------------------------------------------------------------------------
(* The page takes an answer, or stops waiting for it.                       *)
LoseCase(p, reply) == [p EXCEPT !.case = IF @ = None THEN reply.case ELSE @]

StoreCase(p, reply) == [p EXCEPT !.case = reply.case]

Shown(kind, reply) ==
    LET p == [page EXCEPT !.at = "render", !.waits = 0]
    IN  CASE kind = "create" -> [StoreCase(p, reply) EXCEPT !.creds = TRUE]
          [] kind \in {"get", "loss"} -> StoreCase(p, reply)
          [] kind \in {"message", "facts", "upload"} -> [StoreCase(p, reply) EXCEPT !.notice = None]
          [] kind = "generate" -> [p EXCEPT !.notice = reply.notice, !.case.available = TRUE]
          [] kind = "notice" -> [p EXCEPT !.at = "rest", !.notice = reply.notice]
          [] kind = "delete" -> Away

(* An error is shown and the script goes on; failed uploads drop the notice *)
(* from the session all the same.                                           *)
Failed(kind) ==
    [page EXCEPT !.at = IF kind = "notice" THEN "rest" ELSE "render", !.waits = 0,
                 !.notice = IF kind = "upload" THEN None ELSE @]

Receive ==
    LET i == page.waits
    IN  /\ page.at = "waits" /\ wire[i].state = "answered"
        /\ page' = IF wire[i].reply.ok THEN Shown(wire[i].kind, wire[i].reply) ELSE Failed(wire[i].kind)
        /\ wire' = [wire EXCEPT ![i] = Over]
        /\ UNCHANGED <<client, server, route, ticked, applied>>

TimeOut ==
    LET i == page.waits
    IN  /\ page.at = "waits"
        /\ page' = [Failed(wire[i].kind) EXCEPT !.missed = @ \/ wire[i].state = "answered"]
        /\ wire' = IF wire[i].state = "answered" THEN [wire EXCEPT ![i] = Over] ELSE wire
        /\ UNCHANGED <<client, server, route, ticked, applied>>

Page ==
    \/ Render \/ RenderOffline \/ Rerun \/ StartCase
    \/ \E story \in 1 .. MaxStories : Say(story)
    \/ \E story \in {page.form.story} \cup 1 .. MaxStories, tick \in BOOLEAN : SubmitFacts(story, tick)
    \/ ConfirmLoss \/ UploadFile \/ Generate \/ Refresh \/ Delete \/ Receive \/ TimeOut

-----------------------------------------------------------------------------
(* A program sends its messages, each again whenever it lacks the reply.    *)
ProgramSends(id) ==
    /\ client = "program" /\ Len(wire) < MaxRequests
    /\ wire' = Append(wire, Request("message", [NoFacts EXCEPT !.story = 1], None, id))
    /\ UNCHANGED <<client, server, page, route, ticked, applied>>

-----------------------------------------------------------------------------
(* The prompt-notice route.                                                 *)
Goes(next) == route' = next /\ UNCHANGED <<client, wire, page, ticked, applied>>

OpenPromptCase ==
    /\ client = "prompt" /\ route = "none"
    /\ server' = WithMessage(NewRecord, None, 1)
    /\ \E next \in {"uploading", "generating"} : Goes(next)

ReceivePromptFile ==
    /\ route = "uploading"
    /\ IF server.alive
       THEN server' = WithDocument(server) /\ \E next \in {"generating", "failing"} : Goes(next)
       ELSE UNCHANGED server /\ Goes("failing")

(* Evidence is indexed on the way to a notice.                              *)
IndexPromptEvidence ==
    /\ route = "generating" /\ server.docs > 0 /\ ~server.vectors
    /\ server' = [server EXCEPT !.vectors = TRUE]
    /\ Goes(route)

EndPromptGeneration ==
    /\ route = "generating"
    /\ server.docs > 0 => server.vectors
    /\ server' = WithNotice(server, TRUE)
    /\ Goes("delivered")

(* Any failure, and a client that goes away while the route is at work.     *)
PromptFails ==
    /\ route \in {"uploading", "generating"}
    /\ UNCHANGED server
    /\ Goes("failing")

(* Only the failures the service foresees.                                  *)
DeletePromptCaseSometimes ==
    /\ route = "failing"
    /\ \/ server.alive /\ server' = [server EXCEPT !.alive = FALSE] /\ Goes("cleaning")
       \/ UNCHANGED server /\ Goes("gone")

DeletePromptCase ==
    /\ route = "failing"
    /\ IF server.alive THEN server' = [server EXCEPT !.alive = FALSE] /\ Goes("cleaning")
                       ELSE UNCHANGED server /\ Goes("gone")

CleanPromptCase ==
    /\ route = "cleaning"
    /\ \/ server' = [server EXCEPT !.vectors = FALSE] /\ Goes("cleaned")
       \/ UNCHANGED server /\ Goes("gone")

Prompt ==
    \/ OpenPromptCase \/ ReceivePromptFile \/ IndexPromptEvidence \/ EndPromptGeneration
    \/ PromptFails \/ DeletePromptCase \/ CleanPromptCase

Next ==
    \/ Page \/ Prompt \/ Expire
    \/ \E id \in MessageIds : ProgramSends(id)
    \/ \E i \in DOMAIN wire : Serve(i)

Spec == Init /\ [][Next]_vars

-----------------------------------------------------------------------------
TypeOK ==
    /\ client \in Clients
    /\ server.facts \in Facts /\ server.confirmed \in BOOLEAN
    /\ Len(server.replies) <= MaxKeys /\ Len(server.log) <= MaxMessages
    /\ page.form \in Facts /\ page.at \in {"render", "offline", "rest", "waits"}
    /\ page.at = "waits" <=> page.waits # 0
    /\ page.creds <=> page.case # None
    /\ ticked \subseteq Facts

(* What the service holds as confirmed is what the consumer sent with the   *)
(* box ticked, whatever requests were applied after the page had given them *)
(* up (update_facts, add_message, _ingest_document, _render_facts_form).    *)
ConfirmedWasSeen == server.confirmed => server.facts \in ticked

(* A notice on the page was drawn from facts the consumer confirmed, unless *)
(* an edit met its generation.                                              *)
NoticeFromConfirmed == page.notice # None /\ page.notice.clean => page.notice.facts \in ticked

(* A page that has missed no answer shows the case as the service holds it, *)
(* and so offers exactly what the service would accept.                     *)
PageInStep ==
    page.at = "rest" /\ page.case # None /\ ~page.missed /\ server.alive =>
        LET held == Snapshot(server) IN
        /\ page.case.facts = held.facts /\ page.case.confirmed = held.confirmed
        /\ page.case.docs = held.docs /\ page.case.ready = held.ready
        /\ page.case.available => held.available

(* A repeated message is applied again only after as many others as keys    *)
(* are kept (remember_assistant_reply).                                     *)
NoEarlyRepeat ==
    \A i, j \in DOMAIN applied : i < j /\ applied[i] = applied[j] =>
        Cardinality({applied[k] : k \in i + 1 .. j - 1}) >= MaxKeys

(* A prompt-notice request that ends without handing over its credentials   *)
(* keeps no case, and no vectors unless their own deletion failed or the    *)
(* sweeper had the case first.                                              *)
NothingKept ==
    /\ route \in {"cleaning", "cleaned", "gone"} => ~server.alive
    /\ route = "cleaned" => ~server.vectors

(* A confirmation, and the notice drawn from it, are of facts the consumer  *)
(* saw and ticked, across late, lost and repeated requests.                 *)
ConfirmationSound == TypeOK /\ ConfirmedWasSeen /\ NoticeFromConfirmed
=============================================================================
