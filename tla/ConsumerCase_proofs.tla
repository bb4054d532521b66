------------------------ MODULE ConsumerCase_proofs ------------------------
(***************************************************************************)
(* Proofs about ConsumerCase, for any number of requests, uploads and      *)
(* facts.                                                                  *)
(***************************************************************************)
EXTENDS ConsumerCase, TLAPS

-----------------------------------------------------------------------------
(* The inductive invariant: the checked invariants, and what a request has  *)
(* in hand at each stage.                                                   *)

InStep(stage, d) ==
    /\ stage = "scope" => d.complaint \in Complaints
    /\ stage \in Generating \ {"scope"} => d.documents = Accepted
    /\ stage \in {"retrieving", "verifying", "composing"} => d.searched \in Facts
    /\ stage \in {"verifying", "composing"} => d.selected \in Facts
    /\ stage = "composing" => d.settled \in Facts /\ Backed(d.settled, d.documents)

DraftsInStep == \A t \in Tasks : InStep(pc[t], draft[t])

UploadsInStep == \A t \in Tasks :
    /\ pc[t] \in {"hashing", "ingesting", "scanning"} => kind[t] = "upload"
    /\ pc[t] \in Generating => kind[t] = "notice"
    /\ kind[t] = "upload" /\ pc[t] # "idle" => upload[t] \in Files
    /\ pc[t] \in {"ingesting", "scanning"} => Admissible(upload[t])

IInv ==
    /\ TypeOK
    /\ InsideLock
    /\ DraftsInStep
    /\ UploadsInStep
    /\ DocumentsWithinLimit
    /\ NoticeDrawnFromAccepted
    /\ RenderedFactsCurrent
    /\ DirectLossBacked

-----------------------------------------------------------------------------
(* Lemmas about the operators.                                              *)

(* What a client may leave in the case is well typed.                       *)
LEMMA FactsTyped == FactsValues \subseteq Facts
BY CaseAssumption

(* Filing one more upload keeps every accepted one accepted.                *)
LEMMA AcceptedGrows ==
    ASSUME TypeOK, NEW f \in Files, NEW safe \in BOOLEAN,
           documents' = Append(documents, [file |-> f, accepted |-> safe])
    PROVE  /\ documents' \in Seq([file : Files, accepted : BOOLEAN])
           /\ Accepted \subseteq Accepted'
           /\ Uploaded' = Uploaded \cup {f}
<1> DEFINE R == [file : Files, accepted : BOOLEAN]
           r == [file |-> f, accepted |-> safe]
<1>1. r \in R /\ documents \in Seq(R)
  BY DEF TypeOK
<1>2. /\ documents' \in Seq(R)
      /\ Len(documents') = Len(documents) + 1
      /\ \A i \in 1 .. Len(documents) : documents'[i] = documents[i]
      /\ documents'[Len(documents) + 1] = r
  <2> HIDE DEF R, r
  <2> QED BY <1>1 DEF r
<1>3. /\ DOMAIN documents = 1 .. Len(documents)
      /\ DOMAIN documents' = DOMAIN documents \cup {Len(documents) + 1}
  BY <1>1, <1>2
<1>4. Accepted \subseteq Accepted'
  BY <1>2, <1>3 DEF Accepted
<1>5. Uploaded' = Uploaded \cup {r.file}
  <2> HIDE DEF R, r
  <2> QED BY <1>2, <1>3 DEF Uploaded
<1>6. r.file = f
  OBVIOUS
<1> HIDE DEF r
<1> QED BY <1>2, <1>4, <1>5, <1>6

(* The accepted uploads of any list of uploads are files.                   *)
LEMMA FilesOfUploads ==
    ASSUME NEW docs \in Seq([file : Files, accepted : BOOLEAN])
    PROVE  {docs[i].file : i \in {j \in DOMAIN docs : docs[j].accepted}} \subseteq Files
<1> DEFINE R == [file : Files, accepted : BOOLEAN]
<1>1. \A i \in DOMAIN docs : docs[i] \in R
  <2> HIDE DEF R
  <2>1. docs \in Seq(R)
    BY DEF R
  <2> QED BY <2>1
<1>2. \A i \in DOMAIN docs : docs[i].file \in Files
  BY <1>1
<1> QED BY <1>2

LEMMA AcceptedFiles ==
    ASSUME TypeOK
    PROVE  Accepted \subseteq Files
BY FilesOfUploads DEF TypeOK, Accepted

(* A request at a critical stage is alone there.                            *)
LEMMA Alone ==
    ASSUME InsideLock, NEW t \in Tasks, NEW u \in Tasks,
           Holds(t), pc[u] \in Critical
    PROVE  u = t
BY DEF InsideLock, Holds

(* Leaving the lock: no other request is inside it.                         *)
LEMMA FinishTyped ==
    ASSUME TypeOK, NEW t \in Tasks, Holds(t), Finish(t)
    PROVE  /\ lock' \in Seq(Tasks)
           /\ pc' \in [Tasks -> Stages]
           /\ kind' \in [Tasks -> {"upload", "notice"}]
           /\ upload' \in [Tasks -> Files \cup {None}]
           /\ draft' \in [Tasks -> Draft]
BY DEF TypeOK, Finish, Holds, Blank, Draft, Stages

LEMMA FinishKeepsRequests ==
    ASSUME IInv, NEW t \in Tasks, Holds(t), Finish(t)
    PROVE  InsideLock' /\ DraftsInStep' /\ UploadsInStep'
<1>1. ASSUME NEW u \in Tasks PROVE pc'[u] \notin Critical /\ pc'[t] = "idle"
  BY Alone DEF IInv, Finish, TypeOK, Critical
<1>2. InsideLock'
  BY <1>1 DEF InsideLock
<1>3. DraftsInStep'
  BY <1>1 DEF DraftsInStep, InStep, Critical, Generating
<1>4. UploadsInStep'
  BY <1>1 DEF UploadsInStep, Critical, Generating, IInv, Finish, TypeOK
<1> QED BY <1>2, <1>3, <1>4

(* At most the scope verdict changes in the record.                         *)
ScopeOnly ==
    /\ UNCHANGED <<facts, confirmed, documents, notice>>
    /\ verdict' \in Verdict \cup {None}

LEMMA UnchangedScope ==
    ASSUME IInv, UNCHANGED record
    PROVE  ScopeOnly
BY DEF IInv, TypeOK, record, ScopeOnly

(* Moving to another critical stage with a draft fit for it.                *)
LEMMA GotoKeepsInvariant ==
    ASSUME IInv, NEW t \in Tasks, Holds(t),
           NEW stage \in Critical, NEW d \in Draft, InStep(stage, d),
           stage \in {"ingesting", "scanning"} =>
               kind[t] = "upload" /\ Admissible(upload[t]),
           stage \in Generating => kind[t] = "notice",
           kind[t] = "upload" => upload[t] \in Files,
           Goto(t, stage, d), ScopeOnly
    PROVE  IInv'
<1>1. TypeOK'
  BY DEF IInv, TypeOK, Goto, ScopeOnly, Stages
<1>2. Accepted' = Accepted /\ Uploaded' = Uploaded
  BY DEF ScopeOnly, Accepted, Uploaded
<1>3. InsideLock'
  BY DEF IInv, TypeOK, InsideLock, Holds, Goto
<1>4. DraftsInStep'
  BY <1>2 DEF IInv, TypeOK, DraftsInStep, InStep, Goto
<1>5. UploadsInStep'
  <2> SUFFICES ASSUME NEW u \in Tasks
               PROVE  /\ pc'[u] \in {"hashing", "ingesting", "scanning"} => kind'[u] = "upload"
                      /\ pc'[u] \in Generating => kind'[u] = "notice"
                      /\ kind'[u] = "upload" /\ pc'[u] # "idle" => upload'[u] \in Files
                      /\ pc'[u] \in {"ingesting", "scanning"} => Admissible(upload[u])'
    BY DEF UploadsInStep
  <2>1. \A f : Admissible(f) <=> Admissible(f)'
    BY <1>2 DEF Admissible, ScopeOnly
  <2>2. CASE u = t
    BY <2>1, <2>2 DEF IInv, TypeOK, UploadsInStep, Goto, Critical
  <2>3. CASE u # t
    BY <2>1, <2>3 DEF IInv, TypeOK, UploadsInStep, Goto
  <2> QED BY <2>2, <2>3
<1>6. DocumentsWithinLimit' /\ NoticeDrawnFromAccepted' /\ RenderedFactsCurrent' /\ DirectLossBacked'
  BY <1>2 DEF IInv, DocumentsWithinLimit, NoticeDrawnFromAccepted, RenderedFactsCurrent,
              DirectLossBacked, Backed, ScopeOnly
<1> QED BY <1>1, <1>3, <1>4, <1>5, <1>6 DEF IInv

(* Ending with at most the scope verdict changed.                           *)
LEMMA FinishKeepsInvariant ==
    ASSUME IInv, NEW t \in Tasks, Holds(t), Finish(t), ScopeOnly
    PROVE  IInv'
<1>1. TypeOK'
  BY FinishTyped DEF IInv, TypeOK, ScopeOnly
<1>2. Accepted' = Accepted
  BY DEF ScopeOnly, Accepted
<1>3. DocumentsWithinLimit' /\ NoticeDrawnFromAccepted' /\ RenderedFactsCurrent' /\ DirectLossBacked'
  BY <1>2 DEF IInv, DocumentsWithinLimit, NoticeDrawnFromAccepted, RenderedFactsCurrent,
              DirectLossBacked, Backed, ScopeOnly
<1> QED BY <1>1, <1>3, FinishKeepsRequests DEF IInv

(* The combined evidence document is made of the accepted uploads.          *)
LEMMA IndexKeepsInvariant ==
    ASSUME IInv, NEW t \in Tasks, Holds(t), kind[t] = "notice", IndexEvidence(t), ScopeOnly
    PROVE  IInv'
<1> DEFINE d == [draft[t] EXCEPT !.documents = Accepted]
<1>1. d \in Draft /\ InStep("indexing", d) /\ Goto(t, "indexing", d)
  BY AcceptedFiles DEF IInv, TypeOK, Draft, InStep, IndexEvidence
<1> HIDE DEF d
<1> QED BY <1>1, GotoKeepsInvariant DEF Critical

(* A file the case does not hold, below the limit, can be filed.            *)
LEMMA DistinctUploads ==
    ASSUME TypeOK, DocumentsWithinLimit, NEW f \in Files, NEW safe \in BOOLEAN,
           Admissible(f), documents' = Append(documents, [file |-> f, accepted |-> safe])
    PROVE  DocumentsWithinLimit'
<1> DEFINE R == [file : Files, accepted : BOOLEAN]
           r == [file |-> f, accepted |-> safe]
           n == Len(documents)
<1>1. r \in R /\ documents \in Seq(R) /\ r.file = f
  BY DEF TypeOK
<1>2. /\ n \in Nat
      /\ DOMAIN documents = 1 .. n
      /\ Len(documents') = n + 1
      /\ DOMAIN documents' = 1 .. n + 1
      /\ \A i \in 1 .. n : documents'[i] = documents[i]
      /\ documents'[n + 1] = r
  <2> HIDE DEF R, r
  <2> QED BY <1>1 DEF r
<1>3. n + 1 <= MaxDocuments
  BY <1>2, CaseAssumption DEF Admissible
<1>4. \A i \in 1 .. n : documents[i].file # f
  BY <1>2 DEF Admissible, Uploaded
<1>5. \A i \in 1 .. n + 1 : documents'[i].file = IF i = n + 1 THEN f ELSE documents[i].file
  <2> HIDE DEF r
  <2> QED BY <1>1, <1>2
<1>6. \A i, j \in 1 .. n + 1 : documents'[i].file = documents'[j].file => i = j
  <2> HIDE DEF n
  <2> QED BY <1>2, <1>4, <1>5 DEF DocumentsWithinLimit
<1> QED BY <1>2, <1>3, <1>6 DEF DocumentsWithinLimit

-----------------------------------------------------------------------------
(* The invariant holds at the start and is kept by every step.              *)

LEMMA InitInvariant == Init => IInv
<1> SUFFICES ASSUME Init PROVE IInv
  OBVIOUS
<1> USE DEF NoRequests
<1>1. /\ facts \in FactsValues /\ facts \in Facts
      /\ facts.reference = None
  BY CaseAssumption, FactsTyped DEF Init, OpenedByChat, OpenedByPrompt, Fills, NoFacts
<1>2. /\ documents \in Seq([file : Files, accepted : BOOLEAN])
      /\ DocumentsWithinLimit
  <2>1. CASE documents = <<>>
    BY <2>1, CaseAssumption DEF DocumentsWithinLimit
  <2>2. CASE \E f \in Files : documents = <<[file |-> f, accepted |-> TRUE]>>
    <3> PICK f \in Files : documents = <<[file |-> f, accepted |-> TRUE]>>
      BY <2>2
    <3> QED BY CaseAssumption DEF DocumentsWithinLimit
  <2> QED BY <2>1, <2>2 DEF Init, OpenedByChat, OpenedByPrompt
<1>3. InsideLock /\ DraftsInStep /\ UploadsInStep
  BY DEF Init, OpenedByChat, OpenedByPrompt, InsideLock, DraftsInStep, UploadsInStep,
         InStep, Critical, Generating
<1>4. DirectLossBacked
  <2>1. notice # None => notice.settled = facts
    BY DEF Init, OpenedByChat, OpenedByPrompt, Written
  <2> QED BY <1>1, <2>1 DEF DirectLossBacked, Backed
<1>5. Accepted \subseteq Files
  BY <1>2 DEF Init, OpenedByChat, OpenedByPrompt, Accepted
<1>6. NoticeDrawnFromAccepted /\ RenderedFactsCurrent /\ notice \in Notice \cup {None}
  BY <1>1, <1>5 DEF Init, OpenedByChat, OpenedByPrompt, NoticeDrawnFromAccepted,
     RenderedFactsCurrent, Written, Notice, Modes, Blank
<1>7. TypeOK
  <2>1. verdict \in Verdict \cup {None}
    <3>1. CASE OpenedByChat
      BY <3>1 DEF OpenedByChat
    <3>2. CASE OpenedByPrompt
      <4>1. facts.complaint \in Complaints
        BY <3>2, CaseAssumption DEF OpenedByPrompt
      <4> QED BY <3>2, <4>1 DEF OpenedByPrompt, Verdict
    <3> QED BY <3>1, <3>2 DEF Init
  <2>2. /\ confirmed \in BOOLEAN
        /\ lock \in Seq(Tasks)
        /\ pc \in [Tasks -> Stages]
        /\ kind \in [Tasks -> {"upload", "notice"}]
        /\ upload \in [Tasks -> Files \cup {None}]
        /\ draft \in [Tasks -> Draft]
    <3>1. Blank \in Draft
      BY DEF Blank, Draft
    <3>2. "idle" \in Stages
      BY DEF Stages
    <3>3. NoRequests /\ confirmed = FALSE
      BY DEF Init, OpenedByChat, OpenedByPrompt
    <3>4. lock = <<>> /\ <<>> \in Seq(Tasks)
      BY <3>3
    <3>5. /\ pc \in [Tasks -> Stages]
          /\ kind \in [Tasks -> {"upload", "notice"}]
          /\ upload \in [Tasks -> Files \cup {None}]
      BY <3>2, <3>3
    <3>6. draft \in [Tasks -> Draft]
      BY <3>1, <3>3
    <3> QED BY <3>3, <3>4, <3>5, <3>6
  <2> QED BY <1>1, <1>2, <1>6, <2>1, <2>2 DEF TypeOK
<1> QED BY <1>2, <1>3, <1>4, <1>6, <1>7 DEF IInv

(* An edit leaves requests and uploads alone and keeps no notice about      *)
(* other facts.                                                             *)
LEMMA EditKeepsInvariant ==
    ASSUME IInv, facts' \in FactsValues, confirmed' \in BOOLEAN,
           Backed(facts', Accepted),
           notice' = None \/ (notice' = notice /\ facts' = facts),
           UNCHANGED <<documents, verdict, requests>>
    PROVE  IInv'
<1>1. Accepted' = Accepted /\ Uploaded' = Uploaded
  BY DEF Accepted, Uploaded
<1>2. TypeOK'
  BY DEF IInv, TypeOK, requests
<1>3. InsideLock'
  BY DEF IInv, InsideLock, Holds, requests
<1>4. DraftsInStep'
  BY <1>1 DEF IInv, DraftsInStep, InStep, requests
<1>5. UploadsInStep'
  BY <1>1 DEF IInv, UploadsInStep, Admissible, requests
<1>6. DocumentsWithinLimit' /\ NoticeDrawnFromAccepted' /\ RenderedFactsCurrent' /\ DirectLossBacked'
  BY <1>1 DEF IInv, DocumentsWithinLimit, NoticeDrawnFromAccepted, RenderedFactsCurrent,
              DirectLossBacked, Backed
<1> QED BY <1>2, <1>3, <1>4, <1>5, <1>6 DEF IInv

(* An edit keeps no notice about other facts.                               *)
LEMMA EditStep ==
    ASSUME Edit
    PROVE  /\ UNCHANGED <<documents, verdict, requests>>
           /\ notice' = None \/ UNCHANGED <<facts, notice>>
<1>1. ASSUME NEW g \in FactsValues, AddMessage(g)
      PROVE  /\ UNCHANGED <<documents, verdict, requests>>
             /\ notice' = None \/ UNCHANGED <<facts, notice>>
  BY <1>1 DEF AddMessage
<1>2. ASSUME NEW g \in FactsValues, NEW sent \in SUBSET Sendable,
             NEW confirm \in {"confirm", "withdraw", "unsent"}, UpdateFacts(g, sent, confirm)
      PROVE  /\ UNCHANGED <<documents, verdict, requests>>
             /\ notice' = None \/ UNCHANGED <<facts, notice>>
  BY <1>2 DEF UpdateFacts
<1> QED BY <1>1, <1>2 DEF Edit

LEMMA NextInvariant == IInv /\ [Next]_vars => IInv'
<1> SUFFICES ASSUME IInv, [Next]_vars PROVE IInv'
  OBVIOUS
<1>1. ASSUME NEW g \in FactsValues, AddMessage(g) PROVE IInv'
  <2>1. Backed(g, Accepted)
    BY <1>1 DEF AddMessage, Fills, IInv, DirectLossBacked, Backed
  <2> QED BY <1>1, <2>1, EditKeepsInvariant DEF AddMessage
<1>2. ASSUME NEW g \in FactsValues, NEW sent \in SUBSET Sendable,
             NEW confirm \in {"confirm", "withdraw", "unsent"}, UpdateFacts(g, sent, confirm)
      PROVE  IInv'
  <2>1. Backed(facts', Accepted)
    BY <1>2 DEF UpdateFacts, Matches, Backed
  <2>2. /\ facts' \in FactsValues /\ confirmed' \in BOOLEAN
        /\ notice' = None \/ (notice' = notice /\ facts' = facts)
        /\ UNCHANGED <<documents, verdict, requests>>
    BY <1>2 DEF UpdateFacts, IInv, TypeOK
  <2> QED BY <2>1, <2>2, EditKeepsInvariant
<1>3. ASSUME NEW t \in Tasks, NEW f \in Files, StartUpload(t, f) PROVE IInv'
  <2>1. Accepted' = Accepted /\ Uploaded' = Uploaded
    BY <1>3 DEF StartUpload, record, Accepted, Uploaded
  <2>2. TypeOK'
    BY <1>3 DEF StartUpload, IInv, TypeOK, Stages, record
  <2>3. InsideLock' /\ DraftsInStep' /\ UploadsInStep'
    BY <1>3, <2>1 DEF StartUpload, IInv, TypeOK, InsideLock, Holds, DraftsInStep, InStep,
       UploadsInStep, Admissible, Critical, Generating, record
  <2>4. DocumentsWithinLimit' /\ NoticeDrawnFromAccepted' /\ RenderedFactsCurrent' /\ DirectLossBacked'
    BY <1>3, <2>1 DEF StartUpload, IInv, DocumentsWithinLimit, NoticeDrawnFromAccepted,
       RenderedFactsCurrent, DirectLossBacked, Backed, record
  <2> QED BY <2>2, <2>3, <2>4 DEF IInv
<1>4. ASSUME NEW t \in Tasks, Hashed(t) \/ StartGeneration(t) PROVE IInv'
  <2>1. Accepted' = Accepted /\ Uploaded' = Uploaded
    BY <1>4 DEF Hashed, StartGeneration, record, Accepted, Uploaded
  <2>2. /\ lock' = Append(lock, t)
        /\ pc' = [pc EXCEPT ![t] = "queued"]
        /\ pc[t] \in {"hashing", "idle"}
        /\ UNCHANGED <<record, upload, draft>>
    BY <1>4 DEF Hashed, StartGeneration, Enqueue
  <2>3. \A u \in Tasks : u # t => kind'[u] = kind[u]
    BY <1>4 DEF Hashed, StartGeneration, IInv, TypeOK
  <2>4. kind' \in [Tasks -> {"upload", "notice"}]
    BY <1>4 DEF Hashed, StartGeneration, IInv, TypeOK
  <2>5. kind'[t] = "upload" => pc[t] = "hashing" /\ kind[t] = "upload"
    BY <1>4 DEF Hashed, StartGeneration, IInv, TypeOK, UploadsInStep
  <2>6. TypeOK'
    <3>1. lock' \in Seq(Tasks)
      BY <2>2 DEF IInv, TypeOK
    <3>2. pc' \in [Tasks -> Stages]
      BY <2>2 DEF IInv, TypeOK, Stages
    <3> QED BY <2>2, <2>4, <3>1, <3>2 DEF IInv, TypeOK, record
  <2>7. InsideLock'
    BY <2>2 DEF IInv, TypeOK, InsideLock, Holds, Critical
  <2>8. DraftsInStep'
    BY <2>1, <2>2 DEF IInv, TypeOK, DraftsInStep, InStep, Generating
  <2>9. UploadsInStep'
    BY <2>1, <2>2, <2>3, <2>5 DEF IInv, TypeOK, UploadsInStep, Admissible, Generating, record
  <2>10. DocumentsWithinLimit' /\ NoticeDrawnFromAccepted' /\ RenderedFactsCurrent' /\ DirectLossBacked'
    BY <2>1, <2>2 DEF IInv, DocumentsWithinLimit, NoticeDrawnFromAccepted,
       RenderedFactsCurrent, DirectLossBacked, Backed, record
  <2> QED BY <2>6, <2>7, <2>8, <2>9, <2>10 DEF IInv
<1>5. ASSUME NEW t \in Tasks, BeginUpload(t) PROVE IInv'
  <2>1. upload[t] \in Files /\ draft[t] \in Draft /\ Holds(t)
    BY <1>5 DEF BeginUpload, IInv, TypeOK, UploadsInStep
  <2>2. CASE Admissible(upload[t])
    <3>1. InStep("ingesting", draft[t])
      BY DEF InStep, Generating
    <3> QED BY <1>5, <2>1, <2>2, <3>1, GotoKeepsInvariant, UnchangedScope
            DEF BeginUpload, Critical, Generating
  <2>3. CASE ~Admissible(upload[t])
    BY <1>5, <2>1, <2>3, FinishKeepsInvariant, UnchangedScope DEF BeginUpload
  <2> QED BY <2>2, <2>3
<1>6. ASSUME NEW t \in Tasks, Ingested(t) PROVE IInv'
  <2>1. /\ upload[t] \in Files /\ draft[t] \in Draft /\ Holds(t)
        /\ kind[t] = "upload" /\ Admissible(upload[t])
    BY <1>6 DEF Ingested, IInv, TypeOK, UploadsInStep, InsideLock, Critical
  <2>2. InStep("scanning", draft[t])
    BY DEF InStep, Generating
  <2> QED BY <1>6, <2>1, <2>2, GotoKeepsInvariant, UnchangedScope DEF Ingested, Critical, Generating
<1>7. ASSUME NEW t \in Tasks, NEW safe \in BOOLEAN, Scanned(t, safe) PROVE IInv'
  <2>1. Holds(t) /\ upload[t] \in Files /\ Admissible(upload[t])
    BY <1>7 DEF Scanned, IInv, TypeOK, InsideLock, UploadsInStep, Critical
  <2>2. /\ Finish(t) /\ notice' = None /\ confirmed' = FALSE
        /\ documents' = Append(documents, [file |-> upload[t], accepted |-> safe])
        /\ UNCHANGED <<facts, verdict>>
    BY <1>7 DEF Scanned
  <2>3. /\ documents' \in Seq([file : Files, accepted : BOOLEAN])
        /\ Accepted \subseteq Accepted'
    BY <2>1, <2>2, AcceptedGrows DEF IInv
  <2>4. TypeOK'
    BY <2>1, <2>2, <2>3, FinishTyped DEF IInv, TypeOK
  <2>5. DirectLossBacked'
    BY <2>2, <2>3 DEF IInv, DirectLossBacked, Backed
  <2>6. NoticeDrawnFromAccepted' /\ RenderedFactsCurrent'
    BY <2>2 DEF NoticeDrawnFromAccepted, RenderedFactsCurrent
  <2>7. DocumentsWithinLimit'
    BY <2>1, <2>2, DistinctUploads DEF IInv
  <2> QED BY <2>1, <2>2, <2>4, <2>5, <2>6, <2>7, FinishKeepsRequests DEF IInv
<1>8. ASSUME NEW t \in Tasks, BeginGeneration(t) PROVE IInv'
  <2>1. Holds(t) /\ draft[t] \in Draft /\ kind[t] = "notice" /\ ScopeOnly
    BY <1>8, UnchangedScope DEF BeginGeneration, IInv, TypeOK
  <2>2. CASE Finish(t)
    BY <2>1, <2>2, FinishKeepsInvariant
  <2>3. CASE AskVerifier(t) /\ Ready
    <3> DEFINE d == [draft[t] EXCEPT !.complaint = facts.complaint]
    <3>1. facts.complaint \in Complaints
      BY <2>3, CaseAssumption DEF Ready
    <3>2. d \in Draft /\ InStep("scope", d) /\ Goto(t, "scope", d)
      BY <2>1, <2>3, <3>1 DEF Draft, InStep, AskVerifier
    <3> HIDE DEF d
    <3> QED BY <2>1, <3>2, GotoKeepsInvariant DEF Critical
  <2>4. CASE IndexEvidence(t)
    BY <2>1, <2>4, IndexKeepsInvariant
  <2> QED BY <1>8, <2>2, <2>3, <2>4 DEF BeginGeneration
<1>9. ASSUME NEW t \in Tasks, NEW removed \in BOOLEAN, ScopeChecked(t, removed) PROVE IInv'
  <2>1. /\ Holds(t) /\ draft[t] \in Draft /\ kind[t] = "notice"
        /\ draft[t].complaint \in Complaints
    BY <1>9 DEF ScopeChecked, IInv, TypeOK, InsideLock, UploadsInStep, DraftsInStep, InStep,
       Critical, Generating, Draft
  <2>2. ScopeOnly
    BY <1>9, <2>1 DEF ScopeChecked, ScopeOnly, Verdict
  <2>3. Finish(t) \/ IndexEvidence(t)
    BY <1>9 DEF ScopeChecked
  <2> QED BY <2>1, <2>2, <2>3, FinishKeepsInvariant, IndexKeepsInvariant
<1>10. ASSUME NEW t \in Tasks, EvidenceIndexed(t) PROVE IInv'
  <2> DEFINE d == [draft[t] EXCEPT !.searched = facts]
  <2>1. Holds(t) /\ kind[t] = "notice" /\ ScopeOnly
    BY <1>10, UnchangedScope DEF EvidenceIndexed, IInv, InsideLock, UploadsInStep, Critical, Generating
  <2>2. d \in Draft /\ InStep("retrieving", d) /\ Goto(t, "retrieving", d)
    BY <1>10, FactsTyped DEF EvidenceIndexed, IInv, TypeOK, DraftsInStep, InStep, Draft, Generating
  <2> HIDE DEF d
  <2> QED BY <2>1, <2>2, GotoKeepsInvariant DEF Critical
<1>11. ASSUME NEW t \in Tasks, Retrieved(t) PROVE IInv'
  <2> DEFINE d == [draft[t] EXCEPT !.selected = facts]
  <2>1. Holds(t) /\ kind[t] = "notice" /\ ScopeOnly
    BY <1>11, UnchangedScope DEF Retrieved, IInv, InsideLock, UploadsInStep, Critical, Generating
  <2>2. d \in Draft /\ InStep("verifying", d) /\ Goto(t, "verifying", d)
    BY <1>11, FactsTyped DEF Retrieved, IInv, TypeOK, DraftsInStep, InStep, Draft, Generating
  <2> HIDE DEF d
  <2> QED BY <2>1, <2>2, GotoKeepsInvariant DEF Critical
<1>12. ASSUME NEW t \in Tasks, Grounded(t) PROVE IInv'
  <2> DEFINE d == [draft[t] EXCEPT !.settled = facts]
  <2>0. Backed(facts, draft[t].documents)
    BY <1>12 DEF Grounded, IInv, DirectLossBacked, DraftsInStep, InStep, Generating
  <2>1. Holds(t) /\ kind[t] = "notice" /\ ScopeOnly
    BY <1>12, UnchangedScope DEF Grounded, IInv, InsideLock, UploadsInStep, Critical, Generating
  <2>2. d \in Draft /\ InStep("composing", d) /\ Goto(t, "composing", d)
    BY <1>12, <2>0, FactsTyped DEF Grounded, IInv, TypeOK, DraftsInStep, InStep, Draft, Generating
  <2> HIDE DEF d
  <2> QED BY <2>1, <2>2, GotoKeepsInvariant DEF Critical
<1>13. ASSUME NEW t \in Tasks, Composed(t) PROVE IInv'
  <2>1. /\ Finish(t) /\ Holds(t)
        /\ notice' = Written("case", draft[t], facts)
        /\ UNCHANGED <<facts, confirmed, documents, verdict>>
    BY <1>13 DEF Composed, IInv, InsideLock, Critical
  <2>2. Accepted' = Accepted
    BY <2>1 DEF Accepted
  <2>3. /\ notice' \in Notice
        /\ notice'.documents = Accepted
        /\ notice'.rendered = facts
        /\ Backed(notice'.settled, notice'.documents)
    BY <1>13, <2>1, AcceptedFiles, FactsTyped DEF Composed, IInv, TypeOK, DraftsInStep, InStep,
       Written, Notice, Modes, Generating
  <2>4. TypeOK'
    BY <2>1, <2>3, FinishTyped DEF IInv, TypeOK
  <2>5. NoticeDrawnFromAccepted' /\ RenderedFactsCurrent' /\ DocumentsWithinLimit' /\ DirectLossBacked'
    BY <2>1, <2>2, <2>3 DEF IInv, NoticeDrawnFromAccepted, RenderedFactsCurrent,
       DocumentsWithinLimit, DirectLossBacked, Backed
  <2> QED BY <2>1, <2>4, <2>5, FinishKeepsRequests DEF IInv
<1>14. ASSUME NEW t \in Tasks, RequestFails(t) PROVE IInv'
  BY <1>14, FinishKeepsInvariant, UnchangedScope
     DEF RequestFails, IInv, InsideLock, Critical
<1>15. ASSUME NEW t \in Tasks, HashFails(t) PROVE IInv'
  <2>1. Accepted' = Accepted /\ Uploaded' = Uploaded
    BY <1>15 DEF HashFails, record, Accepted, Uploaded
  <2>2. TypeOK'
    BY <1>15 DEF HashFails, IInv, TypeOK, Stages, record
  <2>3. InsideLock' /\ DraftsInStep' /\ UploadsInStep'
    BY <1>15, <2>1 DEF HashFails, IInv, TypeOK, InsideLock, Holds, DraftsInStep, InStep,
       UploadsInStep, Admissible, Critical, Generating, record
  <2>4. DocumentsWithinLimit' /\ NoticeDrawnFromAccepted' /\ RenderedFactsCurrent' /\ DirectLossBacked'
    BY <1>15, <2>1 DEF HashFails, IInv, DocumentsWithinLimit, NoticeDrawnFromAccepted,
       RenderedFactsCurrent, DirectLossBacked, Backed, record
  <2> QED BY <2>2, <2>3, <2>4 DEF IInv
<1>16. CASE UNCHANGED vars
  <2>1. Accepted' = Accepted /\ Uploaded' = Uploaded
    BY <1>16 DEF vars, record, Accepted, Uploaded
  <2>2. TypeOK'
    BY <1>16 DEF IInv, TypeOK, vars, record, requests
  <2>3. InsideLock' /\ DraftsInStep' /\ UploadsInStep'
    BY <1>16, <2>1 DEF IInv, vars, record, requests, InsideLock, Holds, DraftsInStep, InStep,
       UploadsInStep, Admissible
  <2>4. DocumentsWithinLimit' /\ NoticeDrawnFromAccepted' /\ RenderedFactsCurrent' /\ DirectLossBacked'
    BY <1>16, <2>1 DEF IInv, DocumentsWithinLimit, NoticeDrawnFromAccepted,
       RenderedFactsCurrent, DirectLossBacked, Backed, vars, record
  <2> QED BY <2>2, <2>3, <2>4 DEF IInv
<1> QED
  BY <1>1, <1>2, <1>3, <1>4, <1>5, <1>6, <1>7, <1>8, <1>9, <1>10, <1>11, <1>12, <1>13,
     <1>14, <1>15, <1>16 DEF Next, Edit, Arrive, Advance

-----------------------------------------------------------------------------
(* The theorems.                                                            *)

(* Every reachable state of a case is well typed.                           *)
THEOREM TypeCorrect == Spec => []TypeOK
<1>1. IInv => TypeOK
  BY DEF IInv
<1> QED BY InitInvariant, NextInvariant, <1>1, PTL DEF Spec

(* The lock serves its purpose: whoever meets on a case, uploads and        *)
(* generations exclude each other, and uploads stay distinct and within the *)
(* limit.                                                                   *)
THEOREM UploadsAreSound == Spec => []UploadsSound
<1>1. IInv => UploadsSound
  BY DEF IInv, UploadsSound
<1> QED BY InitInvariant, NextInvariant, <1>1, PTL DEF Spec

(* However chat messages, fact edits, uploads and generations interleave,   *)
(* a stored notice was drawn from the uploads the case accepts.             *)
THEOREM CaseSafe == Spec => []NoticeDrawnFromAccepted
<1>1. IInv => NoticeDrawnFromAccepted
  BY DEF IInv
<1> QED BY InitInvariant, NextInvariant, <1>1, PTL DEF Spec

(* And it is rendered from the facts the case holds (generate_notice).      *)
THEOREM RenderingIsCurrent == Spec => []RenderedFactsCurrent
<1>1. IInv => RenderedFactsCurrent
  BY DEF IInv
<1> QED BY InitInvariant, NextInvariant, <1>1, PTL DEF Spec

(* Whatever partial edits, messages and uploads follow one another, a       *)
(* direct loss that quotes an upload is the amount of an accepted one, and  *)
(* a stored notice settled only on uploads it was drawn from                *)
(* (update_facts, _direct_loss_sources).                                    *)
THEOREM LossIsBacked == Spec => []DirectLossBacked
<1>1. IInv => DirectLossBacked
  BY DEF IInv
<1> QED BY InitInvariant, NextInvariant, <1>1, PTL DEF Spec

-----------------------------------------------------------------------------
(* A case whose client does not edit it while a notice is being generated:  *)
(* a generation then behaves as one instant.                                *)

(* No material edit, of any client, leaves a notice standing.  This part    *)
(* does not need the client to wait.                                        *)
THEOREM EditsInvalidate == Spec => MaterialEditInvalidates
<1> DEFINE A == /\ (facts' # facts \/ documents' # documents) => notice' = None
                /\ documents' # documents => ~confirmed'
<1>1. ASSUME [Next]_vars PROVE [A]_vars
  <2>1. ASSUME Edit PROVE A
    BY <2>1 DEF Edit, AddMessage, UpdateFacts
  <2>2. ASSUME NEW t \in Tasks, Arrive(t) PROVE A
    BY <2>2 DEF Arrive, StartUpload, StartGeneration, record
  <2>3. ASSUME NEW t \in Tasks, Advance(t) PROVE A
    BY <2>3 DEF Advance, Hashed, BeginUpload, Ingested, Scanned, BeginGeneration,
       ScopeChecked, EvidenceIndexed, Retrieved, Grounded, Composed, RequestFails, HashFails, record
  <2> QED BY <1>1, <2>1, <2>2, <2>3 DEF Next
<1> QED BY <1>1, PTL DEF Spec, MaterialEditInvalidates

-----------------------------------------------------------------------------
(* What a generation has read is still what the case holds.                 *)

Vouched == verdict = [complaint |-> facts.complaint, removed |-> FALSE]

Current(stage, d) ==
    /\ stage \in Generating => confirmed /\ facts.complaint \in InScope /\ Accepted # {}
    /\ stage = "scope" => d.complaint = facts.complaint /\ notice = None
    /\ stage \in Generating \ {"scope"} => Vouched
    /\ stage \in {"retrieving", "verifying", "composing"} => d.searched = facts
    /\ stage \in {"verifying", "composing"} => d.selected = facts
    /\ stage = "composing" => d.settled = facts

DraftsCurrent == \A t \in Tasks : Current(pc[t], draft[t])

SInv ==
    /\ IInv
    /\ DraftsCurrent
    /\ NoticeOfOneMoment
    /\ notice # None => Vouched /\ facts.complaint \in InScope

LEMMA SerialStep == SerialNext => Next
BY DEF SerialNext, Next

(* Only the lock's holder can be generating, so only its draft matters.     *)
LEMMA HolderCurrent ==
    ASSUME IInv, NEW t \in Tasks, Holds(t), NEW stage \in Stages,
           pc' = [pc EXCEPT ![t] = stage], Current(pc[t], draft[t])'
    PROVE  DraftsCurrent'
<1> SUFFICES ASSUME NEW u \in Tasks PROVE Current(pc[u], draft[u])'
  BY DEF DraftsCurrent
<1>1. CASE u = t
  BY <1>1
<1>2. CASE u # t
  <2>1. pc'[u] = pc[u] /\ pc[u] \notin Critical
    BY <1>2, Alone DEF IInv, TypeOK
  <2> QED BY <2>1 DEF Current, Critical, Generating
<1> QED BY <1>1, <1>2

LEMMA InitSerial == Init => SInv
<1> SUFFICES ASSUME Init PROVE SInv
  OBVIOUS
<1>1. IInv
  BY InitInvariant
<1>2. DraftsCurrent
  BY DEF Init, OpenedByChat, OpenedByPrompt, NoRequests, DraftsCurrent, Current, Generating
<1>3. NoticeOfOneMoment /\ (notice # None => Vouched /\ facts.complaint \in InScope)
  BY DEF Init, OpenedByChat, OpenedByPrompt, NoticeOfOneMoment, Vouched, Written, Blank
<1> QED BY <1>1, <1>2, <1>3 DEF SInv

(* A step that changes neither the record nor who is generating.            *)
LEMMA RecordKept ==
    ASSUME SInv, UNCHANGED record
    PROVE  /\ Accepted' = Accepted
           /\ NoticeOfOneMoment'
           /\ (notice # None => Vouched /\ facts.complaint \in InScope)'
BY DEF SInv, record, Accepted, NoticeOfOneMoment, Vouched

LEMMA NextSerial == SInv /\ [SerialNext]_vars => SInv'
<1> SUFFICES ASSUME SInv, [SerialNext]_vars PROVE SInv'
  OBVIOUS
<1>0. IInv /\ IInv'
  BY SerialStep, NextInvariant DEF SInv
<1> DEFINE Rest == /\ DraftsCurrent
                   /\ NoticeOfOneMoment
                   /\ notice # None => Vouched /\ facts.complaint \in InScope
<1>1. ASSUME Quiet, Edit PROVE Rest'
  <2>1. UNCHANGED <<documents, verdict, requests>> /\ (notice' = None \/ UNCHANGED <<facts, notice>>)
    BY <1>1, EditStep
  <2>2. DraftsCurrent'
    BY <1>1, <2>1 DEF Quiet, DraftsCurrent, Current, Generating, requests
  <2> QED BY <2>1, <2>2 DEF SInv, NoticeOfOneMoment, Vouched
<1>2. ASSUME NEW t \in Tasks, Arrive(t) \/ Hashed(t) \/ HashFails(t) PROVE Rest'
  <2>1. UNCHANGED record /\ \A u \in Tasks : pc'[u] = pc[u] \/ pc'[u] \notin Generating
    BY <1>2, <1>0 DEF Arrive, StartUpload, StartGeneration, Hashed, HashFails, IInv, TypeOK, Generating
  <2>2. UNCHANGED draft
    BY <1>2 DEF Arrive, StartUpload, StartGeneration, Hashed, HashFails
  <2>3. DraftsCurrent'
    BY <2>1, <2>2, RecordKept DEF SInv, DraftsCurrent, Current, Vouched, record, Generating
  <2> QED BY <2>1, <2>3, RecordKept
<1>3. ASSUME NEW t \in Tasks, BeginUpload(t) \/ Ingested(t) \/ RequestFails(t) PROVE Rest'
  <2>1. Holds(t) /\ UNCHANGED record
    BY <1>3, <1>0 DEF BeginUpload, Ingested, RequestFails, IInv, InsideLock, Critical
  <2>2. PICK stage \in {"idle", "ingesting", "scanning"} : pc' = [pc EXCEPT ![t] = stage]
    BY <1>3 DEF BeginUpload, Ingested, RequestFails, Goto, Finish
  <2>3. Current(pc[t], draft[t])'
    BY <1>0, <2>2 DEF IInv, TypeOK, Current, Generating
  <2>4. DraftsCurrent'
    BY <1>0, <2>1, <2>2, <2>3, HolderCurrent DEF Stages, Critical
  <2> QED BY <2>1, <2>4, RecordKept
<1>4. ASSUME NEW t \in Tasks, NEW safe \in BOOLEAN, Scanned(t, safe) PROVE Rest'
  <2>1. Holds(t) /\ pc' = [pc EXCEPT ![t] = "idle"] /\ notice' = None
    BY <1>4, <1>0 DEF Scanned, Finish, IInv, InsideLock, Critical
  <2>2. Current(pc[t], draft[t])'
    BY <1>0, <2>1 DEF IInv, TypeOK, Current, Generating
  <2>3. DraftsCurrent'
    BY <1>0, <2>1, <2>2, HolderCurrent DEF Stages
  <2> QED BY <2>1, <2>3 DEF NoticeOfOneMoment
<1>5. ASSUME NEW t \in Tasks, BeginGeneration(t) PROVE Rest'
  <2>1. Holds(t) /\ UNCHANGED record
    BY <1>5 DEF BeginGeneration
  <2>2. CASE Finish(t)
    <3>1. pc' = [pc EXCEPT ![t] = "idle"] /\ Current(pc[t], draft[t])'
      BY <1>0, <2>2 DEF Finish, IInv, TypeOK, Current, Generating
    <3>2. DraftsCurrent'
      BY <1>0, <2>1, <3>1, HolderCurrent DEF Stages
    <3> QED BY <2>1, <3>2, RecordKept
  <2>3. CASE Ready /\ AskVerifier(t) /\ (verdict = None \/ verdict.complaint # facts.complaint)
    <3>1. /\ pc' = [pc EXCEPT ![t] = "scope"]
          /\ draft'[t].complaint = facts.complaint
          /\ pc'[t] = "scope"
      BY <1>0, <2>3 DEF AskVerifier, Goto, IInv, TypeOK, Draft
    <3>2. notice = None
      <4>1. facts.complaint \in Complaints
        BY <2>3, CaseAssumption DEF Ready
      <4>2. Vouched => verdict \in Verdict /\ verdict.complaint = facts.complaint
        BY <4>1 DEF Vouched, Verdict
      <4> QED BY <2>3, <4>2, NoneAssumption DEF SInv
    <3>3. Current(pc[t], draft[t])'
      BY <2>1, <2>3, <3>1, <3>2, RecordKept DEF Current, Ready, Generating, record
    <3>4. DraftsCurrent'
      BY <1>0, <2>1, <3>1, <3>3, HolderCurrent DEF Stages, Critical
    <3> QED BY <2>1, <3>4, RecordKept
  <2>4. CASE Ready /\ IndexEvidence(t) /\ ~(verdict = None \/ verdict.complaint # facts.complaint)
    <3>1. pc' = [pc EXCEPT ![t] = "indexing"] /\ pc'[t] = "indexing"
      BY <1>0, <2>4 DEF IndexEvidence, Goto, IInv, TypeOK
    <3>2. Vouched
      BY <1>0, <2>4 DEF Ready, RemovedByVerifier, Vouched, IInv, TypeOK, Verdict
    <3>3. Current(pc[t], draft[t])'
      BY <2>1, <2>4, <3>1, <3>2, RecordKept DEF Current, Ready, Generating, Vouched, record
    <3>4. DraftsCurrent'
      BY <1>0, <2>1, <3>1, <3>3, HolderCurrent DEF Stages, Critical
    <3> QED BY <2>1, <3>4, RecordKept
  <2> QED BY <1>5, <2>2, <2>3, <2>4 DEF BeginGeneration
<1>6. ASSUME NEW t \in Tasks, NEW removed \in BOOLEAN, ScopeChecked(t, removed) PROVE Rest'
  <2>1. /\ Holds(t) /\ notice = None /\ notice' = None
        /\ confirmed /\ facts.complaint \in InScope /\ Accepted # {}
        /\ draft[t].complaint = facts.complaint
        /\ UNCHANGED <<facts, confirmed, documents>>
    BY <1>6, <1>0 DEF ScopeChecked, IInv, InsideLock, Critical, SInv, DraftsCurrent, Current,
       Generating
  <2>2. Accepted' = Accepted
    BY <2>1 DEF Accepted
  <2>3. CASE removed
    <3>1. pc' = [pc EXCEPT ![t] = "idle"] /\ Current(pc[t], draft[t])'
      BY <1>0, <1>6, <2>3 DEF ScopeChecked, Finish, IInv, TypeOK, Current, Generating
    <3>2. DraftsCurrent'
      BY <1>0, <2>1, <3>1, HolderCurrent DEF Stages
    <3> QED BY <2>1, <3>2 DEF NoticeOfOneMoment
  <2>4. CASE ~removed
    <3>1. pc' = [pc EXCEPT ![t] = "indexing"] /\ pc'[t] = "indexing"
      BY <1>0, <1>6, <2>4 DEF ScopeChecked, IndexEvidence, Goto, IInv, TypeOK
    <3>2. Vouched'
      BY <1>6, <2>1, <2>4 DEF ScopeChecked, Vouched
    <3>3. Current(pc[t], draft[t])'
      BY <2>1, <2>2, <3>1, <3>2 DEF Current, Generating
    <3>4. DraftsCurrent'
      BY <1>0, <2>1, <3>1, <3>3, HolderCurrent DEF Stages, Critical
    <3> QED BY <2>1, <3>4 DEF NoticeOfOneMoment
  <2> QED BY <2>3, <2>4
<1>7. ASSUME NEW t \in Tasks, EvidenceIndexed(t) \/ Retrieved(t) \/ Grounded(t) PROVE Rest'
  <2>1. Holds(t) /\ UNCHANGED record /\ pc[t] \in {"indexing", "retrieving", "verifying"}
    BY <1>7, <1>0 DEF EvidenceIndexed, Retrieved, Grounded, IInv, InsideLock, Critical
  <2>2. PICK stage \in {"retrieving", "verifying", "composing"} : pc' = [pc EXCEPT ![t] = stage]
    BY <1>7 DEF EvidenceIndexed, Retrieved, Grounded, Goto
  <2>3. Current(pc[t], draft[t])
    BY DEF SInv, DraftsCurrent
  <2>4. Current(pc[t], draft[t])'
    <3>1. CASE EvidenceIndexed(t)
      BY <1>0, <2>1, <2>3, <3>1, RecordKept
         DEF EvidenceIndexed, Goto, IInv, TypeOK, Draft, Current, Generating, Vouched, record
    <3>2. CASE Retrieved(t)
      BY <1>0, <2>1, <2>3, <3>2, RecordKept
         DEF Retrieved, Goto, IInv, TypeOK, Draft, Current, Generating, Vouched, record
    <3>3. CASE Grounded(t)
      BY <1>0, <2>1, <2>3, <3>3, RecordKept
         DEF Grounded, Goto, IInv, TypeOK, Draft, Current, Generating, Vouched, record
    <3> QED BY <1>7, <3>1, <3>2, <3>3
  <2>5. DraftsCurrent'
    BY <1>0, <2>1, <2>2, <2>4, HolderCurrent DEF Stages, Critical
  <2> QED BY <2>1, <2>5, RecordKept
<1>8. ASSUME NEW t \in Tasks, Composed(t) PROVE Rest'
  <2>1. /\ Holds(t) /\ pc' = [pc EXCEPT ![t] = "idle"]
        /\ notice' = Written("case", draft[t], facts)
        /\ UNCHANGED <<facts, verdict>>
    BY <1>8, <1>0 DEF Composed, Finish, IInv, InsideLock, Critical
  <2>2. Current("composing", draft[t])
    BY <1>8 DEF Composed, SInv, DraftsCurrent
  <2>3. Current(pc[t], draft[t])'
    BY <1>0, <2>1 DEF IInv, TypeOK, Current, Generating
  <2>4. DraftsCurrent'
    BY <1>0, <2>1, <2>3, HolderCurrent DEF Stages
  <2>5. NoticeOfOneMoment'
    BY <2>1, <2>2 DEF NoticeOfOneMoment, Written, Current
  <2> QED BY <2>1, <2>2, <2>4, <2>5 DEF Current, Generating, Vouched
<1>9. CASE UNCHANGED vars
  <2>1. DraftsCurrent'
    BY <1>9, RecordKept DEF vars, record, requests, SInv, DraftsCurrent, Current, Vouched
  <2> QED BY <1>0, <1>9, <2>1, RecordKept DEF vars, SInv
<1>10. Rest'
  BY <1>1, <1>2, <1>3, <1>4, <1>5, <1>6, <1>7, <1>8, <1>9 DEF SerialNext, Advance, SInv
<1> QED BY <1>0, <1>10 DEF SInv

-----------------------------------------------------------------------------
(* The theorems.                                                            *)

(* A client that waits gets notices of one moment, for a complaint in scope. *)
THEOREM SerialSafe == SerialSpec => [](NoticeOfOneMoment /\ NoticeInScope)
<1>1. SInv => NoticeOfOneMoment /\ NoticeInScope
  BY DEF SInv, IInv, RenderedFactsCurrent, NoticeInScope, Vouched
<1> QED BY InitSerial, NextSerial, <1>1, PTL DEF SerialSpec

(* Only a generation stores a notice, and what it read is current.          *)
LEMMA StoringStep ==
    ASSUME SInv, SerialNext, notice' # notice, notice' # None
    PROVE  /\ confirmed /\ Accepted # {}
           /\ UNCHANGED <<facts, confirmed, documents>>
           /\ notice' \in Notice
           /\ notice' = [mode |-> "case", documents |-> Accepted, searched |-> facts,
                         selected |-> facts, settled |-> facts, rendered |-> facts]
<1>1. PICK t \in Tasks : Composed(t)
  <2>1. ~Edit
    BY DEF Edit, AddMessage, UpdateFacts
  <2> QED
    BY <2>1 DEF SerialNext, Arrive, Advance, StartUpload, StartGeneration, Hashed, BeginUpload,
       Ingested, Scanned, BeginGeneration, ScopeChecked, EvidenceIndexed, Retrieved, Grounded,
       RequestFails, HashFails, record
<1>2. Current("composing", draft[t]) /\ InStep("composing", draft[t])
  BY <1>1 DEF Composed, SInv, DraftsCurrent, IInv, DraftsInStep
<1>3. notice' = Written("case", draft[t], facts) /\ UNCHANGED <<facts, confirmed, documents>>
  BY <1>1 DEF Composed
<1>4. notice' = [mode |-> "case", documents |-> Accepted, searched |-> facts,
                selected |-> facts, settled |-> facts, rendered |-> facts]
  BY <1>2, <1>3 DEF Current, InStep, Written, Generating
<1>5. notice' \in Notice
  BY <1>4, AcceptedFiles, FactsTyped DEF SInv, IInv, TypeOK, Notice, Modes
<1> QED BY <1>2, <1>3, <1>4, <1>5 DEF Current, Generating

(* A client that waits gets a case notice only while it has confirmed.      *)
THEOREM SerialConfirmed == SerialSpec => CaseNoticeConfirmed
<1>1. SInv /\ [SerialNext]_vars => [notice' # notice /\ notice' # None => confirmed]_vars
  BY StoringStep
<1> QED BY InitSerial, NextSerial, <1>1, PTL DEF SerialSpec, CaseNoticeConfirmed

(* For a client that waits, a case whose generations and uploads take many  *)
(* steps implements the case in which a notice is drawn in one instant.     *)
THEOREM SerialAtomic == SerialSpec => ImplementsAtomicNotice
<1>1. Init => Atomic!Init
  <2> SUFFICES ASSUME Init PROVE Atomic!Init
    OBVIOUS
  <2>1. IInv
    BY InitInvariant
  <2>2. facts \in FactsValues /\ Accepted \in SUBSET Files
    BY <2>1, AcceptedFiles DEF IInv, TypeOK
  <2>3. CASE notice = None
    BY <2>2, <2>3 DEF Init, OpenedByChat, OpenedByPrompt, Atomic!Init
  <2>4. CASE notice # None
    <3>1. notice = [mode |-> "prompt", documents |-> Accepted, searched |-> facts,
                   selected |-> facts, settled |-> facts, rendered |-> facts]
      BY <2>4 DEF Init, OpenedByChat, OpenedByPrompt, Written, Blank
    <3> QED
      BY <2>2, <2>4, <3>1 DEF Init, OpenedByChat, OpenedByPrompt, Atomic!Init, Atomic!Drawn
  <2> QED BY <2>3, <2>4
<1>2. IInv' => Accepted' \in SUBSET Files
  BY FilesOfUploads DEF IInv, TypeOK, Accepted
<1>3. SInv /\ [SerialNext]_vars => [Atomic!Next]_(Atomic!vars)
  <2> SUFFICES ASSUME SInv, [SerialNext]_vars PROVE [Atomic!Next]_(Atomic!vars)
    OBVIOUS
  <2>1. /\ IInv /\ IInv' /\ Accepted' \in SUBSET Files
        /\ facts' \in FactsValues /\ confirmed' \in BOOLEAN
    BY SerialStep, NextInvariant, <1>2 DEF SInv, IInv, TypeOK
  <2>2. CASE SerialNext /\ Edit
    <3>1. /\ Accepted' = Accepted
          /\ notice' = None \/ UNCHANGED <<facts, notice>>
      BY <2>2, EditStep DEF Accepted
    <3>2. CASE notice' = None
      BY <2>1, <3>1, <3>2 DEF Atomic!Next, Atomic!Change
    <3>3. CASE UNCHANGED <<facts, notice>>
      BY <2>1, <3>1, <3>3 DEF Atomic!Next, Atomic!Review
    <3> QED BY <3>1, <3>2, <3>3
  <2>3. ASSUME NEW t \in Tasks, NEW safe \in BOOLEAN, Scanned(t, safe)
        PROVE  Atomic!Next
    <3>1. Accepted \subseteq Accepted'
      BY <2>1, <2>3, AcceptedGrows DEF Scanned, IInv, TypeOK, UploadsInStep, InsideLock, Critical
    <3> QED BY <2>1, <2>3, <3>1 DEF Scanned, Atomic!Next, Atomic!Change
  <2>4. CASE SerialNext /\ notice' # notice /\ notice' # None
    <3>1. Accepted' = Accepted /\ notice' # None /\ UNCHANGED <<facts, confirmed>>
      BY <2>4, StoringStep DEF Accepted
    <3>2. Atomic!DrawNotice
      BY <2>4, <3>1, StoringStep DEF Atomic!DrawNotice, Atomic!Drawn
    <3> QED BY <3>2 DEF Atomic!Next
  <2>5. CASE UNCHANGED <<facts, confirmed, documents, notice>>
    BY <2>5 DEF Atomic!vars, Accepted
  <2>6. CASE UNCHANGED vars
    BY <2>5, <2>6 DEF vars, record
  <2>7. CASE SerialNext
    <3>1. ASSUME NEW t \in Tasks, Composed(t)
          PROVE  (notice' # notice /\ notice' # None) \/ UNCHANGED <<facts, confirmed, documents, notice>>
      <4>1. Current("composing", draft[t]) /\ InStep("composing", draft[t])
        BY <3>1 DEF Composed, SInv, DraftsCurrent, IInv, DraftsInStep
      <4>2. notice' = [mode |-> "case", documents |-> Accepted, searched |-> facts,
                      selected |-> facts, settled |-> facts, rendered |-> facts]
        BY <3>1, <4>1 DEF Composed, Current, InStep, Written, Generating
      <4>3. notice' # None
        BY <2>1, <4>2, AcceptedFiles, FactsTyped, NoneAssumption DEF IInv, TypeOK, Notice, Modes
      <4> QED BY <3>1, <4>3 DEF Composed
    <3>2. ASSUME NEW t \in Tasks, Arrive(t) \/ Advance(t)
          PROVE  \/ \E safe \in BOOLEAN : Scanned(t, safe)
                 \/ Composed(t)
                 \/ UNCHANGED <<facts, confirmed, documents, notice>>
      BY <3>2 DEF Arrive, Advance, StartUpload, StartGeneration, Hashed, BeginUpload, Ingested,
         BeginGeneration, ScopeChecked, EvidenceIndexed, Retrieved, Grounded, RequestFails, HashFails, record
    <3> QED BY <2>2, <2>3, <2>4, <2>5, <2>7, <3>1, <3>2 DEF SerialNext
  <2> QED BY <2>6, <2>7
<1> QED BY InitSerial, NextSerial, <1>1, <1>3, PTL DEF SerialSpec, ImplementsAtomicNotice, Atomic!Spec
=============================================================================
