----------------------- MODULE EvidenceVectors_proofs -----------------------
(***************************************************************************)
(* Proofs about a case's evidence and the notice made from it: about       *)
(* EvidenceVectors, for any number of cases, uploads, requests, restarts   *)
(* and any capacity; about EvidenceIntake, for any files, pages, scan mode *)
(* and budgets; and about NoticeGrounds, EvidenceCitations and Settlement, *)
(* for any corpora, files, searches and limits.  They share the lemmas on  *)
(* what is the least, in order, or selected from a list.                   *)
(***************************************************************************)
EXTENDS EvidenceVectors, EvidenceIntake, NoticeGrounds, FunctionTheorems, FiniteSetTheorems,
        SequenceTheorems, WellFoundedInduction, TLAPS

-----------------------------------------------------------------------------
(* The inductive invariant.                                                 *)

(* What a record holds is made of its own uploads' texts.                   *)
OwnDocuments == \A c \in Cases :
    /\ evidence[c] \in Seq(TextsOf[c])
    /\ active[c] \in Documents(c) \cup {None}
    /\ indexed[c] \subseteq Documents(c)
    /\ previous[c] \in Documents(c) \cup {None}
    /\ queue[c] \in Seq(TextsOf[c] \cup {Generate})

(* What the holder of a case's lock has in hand at each stage.              *)
HolderInStep == \A c \in Cases :
    /\ stage[c] # "waiting" => queue[c] # <<>> /\ evidence[c] # <<>>
    /\ stage[c] = "replacing" => previous[c] # None /\ previous[c] # evidence[c]
    /\ stage[c] \in {"replacing", "retrieving"} => active[c] = evidence[c]

(* Records being cleaned have left the store; unused ids have no history.   *)
GoneRecords ==
    /\ \A c \in Cases : cleanup[c] # None \/ c \in sweeping => c \in used \ live
    /\ \A c \in Cases \ used : active[c] = None /\ queue[c] = <<>>
    /\ serving \/ live = {}

Shape == TypeOK /\ OwnDocuments /\ HolderInStep

IInv == Shape /\ GoneRecords /\ EvidencePresent

(* No two cases ever upload the same text: without it, two cases share a    *)
(* document id and EvidencePresent is false.                                *)
PrivateTexts == \A c, d \in Cases : c # d => TextsOf[c] \cap TextsOf[d] = {}

-----------------------------------------------------------------------------
(* What the queue operations return.                                        *)
LEMMA QueueOps ==
    ASSUME NEW S, NEW s \in Seq(S)
    PROVE  /\ \A e \in S : Append(s, e) \in Seq(S) /\ Append(s, e) # <<>>
           /\ s # <<>> => Head(s) \in S /\ Tail(s) \in Seq(S)
BY AppendProperties, HeadTailProperties

(* A case's texts are texts, so its documents are sequences of texts.       *)
LEMMA OwnTexts ==
    ASSUME NEW c \in Cases
    PROVE  /\ TextsOf[c] \subseteq Texts
           /\ Seq(TextsOf[c]) \subseteq Seq(Texts)
           /\ Seq(TextsOf[c] \cup {Generate}) \subseteq Seq(Texts \cup {Generate})
           /\ None \notin Seq(Texts)
           /\ Generate \notin Texts
BY VectorsAssumption, NoneAssumption

(* Cases with different texts have different documents.                     *)
LEMMA DocumentsApart ==
    ASSUME PrivateTexts, NEW c \in Cases, NEW d \in Cases, c # d,
           NEW doc \in Documents(c)
    PROVE  doc \notin Documents(d)
<1>1. doc \in Seq(TextsOf[c]) /\ doc # <<>>
  BY DEF Documents
<1>2. Len(doc) \in Nat /\ Len(doc) # 0 /\ doc[1] \in TextsOf[c]
  BY <1>1
<1>3. SUFFICES ASSUME doc \in Seq(TextsOf[d]) PROVE FALSE
  BY DEF Documents
<1>4. doc[1] \in TextsOf[d]
  BY <1>2, <1>3
<1> QED BY <1>2, <1>4 DEF PrivateTexts

-----------------------------------------------------------------------------
LEMMA ShapeInit == Init => Shape
BY OwnTexts, VectorsAssumption DEF Init, Shape, TypeOK, OwnDocuments, HolderInStep, Documents, Stages

LEMMA EndRequestShape ==
    ASSUME Shape, NEW c \in Cases, NEW touched \in BOOLEAN, EndRequest(c, touched),
           queue[c] # <<>>,
           evidence' \in [Cases -> Seq(Texts)],
           \A d \in Cases : evidence'[d] \in Seq(TextsOf[d]),
           \A d \in Cases \ {c} : evidence'[d] = evidence[d],
           UNCHANGED <<active, indexed, cleaning, process>>,
           vectors' \subseteq Seq(Texts)
    PROVE  Shape'
<1>1. /\ Tail(queue[c]) \in Seq(TextsOf[c] \cup {Generate})
      /\ Tail(queue[c]) \in Seq(Texts \cup {Generate})
  <2>1. queue[c] \in Seq(TextsOf[c] \cup {Generate})
    BY DEF Shape, OwnDocuments
  <2>2. Tail(queue[c]) \in Seq(TextsOf[c] \cup {Generate})
    BY <2>1, QueueOps
  <2> QED BY <2>2, OwnTexts
<1>2. TypeOK'
  BY <1>1 DEF Shape, TypeOK, EndRequest, Stages, cleaning, process
<1>3. OwnDocuments'
  BY <1>1 DEF Shape, TypeOK, OwnDocuments, EndRequest, Documents
<1>4. HolderInStep'
  BY DEF Shape, TypeOK, HolderInStep, EndRequest
<1> QED BY <1>2, <1>3, <1>4 DEF Shape

(* Every step keeps the types, the ownership of documents and the stages.   *)
LEMMA ShapeStep ==
    ASSUME Shape, [Next]_vars
    PROVE  Shape'
<1> USE DEF Shape
<1>1. CASE UNCHANGED vars
  BY <1>1 DEF TypeOK, OwnDocuments, HolderInStep, Documents, vars, cases, records, requests, cleaning, process
<1>2. ASSUME NEW c \in Cases, Create(c) PROVE Shape'
  <2>1. TypeOK'
    BY <1>2 DEF Create, TypeOK, Idle, records, requests, cleaning, process
  <2>2. OwnDocuments' /\ HolderInStep'
    BY <1>2 DEF Create, OwnDocuments, HolderInStep, Documents, records, requests
  <2> QED BY <2>1, <2>2
<1>3. ASSUME NEW c \in Cases, NEW request \in TextsOf[c] \cup {Generate}, Ask(c, request) PROVE Shape'
  <2>1. /\ Append(queue[c], request) \in Seq(TextsOf[c] \cup {Generate})
        /\ Append(queue[c], request) \in Seq(Texts \cup {Generate})
        /\ Append(queue[c], request) # <<>>
    <3>1. queue[c] \in Seq(TextsOf[c] \cup {Generate}) /\ request \in TextsOf[c] \cup {Generate}
      BY <1>3 DEF OwnDocuments
    <3>2. /\ Append(queue[c], request) \in Seq(TextsOf[c] \cup {Generate})
          /\ Append(queue[c], request) # <<>>
      BY <3>1, QueueOps
    <3> QED BY <3>2, OwnTexts
  <2>2. TypeOK'
    BY <1>3, <2>1 DEF Ask, TypeOK, records, cleaning, process
  <2>3. OwnDocuments' /\ HolderInStep'
    BY <1>3, <2>1 DEF Ask, TypeOK, OwnDocuments, HolderInStep, Documents, records
  <2> QED BY <2>2, <2>3
<1>4. ASSUME NEW c \in Cases, Delete(c) PROVE Shape'
  <2>1. Loop(c) \in Loops
    BY DEF Loop, Loops, TypeOK
  <2>2. TypeOK'
    BY <1>4, <2>1 DEF Delete, TypeOK, records, requests, process
  <2>3. OwnDocuments' /\ HolderInStep'
    BY <1>4 DEF Delete, OwnDocuments, HolderInStep, Documents, records, requests
  <2> QED BY <2>2, <2>3
<1>5. ASSUME NEW c \in Cases, TimePasses(c) PROVE Shape'
  BY <1>5 DEF TimePasses, TypeOK, OwnDocuments, HolderInStep, Documents, records, requests, cleaning, process
<1>6. CASE Sweep
  <2>1. TypeOK'
    BY <1>6 DEF Sweep, TypeOK, Idle, records, requests, process
  <2>2. OwnDocuments' /\ HolderInStep'
    BY <1>6 DEF Sweep, OwnDocuments, HolderInStep, Documents, records, requests
  <2> QED BY <2>1, <2>2
<1>7. ASSUME NEW c \in Cases, SweepRecord(c) PROVE Shape'
  <2>1. Loop(c) \in Loops
    BY DEF Loop, Loops, TypeOK
  <2>2. TypeOK'
    BY <1>7, <2>1 DEF SweepRecord, TypeOK, cases, records, requests, process
  <2>3. OwnDocuments' /\ HolderInStep'
    BY <1>7 DEF SweepRecord, OwnDocuments, HolderInStep, Documents, records, requests
  <2> QED BY <2>2, <2>3
<1>8. ASSUME NEW c \in Cases, CleanDocument(c) PROVE Shape'
  <2>1. PICK doc \in indexed[c] :
            /\ vectors' = vectors \ {doc}
            /\ cleanup' = [cleanup EXCEPT ![c].visited = @ \cup {doc}]
    BY <1>8 DEF CleanDocument
  <2>2. [cleanup[c] EXCEPT !.visited = @ \cup {doc}] \in Loops
    BY <1>8, ZenonT(60) DEF CleanDocument, Loops, TypeOK
  <2>3. cleanup' = [cleanup EXCEPT ![c] = [cleanup[c] EXCEPT !.visited = @ \cup {doc}]]
    BY <2>1 DEF TypeOK
  <2>4. TypeOK'
    BY <1>8, <2>1, <2>2, <2>3, ZenonT(60) DEF CleanDocument, TypeOK, cases, records, requests, process
  <2>5. OwnDocuments' /\ HolderInStep'
    BY <1>8 DEF CleanDocument, OwnDocuments, HolderInStep, Documents, records, requests
  <2> QED BY <2>4, <2>5
<1>9. ASSUME NEW c \in Cases, CleanEnds(c) \/ CleanRaises(c) PROVE Shape'
  <2>1. TypeOK'
    BY <1>9 DEF CleanEnds, CleanRaises, EndCleanup, TypeOK, cases, records, requests, process
  <2>2. OwnDocuments' /\ HolderInStep'
    BY <1>9 DEF CleanEnds, CleanRaises, OwnDocuments, HolderInStep, Documents, records, requests
  <2> QED BY <2>1, <2>2
<1>10. ASSUME NEW c \in Cases, AcceptUpload(c) PROVE Shape'
  <2>1. /\ Head(queue[c]) \in TextsOf[c]
        /\ Append(evidence[c], Head(queue[c])) \in Seq(TextsOf[c])
        /\ Append(evidence[c], Head(queue[c])) \in Seq(Texts)
    <3>1. /\ queue[c] \in Seq(TextsOf[c] \cup {Generate}) /\ queue[c] # <<>>
          /\ Head(queue[c]) # Generate
          /\ evidence[c] \in Seq(TextsOf[c])
      BY <1>10 DEF AcceptUpload, Turn, OwnDocuments
    <3>2. Head(queue[c]) \in TextsOf[c] \cup {Generate}
      BY <3>1, QueueOps
    <3>3. Head(queue[c]) \in TextsOf[c]
      BY <3>1, <3>2
    <3>4. Append(evidence[c], Head(queue[c])) \in Seq(TextsOf[c])
      BY <3>1, <3>3, QueueOps
    <3> QED BY <3>3, <3>4, OwnTexts
  <2>2. /\ evidence' \in [Cases -> Seq(Texts)]
        /\ \A d \in Cases : evidence'[d] \in Seq(TextsOf[d])
        /\ \A d \in Cases \ {c} : evidence'[d] = evidence[d]
    BY <1>10, <2>1 DEF AcceptUpload, TypeOK, OwnDocuments
  <2> QED BY <1>10, <2>2, EndRequestShape DEF AcceptUpload, Turn, TypeOK
<1>11. ASSUME NEW c \in Cases, Refuse(c) PROVE Shape'
  BY <1>11, EndRequestShape DEF Refuse, Turn, records, TypeOK, OwnDocuments
<1>12. ASSUME NEW c \in Cases, Index(c) PROVE Shape'
  <2>1. TypeOK'
    BY <1>12 DEF Index, Goto, TypeOK, Stages, cases, records, cleaning, process
  <2>2. OwnDocuments' /\ HolderInStep'
    BY <1>12 DEF Index, Goto, Turn, TypeOK, OwnDocuments, HolderInStep, Documents, records
  <2> QED BY <2>1, <2>2
<1>13. ASSUME NEW c \in Cases, Reuse(c) PROVE Shape'
  <2>1. TypeOK'
    BY <1>13 DEF Reuse, Goto, TypeOK, Stages, cases, records, cleaning, process
  <2>2. OwnDocuments' /\ HolderInStep'
    BY <1>13 DEF Reuse, Goto, Turn, TypeOK, OwnDocuments, HolderInStep, Documents, records
  <2> QED BY <2>1, <2>2
<1>14. ASSUME NEW c \in Cases, Indexed(c) PROVE Shape'
  <2>1. evidence[c] \in Documents(c) /\ evidence[c] \in Seq(Texts)
    BY <1>14 DEF Indexed, TypeOK, OwnDocuments, HolderInStep, Documents
  <2>2. TypeOK'
    BY <1>14, <2>1 DEF Indexed, Goto, TypeOK, Stages, cases, cleaning, process
  <2>3. OwnDocuments'
    BY <1>14, <2>1 DEF Indexed, Goto, TypeOK, OwnDocuments, Documents
  <2>4. HolderInStep'
    BY <1>14 DEF Indexed, Goto, TypeOK, HolderInStep
  <2> QED BY <2>2, <2>3, <2>4
<1>15. ASSUME NEW c \in Cases, IndexRaises(c) PROVE Shape'
  <2>1. queue[c] # <<>> /\ vectors' \subseteq Seq(Texts)
    BY <1>15 DEF IndexRaises, HolderInStep, TypeOK
  <2> QED BY <1>15, <2>1, EndRequestShape DEF IndexRaises, records, TypeOK, OwnDocuments
<1>16. ASSUME NEW c \in Cases, Replaced(c) PROVE Shape'
  <2>1. TypeOK'
    BY <1>16 DEF Replaced, Goto, TypeOK, Stages, cases, cleaning, process
  <2>2. OwnDocuments' /\ HolderInStep'
    BY <1>16 DEF Replaced, Goto, TypeOK, OwnDocuments, HolderInStep, Documents
  <2> QED BY <2>1, <2>2
<1>17. ASSUME NEW c \in Cases, ReplaceRaises(c) PROVE Shape'
  BY <1>17, EndRequestShape DEF ReplaceRaises, HolderInStep, records, TypeOK, OwnDocuments
<1>18. ASSUME NEW c \in Cases, NEW touched \in BOOLEAN, Drafted(c, touched) PROVE Shape'
  BY <1>18, EndRequestShape DEF Drafted, HolderInStep, records, TypeOK, OwnDocuments
<1>19. CASE Crash
  <2>1. TypeOK'
    <3>1. crashes' \in 0 .. MaxCrashes
      BY <1>19, VectorsAssumption DEF Crash, TypeOK
    <3>2. <<>> \in Seq(Texts) /\ <<>> \in Seq(Texts \cup {Generate})
      OBVIOUS
    <3> QED BY <1>19, <3>1, <3>2 DEF Crash, TypeOK, Stages
  <2>2. OwnDocuments' /\ HolderInStep'
    BY <1>19 DEF Crash, OwnDocuments, HolderInStep, Documents
  <2> QED BY <2>1, <2>2
<1>20. CASE Purge \/ Serve
  BY <1>20 DEF Purge, Serve, TypeOK, OwnDocuments, HolderInStep, Documents, cases, records, requests, cleaning, process
<1> QED BY <1>1, <1>2, <1>3, <1>4, <1>5, <1>6, <1>7, <1>8, <1>9, <1>10, <1>11, <1>12, <1>13,
           <1>14, <1>15, <1>16, <1>17, <1>18, <1>19, <1>20
        DEF Next, Client, Request, Clean

(* Type correctness of the case store, its requests and the vector store.   *)
THEOREM TypeCorrect == Spec => []TypeOK
<1>1. Init => Shape
  BY ShapeInit
<1>2. Shape /\ [Next]_vars => Shape'
  BY ShapeStep
<1>3. Shape => TypeOK
  BY DEF Shape
<1> QED BY <1>1, <1>2, <1>3, PTL DEF Spec

-----------------------------------------------------------------------------
(* A request in flight belongs to a case whose id was issued.               *)
LEMMA HolderUsed ==
    ASSUME Shape, GoneRecords, NEW c \in Cases, queue[c] # <<>> \/ stage[c] # "waiting"
    PROVE  c \in used /\ queue[c] # <<>>
BY DEF Shape, HolderInStep, GoneRecords

LEMMA GoneStep ==
    ASSUME Shape, GoneRecords, [Next]_vars
    PROVE  GoneRecords'
<1>1. CASE UNCHANGED vars
  BY <1>1 DEF GoneRecords, vars, cases, records, requests, cleaning, process
<1>2. ASSUME NEW c \in Cases, Client(c) PROVE GoneRecords'
  <2>1. CASE Create(c)
    BY <2>1 DEF Create, GoneRecords, Idle, records, requests, cleaning, process
  <2>2. ASSUME NEW request \in TextsOf[c] \cup {Generate}, Ask(c, request) PROVE GoneRecords'
    BY <2>2 DEF Ask, GoneRecords, Shape, TypeOK, records, cleaning, process
  <2>3. CASE Delete(c)
    BY <2>3 DEF Delete, GoneRecords, Shape, TypeOK, records, requests, process
  <2> QED BY <1>2, <2>1, <2>2, <2>3 DEF Client
<1>3. ASSUME NEW c \in Cases, TimePasses(c) PROVE GoneRecords'
  BY <1>3 DEF TimePasses, GoneRecords, records, requests, cleaning, process
<1>4. ASSUME NEW c \in Cases, Request(c) PROVE GoneRecords'
  <2>1. c \in used
    BY <1>4, HolderUsed
       DEF Request, AcceptUpload, Refuse, Index, Reuse, Indexed, IndexRaises, Replaced,
           ReplaceRaises, Drafted, Turn
  <2>2. /\ UNCHANGED <<live, used, cleaning, process>>
        /\ \A d \in Cases \ {c} : active'[d] = active[d] /\ queue'[d] = queue[d]
    BY <1>4
       DEF Request, AcceptUpload, Refuse, Index, Reuse, Indexed, IndexRaises, Replaced,
           ReplaceRaises, Drafted, EndRequest, Goto, cases, records, Shape, TypeOK
  <2> QED BY <2>1, <2>2 DEF GoneRecords, cleaning, process
<1>5. ASSUME NEW c \in Cases, SweepRecord(c) PROVE GoneRecords'
  BY <1>5 DEF SweepRecord, GoneRecords, Shape, TypeOK, cases, records, requests, process
<1>6. ASSUME NEW c \in Cases, Clean(c) PROVE GoneRecords'
  BY <1>6 DEF Clean, CleanDocument, CleanEnds, CleanRaises, EndCleanup, GoneRecords, Shape, TypeOK,
              cases, records, requests, process
<1>7. CASE Sweep
  BY <1>7 DEF Sweep, Idle, GoneRecords, Shape, TypeOK, records, requests, process
<1>8. CASE Crash
  BY <1>8 DEF Crash, GoneRecords
<1>9. CASE Purge \/ Serve
  BY <1>9 DEF Purge, Serve, GoneRecords, cases, records, requests, cleaning, process
<1> QED BY <1>1, <1>2, <1>3, <1>4, <1>5, <1>6, <1>7, <1>8, <1>9 DEF Next

-----------------------------------------------------------------------------
(* Only documents of c leave the store: the other cases keep theirs.        *)
LEMMA OthersKeep ==
    ASSUME PrivateTexts, IInv, NEW c \in Cases, NEW doc \in Documents(c),
           UNCHANGED active, live' \subseteq live, c \notin live \/ doc # active[c],
           vectors' = vectors \ {doc}
    PROVE  EvidencePresent'
<1> SUFFICES ASSUME NEW d \in live, active[d] # None
             PROVE  active[d] # doc
  BY DEF EvidencePresent, IInv
<1>1. d \in Cases /\ active[d] \in Documents(d)
  BY DEF IInv, Shape, TypeOK, OwnDocuments
<1> QED BY <1>1, DocumentsApart

LEMMA PresentStep ==
    ASSUME PrivateTexts, IInv, [Next]_vars
    PROVE  EvidencePresent'
<1>1. CASE UNCHANGED vars
  BY <1>1 DEF IInv, EvidencePresent, vars, cases, records
<1>2. ASSUME NEW c \in Cases, Client(c) PROVE EvidencePresent'
  BY <1>2 DEF Client, Create, Ask, Delete, Idle, IInv, EvidencePresent, GoneRecords, records
<1>3. ASSUME NEW c \in Cases, TimePasses(c) \/ SweepRecord(c) PROVE EvidencePresent'
  BY <1>3 DEF TimePasses, SweepRecord, IInv, EvidencePresent, cases, records
<1>4. ASSUME NEW c \in Cases, Request(c) PROVE EvidencePresent'
  <2>1. CASE \/ AcceptUpload(c) \/ Refuse(c) \/ Index(c) \/ Reuse(c) \/ ReplaceRaises(c)
             \/ \E touched \in BOOLEAN : Drafted(c, touched)
    BY <2>1 DEF AcceptUpload, Refuse, Index, Reuse, ReplaceRaises, Drafted, EndRequest, Goto,
                cases, records, IInv, EvidencePresent
  <2>2. CASE Indexed(c)
    BY <2>2 DEF Indexed, Goto, cases, IInv, EvidencePresent, Shape, TypeOK
  <2>3. CASE IndexRaises(c)
    BY <2>3 DEF IndexRaises, EndRequest, records, IInv, EvidencePresent
  <2>4. CASE Replaced(c)
    <3>1. previous[c] \in Documents(c) /\ previous[c] # active[c]
      BY <2>4 DEF Replaced, IInv, Shape, OwnDocuments, HolderInStep
    <3> QED BY <2>4, <3>1, OthersKeep DEF Replaced, Goto, cases
  <2> QED BY <1>4, <2>1, <2>2, <2>3, <2>4 DEF Request
<1>5. ASSUME NEW c \in Cases, Clean(c) PROVE EvidencePresent'
  <2>1. CASE CleanDocument(c)
    <3>1. PICK doc \in indexed[c] : vectors' = vectors \ {doc}
      BY <2>1 DEF CleanDocument
    <3>2. doc \in Documents(c) /\ c \notin live
      BY <2>1 DEF CleanDocument, IInv, Shape, OwnDocuments, GoneRecords
    <3> QED BY <2>1, <3>1, <3>2, OthersKeep DEF CleanDocument, cases, records
  <2>2. CASE CleanEnds(c) \/ CleanRaises(c)
    BY <2>2 DEF CleanEnds, CleanRaises, cases, records, IInv, EvidencePresent
  <2> QED BY <1>5, <2>1, <2>2 DEF Clean
<1>6. CASE Sweep
  BY <1>6 DEF Sweep, records, IInv, EvidencePresent
<1>7. CASE Crash
  BY <1>7 DEF Crash, EvidencePresent
<1>8. CASE Purge
  BY <1>8 DEF Purge, cases, records, IInv, EvidencePresent, GoneRecords
<1>9. CASE Serve
  BY <1>9 DEF Serve, cases, records, IInv, EvidencePresent
<1> QED BY <1>1, <1>2, <1>3, <1>4, <1>5, <1>6, <1>7, <1>8, <1>9 DEF Next

(* A live case's index is never removed under it, provided no two cases     *)
(* upload the same text.                                                    *)
THEOREM EvidenceStays == PrivateTexts => (Spec => []EvidencePresent)
<1> SUFFICES ASSUME PrivateTexts PROVE Spec => []EvidencePresent
  OBVIOUS
<1>1. Init => IInv
  BY ShapeInit DEF Init, IInv, GoneRecords, EvidencePresent
<1>2. IInv /\ [Next]_vars => IInv'
  BY ShapeStep, GoneStep, PresentStep DEF IInv
<1>3. IInv => EvidencePresent
  BY DEF IInv
<1> QED BY <1>1, <1>2, <1>3, PTL DEF Spec

(* Retrieval on a live case searches its present uploads, under the same    *)
(* proviso.                                                                 *)
THEOREM SearchesAreCurrent == PrivateTexts => (Spec => []SearchesCurrentEvidence)
<1> SUFFICES ASSUME PrivateTexts PROVE Spec => []SearchesCurrentEvidence
  OBVIOUS
<1>1. Init => IInv
  BY ShapeInit DEF Init, IInv, GoneRecords, EvidencePresent
<1>2. IInv /\ [Next]_vars => IInv'
  BY ShapeStep, GoneStep, PresentStep DEF IInv
<1>3. IInv => SearchesCurrentEvidence
  BY OwnTexts DEF IInv, Shape, TypeOK, OwnDocuments, HolderInStep, EvidencePresent, SearchesCurrentEvidence
<1> QED BY <1>1, <1>2, <1>3, PTL DEF Spec

-----------------------------------------------------------------------------
(* The surroundings in which nothing is stranded: the store does not fail,  *)
(* a case is deleted or expires only between its requests, and no case is   *)
(* created while an idle one waits for the sweeper.                         *)
Calm == PrivateTexts /\ PurgeAtStartup /\ Circumstances = {}

(* A record that has left the store, or may be swept out of it, is no       *)
(* longer written; a cleaning loop has removed what it visited for good.    *)
AtRest == \A c \in Cases : idle[c] \/ c \notin live => queue[c] = <<>>

LoopSound == \A c \in Cases : cleanup[c] # None =>
    /\ cleanup[c].from = indexed[c]
    /\ cleanup[c].visited \subseteq indexed[c]
    /\ cleanup[c].visited \cap vectors = {}

CInv == IInv /\ AtRest /\ LoopSound /\ NoOrphans

LEMMA HolderLive ==
    ASSUME IInv, AtRest, NEW c \in Cases, queue[c] # <<>> \/ stage[c] # "waiting"
    PROVE  c \in live /\ queue[c] # <<>> /\ cleanup[c] = None /\ c \notin sweeping
BY DEF IInv, Shape, HolderInStep, GoneRecords, AtRest

LEMMA AtRestStep ==
    ASSUME Calm, IInv, AtRest, [Next]_vars
    PROVE  AtRest'
<1>1. CASE UNCHANGED vars
  BY <1>1 DEF AtRest, vars, cases, requests
<1>2. ASSUME NEW c \in Cases, Client(c) PROVE AtRest'
  BY <1>2 DEF Client, Create, Ask, Delete, Idle, requests, AtRest, IInv, GoneRecords, Shape, TypeOK, Calm
<1>3. ASSUME NEW c \in Cases, TimePasses(c) PROVE AtRest'
  BY <1>3 DEF TimePasses, requests, AtRest, IInv, Shape, TypeOK, Calm
<1>4. ASSUME NEW c \in Cases, Request(c) PROVE AtRest'
  <2>1. c \in live
    BY <1>4, HolderLive
       DEF Request, AcceptUpload, Refuse, Index, Reuse, Indexed, IndexRaises, Replaced,
           ReplaceRaises, Drafted, Turn
  <2>2. CASE UNCHANGED <<queue, idle, live>>
    BY <2>2 DEF AtRest
  <2>3. ASSUME NEW touched \in BOOLEAN, EndRequest(c, touched) PROVE AtRest'
    <3>1. ~idle[c] /\ queue[c] # <<>>
      BY <1>4, <2>1, HolderLive
         DEF AtRest, Request, AcceptUpload, Refuse, Index, Reuse, Indexed, IndexRaises, Replaced,
             ReplaceRaises, Drafted, Turn
    <3> QED BY <2>1, <2>3, <3>1 DEF EndRequest, AtRest, IInv, Shape, TypeOK
  <2> QED BY <1>4, <2>2, <2>3
          DEF Request, AcceptUpload, Refuse, Index, Reuse, Indexed, IndexRaises, Replaced,
              ReplaceRaises, Drafted, Goto, cases
<1>5. ASSUME NEW c \in Cases, SweepRecord(c) \/ Clean(c) PROVE AtRest'
  BY <1>5 DEF SweepRecord, Clean, CleanDocument, CleanEnds, CleanRaises, cases, requests, AtRest
<1>6. CASE Sweep
  BY <1>6 DEF Sweep, Idle, requests, AtRest, IInv, Shape, TypeOK
<1>7. CASE Crash
  BY <1>7 DEF Crash, AtRest
<1>8. CASE Purge \/ Serve
  BY <1>8 DEF Purge, Serve, cases, requests, AtRest
<1> QED BY <1>1, <1>2, <1>3, <1>4, <1>5, <1>6, <1>7, <1>8 DEF Next

LEMMA LoopSoundStep ==
    ASSUME Calm, IInv, AtRest, LoopSound, [Next]_vars
    PROVE  LoopSound'
<1>1. CASE UNCHANGED vars
  BY <1>1 DEF LoopSound, vars, records, cleaning
<1>2. ASSUME NEW c \in Cases, Client(c) PROVE LoopSound'
  BY <1>2 DEF Client, Create, Ask, Delete, Loop, records, cleaning, LoopSound, IInv, Shape, TypeOK
<1>3. ASSUME NEW c \in Cases, TimePasses(c) PROVE LoopSound'
  BY <1>3 DEF TimePasses, records, cleaning, LoopSound
<1>4. ASSUME NEW c \in Cases, Request(c) PROVE LoopSound'
  <2>1. c \in live /\ cleanup[c] = None
    BY <1>4, HolderLive
       DEF Request, AcceptUpload, Refuse, Index, Reuse, Indexed, IndexRaises, Replaced,
           ReplaceRaises, Drafted, Turn
  <2>2. /\ UNCHANGED cleaning
        /\ \A d \in Cases \ {c} : indexed'[d] = indexed[d]
        /\ vectors' \subseteq vectors \cup {evidence[c]}
        /\ vectors' # vectors => evidence[c] # <<>>
    BY <1>4
       DEF Request, AcceptUpload, Refuse, Index, Reuse, Indexed, IndexRaises, Replaced, HolderInStep,
           ReplaceRaises, Drafted, EndRequest, Goto, cases, records, IInv, Shape, TypeOK
  <2>3. ASSUME NEW d \in Cases \ {c}, evidence[c] # <<>> PROVE evidence[c] \notin indexed[d]
    <3>1. evidence[c] \in Documents(c) /\ indexed[d] \subseteq Documents(d)
      BY <2>3 DEF IInv, Shape, OwnDocuments, Documents
    <3> QED BY <3>1, <2>3, DocumentsApart DEF Calm
  <2> QED BY <2>1, <2>2, <2>3 DEF LoopSound, cleaning
<1>5. ASSUME NEW c \in Cases, SweepRecord(c) PROVE LoopSound'
  BY <1>5 DEF SweepRecord, Loop, records, LoopSound, IInv, Shape, TypeOK
<1>6. ASSUME NEW c \in Cases, Clean(c) PROVE LoopSound'
  <2>1. CASE CleanDocument(c)
    <3>1. PICK doc \in indexed[c] :
              /\ vectors' = vectors \ {doc}
              /\ cleanup' = [cleanup EXCEPT ![c].visited = @ \cup {doc}]
      BY <2>1 DEF CleanDocument
    <3>2. cleanup[c] \in Loops /\ cleanup \in [Cases -> Loops \cup {None}]
      BY <2>1 DEF CleanDocument, IInv, Shape, TypeOK
    <3>3. /\ cleanup'[c].from = cleanup[c].from
          /\ cleanup'[c].visited = cleanup[c].visited \cup {doc}
          /\ \A d \in Cases \ {c} : cleanup'[d] = cleanup[d]
      BY <3>1, <3>2 DEF Loops
    <3> QED BY <2>1, <3>1, <3>3 DEF CleanDocument, LoopSound, records
  <2>2. CASE CleanEnds(c) \/ CleanRaises(c)
    BY <2>2 DEF CleanEnds, CleanRaises, EndCleanup, records, LoopSound, IInv, Shape, TypeOK
  <2> QED BY <1>6, <2>1, <2>2 DEF Clean
<1>7. CASE Sweep
  BY <1>7 DEF Sweep, records, LoopSound
<1>8. CASE Crash
  BY <1>8 DEF Crash, LoopSound
<1>9. CASE Purge \/ Serve
  BY <1>9 DEF Purge, Serve, records, cleaning, LoopSound
<1> QED BY <1>1, <1>2, <1>3, <1>4, <1>5, <1>6, <1>7, <1>8, <1>9 DEF Next

LEMMA NoOrphansStep ==
    ASSUME Calm, CInv, [Next]_vars
    PROVE  NoOrphans'
<1> SUFFICES ASSUME serving', NEW doc \in vectors'
             PROVE  Tracked(doc)'
  BY DEF NoOrphans
<1>0. \A d \in vectors : serving => Tracked(d)
  BY DEF CInv, NoOrphans
<1>1. CASE UNCHANGED vars
  BY <1>1, <1>0 DEF Tracked, vars, cases, records, cleaning, process
<1>2. ASSUME NEW c \in Cases, Client(c) PROVE Tracked(doc)'
  <2>1. CASE Create(c)
    BY <2>1, <1>0 DEF Create, Tracked, Idle, records, cleaning, process, Calm
  <2>2. ASSUME NEW request \in TextsOf[c] \cup {Generate}, Ask(c, request) PROVE Tracked(doc)'
    BY <2>2, <1>0 DEF Ask, Tracked, records, cleaning, process
  <2>3. CASE Delete(c)
    <3>1. Loop(c) \in Loops
      BY DEF Loop, Loops, CInv, IInv, Shape, TypeOK
    <3>2. cleanup'[c] # None /\ \A d \in Cases \ {c} : cleanup'[d] = cleanup[d]
      BY <2>3, <3>1, NoneAssumption DEF Delete, CInv, IInv, Shape, TypeOK
    <3> QED BY <2>3, <3>2, <1>0 DEF Delete, Tracked, records, process
  <2> QED BY <1>2, <2>1, <2>2, <2>3 DEF Client
<1>3. ASSUME NEW c \in Cases, TimePasses(c) PROVE Tracked(doc)'
  BY <1>3, <1>0 DEF TimePasses, Tracked, records, cleaning, process
<1>4. ASSUME NEW c \in Cases, Request(c) PROVE Tracked(doc)'
  <2>1. c \in live
    BY <1>4, HolderLive
       DEF CInv, Request, AcceptUpload, Refuse, Index, Reuse, Indexed, IndexRaises, Replaced,
           ReplaceRaises, Drafted, Turn
  <2>2. /\ UNCHANGED <<live, cleaning, process>>
        /\ doc \in vectors => \A d \in Cases : doc \in indexed[d] => doc \in indexed'[d]
        /\ doc \notin vectors => doc \in indexed'[c]
    BY <1>4
       DEF Request, AcceptUpload, Refuse, Index, Reuse, Indexed, IndexRaises, Replaced,
           ReplaceRaises, Drafted, EndRequest, Goto, cases, records, Calm, CInv, IInv, Shape, TypeOK
  <2> QED BY <1>0, <2>1, <2>2 DEF Tracked, cleaning, process
<1>5. ASSUME NEW c \in Cases, SweepRecord(c) PROVE Tracked(doc)'
  BY <1>5, <1>0 DEF SweepRecord, Tracked, cases, records, process, CInv, IInv, Shape, TypeOK
<1>6. ASSUME NEW c \in Cases, Clean(c) PROVE Tracked(doc)'
  <2>1. CASE CleanDocument(c)
    <3>1. PICK old \in indexed[c] : cleanup' = [cleanup EXCEPT ![c].visited = @ \cup {old}]
      BY <2>1 DEF CleanDocument
    <3>2. /\ [cleanup[c] EXCEPT !.visited = @ \cup {old}] \in Loops
          /\ cleanup' = [cleanup EXCEPT ![c] = [cleanup[c] EXCEPT !.visited = @ \cup {old}]]
      BY <2>1, <3>1 DEF CleanDocument, Loops, CInv, IInv, Shape, TypeOK
    <3>4. cleanup'[c] # None
      BY <3>2, NoneAssumption DEF CInv, IInv, Shape, TypeOK
    <3>5. \A d \in Cases \ {c} : cleanup'[d] = cleanup[d]
      BY <3>2 DEF CInv, IInv, Shape, TypeOK
    <3> QED BY <2>1, <3>4, <3>5, <1>0 DEF CleanDocument, Tracked, cases, records, process
  <2>2. CASE CleanEnds(c)
    <3>1. doc \notin indexed[c]
      BY <2>2 DEF CleanEnds, CInv, LoopSound
    <3> QED BY <2>2, <3>1, <1>0 DEF CleanEnds, EndCleanup, Tracked, cases, records, process,
                                     CInv, IInv, Shape, TypeOK
  <2>3. CASE CleanRaises(c)
    BY <2>3 DEF CleanRaises, Undisturbed, Calm, CInv, LoopSound
  <2> QED BY <1>6, <2>1, <2>2, <2>3 DEF Clean
<1>7. CASE Sweep
  BY <1>7, <1>0 DEF Sweep, Idle, Tracked, records, process
<1>8. CASE Crash
  BY <1>8 DEF Crash
<1>9. CASE Purge
  BY <1>9 DEF Purge, process
<1>10. CASE Serve
  BY <1>10 DEF Serve, Calm, Owned, Tracked, cases, records, CInv, IInv, Shape, TypeOK
<1> QED BY <1>1, <1>2, <1>3, <1>4, <1>5, <1>6, <1>7, <1>8, <1>9, <1>10 DEF Next

(* In calm surroundings no replacement, deletion, expiry or restart leaves  *)
(* a vector that nothing will remove.                                       *)
THEOREM NothingStranded == Calm => (Spec => []NoOrphans)
<1> SUFFICES ASSUME Calm PROVE Spec => []NoOrphans
  OBVIOUS
<1>1. Init => CInv
  BY ShapeInit DEF Init, CInv, IInv, GoneRecords, EvidencePresent, AtRest, LoopSound, NoOrphans
<1>2. CInv /\ [Next]_vars => CInv'
  BY ShapeStep, GoneStep, PresentStep, AtRestStep, LoopSoundStep, NoOrphansStep DEF CInv, IInv, Calm
<1>3. CInv => NoOrphans
  BY DEF CInv
<1> QED BY <1>1, <1>2, <1>3, PTL DEF Spec

-----------------------------------------------------------------------------
(* The capacity of the store.                                               *)

HasRoom == Cardinality(live) <= MaxCases

(* A set of cases is no larger than one that contains it.                   *)
LEMMA Fewer ==
    ASSUME NEW S \in SUBSET Cases, NEW T \in SUBSET S
    PROVE  /\ IsFiniteSet(S) /\ IsFiniteSet(T)
           /\ Cardinality(S) \in Nat /\ Cardinality(T) \in Nat
           /\ Cardinality(T) <= Cardinality(S)
<1>1. IsFiniteSet(S)
  BY FS_Subset, VectorsAssumption
<1> QED BY <1>1, FS_Subset, FS_CardinalityType

(* What a step leaves of the store, and what it may take from it.           *)
Removes ==
    /\ Cardinality(live') <= MaxCases
    /\ \A c \in live \ live' : idle[c] \/ cleanup'[c] # None \/ ~serving'

LEMMA RemovesStep ==
    ASSUME Shape, HasRoom, Next
    PROVE  Removes
<1>0. /\ live \subseteq Cases /\ MaxCases \in Nat \ {0}
      /\ \A c \in live : idle[c] \in BOOLEAN
  BY VectorsAssumption DEF Shape, TypeOK
<1>1. ASSUME live' = live PROVE Removes
  BY <1>1 DEF Removes, HasRoom
<1>2. ASSUME NEW c \in Cases, Create(c) PROVE Removes
  <2>1. Idle \in SUBSET live /\ live \ Idle \in SUBSET live
    BY DEF Idle
  <2>2. \A d \in live \ live' : idle[d]
    BY <1>2 DEF Create, Idle
  <2>3. CASE Cardinality(live \ Idle) < MaxCases
    <3>1. live' = (live \ Idle) \cup {c}
      BY <1>2, <2>3 DEF Create
    <3>2. IsFiniteSet(live \ Idle) /\ Cardinality(live \ Idle) \in Nat
      BY <1>0, <2>1, Fewer
    <3>3. /\ IsFiniteSet((live \ Idle) \cup {c})
          /\ Cardinality((live \ Idle) \cup {c}) =
                IF c \in live \ Idle THEN Cardinality(live \ Idle) ELSE Cardinality(live \ Idle) + 1
      BY <3>2, FS_AddElement
    <3>4. Cardinality(live') \in Nat /\ Cardinality(live') <= Cardinality(live \ Idle) + 1
      BY <3>1, <3>2, <3>3
    <3> QED BY <1>0, <2>2, <2>3, <3>2, <3>3, <3>4 DEF Removes
  <2>4. CASE ~(Cardinality(live \ Idle) < MaxCases)
    <3>1. live' = live \ Idle
      BY <1>2, <2>4 DEF Create
    <3>2. Cardinality(live') <= Cardinality(live) /\ Cardinality(live') \in Nat /\ Cardinality(live) \in Nat
      BY <1>0, <2>1, <3>1, Fewer
    <3> QED BY <1>0, <2>2, <3>2 DEF Removes, HasRoom
  <2> QED BY <2>3, <2>4
<1>3. ASSUME NEW c \in Cases, Delete(c) PROVE Removes
  <2>1. Loop(c) \in Loops /\ Loop(c) # None
    BY NoneAssumption DEF Loop, Loops, Shape, TypeOK
  <2>2. live' = live \ {c} /\ cleanup'[c] # None
    BY <1>3, <2>1 DEF Delete, Shape, TypeOK
  <2>3. live \ {c} \in SUBSET live
    OBVIOUS
  <2>4. Cardinality(live') <= Cardinality(live) /\ Cardinality(live') \in Nat /\ Cardinality(live) \in Nat
    BY <1>0, <2>2, <2>3, Fewer
  <2> QED BY <1>0, <2>2, <2>4 DEF Removes, HasRoom
<1>4. CASE Sweep
  <2>1. live' = live \ Idle /\ live \ Idle \in SUBSET live
    BY <1>4 DEF Sweep
  <2>2. Cardinality(live') <= Cardinality(live) /\ Cardinality(live') \in Nat /\ Cardinality(live) \in Nat
    BY <1>0, <2>1, Fewer
  <2>3. \A d \in live \ live' : idle[d]
    BY <2>1 DEF Idle
  <2> QED BY <1>0, <2>2, <2>3 DEF Removes, HasRoom
<1>5. CASE Crash
  <2>1. live' = {} /\ ~serving'
    BY <1>5 DEF Crash
  <2>2. Cardinality(live') = 0
    BY <2>1, FS_EmptySet
  <2> QED BY <1>0, <2>1, <2>2 DEF Removes
<1>6. ASSUME NEW c \in Cases, TimePasses(c) \/ SweepRecord(c) \/ Clean(c) PROVE live' = live
  BY <1>6 DEF TimePasses, SweepRecord, Clean, CleanDocument, CleanEnds, CleanRaises, cases
<1>7. ASSUME NEW c \in Cases, Request(c) PROVE live' = live
  BY <1>7 DEF Request, AcceptUpload, Refuse, Index, Reuse, Indexed, IndexRaises, Replaced,
              ReplaceRaises, Drafted, EndRequest, Goto, cases
<1>8. ASSUME NEW c \in Cases, NEW request, Ask(c, request) PROVE live' = live
  BY <1>8 DEF Ask
<1>9. CASE Purge \/ Serve
  BY <1>9, <1>1 DEF Purge, Serve, cases
<1> QED BY <1>1, <1>2, <1>3, <1>4, <1>5, <1>6, <1>7, <1>8, <1>9 DEF Next, Client

(* The store keeps its capacity, and a step takes a case in use out of it   *)
(* only by its deletion or in a crash.                                      *)
THEOREM IdleIsEvicted == Spec => EvictsOnlyIdle
<1> DEFINE I == Shape /\ HasRoom
<1>1. Init => I
  <2>1. Init => Cardinality(live) = 0
    BY FS_EmptySet DEF Init
  <2> QED BY <2>1, ShapeInit, VectorsAssumption DEF HasRoom
<1>2. I /\ [Next]_vars => I' /\ [Removes]_vars
  <2> SUFFICES ASSUME I, [Next]_vars PROVE I' /\ [Removes]_vars
    OBVIOUS
  <2>1. Shape'
    BY ShapeStep
  <2>2. CASE Next
    BY <2>1, <2>2, RemovesStep DEF Removes, HasRoom
  <2>3. CASE UNCHANGED vars
    BY <2>1, <2>3 DEF HasRoom, vars, cases
  <2> QED BY <2>2, <2>3
<1>3. Spec => [][Removes]_vars
  BY <1>1, <1>2, PTL DEF Spec
<1> QED BY <1>3 DEF EvictsOnlyIdle, Removes

-----------------------------------------------------------------------------
(* Induction, by the least number at which a claim fails.                   *)
Below == {p \in Nat \X Nat : p[1] < p[2]}

LEMMA Least ==
    ASSUME NEW T \in SUBSET Nat, T # {}
    PROVE  \E m \in T : \A k \in T : m <= k
<1>1. IsWellFoundedOn(Below, Nat)
  BY NatLessThanWellFounded DEF OpToRel, Below
<1>2. PICK m \in T : \A k \in T : ~(<<k, m>> \in Below)
  BY <1>1, WFMin
<1>3. ASSUME NEW k \in T PROVE m <= k
  <2>1. k \in Nat /\ m \in Nat /\ ~(<<k, m>> \in Below)
    BY <1>2
  <2>2. ~(k < m)
    BY <2>1 DEF Below
  <2> QED BY <2>1, <2>2
<1> QED BY <1>3

(* What holds of a sequence of values at 0 and is kept by each step holds   *)
(* all along it.                                                            *)
LEMMA Along ==
    ASSUME NEW n \in Nat, NEW S, NEW g, g[0] \in S,
           \A k \in 1 .. n : g[k - 1] \in S => g[k] \in S
    PROVE  \A k \in 0 .. n : g[k] \in S
<1> DEFINE T == {k \in 0 .. n : g[k] \notin S}
<1>1. SUFFICES ASSUME T # {} PROVE FALSE
  OBVIOUS
<1>2. PICK m \in T : \A k \in T : m <= k
  <2>1. T \in SUBSET Nat
    OBVIOUS
  <2> HIDE DEF T
  <2> QED BY <1>1, <2>1, Least
<1>3. m \in 1 .. n /\ m - 1 \in 0 .. n
  BY <1>2
<1>4. m - 1 \notin T
  BY <1>2, <1>3
<1> QED BY <1>2, <1>3, <1>4

(* A recursion over 0 .. n whose step stays within S has a solution in S.   *)
Follows(f, n, start, step) ==
    /\ f[0] = start
    /\ \A k \in 1 .. n : f[k] = step[<<f[k - 1], k>>]

LEMMA Recursion ==
    ASSUME NEW n \in Nat, NEW S, NEW start \in S, NEW step \in [S \X (1 .. n) -> S]
    PROVE  \E f \in [0 .. n -> S] : Follows(f, n, start, step)
<1> DEFINE Upto(f, m) ==
               /\ f \in [0 .. m -> S] /\ f[0] = start
               /\ \A k \in 1 .. m : f[k] = step[<<f[k - 1], k>>]
           T == {m \in 0 .. n : ~ \E f : Upto(f, m)}
<1>1. SUFFICES ASSUME T # {} PROVE FALSE
  <2>1. ASSUME T = {} PROVE \E f \in [0 .. n -> S] : Follows(f, n, start, step)
    <3>1. n \in 0 .. n
      OBVIOUS
    <3>2. PICK f : Upto(f, n)
      BY <2>1, <3>1
    <3>3. f \in [0 .. n -> S] /\ Follows(f, n, start, step)
      BY <3>2 DEF Follows
    <3> QED BY <3>3
  <2> QED BY <1>1, <2>1
<1>2. PICK m \in T : \A k \in T : m <= k
  <2>1. T \in SUBSET Nat
    OBVIOUS
  <2> HIDE DEF T
  <2> QED BY <1>1, <2>1, Least
<1>3. CASE m = 0
  <2>1. Upto([k \in 0 .. 0 |-> start], 0)
    OBVIOUS
  <2> QED BY <2>1, <1>2, <1>3
<1>4. CASE m # 0
  <2>1. m \in 1 .. n /\ m - 1 \in 0 .. n /\ m - 1 \notin T
    BY <1>2, <1>4
  <2>2. PICK f : Upto(f, m - 1)
    BY <2>1
  <2>3. f[m - 1] \in S /\ step[<<f[m - 1], m>>] \in S
    BY <2>1, <2>2
  <2> DEFINE g == [k \in 0 .. m |-> IF k = m THEN step[<<f[m - 1], m>>] ELSE f[k]]
  <2>4. g \in [0 .. m -> S] /\ g[0] = start
    BY <2>1, <2>2, <2>3
  <2>5. ASSUME NEW k \in 1 .. m PROVE g[k] = step[<<g[k - 1], k>>]
    <3>1. g[k - 1] = f[k - 1]
      BY <2>1
    <3>2. CASE k = m
      <4>1. g[m] = step[<<f[m - 1], m>>]
        BY <2>1
      <4> QED BY <3>1, <3>2, <4>1
    <3>3. CASE k # m
      <4>1. k \in 1 .. m - 1 /\ g[k] = f[k]
        BY <2>1, <3>3
      <4> QED BY <2>2, <3>1, <4>1
    <3> QED BY <3>2, <3>3
  <2> HIDE DEF g
  <2> QED BY <1>2, <2>4, <2>5
<1> QED BY <1>3, <1>4

-----------------------------------------------------------------------------
(* Sequences drawn from sets: the order is total, so each place is taken.   *)
StrictOrder(S, before) ==
    /\ \A x \in S : <<x, x>> \notin before
    /\ \A x, y \in S : x # y => <<x, y>> \in before \/ <<y, x>> \in before
    /\ \A x, y, z \in S : <<x, y>> \in before /\ <<y, z>> \in before => <<x, z>> \in before

LEMMA InOrderIs ==
    ASSUME NEW S, IsFiniteSet(S), NEW before, StrictOrder(S, before)
    PROVE  LET s == InOrder(S, before) IN
           /\ Cardinality(S) \in Nat
           /\ s \in [1 .. Cardinality(S) -> S]
           /\ \A x \in S : \E k \in 1 .. Cardinality(S) : s[k] = x
           /\ \A i, j \in 1 .. Cardinality(S) : i < j => <<s[i], s[j]>> \in before /\ s[i] # s[j]
<1> DEFINE n == Cardinality(S)
           ahead(x) == {y \in S : <<y, x>> \in before}
           place == [x \in S |-> Cardinality(ahead(x))]
           s == InOrder(S, before)
<1>1. n \in Nat
  BY FS_CardinalityType
<1>2. ASSUME NEW x \in S PROVE IsFiniteSet(ahead(x)) /\ place[x] \in 0 .. n - 1
  <2>1. ahead(x) \in SUBSET (S \ {x})
    BY DEF StrictOrder
  <2>2. IsFiniteSet(S \ {x}) /\ Cardinality(S \ {x}) = n - 1
    BY FS_RemoveElement
  <2> HIDE DEF ahead, n
  <2>3. IsFiniteSet(ahead(x)) /\ Cardinality(ahead(x)) <= Cardinality(S \ {x})
    BY <2>1, <2>2, FS_Subset
  <2>4. Cardinality(ahead(x)) \in Nat
    BY <2>3, FS_CardinalityType
  <2> QED BY <1>1, <2>2, <2>3, <2>4
<1>3. ASSUME NEW x \in S, NEW y \in S, <<x, y>> \in before PROVE place[x] < place[y]
  <2>1. ahead(x) \cup {x} \in SUBSET ahead(y) /\ x \notin ahead(x)
    BY <1>3 DEF StrictOrder
  <2> HIDE DEF ahead
  <2>2. IsFiniteSet(ahead(x) \cup {x}) /\ Cardinality(ahead(x) \cup {x}) = Cardinality(ahead(x)) + 1
    BY <1>2, <2>1, FS_AddElement
  <2>3. Cardinality(ahead(x) \cup {x}) <= Cardinality(ahead(y))
    BY <1>2, <2>1, FS_Subset
  <2>4. place[x] = Cardinality(ahead(x)) /\ place[y] = Cardinality(ahead(y)) /\ place[x] \in Nat /\ place[y] \in Nat
    BY <1>1, <1>2
  <2> QED BY <2>2, <2>3, <2>4
<1> HIDE DEF ahead
<1>4. \A x, y \in S : place[x] = place[y] => x = y
  <2>1. SUFFICES ASSUME NEW x \in S, NEW y \in S, place[x] = place[y], x # y PROVE FALSE
    OBVIOUS
  <2>2. <<x, y>> \in before \/ <<y, x>> \in before
    BY <2>1 DEF StrictOrder
  <2>3. place[x] \in Nat /\ place[y] \in Nat
    BY <1>1, <1>2
  <2> QED BY <1>3, <2>1, <2>2, <2>3
<1>5. place \in Injection(S, 0 .. n - 1)
  <2>1. place \in [S -> 0 .. n - 1]
    BY <1>2
  <2> HIDE DEF place
  <2> QED BY <1>4, <2>1 DEF Injection, IsInjective
<1>6. ASSUME NEW k \in 1 .. n PROVE \E x \in S : place[x] = k - 1
  <2>1. IsFiniteSet(0 .. n - 1) /\ Cardinality(0 .. n - 1) = n
    <3> HIDE DEF n
    <3>1. 0 \in Int /\ n - 1 \in Int /\ ~ (0 > n - 1) /\ (n - 1) - 0 + 1 = n
      BY <1>1, <1>6
    <3> QED BY <3>1, FS_Interval
  <2>2. place \in Surjection(S, 0 .. n - 1)
    BY <1>5, <2>1, FS_Injection
  <2>3. k - 1 \in 0 .. n - 1
    BY <1>1, <1>6
  <2> HIDE DEF place, n
  <2> QED BY <2>2, <2>3 DEF Surjection
<1>7. ASSUME NEW k \in 1 .. n PROVE s[k] \in S /\ place[s[k]] = k - 1
  <2>1. s[k] = CHOOSE x \in S : Cardinality(ahead(x)) = k - 1
    BY DEF InOrder, ahead
  <2>2. \E x \in S : Cardinality(ahead(x)) = k - 1
    BY <1>6
  <2>3. s[k] \in S /\ Cardinality(ahead(s[k])) = k - 1
    <3> HIDE DEF s
    <3> QED BY <2>1, <2>2
  <2> QED BY <2>3
<1>8. s = [k \in 1 .. n |-> CHOOSE x \in S : Cardinality(ahead(x)) = k - 1]
  BY DEF InOrder, ahead
<1>9. s \in [1 .. n -> S]
  <2>1. \A k \in 1 .. n : \E x \in S : Cardinality(ahead(x)) = k - 1
    BY <1>6
  <2> HIDE DEF s, place, n
  <2> QED BY <1>8, <2>1
<1> HIDE DEF s, place, n
<1>10. ASSUME NEW x \in S PROVE \E k \in 1 .. n : s[k] = x
  <2>1. place[x] \in 0 .. n - 1
    BY <1>2 DEF place, n
  <2>2. place[x] + 1 \in 1 .. n /\ (place[x] + 1) - 1 = place[x]
    BY <1>1, <2>1
  <2>3. s[place[x] + 1] \in S /\ place[s[place[x] + 1]] = place[x]
    BY <1>7, <2>2
  <2> QED BY <1>4, <2>2, <2>3
<1>11. ASSUME NEW i \in 1 .. n, NEW j \in 1 .. n, i < j PROVE <<s[i], s[j]>> \in before /\ s[i] # s[j]
  <2>1. s[i] \in S /\ s[j] \in S /\ place[s[i]] = i - 1 /\ place[s[j]] = j - 1
    BY <1>7
  <2>2. s[i] # s[j] /\ ~ (place[s[j]] < place[s[i]])
    BY <1>1, <1>11, <2>1
  <2>3. <<s[i], s[j]>> \in before \/ <<s[j], s[i]>> \in before
    BY <2>1, <2>2 DEF StrictOrder
  <2> QED BY <1>3, <2>1, <2>2, <2>3
<1> QED BY <1>1, <1>9, <1>10, <1>11 DEF n, s

LEMMA ListedIs ==
    ASSUME NEW S \in SUBSET Nat, IsFiniteSet(S)
    PROVE  /\ Cardinality(S) \in Nat
           /\ Listed(S) \in [1 .. Cardinality(S) -> S]
           /\ \A x \in S : \E k \in 1 .. Cardinality(S) : Listed(S)[k] = x
           /\ \A i, j \in 1 .. Cardinality(S) : i < j => Listed(S)[i] < Listed(S)[j]
<1>1. StrictOrder(S, Ascending(S))
  BY DEF StrictOrder, Ascending
<1>2. /\ Cardinality(S) \in Nat /\ Listed(S) \in [1 .. Cardinality(S) -> S]
      /\ \A x \in S : \E k \in 1 .. Cardinality(S) : Listed(S)[k] = x
      /\ \A i, j \in 1 .. Cardinality(S) : i < j => <<Listed(S)[i], Listed(S)[j]>> \in Ascending(S)
  BY <1>1, InOrderIs DEF Listed
<1>3. \A x, y : <<x, y>> \in Ascending(S) => x < y
  BY DEF Ascending
<1> QED BY <1>2, <1>3

LEMMA ThoseOf ==
    ASSUME NEW W, NEW seq, NEW positions \in SUBSET Nat, IsFiniteSet(positions),
           \A p \in positions : seq[p] \in W
    PROVE  /\ Those(seq, positions) \in Seq(W)
           /\ Len(Those(seq, positions)) = Cardinality(positions)
           /\ \A k \in 1 .. Cardinality(positions) : Those(seq, positions)[k] = seq[Listed(positions)[k]]
<1> DEFINE at == Listed(positions)
           s == Those(seq, positions)
           n == Cardinality(positions)
<1>1. n \in Nat /\ at \in [1 .. n -> positions]
  BY ListedIs
<1>2. s = [k \in DOMAIN at |-> seq[at[k]]]
  BY DEF Those
<1> HIDE DEF at, s, n
<1>3. s \in [1 .. n -> W] /\ \A k \in 1 .. n : s[k] = seq[at[k]]
  BY <1>1, <1>2
<1>4. s \in Seq(W) /\ Len(s) = n
  BY <1>1, <1>3
<1> QED BY <1>3, <1>4 DEF at, s, n

LEMMA FiniteImage ==
    ASSUME NEW S, IsFiniteSet(S), NEW g, DOMAIN g = S
    PROVE  IsFiniteSet({g[x] : x \in S})
<1> DEFINE T == {g[x] : x \in S}
           h == [x \in S |-> g[x]]
<1>1. h \in Surjection(S, T)
  BY DEF Surjection
<1> HIDE DEF h, T
<1>2. IsFiniteSet(T)
  BY <1>1, FS_Surjection
<1> QED BY <1>2 DEF T

LEMMA PositionsAre ==
    ASSUME NEW n \in Nat, NEW seqs, DOMAIN seqs = 1 .. n,
           \A p \in 1 .. n : \E m \in Nat : DOMAIN seqs[p] = 1 .. m
    PROVE  /\ IsFiniteSet(Positions(seqs))
           /\ Positions(seqs) \in SUBSET (Nat \X Nat)
           /\ \A p, i : <<p, i>> \in Positions(seqs) <=> p \in 1 .. n /\ i \in DOMAIN seqs[p]
<1> DEFINE row == [p \in 1 .. n |-> {<<p, i>> : i \in DOMAIN seqs[p]}]
<1>1. ASSUME NEW p \in 1 .. n PROVE IsFiniteSet(row[p])
  <2>1. PICK m \in Nat : DOMAIN seqs[p] = 1 .. m
    OBVIOUS
  <2> DEFINE g == [i \in 1 .. m |-> <<p, i>>]
  <2>2. IsFiniteSet(1 .. m)
    BY FS_Interval
  <2>3. IsFiniteSet({g[i] : i \in 1 .. m})
    <3>1. DOMAIN g = 1 .. m
      OBVIOUS
    <3> HIDE DEF g
    <3> QED BY <2>2, <3>1, FiniteImage
  <2>4. row[p] = {g[i] : i \in 1 .. m}
    BY <2>1
  <2> QED BY <2>3, <2>4
<1>2. Positions(seqs) = UNION {row[p] : p \in 1 .. n}
  BY DEF Positions
<1>3. IsFiniteSet({row[p] : p \in 1 .. n})
  <2>1. IsFiniteSet(1 .. n) /\ DOMAIN row = 1 .. n
    BY FS_Interval
  <2> HIDE DEF row
  <2> QED BY <2>1, FiniteImage
<1>4. IsFiniteSet(Positions(seqs))
  <2> HIDE DEF row
  <2> QED BY <1>1, <1>2, <1>3, FS_UNION
<1>5. \A p, i : <<p, i>> \in Positions(seqs) <=> p \in 1 .. n /\ i \in DOMAIN seqs[p]
  BY DEF Positions
<1>6. Positions(seqs) \in SUBSET (Nat \X Nat)
  BY DEF Positions
<1> QED BY <1>4, <1>5, <1>6

LEMMA LexicographicIs ==
    ASSUME NEW S \in SUBSET (Nat \X Nat)
    PROVE  /\ StrictOrder(S, Lexicographic(S))
           /\ \A x, y \in S : <<x, y>> \in Lexicographic(S) => x[1] <= y[1]
<1>1. \A x, y \in S : <<x, y>> \in Lexicographic(S) <=>
                         x[1] < y[1] \/ (x[1] = y[1] /\ x[2] < y[2])
  BY DEF Lexicographic
<1>2. \A x \in S : x[1] \in Nat /\ x[2] \in Nat /\ x = <<x[1], x[2]>>
  OBVIOUS
<1>3. \A x \in S : <<x, x>> \notin Lexicographic(S)
  BY <1>1, <1>2
<1>4. \A x, y \in S : x # y => <<x, y>> \in Lexicographic(S) \/ <<y, x>> \in Lexicographic(S)
  <2>1. SUFFICES ASSUME NEW x \in S, NEW y \in S, x # y
                 PROVE  <<x, y>> \in Lexicographic(S) \/ <<y, x>> \in Lexicographic(S)
    OBVIOUS
  <2>2. x[1] # y[1] \/ x[2] # y[2]
    BY <1>2, <2>1
  <2> QED BY <1>1, <1>2, <2>2
<1>5. \A x, y, z \in S : <<x, y>> \in Lexicographic(S) /\ <<y, z>> \in Lexicographic(S)
                            => <<x, z>> \in Lexicographic(S)
  <2>1. SUFFICES ASSUME NEW x \in S, NEW y \in S, NEW z \in S,
                        <<x, y>> \in Lexicographic(S), <<y, z>> \in Lexicographic(S)
                 PROVE  x[1] < z[1] \/ (x[1] = z[1] /\ x[2] < z[2])
    BY <1>1
  <2>2. x[1] < y[1] \/ (x[1] = y[1] /\ x[2] < y[2])
    BY <1>1, <2>1
  <2>3. y[1] < z[1] \/ (y[1] = z[1] /\ y[2] < z[2])
    BY <1>1, <2>1
  <2> QED BY <1>2, <2>2, <2>3
<1>6. \A x, y \in S : <<x, y>> \in Lexicographic(S) => x[1] <= y[1]
  BY <1>1, <1>2
<1> QED BY <1>3, <1>4, <1>5, <1>6 DEF StrictOrder

(* The first of each equal elements: all the values, in the order in which  *)
(* each appears first.                                                      *)
LEMMA UnrepeatedIs ==
    ASSUME NEW S, NEW seq \in Seq(S)
    PROVE  /\ Firsts(seq) \in SUBSET (1 .. Len(seq)) /\ Firsts(seq) \in SUBSET Nat /\ IsFiniteSet(Firsts(seq))
           /\ \A k \in DOMAIN seq : \E i \in Firsts(seq) : i <= k /\ seq[i] = seq[k]
           /\ Unrepeated(seq) \in Seq(S) /\ Len(Unrepeated(seq)) = Cardinality(Firsts(seq))
           /\ \A k \in 1 .. Len(Unrepeated(seq)) : Unrepeated(seq)[k] = seq[Listed(Firsts(seq))[k]]
<1> DEFINE first == Firsts(seq)
<1>1. first \in SUBSET Nat /\ first \in SUBSET (1 .. Len(seq)) /\ Len(seq) \in Nat
  BY DEF Firsts
<1>2. IsFiniteSet(first)
  <2>1. IsFiniteSet(1 .. Len(seq))
    BY <1>1, FS_Interval
  <2> HIDE DEF first
  <2> QED BY <1>1, <2>1, FS_Subset
<1>3. ASSUME NEW k \in DOMAIN seq PROVE \E i \in first : i <= k /\ seq[i] = seq[k]
  <2> DEFINE T == {i \in 1 .. k : seq[i] = seq[k]}
  <2>1. k \in T /\ T \in SUBSET Nat
    OBVIOUS
  <2>2. PICK i \in T : \A j \in T : i <= j
    <3> HIDE DEF T
    <3> QED BY <2>1, Least
  <2>3. i \in DOMAIN seq /\ i <= k /\ seq[i] = seq[k] /\ i \in Nat /\ k \in Nat
    BY <2>2
  <2>4. ASSUME NEW j \in 1 .. i - 1 PROVE seq[j] # seq[i]
    <3>1. j \in 1 .. k /\ ~(i <= j)
      BY <2>3
    <3> QED BY <2>2, <2>3, <3>1
  <2> QED BY <2>3, <2>4 DEF Firsts
<1>4. Unrepeated(seq) = Those(seq, first)
  BY DEF Unrepeated
<1>5. \A p \in first : seq[p] \in S
  BY <1>1
<1> HIDE DEF first
<1>6. /\ Unrepeated(seq) \in Seq(S) /\ Len(Unrepeated(seq)) = Cardinality(first)
      /\ \A k \in 1 .. Cardinality(first) : Unrepeated(seq)[k] = seq[Listed(first)[k]]
  BY <1>1, <1>2, <1>4, <1>5, ThoseOf
<1> QED BY <1>1, <1>2, <1>3, <1>6 DEF first

-----------------------------------------------------------------------------
(* Masking.  A quote occurs where its pieces stand one after the other.     *)
LEMMA MatchIs ==
    ASSUME NEW W, NEW text \in Seq(W), NEW quote \in Seq(W), NEW i
    PROVE  i \in Matches(text, quote) <=>
               /\ i \in 1 .. Len(text) - Len(quote) + 1
               /\ \A d \in 1 .. Len(quote) : text[i + d - 1] = quote[d]
<1>1. Len(text) \in Nat /\ Len(quote) \in Nat
  OBVIOUS
<1>2. SUFFICES ASSUME i \in 1 .. Len(text) - Len(quote) + 1
               PROVE  SubSeq(text, i, i + Len(quote) - 1) = quote <=>
                          \A d \in 1 .. Len(quote) : text[i + d - 1] = quote[d]
  BY DEF Matches
<1> DEFINE s == SubSeq(text, i, i + Len(quote) - 1)
<1>3. i \in Nat /\ i + Len(quote) - 1 \in Int
  BY <1>1, <1>2
<1>4. \A k \in i .. i + Len(quote) - 1 : text[k] \in W
  BY <1>1, <1>2
<1>5. s \in Seq(W) /\ Len(s) = Len(quote) /\ \A d \in 1 .. Len(quote) : s[d] = text[i + d - 1]
  <2>1. /\ s \in Seq(W)
        /\ Len(s) = IF i <= i + Len(quote) - 1 THEN (i + Len(quote) - 1) - i + 1 ELSE 0
        /\ \A k \in 1 .. (i + Len(quote) - 1) - i + 1 : s[k] = text[i + k - 1]
    BY <1>3, <1>4, SubSeqProperties
  <2> HIDE DEF s
  <2>2. (i + Len(quote) - 1) - i + 1 = Len(quote)
    BY <1>1, <1>3
  <2>3. CASE Len(quote) = 0
    BY <2>1, <2>3, <1>1, <1>3
  <2>4. CASE Len(quote) # 0
    BY <2>1, <2>2, <2>4, <1>1, <1>3
  <2> QED BY <2>3, <2>4
<1> HIDE DEF s
<1>6. s = quote <=> \A d \in 1 .. Len(quote) : s[d] = quote[d]
  BY <1>5, SeqEqual
<1> QED BY <1>5, <1>6 DEF s

(* Going from left to right there is one choice of hits.                    *)
LEMMA HitsExist ==
    ASSUME NEW L \in Nat, NEW n \in Nat, NEW M \in SUBSET (1 .. L)
    PROVE  \E hits \in SUBSET M : LeftToRight(hits, M, n)
<1> DEFINE Good(h, m) == \A i \in M : i <= m => (i \in h <=> ~\E j \in h : j < i /\ i < j + n)
           Low(m) == {i \in M : i <= m}
           T == {m \in 0 .. L : ~\E h \in SUBSET Low(m) : Good(h, m)}
<1>1. SUFFICES ASSUME T # {} PROVE FALSE
  <2>1. ASSUME T = {} PROVE \E h \in SUBSET Low(L) : Good(h, L)
    <3>1. L \in 0 .. L
      OBVIOUS
    <3> QED BY <2>1, <3>1
  <2>2. ASSUME NEW h \in SUBSET Low(L), Good(h, L) PROVE h \in SUBSET M /\ LeftToRight(h, M, n)
    <3>1. \A i \in M : i <= L
      OBVIOUS
    <3> QED BY <2>2, <3>1 DEF LeftToRight
  <2> HIDE DEF T, Good, Low
  <2> QED BY <1>1, <2>1, <2>2
<1>2. PICK m \in T : \A k \in T : m <= k
  <2>1. T \in SUBSET Nat
    OBVIOUS
  <2> HIDE DEF T
  <2> QED BY <1>1, <2>1, Least
<1>3. m # 0
  <2>1. ASSUME m = 0 PROVE FALSE
    <3>1. {} \in SUBSET Low(m) /\ Good({}, m)
      BY <2>1
    <3> QED BY <1>2, <3>1
  <2> QED BY <2>1
<1>4. m \in 1 .. L /\ m - 1 \in 0 .. L /\ m - 1 \notin T
  BY <1>2, <1>3
<1>5. PICK h \in SUBSET Low(m - 1) : Good(h, m - 1)
  BY <1>4
<1>6. \A i \in M : i \in 1 .. L
  OBVIOUS
<1> DEFINE g == IF m \in M /\ ~\E j \in h : j < m /\ m < j + n THEN h \cup {m} ELSE h
<1>7. g \in SUBSET Low(m)
  BY <1>4, <1>5, <1>6
<1>8. ASSUME NEW i \in M, i <= m PROVE i \in g <=> ~\E j \in g : j < i /\ i < j + n
  <2>1. \A j \in h : j \in 1 .. L /\ j <= m - 1
    BY <1>5, <1>6
  <2>2. (\E j \in g : j < i /\ i < j + n) <=> (\E j \in h : j < i /\ i < j + n)
    BY <1>4, <1>6, <1>8
  <2>3. CASE i = m
    BY <2>1, <2>2, <2>3, <1>4
  <2>4. CASE i # m
    <3>1. i <= m - 1 /\ (i \in g <=> i \in h)
      BY <1>4, <1>6, <1>8, <2>4
    <3>2. i \in h <=> ~\E j \in h : j < i /\ i < j + n
      BY <1>5, <3>1
    <3> QED BY <2>2, <3>1, <3>2
  <2> QED BY <2>3, <2>4
<1>9. Good(g, m)
  BY <1>8
<1> HIDE DEF g, Good
<1> QED BY <1>2, <1>7, <1>9

LEMMA HitsAre ==
    ASSUME NEW W, NEW text \in Seq(W), NEW quote \in Seq(W), quote # <<>>
    PROVE  /\ Hits(text, quote) \in SUBSET Matches(text, quote)
           /\ LeftToRight(Hits(text, quote), Matches(text, quote), Len(quote))
<1> DEFINE M == Matches(text, quote)
           n == Len(quote)
           L == Len(text)
<1>1. L \in Nat /\ n \in Nat /\ n > 0
  OBVIOUS
<1>2. M \in SUBSET (1 .. L)
  BY <1>1 DEF Matches
<1>3. \E hits \in SUBSET M : LeftToRight(hits, M, n)
  <2>1. n \in Nat
    BY <1>1
  <2> HIDE DEF M, n, L
  <2> QED BY <1>1, <1>2, <2>1, HitsExist
<1>4. Hits(text, quote) = CHOOSE hits \in SUBSET M : LeftToRight(hits, M, n)
  BY DEF Hits
<1> HIDE DEF M, n
<1>5. Hits(text, quote) \in SUBSET M /\ LeftToRight(Hits(text, quote), M, n)
  BY <1>3, <1>4
<1> QED BY <1>5 DEF M, n

(* What stands of a text between the masks stood there before.              *)
LEMMA MaskedMatch ==
    ASSUME NEW W, Mask \in W, NEW text \in Seq(W), NEW quote \in Seq(W), quote # <<>>,
           NEW r \in Seq(W), r # <<>>, Mask \notin Range(r),
           NEW s \in Matches(Masked(text, quote), r)
    PROVE  \E i \in Matches(text, r) :
              /\ i \notin Hits(text, quote)
              /\ ~\E j \in Hits(text, quote) : j < i /\ i < j + Len(quote)
<1> DEFINE hits == Hits(text, quote)
           n == Len(quote)
           kept == {i \in DOMAIN text : ~\E j \in hits : j < i /\ i < j + n}
           shown == [i \in DOMAIN text |-> IF i \in hits THEN Mask ELSE text[i]]
           at == Listed(kept)
           c == Cardinality(kept)
           m == Masked(text, quote)
           l == Len(r)
<1>1. /\ DOMAIN text = 1 .. Len(text) /\ Len(text) \in Nat /\ n \in Nat /\ n > 0 /\ l \in Nat /\ l > 0
      /\ \A d \in 1 .. l : r[d] \in W /\ r[d] # Mask
  BY DEF Range
<1>2. hits \in SUBSET (1 .. Len(text))
  <2>1. hits \in SUBSET Matches(text, quote)
    BY HitsAre
  <2> QED BY <1>1, <2>1 DEF Matches
<1>3. kept \in SUBSET Nat /\ kept \in SUBSET (1 .. Len(text)) /\ IsFiniteSet(kept)
  <2>1. IsFiniteSet(1 .. Len(text))
    BY <1>1, FS_Interval
  <2>2. kept \in SUBSET (1 .. Len(text)) /\ kept \in SUBSET Nat
    BY <1>1
  <2> HIDE DEF kept
  <2> QED BY <2>1, <2>2, FS_Subset
<1>4. m = Those(shown, kept)
  BY DEF Masked
<1> HIDE DEF hits, n, l
<1>5. /\ c \in Nat /\ at \in [1 .. c -> kept]
      /\ \A p \in kept : \E k \in 1 .. c : at[k] = p
      /\ \A i, j \in 1 .. c : i < j => at[i] < at[j]
      /\ m \in Seq(W) /\ Len(m) = c
      /\ \A k \in 1 .. c : m[k] = shown[at[k]]
  <2>1. \A p \in kept : shown[p] \in W
    BY <1>1
  <2> HIDE DEF kept, shown, m
  <2>2. /\ c \in Nat /\ at \in [1 .. c -> kept]
        /\ \A p \in kept : \E k \in 1 .. c : at[k] = p
        /\ \A i, j \in 1 .. c : i < j => at[i] < at[j]
    BY <1>3, ListedIs
  <2>3. m \in Seq(W) /\ Len(m) = c /\ \A k \in 1 .. Len(m) : m[k] = shown[at[k]]
    <3> DEFINE t == Those(shown, kept)
    <3>1. t \in Seq(W) /\ Len(t) = c /\ \A k \in 1 .. Len(t) : t[k] = shown[at[k]]
      BY <1>3, <2>1, ThoseOf
    <3> HIDE DEF t, at, c
    <3>2. m = t
      BY <1>4 DEF t
    <3> QED BY <3>1, <3>2
  <2> QED BY <2>2, <2>3
<1> HIDE DEF at, c, m
<1>6. ASSUME NEW k \in 1 .. c PROVE at[k] \in kept /\ at[k] \in 1 .. Len(text) /\ m[k] = IF at[k] \in hits THEN Mask ELSE text[at[k]]
  <2>1. at[k] \in kept /\ at[k] \in 1 .. Len(text)
    BY <1>3, <1>5
  <2> QED BY <1>1, <1>5, <2>1
<1>7. m \in Seq(W) /\ Len(m) = c
  BY <1>5
<1>8. s \in 1 .. c - l + 1 /\ \A d \in 1 .. l : m[s + d - 1] = r[d]
  BY <1>7, MatchIs DEF m, l
<1>9. ASSUME NEW d \in 1 .. l
      PROVE  s + d - 1 \in 1 .. c /\ at[s + d - 1] \notin hits /\ text[at[s + d - 1]] = r[d]
  <2>1. s + d - 1 \in 1 .. c
    BY <1>1, <1>5, <1>8
  <2> QED BY <1>1, <1>6, <1>8, <2>1
<1>10. ASSUME NEW k \in 1 .. c, k + 1 \in 1 .. c, at[k] \notin hits
       PROVE  at[k + 1] = at[k] + 1
  <2> DEFINE i == at[k]
  <2>1. i \in kept /\ i \in Nat /\ at[k + 1] \in kept /\ at[k + 1] \in 1 .. Len(text) /\ i < at[k + 1]
    <3>1. k < k + 1
      BY <1>10
    <3> QED BY <1>5, <1>6, <1>10, <3>1
  <2>2. i + 1 \in 1 .. Len(text)
    BY <1>1, <2>1
  <2>3. ~\E j \in hits : j < i + 1 /\ i + 1 < j + n
    <3>1. ASSUME NEW j \in hits, j < i + 1, i + 1 < j + n PROVE FALSE
      <4>1. j \in Nat /\ j # i
        BY <1>2, <1>10, <3>1
      <4>2. j < i /\ i < j + n
        BY <1>1, <2>1, <3>1, <4>1 DEF n
      <4> QED BY <2>1, <4>2, <3>1
    <3> QED BY <3>1
  <2>4. i + 1 \in kept
    BY <1>1, <2>2, <2>3
  <2>5. PICK x \in 1 .. c : at[x] = i + 1
    BY <1>5, <2>4
  <2> HIDE DEF kept
  <2>6. x = k + 1
    <3>1. CASE x < k + 1
      <4>1. x <= k /\ (x = k \/ x < k)
        BY <1>5, <3>1
      <4>2. at[x] <= i
        BY <1>5, <2>1, <4>1, <2>5
      <4> QED BY <2>1, <2>5, <4>2
    <3>2. CASE k + 1 < x
      <4>1. at[k + 1] < at[x]
        BY <1>5, <1>10, <3>2
      <4> QED BY <2>1, <2>5, <4>1
    <3> QED BY <1>10, <3>1, <3>2
  <2> QED BY <2>5, <2>6
<1>11. \A d \in 1 .. l : at[s + d - 1] = at[s] + d - 1
  <2> DEFINE S == {0}
             g == [d \in 0 .. l - 1 |-> at[s + d] - at[s] - d]
  <2>1. l - 1 \in Nat /\ s \in Nat
    BY <1>1, <1>8 DEF l
  <2>10. l \in Nat
    BY <1>1 DEF l
  <2>2. \A d \in 0 .. l - 1 : s + d \in 1 .. c /\ at[s + d] \in Nat /\ at[s + d] \notin hits
    <3>1. SUFFICES ASSUME NEW d \in 0 .. l - 1 PROVE s + d \in 1 .. c /\ at[s + d] \in Nat /\ at[s + d] \notin hits
      OBVIOUS
    <3>2. d + 1 \in 1 .. l /\ s + (d + 1) - 1 = s + d
      BY <2>1, <2>10
    <3>3. s + d \in 1 .. c /\ at[s + d] \notin hits
      BY <1>9, <3>2
    <3> QED BY <1>6, <3>3
  <2>3. g[0] \in S
    BY <2>1, <2>2
  <2>4. ASSUME NEW d \in 1 .. l - 1, g[d - 1] \in S PROVE g[d] \in S
    <3>1. d - 1 \in 0 .. l - 1 /\ d \in 0 .. l - 1 /\ (s + (d - 1)) + 1 = s + d
      BY <2>1
    <3>2. at[s + d] = at[s + (d - 1)] + 1
      BY <1>10, <2>2, <3>1
    <3>3. at[s + (d - 1)] - at[s] - (d - 1) = 0
      BY <2>4, <3>1
    <3> HIDE DEF kept
    <3>4. 0 \in 0 .. l - 1 /\ at[s] \in Nat
      <4>1. 0 \in 0 .. l - 1 /\ s + 0 = s
        BY <2>1
      <4> QED BY <2>2, <4>1
    <3>5. at[s + d] - at[s] - d = 0
      BY <2>1, <2>2, <3>1, <3>2, <3>3, <3>4
    <3> QED BY <3>1, <3>5
  <2>5. \A d \in 0 .. l - 1 : g[d] \in S
    <3> HIDE DEF g, S
    <3>1. l - 1 \in Nat
      BY <2>1
    <3> DEFINE z == l - 1
    <3>2. z \in Nat /\ \A d \in 1 .. z : g[d - 1] \in S => g[d] \in S
      BY <3>1, <2>4
    <3> HIDE DEF z
    <3>3. \A d \in 0 .. z : g[d] \in S
      BY <2>3, <3>2, Along
    <3> QED BY <3>3 DEF z
  <2>6. SUFFICES ASSUME NEW d \in 1 .. l PROVE at[s + d - 1] = at[s] + d - 1
    OBVIOUS
  <2>7. d - 1 \in 0 .. l - 1 /\ s + (d - 1) = s + d - 1
    BY <2>1, <2>10
  <2>8. at[s + d - 1] - at[s] - (d - 1) = 0 /\ at[s + d - 1] \in Nat
    BY <2>2, <2>5, <2>7
  <2>9. at[s] \in Nat
    <3>1. 0 \in 0 .. l - 1 /\ s + 0 = s
      BY <2>1
    <3> QED BY <2>2, <3>1
  <2> QED BY <2>8, <2>9, <2>1
<1>12. s \in 1 .. c /\ at[s] \notin hits /\ at[s] \in kept
  <2>1. 1 \in 1 .. l /\ s + 1 - 1 = s
    BY <1>1, <1>8 DEF l
  <2> QED BY <1>6, <1>9, <2>1
<1>13. at[s] \in Matches(text, r)
  <2>1. \A d \in 1 .. l : at[s] + d - 1 \in 1 .. Len(text) /\ text[at[s] + d - 1] = r[d]
    BY <1>6, <1>9, <1>11
  <2>2. at[s] \in 1 .. Len(text)
    BY <1>6, <1>12
  <2>3. l \in Nat /\ l > 0
    BY <1>1 DEF l
  <2> HIDE DEF kept
  <2>4. at[s] + l - 1 \in 1 .. Len(text)
    <3>1. l \in 1 .. l
      BY <2>3
    <3> QED BY <2>1, <3>1
  <2>5. at[s] \in 1 .. Len(text) - l + 1
    BY <1>1, <2>2, <2>3, <2>4
  <2> QED BY <2>1, <2>5, MatchIs DEF l
<1> QED BY <1>12, <1>13 DEF hits, n

LEMMA MaskedIs ==
    ASSUME NEW W, Mask \in W, NEW text \in Seq(W), NEW quote \in Seq(W), quote # <<>>
    PROVE  /\ Masked(text, quote) \in Seq(W)
           /\ \A r \in Seq(W) : r # <<>> /\ Mask \notin Range(r) /\ Occurs(r, Masked(text, quote)) => Occurs(r, text)
           /\ Mask \notin Range(quote) => ~Occurs(quote, Masked(text, quote))
<1> DEFINE hits == Hits(text, quote)
           n == Len(quote)
           kept == {i \in DOMAIN text : ~\E j \in hits : j < i /\ i < j + n}
           shown == [i \in DOMAIN text |-> IF i \in hits THEN Mask ELSE text[i]]
<1>1. Masked(text, quote) \in Seq(W)
  <2>1. Masked(text, quote) = Those(shown, kept)
    BY DEF Masked
  <2>2. IsFiniteSet(kept) /\ kept \in SUBSET Nat
    <3>1. kept \in SUBSET (1 .. Len(text)) /\ Len(text) \in Nat /\ kept \in SUBSET Nat
      OBVIOUS
    <3>2. IsFiniteSet(1 .. Len(text))
      BY <3>1, FS_Interval
    <3> HIDE DEF kept
    <3> QED BY <3>1, <3>2, FS_Subset
  <2>3. \A i \in kept : shown[i] \in W
    OBVIOUS
  <2> HIDE DEF kept, shown
  <2> QED BY <2>1, <2>2, <2>3, ThoseOf
<1>2. ASSUME NEW r \in Seq(W), r # <<>>, Mask \notin Range(r), Occurs(r, Masked(text, quote)) PROVE Occurs(r, text)
  <2>1. PICK s \in Matches(Masked(text, quote), r) : TRUE
    BY <1>2 DEF Occurs
  <2> QED BY <1>2, <2>1, MaskedMatch DEF Occurs
<1>3. ASSUME Mask \notin Range(quote), Occurs(quote, Masked(text, quote)) PROVE FALSE
  <2>1. PICK s \in Matches(Masked(text, quote), quote) : TRUE
    BY <1>3 DEF Occurs
  <2>2. PICK i \in Matches(text, quote) : i \notin hits /\ ~\E j \in hits : j < i /\ i < j + n
    BY <1>3, <2>1, MaskedMatch
  <2> QED BY <2>2, HitsAre DEF LeftToRight
<1> QED BY <1>1, <1>2, <1>3

-----------------------------------------------------------------------------
(* What the pages and the rules' findings are.                              *)
Words == {Mask} \cup UNION {UNION {Range(Text(f)[p]) : p \in DOMAIN Pages(f)} : f \in Files}

Quotable == Seq(Words) \ {<<>>}

Finding ==
    [page : Nat, last : Nat, quote : Quotable, severity : Severities,
     category : {"override", "obfuscated", "output"}, source : {"rule", "semantic"}]

LEMMA PagesAre ==
    ASSUME NEW f \in Files
    PROVE  /\ Len(Pages(f)) \in Nat /\ DOMAIN Pages(f) = 1 .. Len(Pages(f)) /\ DOMAIN Text(f) = DOMAIN Pages(f)
           /\ Content[f].fits => Pages(f) # <<>>
           /\ \A p \in DOMAIN Pages(f) :
                 /\ Pages(f)[p].scanned \in BOOLEAN
                 /\ Pages(f)[p].text \in Seq(Range(Pages(f)[p].text)) /\ Pages(f)[p].text # <<>>
                 /\ Text(f)[p] \in Seq(Words) /\ Len(Text(f)[p]) = Len(Pages(f)[p].text)
                 /\ Len(Text(f)[p]) \in Nat \ {0} /\ DOMAIN Text(f)[p] = 1 .. Len(Text(f)[p])
                 /\ \A i \in 1 .. Len(Text(f)[p]) :
                       Text(f)[p][i] = Pages(f)[p].text[i].name /\ PieceOK(Pages(f)[p].text[i])
<1>1. Pages(f) \in Seq(Range(Pages(f))) /\ (Content[f].fits => Pages(f) # <<>>)
  BY IntakeAssumption DEF Pages
<1>2. Len(Pages(f)) \in Nat /\ DOMAIN Pages(f) = 1 .. Len(Pages(f)) /\ DOMAIN Text(f) = DOMAIN Pages(f)
  BY <1>1 DEF Text
<1>3. ASSUME NEW p \in DOMAIN Pages(f)
      PROVE  /\ Pages(f)[p].scanned \in BOOLEAN
             /\ Pages(f)[p].text \in Seq(Range(Pages(f)[p].text)) /\ Pages(f)[p].text # <<>>
             /\ Text(f)[p] \in Seq(Words) /\ Len(Text(f)[p]) = Len(Pages(f)[p].text)
             /\ Len(Text(f)[p]) \in Nat \ {0} /\ DOMAIN Text(f)[p] = 1 .. Len(Text(f)[p])
             /\ \A i \in 1 .. Len(Text(f)[p]) :
                   Text(f)[p][i] = Pages(f)[p].text[i].name /\ PieceOK(Pages(f)[p].text[i])
  <2>1. Pages(f)[p] \in Range(Pages(f))
    BY DEF Range
  <2>2. /\ Pages(f)[p].scanned \in BOOLEAN
        /\ Pages(f)[p].text \in Seq(Range(Pages(f)[p].text)) /\ Pages(f)[p].text # <<>>
        /\ \A piece \in Range(Pages(f)[p].text) : PieceOK(piece)
    BY <2>1, IntakeAssumption DEF Pages
  <2> DEFINE text == Pages(f)[p].text
             named == Text(f)[p]
  <2>3. Len(text) \in Nat \ {0} /\ DOMAIN text = 1 .. Len(text)
    <3> DEFINE R == Range(text)
    <3>1. text \in Seq(R) /\ text # <<>>
      BY <2>2
    <3> HIDE DEF text, R
    <3> QED BY <3>1
  <2>4. named = [k \in DOMAIN text |-> text[k].name]
    BY DEF Text, Named
  <2>5. \A i \in DOMAIN text : PieceOK(text[i])
    BY <2>2 DEF Range
  <2>6. \A k \in DOMAIN text : named[k] \in Words
    <3>1. \A k \in DOMAIN named : named[k] \in Range(named)
      BY DEF Range
    <3>2. Range(named) \subseteq Words
      BY DEF Words
    <3>3. DOMAIN named = DOMAIN text
      BY <2>4
    <3> QED BY <3>1, <3>2, <3>3
  <2> HIDE DEF text, named
  <2>7. named \in [1 .. Len(text) -> Words]
    BY <2>3, <2>4, <2>6
  <2>8. named \in Seq(Words) /\ Len(named) = Len(text) /\ DOMAIN named = 1 .. Len(named)
    BY <2>3, <2>7
  <2> QED BY <2>2, <2>3, <2>4, <2>5, <2>8 DEF text, named
<1> QED BY <1>1, <1>2, <1>3

LEMMA PlacesAre ==
    ASSUME NEW f \in Files
    PROVE  /\ IsFiniteSet(Positions(Text(f))) /\ Positions(Text(f)) \in SUBSET (Nat \X Nat)
           /\ \A p, i : <<p, i>> \in Positions(Text(f)) <=>
                            p \in DOMAIN Pages(f) /\ i \in 1 .. Len(Text(f)[p])
           /\ \A s \in Positions(Text(f)) :
                 /\ s[1] \in DOMAIN Pages(f) /\ s[1] \in Nat /\ s[2] \in 1 .. Len(Text(f)[s[1]])
                 /\ PieceAt(f, s).name = Text(f)[s[1]][s[2]]
                 /\ PieceAt(f, s).name \in Words /\ PieceOK(PieceAt(f, s))
<1> DEFINE n == Len(Pages(f))
<1>1. n \in Nat /\ DOMAIN Text(f) = 1 .. n /\ DOMAIN Pages(f) = 1 .. n
  BY PagesAre
<1>2. \A p \in 1 .. n : Len(Text(f)[p]) \in Nat /\ DOMAIN Text(f)[p] = 1 .. Len(Text(f)[p])
  BY <1>1, PagesAre
<1>3. /\ IsFiniteSet(Positions(Text(f))) /\ Positions(Text(f)) \in SUBSET (Nat \X Nat)
      /\ \A p, i : <<p, i>> \in Positions(Text(f)) <=> p \in 1 .. n /\ i \in DOMAIN Text(f)[p]
  <2>1. \A p \in 1 .. n : \E m \in Nat : DOMAIN Text(f)[p] = 1 .. m
    BY <1>2
  <2> HIDE DEF n
  <2> QED BY <1>1, <2>1, PositionsAre
<1>4. ASSUME NEW s \in Positions(Text(f))
      PROVE  /\ s[1] \in DOMAIN Pages(f) /\ s[1] \in Nat /\ s[2] \in 1 .. Len(Text(f)[s[1]])
             /\ PieceAt(f, s).name = Text(f)[s[1]][s[2]]
             /\ PieceAt(f, s).name \in Words /\ PieceOK(PieceAt(f, s))
  <2>1. s \in Nat \X Nat /\ s = <<s[1], s[2]>> /\ s[1] \in Nat
    BY <1>3
  <2>2. s[1] \in 1 .. n /\ s[2] \in 1 .. Len(Text(f)[s[1]])
    BY <1>2, <1>3, <2>1
  <2>3. /\ Text(f)[s[1]] \in Seq(Words)
        /\ Text(f)[s[1]][s[2]] = Pages(f)[s[1]].text[s[2]].name /\ PieceOK(Pages(f)[s[1]].text[s[2]])
    BY <1>1, <2>2, PagesAre
  <2>4. Text(f)[s[1]][s[2]] \in Words
    BY <2>2, <2>3
  <2> QED BY <1>1, <2>1, <2>2, <2>3, <2>4 DEF PieceAt
<1> QED BY <1>1, <1>2, <1>3, <1>4

LEMMA FilteredImageFinite ==
    ASSUME NEW S, IsFiniteSet(S), NEW T \in SUBSET S, NEW g, DOMAIN g = T, NEW U, U = {g[x] : x \in T}
    PROVE  IsFiniteSet(U)
<1>1. IsFiniteSet(T)
  BY FS_Subset
<1> QED BY <1>1, FiniteImage

LEMMA RuleFindingsAre ==
    ASSUME NEW f \in Files
    PROVE  /\ RuleFindings(f) \in SUBSET Finding /\ IsFiniteSet(RuleFindings(f))
           /\ \A x \in RuleFindings(f) : x.source = "rule"
<1> DEFINE places == Positions(Text(f))
           ruled == {s \in places : PieceAt(f, s).rule # "none"}
           hiding == {s \in places : Hides(PieceAt(f, s))}
           split == {p \in 1 .. Len(Pages(f)) - 1 :
                        Last(Pages(f)[p].text).half = "opens" /\ Head(Pages(f)[p + 1].text).half = "closes"}
           g == [s \in ruled |-> Found(s[1], 0, <<PieceAt(f, s).name>>, PieceAt(f, s).rule, "override")]
           h == [s \in hiding |-> Found(s[1], 0, <<PieceAt(f, s).name>>,
                     IF PieceAt(f, s).hidden = "critical" THEN "critical" ELSE "high", "obfuscated")]
           b == [p \in split |-> Found(p, p + 1, <<Last(Text(f)[p]), Head(Text(f)[p + 1])>>, "high", "override")]
<1>1. IsFiniteSet(places) /\ Len(Pages(f)) \in Nat /\ DOMAIN Pages(f) = 1 .. Len(Pages(f))
  BY PlacesAre, PagesAre
<1>2. OnPages(f) = {g[s] : s \in ruled} /\ Obfuscated(f) = {h[s] : s \in hiding} /\ OverPageEnds(f) = {b[p] : p \in split}
  BY DEF OnPages, Obfuscated, OverPageEnds
<1>3. IsFiniteSet(OnPages(f))
  <2>1. ruled \in SUBSET places /\ DOMAIN g = ruled
    OBVIOUS
  <2> HIDE DEF places, ruled, g, hiding, h, split, b
  <2> QED BY <1>1, <1>2, <2>1, FilteredImageFinite
<1>4. IsFiniteSet(Obfuscated(f))
  <2>1. hiding \in SUBSET places /\ DOMAIN h = hiding
    OBVIOUS
  <2> HIDE DEF places, ruled, g, hiding, h, split, b
  <2> QED BY <1>1, <1>2, <2>1, FilteredImageFinite
<1>5. IsFiniteSet(OverPageEnds(f))
  <2> DEFINE ends == 1 .. Len(Pages(f)) - 1
  <2>1. split \in SUBSET ends /\ DOMAIN b = split
    OBVIOUS
  <2>2. IsFiniteSet(ends)
    BY <1>1, FS_Interval
  <2> HIDE DEF ends, places, ruled, g, hiding, h, split, b
  <2> QED BY <1>2, <2>1, <2>2, FilteredImageFinite
<1>6. \A w \in Words : <<w>> \in Quotable
  BY DEF Quotable
<1>7. \A s \in ruled : g[s] \in Finding /\ g[s].source = "rule"
  <2>1. SUFFICES ASSUME NEW s \in ruled PROVE g[s] \in Finding /\ g[s].source = "rule"
    OBVIOUS
  <2>2. s[1] \in Nat /\ <<PieceAt(f, s).name>> \in Quotable /\ PieceAt(f, s).rule \in Severities
    BY <1>6, PlacesAre DEF PieceOK
  <2>3. g[s] = [page |-> s[1], last |-> 0, quote |-> <<PieceAt(f, s).name>>, severity |-> PieceAt(f, s).rule,
                category |-> "override", source |-> "rule"]
    BY DEF Found
  <2> HIDE DEF g, ruled
  <2> QED BY <2>2, <2>3 DEF Finding
<1>8. \A s \in hiding : h[s] \in Finding /\ h[s].source = "rule"
  <2>1. SUFFICES ASSUME NEW s \in hiding PROVE h[s] \in Finding /\ h[s].source = "rule"
    OBVIOUS
  <2> DEFINE strength == IF PieceAt(f, s).hidden = "critical" THEN "critical" ELSE "high"
  <2>2. s[1] \in Nat /\ <<PieceAt(f, s).name>> \in Quotable /\ strength \in Severities
    BY <1>6, PlacesAre DEF Severities
  <2>3. h[s] = [page |-> s[1], last |-> 0, quote |-> <<PieceAt(f, s).name>>, severity |-> strength,
                category |-> "obfuscated", source |-> "rule"]
    BY DEF Found
  <2> HIDE DEF h, hiding, strength
  <2> QED BY <2>2, <2>3 DEF Finding
<1>9. \A p \in split : b[p] \in Finding /\ b[p].source = "rule"
  <2>1. SUFFICES ASSUME NEW p \in split PROVE b[p] \in Finding /\ b[p].source = "rule"
    OBVIOUS
  <2> DEFINE q == <<Last(Text(f)[p]), Head(Text(f)[p + 1])>>
  <2>2. p \in Nat /\ p \in DOMAIN Pages(f) /\ p + 1 \in DOMAIN Pages(f) /\ p + 1 \in Nat
    BY <1>1
  <2>3. /\ Text(f)[p] \in Seq(Words) /\ Len(Text(f)[p]) \in Nat \ {0}
        /\ Text(f)[p + 1] \in Seq(Words) /\ Len(Text(f)[p + 1]) \in Nat \ {0}
    BY <2>2, PagesAre
  <2>4. Last(Text(f)[p]) \in Words /\ Head(Text(f)[p + 1]) \in Words
    BY <2>3 DEF Last
  <2>5. q \in Quotable
    BY <2>4 DEF Quotable
  <2>6. b[p] = [page |-> p, last |-> p + 1, quote |-> q, severity |-> "high", category |-> "override", source |-> "rule"]
    BY DEF Found
  <2> HIDE DEF b, q, split
  <2> QED BY <2>2, <2>5, <2>6 DEF Finding, Severities
<1> DEFINE all == OnPages(f) \cup Obfuscated(f) \cup OverPageEnds(f)
<1>10. IsFiniteSet(all) /\ all \in SUBSET Finding /\ \A x \in all : x.source = "rule"
  <2>1. IsFiniteSet(all)
    BY <1>3, <1>4, <1>5, FS_Union
  <2> HIDE DEF places, ruled, g, hiding, h, split, b
  <2> QED BY <1>2, <1>7, <1>8, <1>9, <2>1
<1>11. RuleFindings(f) \in SUBSET all
  BY DEF RuleFindings, Deduplicated
<1> HIDE DEF all
<1> QED BY <1>10, <1>11, FS_Subset

(* Of each passage and category the strongest is left.                      *)
LEMMA RankIs == /\ \A s \in Severities : Rank[s] \in 0 .. 4
                /\ \A s, t \in Severities : Rank[s] = Rank[t] => s = t
                /\ Rank["high"] = 3 /\ Rank["critical"] = 4
                /\ \A s \in Severities : s \in {"none", "low", "medium"} <=> Rank[s] < 3
BY DEF Rank, Severities

LEMMA DeduplicatedIs ==
    ASSUME NEW findings \in SUBSET Finding, NEW x \in findings
    PROVE  \E y \in Deduplicated(findings) : SameKey(x, y) /\ Rank[y.severity] >= Rank[x.severity]
<1> DEFINE alike == {y \in findings : SameKey(x, y) /\ Rank[y.severity] >= Rank[x.severity]}
           gaps == {4 - Rank[y.severity] : y \in alike}
<1>1. \A y \in findings : Rank[y.severity] \in 0 .. 4
  BY RankIs DEF Finding
<1>2. x \in alike
  BY <1>1 DEF SameKey
<1>3. gaps \in SUBSET Nat /\ gaps # {}
  BY <1>1, <1>2
<1>4. PICK m \in gaps : \A k \in gaps : m <= k
  <2> HIDE DEF gaps
  <2> QED BY <1>3, Least
<1>5. PICK z \in alike : m = 4 - Rank[z.severity]
  BY <1>4
<1>6. \A y \in alike : Rank[y.severity] <= Rank[z.severity]
  BY <1>1, <1>4, <1>5
<1> DEFINE best == {y \in alike : y.severity = z.severity}
<1>7. PICK w \in best : (\E y \in best : y.source = "rule") => w.source = "rule"
  BY <1>5
<1>8. w \in findings /\ SameKey(x, w) /\ Rank[w.severity] = Rank[z.severity] /\ Rank[w.severity] >= Rank[x.severity]
  BY <1>7
<1>9. ASSUME NEW y \in findings \ {w}, SameKey(w, y)
      PROVE  Rank[w.severity] > Rank[y.severity] \/ (w.severity = y.severity /\ w.source = "rule")
  <2>1. CASE Rank[y.severity] < Rank[w.severity]
    BY <2>1, <1>1, <1>8
  <2>2. CASE ~(Rank[y.severity] < Rank[w.severity])
    <3>1. SameKey(x, y)
      BY <1>8, <1>9 DEF SameKey
    <3>2. y \in alike /\ Rank[y.severity] = Rank[w.severity]
      BY <1>1, <1>6, <1>8, <2>2, <3>1
    <3>3. y.severity = w.severity /\ y \in best
      BY <1>5, <1>7, <1>8, <3>2, RankIs DEF Finding
    <3>4. ASSUME w.source # "rule" PROVE FALSE
      <4>1. y.source = "semantic" /\ w.source = "semantic"
        BY <1>7, <1>8, <3>3, <3>4 DEF Finding
      <4>2. y.page = w.page /\ y.last = w.last /\ y.quote = w.quote /\ y.category = w.category
        BY <1>9 DEF SameKey
      <4>3. y = w
        BY <1>8, <3>3, <4>1, <4>2 DEF Finding
      <4> QED BY <1>9, <4>3
    <3> QED BY <3>3, <3>4
  <2> QED BY <2>1, <2>2
<1>10. w \in Deduplicated(findings)
  BY <1>8, <1>9 DEF Deduplicated
<1> QED BY <1>8, <1>10

LEMMA RiskIs ==
    ASSUME NEW findings \in SUBSET Finding
    PROVE  /\ RiskOf(findings) \in Severities
           /\ \A x \in findings : Rank[x.severity] <= Rank[RiskOf(findings)]
           /\ RiskOf(findings) = "none" \/ \E x \in findings : x.severity = RiskOf(findings)
<1> DEFINE Top(s) == (\A x \in findings : Rank[x.severity] <= Rank[s]) /\ (s = "none" \/ \E x \in findings : x.severity = s)
<1>1. \A x \in findings : x.severity \in Severities /\ Rank[x.severity] \in 0 .. 4
  BY RankIs DEF Finding
<1>2. \E s \in Severities : Top(s)
  <2>1. CASE findings = {}
    <3>1. "none" \in Severities /\ Top("none")
      BY <2>1 DEF Severities
    <3> QED BY <3>1
  <2>2. CASE findings # {}
    <3> DEFINE gaps == {4 - Rank[y.severity] : y \in findings}
    <3>1. gaps \in SUBSET Nat /\ gaps # {}
      BY <1>1, <2>2
    <3>2. PICK m \in gaps : \A k \in gaps : m <= k
      <4> HIDE DEF gaps
      <4> QED BY <3>1, Least
    <3>3. PICK z \in findings : m = 4 - Rank[z.severity]
      BY <3>2
    <3>4. \A y \in findings : Rank[y.severity] <= Rank[z.severity]
      BY <1>1, <3>2, <3>3
    <3> QED BY <1>1, <3>4
  <2> QED BY <2>1, <2>2
<1>3. RiskOf(findings) = CHOOSE s \in Severities : Top(s)
  BY DEF RiskOf
<1>4. RiskOf(findings) \in Severities /\ Top(RiskOf(findings))
  <2> HIDE DEF Top
  <2> QED BY <1>2, <1>3
<1> QED BY <1>4

LEMMA StatusIs ==
    ASSUME NEW findings \in SUBSET Finding, NEW complete \in BOOLEAN
    PROVE  /\ Allows(StatusOf(findings, complete)) =>
                  complete /\ \A x \in findings : Rank[x.severity] < Rank["high"]
           /\ complete /\ StatusOf(findings, complete) = "blocked" => \E x \in findings : x.severity = "critical"
<1> DEFINE risk == IF complete THEN RiskOf(findings) ELSE "critical"
<1>1. risk \in Severities /\ (complete => risk = RiskOf(findings)) /\ (~complete => risk = "critical")
  BY RiskIs DEF Severities
<1>2. StatusOf(findings, complete) =
        CASE risk \in {"none", "low"} -> "accepted"
          [] risk = "medium"          -> "accepted_with_warning"
          [] risk = "high"            -> "review_required"
          [] risk = "critical"        -> "blocked"
  BY DEF StatusOf
<1> HIDE DEF risk
<1>3. /\ StatusOf(findings, complete) \in {"accepted", "accepted_with_warning"} <=> risk \in {"none", "low", "medium"}
      /\ StatusOf(findings, complete) = "blocked" <=> risk = "critical"
  BY <1>1, <1>2 DEF Severities
<1>4. ASSUME Allows(StatusOf(findings, complete))
      PROVE  complete /\ \A x \in findings : Rank[x.severity] < Rank["high"]
  <2>1. risk \in {"none", "low", "medium"}
    BY <1>3, <1>4 DEF Allows
  <2>2. complete
    BY <1>1, <2>1
  <2>3. \A x \in findings : Rank[x.severity] <= Rank[risk] /\ Rank[x.severity] \in 0 .. 4
    BY <1>1, <2>2, RiskIs, RankIs DEF Finding
  <2>4. Rank[risk] \in 0 .. 2
    BY <2>1 DEF Rank
  <2> QED BY <2>2, <2>3, <2>4, RankIs
<1>5. ASSUME complete, StatusOf(findings, complete) = "blocked"
      PROVE  \E x \in findings : x.severity = "critical"
  BY <1>1, <1>3, <1>5, RiskIs
<1> QED BY <1>4, <1>5

-----------------------------------------------------------------------------
(* The text that may be analysed.                                           *)
LEMMA MinOfTwo ==
    ASSUME NEW a \in Int, NEW b \in Int
    PROVE  Min({a, b}) = IF a <= b THEN a ELSE b
<1> DEFINE S == {a, b}
           m == IF a <= b THEN a ELSE b
<1>1. m \in S /\ \A y \in S : m <= y
  OBVIOUS
<1>2. \A x \in S : (\A y \in S : x <= y) => x = m
  OBVIOUS
<1>3. Min(S) = CHOOSE x \in S : \A y \in S : x <= y
  BY DEF Min
<1> HIDE DEF S, m
<1>4. Min(S) = m
  BY <1>1, <1>2, <1>3
<1> QED BY <1>4 DEF S, m

LEMMA MaxOfTwo ==
    ASSUME NEW a \in Int, NEW b \in Int
    PROVE  Max({a, b}) = IF a >= b THEN a ELSE b
<1> DEFINE S == {a, b}
           m == IF a >= b THEN a ELSE b
<1>1. m \in S /\ \A y \in S : m >= y
  OBVIOUS
<1>2. \A x \in S : (\A y \in S : x >= y) => x = m
  OBVIOUS
<1>3. Max(S) = CHOOSE x \in S : \A y \in S : x >= y
  BY DEF Max
<1> HIDE DEF S, m
<1>4. Max(S) = m
  BY <1>1, <1>2, <1>3
<1> QED BY <1>4 DEF S, m

LEMMA OrderIs ==
    ASSUME NEW S, IsFiniteSet(S), NEW order \in LongestFirst(S)
    PROVE  /\ Len(order) \in Nat
           /\ \A k \in 1 .. Len(order) : order[k] \in S
           /\ \A x \in S : \E k \in 1 .. Len(order) : order[k] = x
<1> DEFINE n == Cardinality(S)
           D == 1 .. n
<1>1. n \in Nat /\ IsFiniteSet(D) /\ Cardinality(D) = n
  <2>1. n \in Nat
    BY FS_CardinalityType
  <2> HIDE DEF n
  <2> QED BY <2>1, FS_Interval
<1>2. order \in [D -> S] /\ \A i, j \in D : i # j => order[i] # order[j]
  BY DEF LongestFirst, SetToSeqs
<1>3. Len(order) = n
  <2> HIDE DEF n
  <2> QED BY <1>1, <1>2
<1> HIDE DEF D
<1>4. order \in Injection(D, S)
  BY <1>2 DEF Injection, IsInjective
<1>5. order \in Surjection(D, S)
  <2> HIDE DEF n
  <2> QED BY <1>1, <1>4, FS_Injection DEF n
<1>6. \A x \in S : \E k \in D : order[k] = x
  BY <1>5 DEF Surjection
<1> QED BY <1>1, <1>2, <1>3, <1>6 DEF D

LEMMA QuoteIs ==
    ASSUME NEW findings \in SUBSET Finding, IsFiniteSet(findings)
    PROVE  LET quotes == {x.quote : x \in findings}
           IN  IsFiniteSet(quotes) /\ quotes \in SUBSET Quotable
<1> DEFINE g == [x \in findings |-> x.quote]
           quotes == {x.quote : x \in findings}
<1>1. quotes = {g[x] : x \in findings} /\ DOMAIN g = findings
  OBVIOUS
<1>2. quotes \in SUBSET Quotable
  BY DEF Finding
<1>3. IsFiniteSet(quotes)
  <2> HIDE DEF g, quotes
  <2> QED BY <1>1, FiniteImage
<1> QED BY <1>2, <1>3

LEMMA MaskedOnIs ==
    ASSUME NEW text \in Seq(Words), NEW quote \in Quotable, NEW findings, NEW p
    PROVE  /\ MaskedOn(text, quote, findings, p) \in Seq(Words)
           /\ \A r \in Quotable : Mask \notin Range(r) /\ ~Occurs(r, text)
                                    => ~Occurs(r, MaskedOn(text, quote, findings, p))
           /\ quote \in Quotes(findings, p) /\ Mask \notin Range(quote)
                                    => ~Occurs(quote, MaskedOn(text, quote, findings, p))
<1>1. Mask \in Words
  BY DEF Words
<1>2. quote \in Seq(Words) /\ quote # <<>> /\ \A r \in Quotable : r \in Seq(Words) /\ r # <<>>
  BY DEF Quotable
<1>3. /\ Masked(text, quote) \in Seq(Words)
      /\ \A r \in Seq(Words) : r # <<>> /\ Mask \notin Range(r) /\ Occurs(r, Masked(text, quote)) => Occurs(r, text)
      /\ Mask \notin Range(quote) => ~Occurs(quote, Masked(text, quote))
  BY <1>1, <1>2, MaskedIs
<1>4. CASE quote \in Quotes(findings, p)
  BY <1>2, <1>3, <1>4 DEF MaskedOn
<1>5. CASE quote \notin Quotes(findings, p)
  BY <1>5 DEF MaskedOn
<1> QED BY <1>4, <1>5

LEMMA SanitizedIs ==
    ASSUME NEW f \in Files, NEW findings \in SUBSET Finding, IsFiniteSet(findings),
           NEW order \in LongestFirst({x.quote : x \in findings})
    PROVE  /\ DOMAIN Sanitized(f, findings, order) = DOMAIN Pages(f)
           /\ \A p \in DOMAIN Pages(f) :
                 /\ Sanitized(f, findings, order)[p] \in Seq(Words)
                 /\ \A x \in findings : Mask \notin Range(x.quote) => ~Occurs(x.quote, Sanitized(f, findings, order)[p])
<1> DEFINE quotes == {x.quote : x \in findings}
           n == Len(order)
           safe == Sanitized(f, findings, order)
<1>1. IsFiniteSet(quotes) /\ quotes \in SUBSET Quotable
  BY QuoteIs
<1>2. /\ n \in Nat /\ \A k \in 1 .. n : order[k] \in quotes
      /\ \A x \in quotes : \E k \in 1 .. n : order[k] = x
  <2> HIDE DEF quotes
  <2>1. order \in LongestFirst(quotes)
    BY DEF quotes
  <2> QED BY <1>1, <2>1, OrderIs
<1>3. DOMAIN safe = DOMAIN Pages(f)
  BY DEF Sanitized
<1>4. ASSUME NEW p \in DOMAIN Pages(f)
      PROVE  /\ safe[p] \in Seq(Words)
             /\ \A x \in findings : Mask \notin Range(x.quote) => ~Occurs(x.quote, safe[p])
  <2> DEFINE S == Seq(Words)
             start == Text(f)[p]
             upTo[k \in 0 .. Len(order)] ==
                 IF k = 0 THEN Text(f)[p] ELSE MaskedOn(upTo[k - 1], order[k], findings, p)
             Runs(u) == u = [k \in 0 .. Len(order) |-> IF k = 0 THEN Text(f)[p] ELSE MaskedOn(u[k - 1], order[k], findings, p)]
             step == [s \in S \X (1 .. n) |-> MaskedOn(s[1], order[s[2]], findings, p)]
  <2>1. start \in S
    BY PagesAre
  <2>2. \A k \in 1 .. n : order[k] \in Quotable
    BY <1>1, <1>2
  <2>3. step \in [S \X (1 .. n) -> S]
    <3>1. \A s \in S \X (1 .. n) : MaskedOn(s[1], order[s[2]], findings, p) \in S
      <4>1. SUFFICES ASSUME NEW s \in S \X (1 .. n) PROVE MaskedOn(s[1], order[s[2]], findings, p) \in S
        OBVIOUS
      <4>2. s[1] \in Seq(Words) /\ order[s[2]] \in Quotable
        BY <2>2
      <4> QED BY <4>2, MaskedOnIs
    <3> HIDE DEF S, n
    <3> QED BY <3>1
  <2>4. PICK u \in [0 .. n -> S] : Follows(u, n, start, step)
    <3>1. n \in Nat
      BY <1>2
    <3> HIDE DEF start, step, n, S
    <3> QED BY <2>1, <2>3, <3>1, Recursion
  <2>5. Runs(u)
    <3>1. ASSUME NEW k \in 1 .. n PROVE u[k] = MaskedOn(u[k - 1], order[k], findings, p)
      <4>1. k - 1 \in 0 .. n
        BY <1>2
      <4>2. <<u[k - 1], k>> \in S \X (1 .. n)
        BY <2>4, <4>1
      <4>3. u[k] = step[<<u[k - 1], k>>]
        BY <2>4 DEF Follows
      <4> HIDE DEF S, n
      <4> QED BY <4>2, <4>3
    <3>2. u[0] = Text(f)[p] /\ u = [k \in 0 .. n |-> u[k]]
      BY <2>4 DEF Follows
    <3>3. \A k \in 0 .. n : k # 0 => k \in 1 .. n
      BY <1>2
    <3> QED BY <3>1, <3>2, <3>3
  <2>6. Runs(upTo)
    <3>1. upTo = CHOOSE v : Runs(v)
      OBVIOUS
    <3> HIDE DEF upTo, Runs
    <3> QED BY <2>5, <3>1
  <2>7. safe[p] = upTo[n]
    BY DEF Sanitized
  <2> HIDE DEF upTo
  <2>8. upTo[0] = start /\ \A k \in 1 .. n : upTo[k] = MaskedOn(upTo[k - 1], order[k], findings, p)
    BY <1>2, <2>6
  <2>9. ASSUME NEW k \in 1 .. n, upTo[k - 1] \in S PROVE upTo[k] \in S
    BY <2>2, <2>8, <2>9, MaskedOnIs
  <2>10. \A k \in 0 .. n : upTo[k] \in S
    <3>1. n \in Nat /\ upTo[0] \in S
      BY <1>2, <2>1, <2>8
    <3> HIDE DEF S, n
    <3> QED BY <2>9, <3>1, Along
  <2>11. ASSUME NEW x \in findings, Mask \notin Range(x.quote) PROVE ~Occurs(x.quote, safe[p])
    <3> DEFINE q == x.quote
    <3>1. PICK j \in 1 .. n : order[j] = q
      BY <1>2
    <3>2. q \in Quotable /\ q \in Quotes(findings, p)
      BY <2>2, <3>1 DEF Quotes
    <3> DEFINE free == {k \in 0 .. n : k >= j => ~Occurs(q, upTo[k])}
               id == [k \in 0 .. n |-> k]
    <3>3. n \in Nat /\ 0 \in 0 .. n /\ id[0] \in free
      BY <1>2
    <3>4. ASSUME NEW k \in 1 .. n, id[k - 1] \in free PROVE id[k] \in free
      <4>1. k - 1 \in 0 .. n /\ k \in 0 .. n /\ k - 1 \in free /\ id[k] = k
        BY <1>2, <3>4
      <4>2. upTo[k - 1] \in Seq(Words) /\ order[k] \in Quotable
        BY <2>2, <2>10, <4>1
      <4>3. upTo[k] = MaskedOn(upTo[k - 1], order[k], findings, p)
        BY <2>8
      <4>4. CASE k > j
        <5>1. k - 1 >= j
          BY <4>4
        <5>2. ~Occurs(q, upTo[k - 1])
          BY <4>1, <5>1
        <5>3. ~Occurs(q, upTo[k])
          BY <2>11, <3>2, <4>2, <4>3, <5>2, MaskedOnIs
        <5> QED BY <4>1, <5>3
      <4>5. CASE k = j
        <5>1. order[k] = q
          BY <3>1, <4>5
        <5>2. ~Occurs(q, upTo[k])
          BY <2>11, <3>2, <4>2, <4>3, <5>1, MaskedOnIs
        <5> QED BY <4>1, <5>2
      <4>6. CASE k < j
        BY <4>1, <4>6
      <4> QED BY <4>4, <4>5, <4>6
    <3>5. \A k \in 0 .. n : id[k] \in free
      <4> HIDE DEF free, id, n
      <4> QED BY <3>3, <3>4, Along
    <3>6. n \in free /\ n >= j
      BY <1>2, <3>5
    <3> QED BY <2>7, <3>6
  <2>12. n \in 0 .. n
    BY <1>2
  <2> QED BY <2>7, <2>10, <2>11, <2>12
<1> QED BY <1>3, <1>4

(* What occurs in a part of a text occurs in the text.                      *)
LEMMA PartOccurs ==
    ASSUME NEW W, NEW text \in Seq(W), NEW quote \in Seq(W), NEW a \in Nat \ {0}, NEW b \in Nat, b <= Len(text),
           Occurs(quote, SubSeq(text, a, b))
    PROVE  Occurs(quote, text)
<1> DEFINE part == SubSeq(text, a, b)
<1>1. Len(text) \in Nat /\ Len(quote) \in Nat /\ a \in Int /\ b \in Int
  OBVIOUS
<1>2. \A k \in a .. b : text[k] \in W
  BY <1>1
<1>3. /\ part \in Seq(W)
      /\ Len(part) = IF a <= b THEN b - a + 1 ELSE 0
      /\ \A k \in 1 .. b - a + 1 : part[k] = text[a + k - 1]
  BY <1>1, <1>2, SubSeqProperties
<1> HIDE DEF part
<1>4. PICK i \in Matches(part, quote) : TRUE
  BY DEF Occurs, part
<1>5. i \in 1 .. Len(part) - Len(quote) + 1 /\ \A d \in 1 .. Len(quote) : part[i + d - 1] = quote[d]
  BY <1>3, MatchIs
<1>6. CASE a <= b
  <2>1. a + i - 1 \in 1 .. Len(text) - Len(quote) + 1
    BY <1>1, <1>3, <1>5, <1>6
  <2>2. ASSUME NEW d \in 1 .. Len(quote) PROVE text[(a + i - 1) + d - 1] = quote[d]
    <3>1. i + d - 1 \in 1 .. b - a + 1 /\ a + (i + d - 1) - 1 = (a + i - 1) + d - 1
      BY <1>1, <1>3, <1>5, <1>6
    <3> QED BY <1>3, <1>5, <3>1
  <2>3. a + i - 1 \in Matches(text, quote)
    BY <2>1, <2>2, MatchIs
  <2> QED BY <2>3 DEF Occurs
<1>7. CASE ~(a <= b)
  <2>1. Len(quote) = 0
    BY <1>1, <1>3, <1>5, <1>7
  <2>2. 1 \in 1 .. Len(text) - Len(quote) + 1 /\ \A d \in 1 .. Len(quote) : text[1 + d - 1] = quote[d]
    BY <1>1, <2>1
  <2>3. 1 \in Matches(text, quote)
    BY <2>2, MatchIs
  <2> QED BY <2>3 DEF Occurs
<1> QED BY <1>6, <1>7

LEMMA ReferencesAre ==
    ASSUME NEW f \in Files, NEW n \in Nat, NEW safe, DOMAIN safe = 1 .. n, \A p \in 1 .. n : safe[p] \in Seq(Words),
           NEW r \in References(f, safe), NEW quote \in Quotable, Occurs(quote, r.quote)
    PROVE  \E p \in 1 .. n : Occurs(quote, safe[p])
<1> DEFINE mentions == {place \in Positions(safe) : safe[place[1]][place[2]] \in Amounts(f)}
           all == InOrder(mentions, Lexicographic(mentions))
           order == FirstK(all, MaxReferences)
<1>1. \A p \in 1 .. n : Len(safe[p]) \in Nat /\ DOMAIN safe[p] = 1 .. Len(safe[p])
  OBVIOUS
<1>2. /\ IsFiniteSet(Positions(safe)) /\ Positions(safe) \in SUBSET (Nat \X Nat)
      /\ \A p, i : <<p, i>> \in Positions(safe) <=> p \in 1 .. n /\ i \in DOMAIN safe[p]
  <2>1. \A p \in 1 .. n : \E m \in Nat : DOMAIN safe[p] = 1 .. m
    BY <1>1
  <2> QED BY <2>1, PositionsAre
<1>3. mentions \in SUBSET (Nat \X Nat) /\ IsFiniteSet(mentions)
  <2>1. mentions \in SUBSET Positions(safe)
    OBVIOUS
  <2> HIDE DEF mentions
  <2> QED BY <1>2, <2>1, FS_Subset
<1>4. all \in Seq(mentions)
  <2> HIDE DEF mentions
  <2>1. StrictOrder(mentions, Lexicographic(mentions))
    BY <1>3, LexicographicIs
  <2>2. Cardinality(mentions) \in Nat /\ all \in [1 .. Cardinality(mentions) -> mentions]
    BY <1>3, <2>1, InOrderIs
  <2> HIDE DEF all
  <2> QED BY <2>2
<1>5. MaxReferences \in Nat
  BY IntakeAssumption
<1>6. order \in Seq(mentions)
  <2> HIDE DEF mentions, all
  <2>1. Len(all) \in Nat
    BY <1>4
  <2> DEFINE k == IF MaxReferences < Len(all) THEN MaxReferences ELSE Len(all)
  <2>2. k \in Int /\ \A i \in 1 .. k : all[i] \in mentions
    BY <1>4, <1>5, <2>1
  <2>3. SubSeq(all, 1, k) \in Seq(mentions)
    <3> HIDE DEF k
    <3> QED BY <2>2, SubSeqProperties
  <2> QED BY <2>3 DEF FirstK
<1>7. PICK place \in mentions :
          r = Passage(place[1], SubSeq(safe[place[1]], Max({1, place[2] - 1}), Min({Len(safe[place[1]]), place[2] + 1})))
  <2>1. PICK k \in DOMAIN order : r = Passage(order[k][1], SubSeq(safe[order[k][1]], Max({1, order[k][2] - 1}),
                                                    Min({Len(safe[order[k][1]]), order[k][2] + 1})))
    BY DEF References
  <2>2. order[k] \in mentions
    <3> HIDE DEF mentions, order
    <3> QED BY <1>6, <2>1
  <2> HIDE DEF mentions, order
  <2> QED BY <2>1, <2>2
<1>8. place = <<place[1], place[2]>> /\ place[1] \in 1 .. n /\ place[2] \in 1 .. Len(safe[place[1]])
  <2>1. place \in Positions(safe)
    OBVIOUS
  <2>2. place = <<place[1], place[2]>>
    BY <1>2, <2>1
  <2>3. place[1] \in 1 .. n /\ place[2] \in DOMAIN safe[place[1]]
    BY <1>2, <2>1, <2>2
  <2> QED BY <1>1, <2>2, <2>3
<1> HIDE DEF mentions, order, all
<1> DEFINE text == safe[place[1]]
           a == Max({1, place[2] - 1})
           b == Min({Len(text), place[2] + 1})
<1>9. text \in Seq(Words) /\ Len(text) \in Nat /\ place[2] \in Nat
  BY <1>1, <1>8
<1>10. a \in Nat \ {0} /\ b \in Nat /\ b <= Len(text)
  <2>1. a = IF 1 >= place[2] - 1 THEN 1 ELSE place[2] - 1
    BY <1>9, MaxOfTwo
  <2>2. b = IF Len(text) <= place[2] + 1 THEN Len(text) ELSE place[2] + 1
    <3> DEFINE l == Len(text)
    <3>1. l \in Int /\ place[2] + 1 \in Int
      BY <1>9
    <3>2. Min({l, place[2] + 1}) = IF l <= place[2] + 1 THEN l ELSE place[2] + 1
      <4> HIDE DEF l
      <4> QED BY <3>1, MinOfTwo
    <3> QED BY <3>2
  <2> HIDE DEF a, b, text
  <2> QED BY <1>9, <2>1, <2>2
<1>11. Occurs(quote, SubSeq(text, a, b)) /\ quote \in Seq(Words)
  BY <1>7 DEF Passage, Quotable
<1> HIDE DEF a, b, text
<1>12. Occurs(quote, text)
  BY <1>9, <1>10, <1>11, PartOccurs
<1> QED BY <1>8, <1>12 DEF text

-----------------------------------------------------------------------------
(* What the reviewer is shown.                                              *)
Passages == [page : Nat, quote : Seq(Words)]

Shown(batches) == UNION {Range(batches[k]) : k \in 1 .. Len(batches)}

LEMMA ShownIs ==
    ASSUME NEW b, NEW z
    PROVE  z \in Shown(b) <=> \E k \in 1 .. Len(b) : z \in Range(b[k])
BY DEF Shown

LEMMA PackedIs ==
    ASSUME NEW P, NEW b \in Seq(Seq(P)), NEW x \in P
    PROVE  /\ Packed(b, x) \in Seq(Seq(P)) /\ Len(Packed(b, x)) <= Len(b) + 1
           /\ Shown(Packed(b, x)) = Shown(b) \cup {x}
<1>1. Len(b) \in Nat /\ \A k \in 1 .. Len(b) : b[k] \in Seq(P)
  OBVIOUS
<1>2. ASSUME NEW s \in Seq(P)
      PROVE  Append(s, x) \in Seq(P) /\ Range(Append(s, x)) = Range(s) \cup {x}
  <2> DEFINE t == Append(s, x)
             n == Len(s)
  <2>1. n \in Nat /\ DOMAIN s = 1 .. n /\ t \in Seq(P) /\ DOMAIN t = 1 .. n + 1
        /\ t[n + 1] = x /\ \A i \in 1 .. n : t[i] = s[i]
    BY AppendProperties
  <2> HIDE DEF t, n
  <2>2. Range(t) = Range(s) \cup {x}
    <3>1. \A i \in 1 .. n : i \in 1 .. n + 1
      BY <2>1
    <3>2. \A i \in 1 .. n + 1 : i = n + 1 \/ i \in 1 .. n
      BY <2>1
    <3>3. n + 1 \in 1 .. n + 1
      BY <2>1
    <3> QED BY <2>1, <3>1, <3>2, <3>3 DEF Range
  <2> QED BY <2>1, <2>2 DEF t
<1>3. CASE b # <<>> /\ Size(Last(b)) + Len(x.quote) <= BatchRoom
  <2> DEFINE n == Len(b)
             t == [b EXCEPT ![n] = Append(@, x)]
  <2>1. Packed(b, x) = t
    BY <1>3 DEF Packed
  <2>2. n \in 1 .. n /\ n \in Nat /\ b[n] \in Seq(P)
    BY <1>1, <1>3
  <2>3. /\ t \in Seq(Seq(P)) /\ Len(t) = n
        /\ t[n] = Append(b[n], x) /\ \A k \in 1 .. n : k # n => t[k] = b[k]
    BY <1>2, <2>2
  <2> HIDE DEF t, n
  <2>4. Shown(t) = Shown(b) \cup {x}
    <3>1. Range(t[n]) = Range(b[n]) \cup {x}
      BY <1>2, <2>2, <2>3
    <3>2. \A z : /\ z \in Shown(t) <=> \E k \in 1 .. n : z \in Range(t[k])
                 /\ z \in Shown(b) <=> \E k \in 1 .. n : z \in Range(b[k])
      BY <2>3, ShownIs DEF n
    <3>3. \A k \in 1 .. n : Range(t[k]) = IF k = n THEN Range(b[k]) \cup {x} ELSE Range(b[k])
      BY <2>3, <3>1
    <3>4. ASSUME NEW z PROVE z \in Shown(t) <=> z \in Shown(b) \/ z = x
      BY <2>2, <3>2, <3>3
    <3> QED BY <3>4
  <2> QED BY <2>1, <2>2, <2>3, <2>4 DEF n
<1>4. CASE ~(b # <<>> /\ Size(Last(b)) + Len(x.quote) <= BatchRoom)
  <2> DEFINE n == Len(b)
             t == Append(b, <<x>>)
  <2>1. Packed(b, x) = t
    BY <1>4 DEF Packed
  <2>2. <<x>> \in Seq(P) /\ Range(<<x>>) = {x}
    BY DEF Range
  <2>3. t \in Seq(Seq(P)) /\ Len(t) = n + 1 /\ t[n + 1] = <<x>> /\ \A k \in 1 .. n : t[k] = b[k]
    BY <2>2, AppendProperties
  <2>4. n \in Nat
    BY <1>1
  <2> HIDE DEF t, n
  <2>5. Shown(t) = Shown(b) \cup {x}
    <3>1. \A z : /\ z \in Shown(t) <=> \E k \in 1 .. n + 1 : z \in Range(t[k])
                 /\ z \in Shown(b) <=> \E k \in 1 .. n : z \in Range(b[k])
      BY <2>3, ShownIs DEF n
    <3>2. \A k \in 1 .. n + 1 : k = n + 1 \/ k \in 1 .. n
      BY <2>4
    <3>3. n + 1 \in 1 .. n + 1 /\ \A k \in 1 .. n : k \in 1 .. n + 1
      BY <2>4
    <3>4. ASSUME NEW z PROVE z \in Shown(t) <=> z \in Shown(b) \/ z = x
      <4>1. z \in Range(t[n + 1]) <=> z = x
        BY <2>2, <2>3
      <4>2. \A k \in 1 .. n : t[k] = b[k]
        BY <2>3
      <4> QED BY <3>1, <3>2, <3>3, <4>1, <4>2
    <3> QED BY <3>4
  <2> QED BY <2>1, <2>3, <2>4, <2>5 DEF n
<1> QED BY <1>3, <1>4

LEMMA BatchesAre ==
    ASSUME NEW P, NEW c \in Seq(P)
    PROVE  /\ Batches(c) \in Seq(Seq(P)) /\ Len(Batches(c)) <= Len(c)
           /\ Shown(Batches(c)) = Range(c)
<1> DEFINE S == Seq(Seq(P))
           n == Len(c)
           start == <<>>
           upTo[k \in 0 .. Len(c)] == IF k = 0 THEN <<>> ELSE Packed(upTo[k - 1], c[k])
           Runs(u) == u = [k \in 0 .. Len(c) |-> IF k = 0 THEN <<>> ELSE Packed(u[k - 1], c[k])]
           step == [s \in S \X (1 .. n) |-> Packed(s[1], c[s[2]])]
<1>1. n \in Nat /\ start \in S /\ \A k \in 1 .. n : c[k] \in P
  OBVIOUS
<1>2. step \in [S \X (1 .. n) -> S]
  <2>1. \A s \in S \X (1 .. n) : Packed(s[1], c[s[2]]) \in S
    <3>1. SUFFICES ASSUME NEW s \in S \X (1 .. n) PROVE Packed(s[1], c[s[2]]) \in S
      OBVIOUS
    <3>2. s[1] \in Seq(Seq(P)) /\ c[s[2]] \in P
      BY <1>1
    <3> QED BY <3>2, PackedIs
  <2> HIDE DEF S, n
  <2> QED BY <2>1
<1>3. PICK u \in [0 .. n -> S] : Follows(u, n, start, step)
  <2> HIDE DEF start, step, n, S
  <2> QED BY <1>1, <1>2, Recursion
<1>4. Runs(u)
  <2>1. ASSUME NEW k \in 1 .. n PROVE u[k] = Packed(u[k - 1], c[k])
    <3>1. k - 1 \in 0 .. n
      BY <1>1
    <3>2. <<u[k - 1], k>> \in S \X (1 .. n)
      BY <1>3, <3>1
    <3>3. u[k] = step[<<u[k - 1], k>>]
      BY <1>3 DEF Follows
    <3> HIDE DEF S, n
    <3> QED BY <3>2, <3>3
  <2>2. u[0] = <<>> /\ u = [k \in 0 .. n |-> u[k]]
    BY <1>3 DEF Follows
  <2>3. \A k \in 0 .. n : k # 0 => k \in 1 .. n
    BY <1>1
  <2> QED BY <2>1, <2>2, <2>3
<1>5. Runs(upTo)
  <2>1. upTo = CHOOSE v : Runs(v)
    OBVIOUS
  <2> HIDE DEF upTo, Runs
  <2> QED BY <1>4, <2>1
<1>6. Batches(c) = upTo[n]
  BY DEF Batches
<1> HIDE DEF upTo
<1>7. upTo[0] = <<>> /\ \A k \in 1 .. n : upTo[k] = Packed(upTo[k - 1], c[k])
  BY <1>1, <1>5
<1> DEFINE Fits(k) == upTo[k] \in S /\ Len(upTo[k]) <= k /\ Shown(upTo[k]) = {c[i] : i \in 1 .. k}
           Good == {k \in 0 .. n : Fits(k)}
           id == [k \in 0 .. n |-> k]
<1>8. Fits(0)
  <2>1. Shown(<<>>) = {}
    BY DEF Shown
  <2>2. {c[i] : i \in 1 .. 0} = {}
    OBVIOUS
  <2>3. Len(<<>>) <= 0
    OBVIOUS
  <2> QED BY <1>1, <1>7, <2>1, <2>2, <2>3
<1>9. ASSUME NEW k \in 1 .. n, Fits(k - 1) PROVE Fits(k)
  <2> DEFINE b == upTo[k - 1]
             w == upTo[k]
             x == c[k]
  <2>1. k \in Nat
    BY <1>1
  <2>2. b \in Seq(Seq(P)) /\ Len(b) <= k - 1 /\ Shown(b) = {c[i] : i \in 1 .. k - 1} /\ x \in P
    BY <1>1, <1>9
  <2>3. w = Packed(b, x)
    BY <1>7
  <2>4. w \in Seq(Seq(P)) /\ Len(w) <= Len(b) + 1 /\ Shown(w) = Shown(b) \cup {x}
    <3>1. b \in Seq(Seq(P)) /\ x \in P
      BY <2>2
    <3> HIDE DEF b, w, x
    <3>2. /\ Packed(b, x) \in Seq(Seq(P)) /\ Len(Packed(b, x)) <= Len(b) + 1
          /\ Shown(Packed(b, x)) = Shown(b) \cup {x}
      BY <3>1, PackedIs
    <3> QED BY <2>3, <3>2
  <2>5. Len(w) <= k
    <3>1. Len(w) \in Nat /\ Len(b) \in Nat
      BY <2>2, <2>4
    <3> HIDE DEF b, w, x
    <3> QED BY <2>1, <2>2, <2>4, <3>1
  <2>6. {c[i] : i \in 1 .. k - 1} \cup {x} = {c[i] : i \in 1 .. k}
    <3>1. \A i \in 1 .. k : i = k \/ i \in 1 .. k - 1
      BY <2>1
    <3>2. k \in 1 .. k /\ \A i \in 1 .. k - 1 : i \in 1 .. k
      BY <2>1
    <3> QED BY <3>1, <3>2
  <2> QED BY <2>2, <2>4, <2>5, <2>6
<1> HIDE DEF Fits
<1>10. \A k \in 0 .. n : id[k] \in Good
  <2>1. id[0] \in Good
    BY <1>1, <1>8
  <2>2. ASSUME NEW k \in 1 .. n, id[k - 1] \in Good PROVE id[k] \in Good
    <3>1. k - 1 \in 0 .. n /\ k \in 0 .. n /\ id[k - 1] = k - 1 /\ id[k] = k
      BY <1>1
    <3> QED BY <1>9, <2>2, <3>1
  <2> HIDE DEF Good, id, n
  <2> QED BY <1>1, <2>1, <2>2, Along
<1>11. Fits(n)
  <2>1. n \in 0 .. n
    BY <1>1
  <2> QED BY <1>10, <2>1
<1>12. Range(c) = {c[i] : i \in 1 .. n}
  BY DEF Range
<1> QED BY <1>6, <1>11, <1>12 DEF Fits

LEMMA NextMultiple ==
    ASSUME NEW x \in Nat, NEW m \in Nat \ {0}
    PROVE  \E y \in Nat : y <= x /\ x < y + m /\ y % m = 0
<1> DEFINE q == x \div m
           y == m * q
<1>1. q \in Nat /\ y \in Nat
  OBVIOUS
<1>2. y <= x /\ x < y + m
  OBVIOUS
<1>3. y % m = 0
  <2> HIDE DEF q
  <2> QED BY <1>1
<1> QED BY <1>1, <1>2, <1>3

(* The windows of a file hold every piece of every page.                    *)
LEMMA WindowsAre ==
    ASSUME NEW f \in Files
    PROVE  /\ Windows(f) \in Seq(Passages)
           /\ \A p \in DOMAIN Pages(f) : \A k \in 1 .. Len(Text(f)[p]) :
                 \E c \in Range(Windows(f)) : c.page = p /\ Text(f)[p][k] \in Range(c.quote)
<1> DEFINE starts == WindowStarts(f)
           n == Cardinality(starts)
           order == InOrder(starts, Lexicographic(starts))
           until(s) == Min({s[2] + Window - 1, Len(Text(f)[s[1]])})
           window(s) == Passage(s[1], SubSeq(Text(f)[s[1]], s[2], until(s)))
<1>1. Window - 1 \in Nat \ {0} /\ Window \in Nat
  BY IntakeAssumption
<1>2. starts \in SUBSET Positions(Text(f)) /\ starts \in SUBSET (Nat \X Nat) /\ IsFiniteSet(starts)
  <2>1. starts \in SUBSET Positions(Text(f))
    BY DEF WindowStarts
  <2> HIDE DEF starts
  <2> QED BY <2>1, PlacesAre, FS_Subset
<1>3. /\ n \in Nat /\ order \in [1 .. n -> starts]
      /\ \A s \in starts : \E k \in 1 .. n : order[k] = s
  <2> HIDE DEF starts
  <2>1. StrictOrder(starts, Lexicographic(starts))
    BY <1>2, LexicographicIs
  <2> QED BY <1>2, <2>1, InOrderIs
<1>4. ASSUME NEW s \in starts
      PROVE  /\ s[1] \in DOMAIN Pages(f) /\ s[1] \in Nat /\ s[2] \in 1 .. Len(Text(f)[s[1]])
             /\ Text(f)[s[1]] \in Seq(Words) /\ Len(Text(f)[s[1]]) \in Nat
             /\ until(s) = IF s[2] + Window - 1 <= Len(Text(f)[s[1]]) THEN s[2] + Window - 1 ELSE Len(Text(f)[s[1]])
  <2>1. s[1] \in DOMAIN Pages(f) /\ s[1] \in Nat /\ s[2] \in 1 .. Len(Text(f)[s[1]])
    BY <1>2, PlacesAre
  <2>2. Text(f)[s[1]] \in Seq(Words) /\ Len(Text(f)[s[1]]) \in Nat
    BY <2>1, PagesAre
  <2> DEFINE a == s[2] + Window - 1
             l == Len(Text(f)[s[1]])
  <2>3. a \in Int /\ l \in Int
    BY <1>1, <2>1, <2>2
  <2>4. Min({a, l}) = IF a <= l THEN a ELSE l
    <3> HIDE DEF a, l
    <3> QED BY <2>3, MinOfTwo
  <2> QED BY <2>1, <2>2, <2>4
<1>5. ASSUME NEW s \in starts
      PROVE  /\ window(s) \in Passages /\ window(s).page = s[1]
             /\ \A k \in s[2] .. until(s) : Text(f)[s[1]][k] \in Range(window(s).quote)
  <2> DEFINE text == Text(f)[s[1]]
             part == SubSeq(text, s[2], until(s))
             u == until(s)
             i == s[2]
  <2>1. text \in Seq(Words) /\ Len(text) \in Nat /\ i \in Int /\ u \in Int /\ i >= 1 /\ u <= Len(text)
    BY <1>1, <1>4
  <2>2. \A k \in i .. u : text[k] \in Words
    <3> HIDE DEF u, i, text
    <3> QED BY <2>1
  <2>3. /\ part \in Seq(Words) /\ Len(part) = IF i <= u THEN u - i + 1 ELSE 0
        /\ \A k \in 1 .. u - i + 1 : part[k] = text[i + k - 1]
    <3>1. part = SubSeq(text, i, u)
      OBVIOUS
    <3> HIDE DEF u, i, text, part
    <3> QED BY <2>1, <2>2, <3>1, SubSeqProperties
  <2>4. window(s) = [page |-> s[1], quote |-> part]
    BY DEF Passage
  <2>5. ASSUME NEW k \in i .. u PROVE text[k] \in Range(part)
    <3> HIDE DEF u, i, text, part
    <3>1. k - i + 1 \in 1 .. u - i + 1 /\ i + (k - i + 1) - 1 = k /\ i <= u
      BY <2>1
    <3>2. part[k - i + 1] = text[k] /\ k - i + 1 \in DOMAIN part
      BY <2>1, <2>3, <3>1
    <3> QED BY <3>2 DEF Range
  <2>6. window(s) \in Passages /\ window(s).page = s[1] /\ window(s).quote = part
    <3> HIDE DEF part, window
    <3> QED BY <1>4, <2>3, <2>4 DEF Passages
  <2> QED BY <2>5, <2>6
<1>6. /\ Windows(f) = [k \in 1 .. n |-> window(order[k])]
      /\ DOMAIN Windows(f) = 1 .. n
  BY <1>3 DEF Windows
<1> HIDE DEF window, until, order, n
<1>7. Windows(f) \in Seq(Passages) /\ \A k \in 1 .. n : Windows(f)[k] = window(order[k])
  <2>1. \A k \in 1 .. n : window(order[k]) \in Passages
    BY <1>3, <1>5
  <2>2. Windows(f) \in [1 .. n -> Passages]
    BY <1>6, <2>1
  <2> QED BY <1>3, <1>6, <2>2
<1>8. ASSUME NEW p \in DOMAIN Pages(f), NEW k \in 1 .. Len(Text(f)[p])
      PROVE  \E c \in Range(Windows(f)) : c.page = p /\ Text(f)[p][k] \in Range(c.quote)
  <2>1. Len(Text(f)[p]) \in Nat /\ k - 1 \in Nat
    BY PagesAre
  <2> DEFINE m == Window - 1
  <2>2. PICK y \in Nat : y <= k - 1 /\ k - 1 < y + m /\ y % m = 0
    BY <1>1, <2>1, NextMultiple
  <2> DEFINE s == <<p, y + 1>>
  <2>3. s \in starts
    <3>1. y + 1 \in 1 .. Len(Text(f)[p]) /\ (y + 1) - 1 = y
      BY <2>1, <2>2
    <3>2. s \in Positions(Text(f))
      BY <3>1, PlacesAre
    <3> QED BY <2>2, <3>1, <3>2 DEF WindowStarts
  <2>4. k \in s[2] .. until(s)
    <3>1. until(s) = IF (y + 1) + Window - 1 <= Len(Text(f)[p]) THEN (y + 1) + Window - 1 ELSE Len(Text(f)[p])
      BY <1>4, <2>3
    <3> QED BY <1>1, <2>1, <2>2, <3>1
  <2>5. window(s).page = p /\ Text(f)[p][k] \in Range(window(s).quote)
    BY <1>5, <2>3, <2>4
  <2>6. PICK j \in 1 .. n : order[j] = s
    BY <1>3, <2>3
  <2>7. window(s) \in Range(Windows(f))
    BY <1>6, <1>7, <2>6 DEF Range
  <2> QED BY <2>5, <2>7
<1> QED BY <1>7, <1>8

-----------------------------------------------------------------------------
(* The bounded review is shared out among the pages.                        *)
LEMMA FoundIs ==
    ASSUME NEW S, IsFiniteSet(S)
    PROVE  /\ Cardinality(S) \in Nat
           /\ SetToSeq(S) \in [1 .. Cardinality(S) -> S]
<1> DEFINE n == Cardinality(S)
<1>1. n \in Nat /\ ExistsBijection(1 .. n, S)
  BY FS_CardinalityType
<1>2. PICK g \in Bijection(1 .. n, S) : TRUE
  BY <1>1 DEF ExistsBijection
<1>3. g \in [1 .. n -> S] /\ IsInjective(g)
  BY <1>2 DEF Bijection, Injection
<1>4. SetToSeq(S) \in [1 .. n -> S]
  BY <1>3 DEF SetToSeq
<1> QED BY <1>1, <1>4

LEMMA FlaggedAre ==
    ASSUME NEW f \in Files
    PROVE  /\ Flagged(f) \in Seq(Passages)
           /\ \A k \in 1 .. Len(Flagged(f)) : Flagged(f)[k] \in {Passage(x.page, x.quote) : x \in RuleFindings(f)}
<1> DEFINE R == RuleFindings(f)
           found == SetToSeq(R)
           n == Cardinality(R)
           D == 1 .. n
           before == Strongest(found)
           order == InOrder(D, before)
<1>1. R \in SUBSET Finding /\ IsFiniteSet(R)
  BY RuleFindingsAre
<1>2. n \in Nat /\ found \in [D -> R] /\ DOMAIN found = D
  <2> HIDE DEF R
  <2> QED BY <1>1, FoundIs
<1>3. IsFiniteSet(D) /\ Cardinality(D) = n
  <2> HIDE DEF n
  <2> QED BY <1>2, FS_Interval
<1> DEFINE rank(i) == Rank[found[i].severity]
           page(i) == found[i].page
<1>4. \A i \in D : rank(i) \in Nat /\ page(i) \in Nat /\ i \in Nat /\ found[i].severity \in Severities
  <2>1. \A i \in D : found[i] \in Finding
    BY <1>1, <1>2
  <2> HIDE DEF found
  <2> QED BY <2>1, RankIs, <1>2 DEF Finding
<1>5. \A i, j \in D : ByStrength(found[i], found[j]) <=> rank(i) > rank(j) \/ (rank(i) = rank(j) /\ page(i) < page(j))
  <2> HIDE DEF found, D
  <2> QED BY <1>4, RankIs DEF ByStrength
<1>6. \A i, j \in D : <<i, j>> \in before <=>
          \/ rank(i) > rank(j)
          \/ rank(i) = rank(j) /\ page(i) < page(j)
          \/ rank(i) = rank(j) /\ page(i) = page(j) /\ i < j
  <2>1. SUFFICES ASSUME NEW i \in D, NEW j \in D
                 PROVE  <<i, j>> \in before <=>
                            \/ rank(i) > rank(j)
                            \/ rank(i) = rank(j) /\ page(i) < page(j)
                            \/ rank(i) = rank(j) /\ page(i) = page(j) /\ i < j
    OBVIOUS
  <2>2. <<i, j>> \in before <=> \/ ByStrength(found[i], found[j])
                                \/ ~ByStrength(found[j], found[i]) /\ i < j
    BY <1>2 DEF Strongest
  <2> HIDE DEF found, D, before, rank, page
  <2> QED BY <1>4, <1>5, <2>2
<1> HIDE DEF before, rank, page
<1>7. StrictOrder(D, before)
  <2> HIDE DEF D
  <2>1. \A i \in D : <<i, i>> \notin before
    BY <1>4, <1>6
  <2>2. \A i, j \in D : i # j => <<i, j>> \in before \/ <<j, i>> \in before
    BY <1>4, <1>6
  <2>3. \A i, j, k \in D : <<i, j>> \in before /\ <<j, k>> \in before => <<i, k>> \in before
    BY <1>4, <1>6
  <2> QED BY <2>1, <2>2, <2>3 DEF StrictOrder
<1>8. order \in [D -> D]
  <2> HIDE DEF D, n
  <2>1. order \in [1 .. n -> D]
    BY <1>3, <1>7, InOrderIs
  <2> QED BY <2>1 DEF D
<1>9. Flagged(f) = [k \in D |-> Passage(found[order[k]].page, found[order[k]].quote)]
  <2>1. Flagged(f) = [k \in DOMAIN order |-> Passage(found[order[k]].page, found[order[k]].quote)]
    BY <1>2 DEF Flagged, before
  <2> HIDE DEF order
  <2> QED BY <1>8, <2>1
<1> DEFINE ruled == {Passage(x.page, x.quote) : x \in R}
<1>10. \A x \in R : Passage(x.page, x.quote) \in Passages
  <2>1. \A x \in Finding : x.page \in Nat /\ x.quote \in Seq(Words)
    BY DEF Finding, Quotable
  <2> HIDE DEF R
  <2> QED BY <1>1, <2>1 DEF Passages, Passage
<1>11. \A k \in D : found[order[k]] \in R
  <2> HIDE DEF D, found, order, R
  <2> QED BY <1>2, <1>8
<1>12. \A k \in D : Flagged(f)[k] \in ruled /\ Flagged(f)[k] \in Passages
  <2> HIDE DEF D, found, order, R
  <2> QED BY <1>9, <1>10, <1>11
<1>13. Flagged(f) \in [1 .. n -> Passages]
  <2> HIDE DEF order, found, R, n
  <2> QED BY <1>9, <1>12
<1>14. Flagged(f) \in Seq(Passages) /\ Len(Flagged(f)) = n
  <2> HIDE DEF n
  <2> QED BY <1>2, <1>13
<1> QED BY <1>12, <1>14

LEMMA FocusIs ==
    ASSUME NEW f \in Files, NEW p \in DOMAIN Pages(f)
    PROVE  /\ FocusPassages(f, p) \in Seq(Passages)
           /\ Len(FocusPassages(f, p)) \in Nat /\ DOMAIN FocusPassages(f, p) = 1 .. Len(FocusPassages(f, p))
           /\ \A k \in DOMAIN FocusPassages(f, p) : FocusPassages(f, p)[k].page = p
<1> DEFINE text == Pages(f)[p].text
           at == {i \in DOMAIN text : text[i].cue}
           Named1 == {x \in Range(text) : x.name \in Words}
           cues == Those(text, at)
<1>1. /\ text \in Seq(Range(text)) /\ Len(text) \in Nat /\ DOMAIN text = 1 .. Len(text) /\ p \in Nat
      /\ \A i \in 1 .. Len(text) : text[i].name \in Words
  <2>1. /\ text \in Seq(Range(text)) /\ Text(f)[p] \in Seq(Words) /\ Len(Text(f)[p]) = Len(text)
        /\ DOMAIN Text(f)[p] = 1 .. Len(Text(f)[p]) /\ Len(Text(f)[p]) \in Nat
        /\ \A i \in 1 .. Len(text) : Text(f)[p][i] = text[i].name
    BY PagesAre
  <2>2. p \in Nat
    BY PagesAre
  <2>3. DOMAIN text = 1 .. Len(text)
    <3> DEFINE S == Range(text)
    <3>1. text \in Seq(S)
      BY <2>1
    <3> HIDE DEF S, text
    <3> QED BY <3>1
  <2> HIDE DEF text
  <2> QED BY <2>1, <2>2, <2>3
<1>2. at \in SUBSET Nat /\ IsFiniteSet(at) /\ \A i \in at : text[i] \in Named1
  <2>1. IsFiniteSet(1 .. Len(text))
    <3> DEFINE last == Len(text)
    <3>1. last \in Int
      BY <1>1
    <3> HIDE DEF last
    <3>2. IsFiniteSet(1 .. last)
      BY <3>1, FS_Interval
    <3> QED BY <3>2 DEF last
  <2>2. at \in SUBSET (1 .. Len(text)) /\ at \in SUBSET Nat
    BY <1>1
  <2>3. IsFiniteSet(at)
    <3> HIDE DEF at
    <3> QED BY <2>1, <2>2, FS_Subset
  <2>4. \A i \in at : text[i] \in Named1
    <3> HIDE DEF text
    <3> QED BY <1>1 DEF Range
  <2> QED BY <2>2, <2>3, <2>4
<1>3. cues \in Seq(Named1)
  <2> HIDE DEF at, text, Named1
  <2> QED BY <1>2, ThoseOf
<1>4. FocusPassages(f, p) = [k \in DOMAIN cues |-> Passage(p, <<cues[k].name>>)]
  BY DEF FocusPassages
<1> DEFINE n == Len(cues)
<1>5. n \in Nat /\ DOMAIN cues = 1 .. n /\ \A k \in 1 .. n : cues[k].name \in Words
  <2>1. \A x \in Named1 : x.name \in Words
    OBVIOUS
  <2> HIDE DEF cues, Named1
  <2> QED BY <1>3, <2>1
<1> HIDE DEF cues, n
<1>6. \A k \in 1 .. n : Passage(p, <<cues[k].name>>) \in Passages /\ Passage(p, <<cues[k].name>>).page = p
  BY <1>1, <1>5 DEF Passages, Passage
<1>7. FocusPassages(f, p) \in [1 .. n -> Passages] /\ \A k \in 1 .. n : FocusPassages(f, p)[k].page = p
  BY <1>4, <1>5, <1>6
<1> QED BY <1>5, <1>7

LEMMA TurnsAre ==
    ASSUME NEW f \in Files
    PROVE  /\ IsFiniteSet(Turns(f)) /\ Turns(f) \in SUBSET (Nat \X Nat)
           /\ \A k, p : <<k, p>> \in Turns(f) <=> p \in DOMAIN Pages(f) /\ k \in DOMAIN FocusPassages(f, p)
<1> DEFINE focus == [p \in DOMAIN Pages(f) |-> FocusPassages(f, p)]
           places == Positions(focus)
           n == Len(Pages(f))
           g == [s \in places |-> <<s[2], s[1]>>]
<1>1. n \in Nat /\ DOMAIN Pages(f) = 1 .. n /\ DOMAIN focus = 1 .. n
  BY PagesAre
<1>2. /\ IsFiniteSet(places) /\ places \in SUBSET (Nat \X Nat)
      /\ \A p, i : <<p, i>> \in places <=> p \in 1 .. n /\ i \in DOMAIN focus[p]
  <2>1. \A p \in 1 .. n : \E m \in Nat : DOMAIN focus[p] = 1 .. m
    BY <1>1, FocusIs
  <2> HIDE DEF focus, n
  <2> QED BY <1>1, <2>1, PositionsAre
<1>3. Turns(f) = {g[s] : s \in places} /\ DOMAIN g = places
  BY DEF Turns
<1>4. IsFiniteSet(Turns(f))
  <2> HIDE DEF g, places
  <2> QED BY <1>2, <1>3, FiniteImage
<1>5. \A p, i : <<p, i>> \in places <=> p \in DOMAIN Pages(f) /\ i \in DOMAIN FocusPassages(f, p)
  BY <1>1, <1>2
<1> HIDE DEF places
<1>6. \A s \in places : s = <<s[1], s[2]>> /\ s[1] \in Nat /\ s[2] \in Nat
  BY <1>2
<1>7. Turns(f) = {<<s[2], s[1]>> : s \in places}
  BY <1>3
<1>8. ASSUME NEW k, NEW p PROVE <<k, p>> \in Turns(f) <=> <<p, k>> \in places
  <2>1. ASSUME <<p, k>> \in places PROVE <<k, p>> \in Turns(f)
    BY <1>7, <2>1
  <2>2. ASSUME <<k, p>> \in Turns(f) PROVE <<p, k>> \in places
    <3>1. PICK s \in places : <<k, p>> = <<s[2], s[1]>>
      BY <1>7, <2>2
    <3>2. s = <<p, k>>
      BY <1>6, <3>1
    <3> QED BY <3>2
  <2> QED BY <2>1, <2>2
<1>9. Turns(f) \in SUBSET (Nat \X Nat)
  BY <1>6, <1>7
<1> QED BY <1>4, <1>5, <1>8, <1>9

LEMMA InTurnIs ==
    ASSUME NEW f \in Files
    PROVE  LET order == RoundRobin(Turns(f))
               n == Cardinality(Turns(f))
           IN  /\ n \in Nat /\ order \in [1 .. n -> Turns(f)]
               /\ \A s \in Turns(f) : \E k \in 1 .. n : order[k] = s
               /\ \A i, j \in 1 .. n : i < j => <<order[i], order[j]>> \in Lexicographic(Turns(f))
               /\ InTurn(f) \in Seq(Passages) /\ Len(InTurn(f)) = n
               /\ \A k \in 1 .. n : InTurn(f)[k] = FocusPassages(f, order[k][2])[order[k][1]]
<1> DEFINE turns == Turns(f)
           order == RoundRobin(turns)
           n == Cardinality(turns)
<1>1. IsFiniteSet(turns) /\ turns \in SUBSET (Nat \X Nat)
  BY TurnsAre
<1>2. /\ n \in Nat /\ order \in [1 .. n -> turns]
      /\ \A s \in turns : \E k \in 1 .. n : order[k] = s
      /\ \A i, j \in 1 .. n : i < j => <<order[i], order[j]>> \in Lexicographic(turns)
  <2>1. StrictOrder(turns, Lexicographic(turns))
    BY <1>1, LexicographicIs
  <2> HIDE DEF turns
  <2> QED BY <1>1, <2>1, InOrderIs DEF RoundRobin
<1>3. InTurn(f) = [k \in DOMAIN order |-> FocusPassages(f, order[k][2])[order[k][1]]]
  BY DEF InTurn
<1> HIDE DEF order, n
<1>4. \A k \in 1 .. n : FocusPassages(f, order[k][2])[order[k][1]] \in Passages
  <2>1. SUFFICES ASSUME NEW k \in 1 .. n PROVE FocusPassages(f, order[k][2])[order[k][1]] \in Passages
    OBVIOUS
  <2>2. order[k] \in turns /\ order[k] = <<order[k][1], order[k][2]>>
    <3>1. order[k] \in turns
      BY <1>2
    <3> HIDE DEF turns
    <3> QED BY <1>1, <3>1
  <2>3. order[k][2] \in DOMAIN Pages(f) /\ order[k][1] \in DOMAIN FocusPassages(f, order[k][2])
    BY <2>2, TurnsAre
  <2> QED BY <2>3, FocusIs
<1>5. InTurn(f) \in [1 .. n -> Passages] /\ \A k \in 1 .. n : InTurn(f)[k] = FocusPassages(f, order[k][2])[order[k][1]]
  BY <1>2, <1>3, <1>4
<1>6. InTurn(f) \in Seq(Passages) /\ Len(InTurn(f)) = n
  BY <1>2, <1>5
<1> QED BY <1>2, <1>5, <1>6 DEF order, n

LEMMA FirstKIs ==
    ASSUME NEW S, NEW s \in Seq(S), NEW k \in Nat
    PROVE  /\ FirstK(s, k) \in Seq(S) /\ Len(FirstK(s, k)) <= k /\ Len(FirstK(s, k)) \in Nat
           /\ \A x : x \in Range(FirstK(s, k)) <=> \E i \in 1 .. Len(s) : i <= k /\ s[i] = x
<1> DEFINE n == IF k < Len(s) THEN k ELSE Len(s)
           t == SubSeq(s, 1, n)
<1>1. Len(s) \in Nat /\ n \in Nat /\ n <= k /\ n <= Len(s) /\ \A i \in 1 .. n : s[i] \in S
  OBVIOUS
<1>2. t \in Seq(S) /\ Len(t) = n /\ \A i \in 1 .. n : t[i] = s[i]
  <2> HIDE DEF n, t
  <2>1. /\ SubSeq(s, 1, n) \in Seq(S)
        /\ Len(SubSeq(s, 1, n)) = IF 1 <= n THEN n - 1 + 1 ELSE 0
        /\ \A i \in 1 .. n - 1 + 1 : SubSeq(s, 1, n)[i] = s[1 + i - 1]
    BY <1>1, SubSeqProperties
  <2> QED BY <1>1, <2>1 DEF t
<1>3. FirstK(s, k) = t
  BY DEF FirstK
<1>4. \A i \in 1 .. Len(s) : i <= k => i \in 1 .. n
  OBVIOUS
<1>5. DOMAIN t = 1 .. n
  <2> HIDE DEF n, t
  <2> QED BY <1>1, <1>2
<1> HIDE DEF n, t
<1>6. \A x : x \in Range(t) <=> \E i \in 1 .. n : s[i] = x
  BY <1>2, <1>5 DEF Range
<1>7. \A i \in 1 .. n : i \in 1 .. Len(s) /\ i <= k
  BY <1>1
<1> QED BY <1>1, <1>2, <1>3, <1>4, <1>6, <1>7

LEMMA BalancedIs ==
    ASSUME NEW f \in Files
    PROVE  Balanced(f) \in Seq(Passages) /\ Len(Balanced(f)) <= MaxCandidates
<1>1. Flagged(f) \o InTurn(f) \in Seq(Passages)
  BY FlaggedAre, InTurnIs, ConcatProperties
<1> DEFINE list == Flagged(f) \o InTurn(f)
<1>2. Unrepeated(list) \in Seq(Passages)
  <2> HIDE DEF list
  <2> QED BY <1>1, UnrepeatedIs DEF list
<1>3. MaxCandidates \in Nat
  BY IntakeAssumption
<1> HIDE DEF list
<1> QED BY <1>2, <1>3, FirstKIs DEF Balanced, list

LEMMA Fair ==
    ASSUME NEW f \in Files, NEW p \in DOMAIN Pages(f), NEW q \in DOMAIN Pages(f),
           NEW i \in DOMAIN FocusPassages(f, p), NEW j \in DOMAIN FocusPassages(f, q),
           FocusPassages(f, p)[i] \notin Range(Balanced(f)),
           FocusPassages(f, q)[j] \in Range(Balanced(f)),
           FocusPassages(f, q)[j] \notin {Passage(x.page, x.quote) : x \in RuleFindings(f)},
           \A k \in 1 .. j - 1 : FocusPassages(f, q)[k] # FocusPassages(f, q)[j]
    PROVE  j <= i
<1> DEFINE flagged == Flagged(f)
           turn == InTurn(f)
           list == flagged \o turn
           F == Len(flagged)
           n == Cardinality(Turns(f))
           order == RoundRobin(Turns(f))
           firsts == Firsts(list)
           at == Listed(firsts)
           u == Unrepeated(list)
           v == FocusPassages(f, p)[i]
           w == FocusPassages(f, q)[j]
<1>1. /\ flagged \in Seq(Passages) /\ F \in Nat
      /\ \A k \in 1 .. F : flagged[k] # w
  <2>1. flagged \in Seq(Passages)
    BY FlaggedAre
  <2> QED BY <2>1, FlaggedAre
<1>2. /\ n \in Nat /\ order \in [1 .. n -> Turns(f)]
      /\ \A s \in Turns(f) : \E k \in 1 .. n : order[k] = s
      /\ \A a, b \in 1 .. n : a < b => <<order[a], order[b]>> \in Lexicographic(Turns(f))
      /\ turn \in Seq(Passages) /\ Len(turn) = n
      /\ \A k \in 1 .. n : turn[k] = FocusPassages(f, order[k][2])[order[k][1]]
  BY InTurnIs
<1>3. Turns(f) \in SUBSET (Nat \X Nat) /\ \A a, b \in Turns(f) : <<a, b>> \in Lexicographic(Turns(f)) =>
          a[1] <= b[1] /\ (a[1] < b[1] \/ (a[1] = b[1] /\ a[2] < b[2]))
  <2>1. Turns(f) \in SUBSET (Nat \X Nat)
    BY TurnsAre
  <2>2. \A a, b \in Turns(f) : <<a, b>> \in Lexicographic(Turns(f)) =>
          a[1] < b[1] \/ (a[1] = b[1] /\ a[2] < b[2])
    BY DEF Lexicographic
  <2>3. \A a \in Turns(f) : a[1] \in Nat
    BY <2>1
  <2> QED BY <2>1, <2>2, <2>3
<1>4. /\ list \in Seq(Passages) /\ Len(list) = F + n
      /\ \A k \in 1 .. F : list[k] = flagged[k]
      /\ \A k \in 1 .. n : list[F + k] = turn[k]
  <2>0. flagged \in Seq(Passages) /\ turn \in Seq(Passages) /\ Len(turn) = n
    BY <1>1, <1>2
  <2> HIDE DEF flagged, turn, n
  <2>1. list \in Seq(Passages) /\ Len(list) = Len(flagged) + Len(turn)
    BY <2>0, ConcatProperties
  <2>2. \A k \in 1 .. F : list[k] = flagged[k]
    BY <2>0
  <2>3. \A k \in 1 .. n : list[F + k] = turn[k]
    BY <1>1, <1>2, <2>0
  <2> QED BY <2>0, <2>1, <2>2, <2>3
<1> HIDE DEF flagged, turn, list, F, n, order
<1>5. /\ firsts \in SUBSET (1 .. F + n) /\ firsts \in SUBSET Nat /\ IsFiniteSet(firsts)
      /\ \A k \in DOMAIN list : \E m \in firsts : m <= k /\ list[m] = list[k]
      /\ u \in Seq(Passages) /\ Len(u) = Cardinality(firsts)
      /\ \A k \in 1 .. Len(u) : u[k] = list[at[k]]
  BY <1>4, UnrepeatedIs
<1>6. /\ Len(u) \in Nat /\ at \in [1 .. Len(u) -> firsts]
      /\ \A m \in firsts : \E k \in 1 .. Len(u) : at[k] = m
      /\ \A a, b \in 1 .. Len(u) : a < b => at[a] < at[b]
  BY <1>5, ListedIs
<1>7. \A m \in firsts : \A k \in 1 .. m - 1 : list[k] # list[m]
  BY DEF Firsts
<1> HIDE DEF firsts, at
<1>8. DOMAIN list = 1 .. F + n
  BY <1>1, <1>2, <1>4
<1>9. \A x : x \in Range(Balanced(f)) <=> \E k \in 1 .. Len(u) : k <= MaxCandidates /\ u[k] = x
  <2>1. MaxCandidates \in Nat
    BY IntakeAssumption
  <2>2. Balanced(f) = FirstK(u, MaxCandidates)
    BY DEF Balanced, list, flagged, turn
  <2> HIDE DEF u
  <2> QED BY <1>5, <2>1, <2>2, FirstKIs
<1> HIDE DEF u
<1>10. PICK a \in 1 .. Len(u) : a <= MaxCandidates /\ u[a] = w
  BY <1>9
<1>11. at[a] \in firsts /\ at[a] \in 1 .. F + n /\ list[at[a]] = w
  BY <1>5, <1>6, <1>10
<1>12. at[a] \in F + 1 .. F + n
  <2>1. ASSUME at[a] \in 1 .. F PROVE FALSE
    BY <1>1, <1>4, <1>11, <2>1
  <2>2. F \in Nat /\ n \in Nat /\ at[a] \in 1 .. F + n
    BY <1>1, <1>2, <1>11
  <2> QED BY <2>1, <2>2
<1> DEFINE c == at[a] - F
<1>13. c \in 1 .. n /\ F + c = at[a] /\ turn[c] = w
  <2>1. at[a] \in Int
    BY <1>1, <1>2, <1>11
  <2>2. c \in 1 .. n
    BY <1>1, <1>2, <1>12, <2>1
  <2>3. F + c = at[a]
    BY <1>1, <2>1
  <2>4. list[F + c] = turn[c]
    BY <1>4, <2>2
  <2>5. list[at[a]] = turn[c]
    BY <2>3, <2>4
  <2> QED BY <1>11, <2>2, <2>3, <2>5
<1> HIDE DEF c
<1>14. ASSUME NEW k \in 1 .. n
       PROVE  /\ order[k] \in Turns(f) /\ order[k] = <<order[k][1], order[k][2]>>
              /\ order[k][2] \in DOMAIN Pages(f) /\ order[k][1] \in DOMAIN FocusPassages(f, order[k][2])
              /\ order[k][1] \in Nat
  <2>1. order[k] \in Turns(f) /\ order[k] = <<order[k][1], order[k][2]>> /\ order[k][1] \in Nat
    BY <1>2, <1>3
  <2> QED BY <2>1, TurnsAre
<1> DEFINE t == order[c][1]
<1>15. order[c] = <<t, q>> /\ t \in DOMAIN FocusPassages(f, q) /\ t \in Nat /\ FocusPassages(f, q)[t] = w
  <2>1. turn[c] = FocusPassages(f, order[c][2])[t] /\ turn[c].page = order[c][2]
    BY <1>2, <1>13, <1>14, FocusIs
  <2>2. w.page = q
    BY FocusIs
  <2> QED BY <1>13, <1>14, <2>1, <2>2
<1>16. j \in Nat /\ i \in Nat
  BY FocusIs
<1>17. t = j
  <2>1. CASE t < j
    <3>1. t \in 1 .. j - 1
      BY <1>15, <1>16, <2>1, FocusIs
    <3> QED BY <1>15, <3>1
  <2>2. CASE j < t
    <3>1. <<j, q>> \in Turns(f)
      BY TurnsAre
    <3>2. PICK d \in 1 .. n : order[d] = <<j, q>>
      BY <1>2, <3>1
    <3>3. turn[d] = w
      <4>1. order[d][1] = j /\ order[d][2] = q
        BY <3>2
      <4> QED BY <1>2, <4>1
    <3>4. d < c
      <4>1. ASSUME c < d PROVE FALSE
        <5>1. <<order[c], order[d]>> \in Lexicographic(Turns(f))
          BY <1>2, <1>13, <4>1
        <5>2. order[c][1] <= order[d][1]
          BY <1>3, <1>13, <1>14, <5>1
        <5> QED BY <1>15, <1>16, <2>2, <3>2, <5>2
      <4>2. c # d
        BY <1>15, <1>16, <2>2, <3>2
      <4>3. c \in Nat /\ d \in Nat
        BY <1>2, <1>13
      <4> QED BY <4>1, <4>2, <4>3
    <3>5. F + d \in 1 .. at[a] - 1 /\ list[F + d] = w
      BY <1>1, <1>2, <1>4, <1>13, <3>3, <3>4
    <3> QED BY <1>7, <1>11, <3>5
  <2> QED BY <1>15, <1>16, <2>1, <2>2
<1>18. PICK e \in 1 .. n : order[e] = <<i, p>>
  BY <1>2, TurnsAre
<1>19. list[F + e] = v /\ F + e \in 1 .. F + n
  <2>1. order[e][1] = i /\ order[e][2] = p
    BY <1>18
  <2>2. turn[e] = v
    BY <1>2, <2>1
  <2> QED BY <1>1, <1>2, <1>4, <2>2
<1>20. PICK m \in firsts : m <= F + e /\ list[m] = v
  BY <1>5, <1>8, <1>19
<1>21. PICK b \in 1 .. Len(u) : at[b] = m
  BY <1>6
<1>22. u[b] = v
  BY <1>5, <1>20, <1>21
<1>23. ~(b <= MaxCandidates)
  BY <1>9, <1>22
<1>24. a < b
  <2>1. MaxCandidates \in Nat
    BY IntakeAssumption
  <2> QED BY <1>6, <1>10, <1>23, <2>1
<1>25. at[a] < m
  BY <1>6, <1>21, <1>24
<1>26. c < e
  <2>1. m \in Nat /\ e \in Nat /\ c \in Nat
    BY <1>2, <1>5, <1>13
  <2> QED BY <1>1, <1>13, <1>20, <1>25, <2>1
<1>27. <<order[c], order[e]>> \in Lexicographic(Turns(f))
  BY <1>2, <1>13, <1>26
<1>28. order[c][1] <= order[e][1]
  BY <1>3, <1>13, <1>14, <1>27
<1> QED BY <1>15, <1>16, <1>17, <1>18, <1>28

-----------------------------------------------------------------------------
(* The inductive invariant.  A file under way is one the case may take, and *)
(* the case takes no other meanwhile; a review has heard every finding of   *)
(* the rules, and nothing of the reviewer's that would block; its calls     *)
(* keep pace with its batches.                                              *)
Shaped(u) ==
    u = [phase |-> u.phase, file |-> u.file, scans |-> u.scans, read |-> u.read, findings |-> u.findings,
         batches |-> u.batches, next |-> u.next, attempt |-> u.attempt, heard |-> u.heard, calls |-> u.calls]

DocumentsKept ==
    /\ documents \in Seq(Files) /\ Len(documents) <= MaxDocuments /\ IsInjective(documents)

UnderWay == Shaped(upload) /\ upload.file \in Files /\ Admissible(upload.file)

RecognizeInStep == upload.phase = "ocr" => UnderWay /\ upload.scans # {} /\ upload.calls = 0

ScreenInStep == upload.phase = "scan" => UnderWay /\ upload.read = Scans(upload.file) /\ upload.calls = 0

(* What the reviewer added is never critical.                               *)
HeardOf(f, heard) ==
    /\ heard \in SUBSET Finding /\ IsFiniteSet(heard) /\ RuleFindings(f) \subseteq heard
    /\ \A x \in heard \ RuleFindings(f) : x.severity # "critical"

ReviewInStep ==
    upload.phase = "review" =>
        /\ UnderWay /\ upload.read = Scans(upload.file)
        /\ upload.batches = ReviewBatches(upload.file) /\ upload.next \in 1 .. Len(upload.batches)
        /\ upload.attempt \in 1 .. MaxAttempts
        /\ HeardOf(upload.file, upload.heard)
        /\ upload.calls \in Nat /\ upload.calls <= MaxAttempts * (upload.next - 1) + upload.attempt - 1

KeptInStep ==
    /\ upload.phase = "kept" => (Allows(upload.status) <=> upload.safe # <<>>) /\ upload.file = Last(documents)
    /\ UsableOnlyScreened /\ SafeTextClean /\ ReviewerOnlyAdds

IntakeIInv ==
    /\ settings \in [mode : {"rules", "balanced", "strict"}, ocr : BOOLEAN]
    /\ upload.phase \in {"idle", "ocr", "scan", "review", "kept"}
    /\ DocumentsKept /\ RecognizeInStep /\ ScreenInStep /\ ReviewInStep /\ KeptInStep

-----------------------------------------------------------------------------
(* The batches of a review, and what has been seen once it has ended.       *)
LEMMA ReviewedIs ==
    ASSUME NEW f \in Files, Content[f].fits, settings.mode \in {"rules", "balanced", "strict"}
    PROVE  LET b == ReviewBatches(f)
           IN  /\ Len(b) \in Nat /\ DOMAIN b = 1 .. Len(b) /\ (b = <<>> <=> Len(b) = 0)
               /\ b # <<>> => settings.mode \in {"balanced", "strict"}
               /\ settings.mode = "balanced" => Len(b) <= MaxCandidates /\ Shown(b) = Range(Balanced(f))
               /\ settings.mode = "strict" => Len(b) <= StrictMaxBatches
               /\ settings.mode = "strict" /\ (WithinBudget(f) \/ b # <<>>) =>
                      /\ b # <<>>
                      /\ \A p \in DOMAIN Pages(f) : \A k \in 1 .. Len(Text(f)[p]) :
                            \E c \in Shown(b) : c.page = p /\ Text(f)[p][k] \in Range(c.quote)
<1> DEFINE b == ReviewBatches(f)
           c == Balanced(f)
           w == Windows(f)
<1>1. /\ c \in Seq(Passages) /\ Len(c) <= MaxCandidates /\ w \in Seq(Passages)
      /\ Len(c) \in Nat /\ MaxCandidates \in Nat /\ StrictMaxBatches \in Nat
  <2>1. c \in Seq(Passages) /\ Len(c) <= MaxCandidates /\ w \in Seq(Passages)
    BY BalancedIs, WindowsAre
  <2>2. Len(c) \in Nat
    <3> HIDE DEF c
    <3> QED BY <2>1
  <2> QED BY <2>1, <2>2, IntakeAssumption
<1>2. Batches(c) \in Seq(Seq(Passages)) /\ Len(Batches(c)) <= Len(c) /\ Shown(Batches(c)) = Range(c)
  <2> HIDE DEF c
  <2> QED BY <1>1, BatchesAre
<1>3. Batches(w) \in Seq(Seq(Passages)) /\ Shown(Batches(w)) = Range(w)
  <2> HIDE DEF w
  <2> QED BY <1>1, BatchesAre
<1>4. \A p \in DOMAIN Pages(f) : \A k \in 1 .. Len(Text(f)[p]) :
          \E x \in Shown(Batches(w)) : x.page = p /\ Text(f)[p][k] \in Range(x.quote)
  <2> HIDE DEF w
  <2> QED BY <1>3, WindowsAre DEF w
<1>5. Shown(Batches(w)) # {}
  <2>1. 1 \in DOMAIN Pages(f) /\ 1 \in 1 .. Len(Text(f)[1])
    <3>1. /\ Len(Pages(f)) \in Nat /\ DOMAIN Pages(f) = 1 .. Len(Pages(f)) /\ Pages(f) # <<>>
          /\ \A p \in DOMAIN Pages(f) : Len(Text(f)[p]) \in Nat \ {0}
      BY PagesAre
    <3>2. Pages(f) \in Seq(Range(Pages(f)))
      BY IntakeAssumption DEF Pages
    <3>3. Len(Pages(f)) # 0
      BY <3>1, <3>2, EmptySeq
    <3> QED BY <3>1, <3>3
  <2> QED BY <1>4, <2>1
<1>6. Batches(w) # <<>>
  <2>1. Shown(<<>>) = {}
    BY DEF Shown
  <2> QED BY <1>5, <2>1
<1>7. \A s \in Seq(Seq(Passages)) : Len(s) \in Nat /\ DOMAIN s = 1 .. Len(s) /\ (s = <<>> <=> Len(s) = 0)
  BY EmptySeq
<1> HIDE DEF c, w
<1>8. CASE settings.mode = "rules"
  <2>1. b = <<>>
    BY <1>8 DEF ReviewBatches
  <2> QED BY <1>7, <1>8, <2>1
<1>9. CASE settings.mode = "balanced"
  <2>1. b = Batches(c)
    BY <1>9 DEF ReviewBatches, c
  <2> HIDE DEF b
  <2>2. Len(b) \in Nat /\ DOMAIN b = 1 .. Len(b) /\ (b = <<>> <=> Len(b) = 0)
    BY <1>2, <1>7, <2>1
  <2>3. Len(b) <= MaxCandidates /\ Shown(b) = Range(c)
    BY <1>1, <1>2, <2>1, <2>2
  <2> QED BY <1>9, <2>2, <2>3 DEF b, c
<1>10. CASE settings.mode = "strict"
  <2>1. b = IF WithinBudget(f) THEN Batches(w) ELSE <<>>
    BY <1>10 DEF ReviewBatches, w
  <2>2. WithinBudget(f) => Len(Batches(w)) <= StrictMaxBatches
    BY DEF WithinBudget, w
  <2> HIDE DEF b
  <2>3. Len(b) \in Nat /\ DOMAIN b = 1 .. Len(b) /\ (b = <<>> <=> Len(b) = 0)
    BY <1>3, <1>7, <2>1
  <2>4. Len(b) <= StrictMaxBatches
    BY <1>1, <1>7, <2>1, <2>2, <2>3
  <2>5. WithinBudget(f) \/ b # <<>> => b = Batches(w)
    BY <2>1
  <2> QED BY <1>4, <1>6, <1>10, <2>3, <2>4, <2>5 DEF b
<1> QED BY <1>8, <1>9, <1>10

-----------------------------------------------------------------------------
(* What an evidence record holds, however its screening ended.              *)
LEMMA AppendedOnce ==
    ASSUME NEW S, NEW s \in Seq(S), IsInjective(s), NEW x \in S, x \notin Range(s)
    PROVE  /\ Append(s, x) \in Seq(S) /\ Len(Append(s, x)) = Len(s) + 1
           /\ IsInjective(Append(s, x)) /\ Last(Append(s, x)) = x
<1> DEFINE t == Append(s, x)
           n == Len(s)
<1>1. /\ n \in Nat /\ t \in Seq(S) /\ Len(t) = n + 1 /\ t[n + 1] = x
      /\ \A k \in 1 .. n : t[k] = s[k]
  BY AppendProperties
<1>2. DOMAIN t = 1 .. n + 1 /\ DOMAIN s = 1 .. n
  <2> HIDE DEF t
  <2> QED BY <1>1
<1> HIDE DEF t, n
<1>3. \A k \in 1 .. n : t[k] # x
  BY <1>1, <1>2 DEF Range
<1>4. \A a, b \in 1 .. n : t[a] = t[b] => a = b
  BY <1>1, <1>2 DEF IsInjective
<1>5. \A a \in 1 .. n + 1 : a \in 1 .. n \/ a = n + 1
  BY <1>1
<1>6. \A a, b \in 1 .. n + 1 : t[a] = t[b] => a = b
  BY <1>1, <1>3, <1>4, <1>5
<1>7. IsInjective(t) /\ Last(t) = x
  BY <1>1, <1>2, <1>6 DEF IsInjective, Last
<1> QED BY <1>1, <1>7 DEF t, n

(* Every word of every page was put before the reviewer.                    *)
Covered(f, seen) ==
    \A p \in DOMAIN Pages(f) : \A k \in 1 .. Len(Text(f)[p]) :
        \E c \in seen : c.page = p /\ Text(f)[p][k] \in Range(c.quote)

LEMMA RecordSound ==
    ASSUME settings \in [mode : {"rules", "balanced", "strict"}, ocr : BOOLEAN], DocumentsKept,
           UnderWay, upload.read = Scans(upload.file),
           NEW findings \in SUBSET Finding, IsFiniteSet(findings), NEW complete \in BOOLEAN, NEW reviewed,
           NEW heard, NEW seen,
           \A x \in heard : x \in Finding /\ \E y \in findings : SameKey(x, y) /\ Rank[y.severity] >= Rank[x.severity],
           complete => RuleFindings(upload.file) \subseteq heard,
           complete => \A x \in findings : x.severity = "critical" => x \in RuleFindings(upload.file),
           complete /\ settings.mode = "strict" => Covered(upload.file, seen),
           Record(findings, complete, reviewed, heard, seen)
    PROVE  IntakeIInv'
<1> DEFINE f == upload.file
           status == StatusOf(findings, complete)
           quotes == {x.quote : x \in findings}
<1>1. /\ f \in Files /\ Content[f].fits /\ f \notin Range(documents) /\ Len(documents) < MaxDocuments
      /\ MaxDocuments \in Nat
  BY IntakeAssumption DEF UnderWay, Admissible
<1>2. documents' = Append(documents, f) /\ settings' = settings
  BY DEF Record
<1>3. DocumentsKept' /\ Last(documents') = f
  <2>1. documents \in Seq(Files) /\ IsInjective(documents) /\ Len(documents) \in Nat
    BY DEF DocumentsKept
  <2>2. /\ Append(documents, f) \in Seq(Files) /\ Len(Append(documents, f)) = Len(documents) + 1
        /\ IsInjective(Append(documents, f)) /\ Last(Append(documents, f)) = f
    <3> HIDE DEF f
    <3> QED BY <1>1, <2>1, AppendedOnce
  <2>3. Len(documents) + 1 <= MaxDocuments
    BY <1>1, <2>1
  <2> HIDE DEF f
  <2> QED BY <1>2, <2>2, <2>3 DEF DocumentsKept
<1>4. PICK order \in LongestFirst(quotes) :
          LET safe == IF Allows(status) THEN Sanitized(f, findings, order) ELSE <<>>
          IN  upload' = [phase |-> "kept", file |-> f, status |-> status, findings |-> findings,
                         complete |-> complete, reviewed |-> reviewed, safe |-> safe,
                         references |-> References(f, safe),
                         read |-> upload.read, heard |-> heard, seen |-> seen]
  BY DEF Record
<1> DEFINE safe == IF Allows(status) THEN Sanitized(f, findings, order) ELSE <<>>
           d == upload'
<1>5. /\ d.phase = "kept" /\ d.file = f /\ d.status = status /\ d.findings = findings /\ d.complete = complete
      /\ d.safe = safe /\ d.references = References(f, safe) /\ d.read = Scans(f) /\ d.heard = heard /\ d.seen = seen
  <2> HIDE DEF f, status, safe
  <2> QED BY <1>4 DEF f, status, safe
<1> HIDE DEF f, status, d
<1>6. /\ Allows(status) => complete /\ \A x \in findings : Rank[x.severity] < Rank["high"]
      /\ complete /\ status = "blocked" => \E x \in findings : x.severity = "critical"
  BY StatusIs DEF status
<1>7. Allows(status) =>
          /\ DOMAIN safe = DOMAIN Pages(f)
          /\ \A p \in DOMAIN Pages(f) :
                /\ safe[p] \in Seq(Words)
                /\ \A x \in findings : Mask \notin Range(x.quote) => ~Occurs(x.quote, safe[p])
  BY <1>1, SanitizedIs
<1> HIDE DEF safe
<1>8. DOMAIN Pages(f) = 1 .. Len(Pages(f)) /\ Len(Pages(f)) \in Nat \ {0}
  <2>1. Len(Pages(f)) \in Nat /\ DOMAIN Pages(f) = 1 .. Len(Pages(f)) /\ Pages(f) # <<>>
    BY <1>1, PagesAre
  <2>2. Pages(f) \in Seq(Range(Pages(f)))
    BY <1>1, IntakeAssumption DEF Pages
  <2> QED BY <2>1, <2>2, EmptySeq
<1>9. Allows(status) <=> safe # <<>>
  <2>1. ASSUME Allows(status) PROVE safe # <<>>
    <3>1. 1 \in DOMAIN safe
      BY <1>7, <1>8, <2>1
    <3>2. DOMAIN <<>> = {}
      OBVIOUS
    <3> QED BY <3>1, <3>2
  <2> QED BY <2>1 DEF safe
<1>10. (upload'.phase = "kept" => (Allows(upload'.status) <=> upload'.safe # <<>>) /\ upload'.file = Last(documents'))
  BY <1>3, <1>5, <1>9 DEF d
<1>11. Evidence' = {d} /\ (Allows(status) => Usable' = {d}) /\ (~Allows(status) => Usable' = {})
  <2>1. Evidence' = {d}
    BY <1>5 DEF Evidence, d
  <2> QED BY <1>5, <2>1 DEF Usable
<1>12. UsableOnlyScreened'
  <2>1. SUFFICES ASSUME Allows(status)
        PROVE  /\ d.complete /\ d.read = Scans(d.file)
               /\ \A x \in RuleFindings(d.file) \cup d.heard : Rank[x.severity] < Rank["high"]
               /\ settings'.mode = "strict" =>
                      \A p \in DOMAIN Pages(d.file), k \in 1 .. PieceCount(d.file) :
                          k \in DOMAIN Text(d.file)[p] =>
                              \E c \in d.seen : c.page = p /\ Text(d.file)[p][k] \in Range(c.quote)
    BY <1>11 DEF UsableOnlyScreened
  <2>2. complete /\ RuleFindings(f) \subseteq heard
    BY <1>6, <2>1 DEF f
  <2>3. \A x \in heard : Rank[x.severity] < Rank["high"]
    <3>1. SUFFICES ASSUME NEW x \in heard PROVE Rank[x.severity] < Rank["high"]
      OBVIOUS
    <3>2. PICK y \in findings : Rank[y.severity] >= Rank[x.severity]
      OBVIOUS
    <3>3. Rank[y.severity] \in 0 .. 4 /\ Rank[x.severity] \in 0 .. 4 /\ Rank["high"] \in 0 .. 4
      BY RankIs DEF Finding, Severities
    <3>4. Rank[y.severity] < Rank["high"]
      BY <1>6, <2>1
    <3> QED BY <3>2, <3>3, <3>4
  <2>4. settings.mode = "strict" =>
            \A p \in DOMAIN Pages(f) : \A k \in DOMAIN Text(f)[p] :
                \E c \in seen : c.page = p /\ Text(f)[p][k] \in Range(c.quote)
    <3>1. \A p \in DOMAIN Pages(f) : DOMAIN Text(f)[p] = 1 .. Len(Text(f)[p])
      BY <1>1, PagesAre
    <3> QED BY <2>2, <3>1 DEF Covered, f
  <2> QED BY <1>2, <1>5, <2>2, <2>3, <2>4
<1>13. SafeTextClean'
  <2>1. SUFFICES ASSUME Allows(status), NEW x \in findings, Mask \notin Range(x.quote)
        PROVE  /\ \A p \in DOMAIN d.safe : ~Occurs(x.quote, d.safe[p])
               /\ \A r \in d.references : ~Occurs(x.quote, r.quote)
    BY <1>5, <1>11 DEF SafeTextClean
  <2>2. \A p \in DOMAIN safe : ~Occurs(x.quote, safe[p])
    BY <1>7, <2>1
  <2>3. \A r \in References(f, safe) : ~Occurs(x.quote, r.quote)
    <3>1. SUFFICES ASSUME NEW r \in References(f, safe), Occurs(x.quote, r.quote) PROVE FALSE
      OBVIOUS
    <3> DEFINE n == Len(Pages(f))
    <3>2. n \in Nat /\ DOMAIN safe = 1 .. n /\ \A p \in 1 .. n : safe[p] \in Seq(Words)
      BY <1>7, <1>8, <2>1
    <3>3. x.quote \in Quotable
      BY DEF Finding
    <3> HIDE DEF n
    <3>4. \E p \in 1 .. n : Occurs(x.quote, safe[p])
      BY <1>1, <3>1, <3>2, <3>3, ReferencesAre
    <3> QED BY <2>2, <3>2, <3>4
  <2> QED BY <1>5, <2>2, <2>3
<1>14. ReviewerOnlyAdds'
  <2>1. \A x \in heard : \E y \in findings : SameKey(x, y) /\ Rank[y.severity] >= Rank[x.severity]
    OBVIOUS
  <2>2. complete /\ status = "blocked" => \E x \in RuleFindings(f) : x.severity = "critical"
    BY <1>6 DEF f
  <2> QED BY <1>5, <1>11, <2>1, <2>2 DEF ReviewerOnlyAdds
<1>15. RecognizeInStep' /\ ScreenInStep' /\ ReviewInStep'
  BY <1>5 DEF RecognizeInStep, ScreenInStep, ReviewInStep, d
<1>16. upload'.phase = "kept" /\ settings' \in [mode : {"rules", "balanced", "strict"}, ocr : BOOLEAN]
  BY <1>2, <1>5 DEF d
<1> QED BY <1>3, <1>10, <1>12, <1>13, <1>14, <1>15, <1>16 DEF IntakeIInv, KeptInStep

-----------------------------------------------------------------------------
(* What an answer adds: findings of the reviewer's, none of them critical.  *)
LEMMA ReportsAre ==
    ASSUME NEW f \in Files, NEW y \in Reports(f)
    PROVE  /\ y.page \in Nat /\ y.quote \in Quotable /\ y.severity \in {"none", "medium", "critical"}
           /\ y.category \in {"override", "output"}
           /\ y = [page |-> y.page, quote |-> y.quote, severity |-> y.severity, sure |-> y.sure, category |-> y.category]
<1> DEFINE places == Positions(Text(f))
           spans == {s \in places \X (0 .. 1) : s[1][2] + s[2] <= Len(Text(f)[s[1][1]])}
           quotes == {SubSeq(Text(f)[s[1][1]], s[1][2], s[1][2] + s[2]) : s \in spans}
           last == Len(Pages(f)) + 1
<1>1. y \in [page : 1 .. last, quote : quotes, severity : {"none", "medium", "critical"},
             sure : BOOLEAN, category : {"override", "output"}]
  BY DEF Reports
<1>2. \A q \in quotes : q \in Quotable
  <2>1. SUFFICES ASSUME NEW s \in spans
                 PROVE  SubSeq(Text(f)[s[1][1]], s[1][2], s[1][2] + s[2]) \in Quotable
    OBVIOUS
  <2> DEFINE text == Text(f)[s[1][1]]
             i == s[1][2]
             j == s[1][2] + s[2]
  <2>2. s[1] \in places /\ s[2] \in 0 .. 1 /\ j <= Len(text)
    <3> HIDE DEF places
    <3> QED BY <2>1
  <2>3. text \in Seq(Words) /\ i \in 1 .. Len(text) /\ Len(text) \in Nat
    BY <2>2, PlacesAre, PagesAre
  <2>4. i \in Nat \ {0} /\ j \in i .. Len(text) /\ j \in Nat
    <3> HIDE DEF places, text
    <3> QED BY <2>2, <2>3
  <2> HIDE DEF text, i, j
  <2> DEFINE q == SubSeq(text, i, j)
  <2>5. q \in Seq(Words) /\ Len(q) = j - i + 1
    <3>1. /\ SubSeq(text, i, j) \in Seq(Words)
          /\ Len(SubSeq(text, i, j)) = IF i <= j THEN j - i + 1 ELSE 0
      BY <2>3, <2>4, SubSeqProperties
    <3> QED BY <2>4, <3>1
  <2> HIDE DEF q
  <2>6. q # <<>>
    BY <2>4, <2>5
  <2> QED BY <2>5, <2>6 DEF Quotable, q, text, i, j
<1>3. last \in Nat
  BY PagesAre
<1> HIDE DEF quotes, last
<1> QED BY <1>1, <1>2, <1>3

LEMMA AnswerAdds ==
    ASSUME UnderWay, NEW answer \in Answers
    PROVE  /\ AsFindings(answer) \in SUBSET Finding /\ IsFiniteSet(AsFindings(answer))
           /\ \A x \in AsFindings(answer) : x.severity # "critical"
<1> DEFINE f == upload.file
           batch == upload.batches[upload.next]
           capped(y) == [y EXCEPT !.severity = IF @ = "critical" THEN "high" ELSE @]
           added(y) == [page |-> y.page, last |-> 0, quote |-> y.quote, severity |-> y.severity,
                        category |-> y.category, source |-> "semantic"]
<1>1. f \in Files
  BY DEF UnderWay
<1>2. answer = {} \/ \E y \in Reports(f) : answer = Validated(f, batch, {y})
  BY DEF Answers
<1>3. CASE answer = {}
  <2>1. AsFindings(answer) = {}
    BY <1>3 DEF AsFindings
  <2> QED BY <2>1, FS_EmptySet
<1>4. ASSUME NEW y \in Reports(f), answer = Validated(f, batch, {y})
      PROVE  /\ AsFindings(answer) \in SUBSET Finding /\ IsFiniteSet(AsFindings(answer))
             /\ \A x \in AsFindings(answer) : x.severity # "critical"
  <2>1. /\ y.page \in Nat /\ y.quote \in Quotable /\ y.severity \in {"none", "medium", "critical"}
        /\ y.category \in {"override", "output"}
        /\ y = [page |-> y.page, quote |-> y.quote, severity |-> y.severity, sure |-> y.sure, category |-> y.category]
    BY <1>1, ReportsAre
  <2>2. capped(y) = [page |-> y.page, quote |-> y.quote,
                     severity |-> IF y.severity = "critical" THEN "high" ELSE y.severity,
                     sure |-> y.sure, category |-> y.category]
    BY <2>1
  <2>3. answer \subseteq {capped(y)} /\ (answer # {} => y.severity # "none")
    BY <1>4 DEF Validated
  <2> DEFINE e == added(capped(y))
  <2>4. AsFindings(answer) \subseteq {e}
    BY <2>3 DEF AsFindings
  <2>5. AsFindings(answer) # {} => y.severity # "none"
    BY <2>3 DEF AsFindings
  <2>6. /\ e.page = y.page /\ e.last = 0 /\ e.quote = y.quote /\ e.category = y.category /\ e.source = "semantic"
        /\ e.severity = (IF y.severity = "critical" THEN "high" ELSE y.severity)
        /\ e = [page |-> e.page, last |-> e.last, quote |-> e.quote, severity |-> e.severity,
                category |-> e.category, source |-> e.source]
    BY <2>2
  <2> HIDE DEF e, capped
  <2>7. e \in Finding /\ e.severity # "critical"
    BY <2>1, <2>6 DEF Finding, Severities
  <2>8. IsFiniteSet(AsFindings(answer))
    BY <2>4, FS_Singleton, FS_Subset
  <2> QED BY <2>4, <2>7, <2>8
<1> QED BY <1>2, <1>3, <1>4

(* What was heard of a review, cut down to the strongest, is recorded.      *)
LEMMA HeardIs ==
    ASSUME NEW f, NEW heard, HeardOf(f, heard)
    PROVE  /\ Deduplicated(heard) \in SUBSET Finding /\ IsFiniteSet(Deduplicated(heard))
           /\ \A x \in heard : x \in Finding /\
                  \E y \in Deduplicated(heard) : SameKey(x, y) /\ Rank[y.severity] >= Rank[x.severity]
           /\ RuleFindings(f) \subseteq heard
           /\ \A x \in Deduplicated(heard) : x.severity = "critical" => x \in RuleFindings(f)
<1>1. Deduplicated(heard) \subseteq heard
  BY DEF Deduplicated
<1>2. IsFiniteSet(Deduplicated(heard))
  BY <1>1, FS_Subset DEF HeardOf
<1>3. \A x \in heard : \E y \in Deduplicated(heard) : SameKey(x, y) /\ Rank[y.severity] >= Rank[x.severity]
  BY DeduplicatedIs DEF HeardOf
<1> QED BY <1>1, <1>2, <1>3 DEF HeardOf

LEMMA RulesHeard ==
    ASSUME NEW f \in Files
    PROVE  HeardOf(f, RuleFindings(f))
BY RuleFindingsAre DEF HeardOf

-----------------------------------------------------------------------------
(* Each action.                                                             *)
LEMMA Between ==
    ASSUME settings' = settings, settings \in [mode : {"rules", "balanced", "strict"}, ocr : BOOLEAN],
           documents' = documents, DocumentsKept, upload'.phase \in {"idle", "ocr", "scan", "review"},
           RecognizeInStep', ScreenInStep', ReviewInStep'
    PROVE  IntakeIInv'
<1>1. Evidence' = {}
  BY DEF Evidence
<1>2. Usable' = {}
  BY <1>1 DEF Usable
<1>3. KeptInStep'
  BY <1>1, <1>2 DEF KeptInStep, UsableOnlyScreened, SafeTextClean, ReviewerOnlyAdds
<1>4. DocumentsKept'
  BY DEF DocumentsKept
<1> QED BY <1>3, <1>4 DEF IntakeIInv

LEMMA StartsKept == IntakeInit => IntakeIInv
<1> SUFFICES ASSUME IntakeInit PROVE IntakeIInv
  OBVIOUS
<1>1. documents = <<>> /\ upload.phase = "idle"
  BY DEF IntakeInit, NoUpload
<1>2. DocumentsKept
  <2>1. MaxDocuments \in Nat
    BY IntakeAssumption
  <2>2. documents \in Seq(Files) /\ Len(documents) = 0 /\ DOMAIN documents = {}
    BY <1>1
  <2> QED BY <2>1, <2>2 DEF DocumentsKept, IsInjective
<1>3. Evidence = {} /\ Usable = {}
  BY <1>1 DEF Evidence, Usable
<1>4. KeptInStep
  BY <1>1, <1>3 DEF KeptInStep, UsableOnlyScreened, SafeTextClean, ReviewerOnlyAdds
<1>5. RecognizeInStep /\ ScreenInStep /\ ReviewInStep
  BY <1>1 DEF RecognizeInStep, ScreenInStep, ReviewInStep
<1> QED BY <1>1, <1>2, <1>4, <1>5 DEF IntakeIInv, IntakeInit

LEMMA OfferKeeps ==
    ASSUME IntakeIInv, NEW f \in Files, TurnAway(f) \/ Offer(f)
    PROVE  IntakeIInv'
<1>1. /\ settings' = settings /\ documents' = documents /\ DocumentsKept
      /\ settings \in [mode : {"rules", "balanced", "strict"}, ocr : BOOLEAN]
  BY DEF TurnAway, Offer, IntakeIInv
<1>2. upload' = NoUpload => IntakeIInv'
  <2>1. upload' = NoUpload => upload'.phase = "idle"
    BY DEF NoUpload
  <2>2. upload' = NoUpload => RecognizeInStep' /\ ScreenInStep' /\ ReviewInStep'
    BY <2>1 DEF RecognizeInStep, ScreenInStep, ReviewInStep
  <2> QED BY <1>1, <2>1, <2>2, Between
<1>3. CASE Offer(f) /\ upload' = [NoUpload EXCEPT !.phase = "scan", !.file = f] /\ Scans(f) = {}
  <2>1. /\ upload'.phase = "scan" /\ upload'.file = f /\ upload'.read = {} /\ upload'.calls = 0 /\ Shaped(upload')
    BY <1>3 DEF NoUpload, Shaped
  <2>2. UnderWay'
    BY <1>1, <1>3, <2>1 DEF UnderWay, Admissible, Offer, Shaped
  <2>3. ScreenInStep' /\ RecognizeInStep' /\ ReviewInStep'
    BY <1>3, <2>1, <2>2 DEF ScreenInStep, RecognizeInStep, ReviewInStep
  <2> QED BY <1>1, <2>1, <2>3, Between
<1>4. CASE Offer(f) /\ upload' = [NoUpload EXCEPT !.phase = "ocr", !.file = f, !.scans = Scans(f)] /\ Scans(f) # {}
  <2>1. /\ upload'.phase = "ocr" /\ upload'.file = f /\ upload'.scans = Scans(f) /\ upload'.calls = 0 /\ Shaped(upload')
    BY <1>4 DEF NoUpload, Shaped
  <2>2. UnderWay'
    BY <1>1, <1>4, <2>1 DEF UnderWay, Admissible, Offer, Shaped
  <2>3. ScreenInStep' /\ RecognizeInStep' /\ ReviewInStep'
    BY <1>4, <2>1, <2>2 DEF ScreenInStep, RecognizeInStep, ReviewInStep
  <2> QED BY <1>1, <2>1, <2>3, Between
<1>5. TurnAway(f) => upload' = NoUpload
  BY DEF TurnAway
<1> QED BY <1>2, <1>3, <1>4, <1>5 DEF Offer

LEMMA RecognizeKeeps ==
    ASSUME IntakeIInv, NEW readable \in BOOLEAN, Recognize(readable)
    PROVE  IntakeIInv'
<1> DEFINE page == Min(upload.scans)
           read == upload.read \cup (IF readable THEN {page} ELSE {})
<1>1. /\ settings' = settings /\ documents' = documents /\ DocumentsKept
      /\ settings \in [mode : {"rules", "balanced", "strict"}, ocr : BOOLEAN]
      /\ upload.phase = "ocr" /\ UnderWay /\ upload.scans # {} /\ upload.calls = 0
  BY DEF Recognize, IntakeIInv, RecognizeInStep
<1>2. upload' = IF upload.scans # {page}
                THEN [upload EXCEPT !.scans = @ \ {page}, !.read = read]
                ELSE IF TextAvailable(read)
                     THEN [upload EXCEPT !.phase = "scan", !.scans = {}, !.read = read]
                     ELSE NoUpload
  BY DEF Recognize
<1> HIDE DEF page, read
<1>3. upload = [phase |-> upload.phase, file |-> upload.file, scans |-> upload.scans, read |-> upload.read,
                findings |-> upload.findings, batches |-> upload.batches, next |-> upload.next,
                attempt |-> upload.attempt, heard |-> upload.heard, calls |-> upload.calls]
  BY <1>1 DEF UnderWay, Shaped
<1>4. CASE upload.scans # {page}
  <2>1. /\ upload'.phase = "ocr" /\ upload'.file = upload.file /\ upload'.scans = upload.scans \ {page} /\ Shaped(upload')
        /\ upload'.calls = upload.calls
    BY <1>1, <1>2, <1>3, <1>4 DEF Shaped
  <2>2. UnderWay'
    BY <1>1, <2>1 DEF UnderWay, Admissible, Shaped
  <2>3. upload'.scans # {}
    BY <1>1, <1>4, <2>1
  <2>4. ScreenInStep' /\ RecognizeInStep' /\ ReviewInStep'
    BY <1>1, <2>1, <2>2, <2>3 DEF ScreenInStep, RecognizeInStep, ReviewInStep
  <2> QED BY <1>1, <2>1, <2>4, Between
<1>5. CASE upload.scans = {page} /\ TextAvailable(read)
  <2>1. /\ upload'.phase = "scan" /\ upload'.file = upload.file /\ upload'.read = read /\ Shaped(upload')
        /\ upload'.calls = upload.calls
    BY <1>1, <1>2, <1>3, <1>5 DEF Shaped
  <2>2. UnderWay'
    BY <1>1, <2>1 DEF UnderWay, Admissible, Shaped
  <2>3. upload'.read = Scans(upload'.file)
    BY <1>5, <2>1 DEF TextAvailable
  <2>4. upload'.calls = 0
    BY <1>1, <2>1
  <2>5. ScreenInStep' /\ RecognizeInStep' /\ ReviewInStep'
    BY <2>1, <2>2, <2>3, <2>4 DEF ScreenInStep, RecognizeInStep, ReviewInStep
  <2> QED BY <1>1, <2>1, <2>5, Between
<1>6. CASE upload.scans = {page} /\ ~TextAvailable(read)
  <2>1. upload' = NoUpload
    BY <1>2, <1>6
  <2>2. upload'.phase = "idle"
    BY <2>1 DEF NoUpload
  <2>3. RecognizeInStep' /\ ScreenInStep' /\ ReviewInStep'
    BY <2>2 DEF RecognizeInStep, ScreenInStep, ReviewInStep
  <2> QED BY <1>1, <2>2, <2>3, Between
<1> QED BY <1>4, <1>5, <1>6

LEMMA SameBatches ==
    ASSUME settings' = settings, upload'.file = upload.file, settings.mode \in {"rules", "balanced", "strict"}
    PROVE  ReviewBatches(upload.file)' = ReviewBatches(upload.file)
<1>1. CASE settings.mode = "rules"
  BY <1>1 DEF ReviewBatches
<1>2. CASE settings.mode = "balanced"
  BY <1>2 DEF ReviewBatches
<1>3. CASE settings.mode = "strict"
  BY <1>3 DEF ReviewBatches
<1> QED BY <1>1, <1>2, <1>3

LEMMA ScreenKeeps ==
    ASSUME IntakeIInv, Screen \/ ScreenBreaks
    PROVE  IntakeIInv'
<1> DEFINE f == upload.file
           findings == RuleFindings(f)
           batches == ReviewBatches(f)
           complete == settings.mode = "strict" => WithinBudget(f)
           done == complete /\ settings.mode = "strict"
<1>1. /\ upload.phase = "scan" /\ UnderWay /\ upload.read = Scans(f) /\ upload.calls = 0 /\ DocumentsKept
      /\ settings \in [mode : {"rules", "balanced", "strict"}, ocr : BOOLEAN]
      /\ f \in Files /\ Content[f].fits
  BY DEF Screen, ScreenBreaks, IntakeIInv, ScreenInStep, UnderWay, Admissible
<1>2. HeardOf(f, findings)
  BY <1>1, RulesHeard
<1>3. /\ Len(batches) \in Nat /\ DOMAIN batches = 1 .. Len(batches) /\ (batches = <<>> <=> Len(batches) = 0)
      /\ settings.mode = "strict" /\ WithinBudget(f) => batches # <<>>
  <2>1. settings.mode \in {"rules", "balanced", "strict"}
    BY <1>1
  <2> HIDE DEF f
  <2> QED BY <1>1, <2>1, ReviewedIs
<1>4. CASE ScreenBreaks
  <2> DEFINE none == {}
             no == FALSE
  <2>1. Record(none, no, no, none, none)
    BY <1>4 DEF ScreenBreaks
  <2>2. none \in SUBSET Finding /\ IsFiniteSet(none) /\ no \in BOOLEAN /\ ~no
    BY FS_EmptySet
  <2>3. \A x \in none : x \in Finding /\ \E y \in none : SameKey(x, y) /\ Rank[y.severity] >= Rank[x.severity]
    OBVIOUS
  <2> HIDE DEF none, no
  <2> QED BY <1>1, <2>1, <2>2, <2>3, RecordSound
<1>5. CASE Screen /\ batches = <<>>
  <2>1. Record(findings, complete, done, findings, {})
    BY <1>5 DEF Screen
  <2>2. complete \in BOOLEAN
    BY DEF WithinBudget
  <2>3. ~done
    BY <1>3, <1>5
  <2>4. /\ findings \in SUBSET Finding /\ IsFiniteSet(findings)
        /\ \A x \in findings : x \in Finding /\ Rank[x.severity] >= Rank[x.severity] /\ SameKey(x, x)
    <3>1. findings \in SUBSET Finding /\ IsFiniteSet(findings)
      BY <1>2 DEF HeardOf
    <3> HIDE DEF findings
    <3> QED BY <3>1, RankIs DEF Finding, SameKey
  <2>5. \A x \in findings : x \in Finding /\ \E y \in findings : SameKey(x, y) /\ Rank[y.severity] >= Rank[x.severity]
    BY <2>4
  <2>6. done => Covered(f, {})
    BY <2>3
  <2>7. complete => findings \subseteq findings
    OBVIOUS
  <2>8. complete => \A x \in findings : x.severity = "critical" => x \in findings
    OBVIOUS
  <2> HIDE DEF complete, findings
  <2> QED BY <1>1, <2>1, <2>2, <2>4, <2>5, <2>6, <2>7, <2>8, RecordSound DEF findings
<1>6. CASE Screen /\ batches # <<>>
  <2>1. /\ upload' = [upload EXCEPT !.phase = "review", !.findings = findings, !.batches = batches,
                                    !.next = 1, !.attempt = 1, !.heard = findings]
        /\ settings' = settings /\ documents' = documents
    BY <1>6 DEF Screen
  <2>2. upload = [phase |-> upload.phase, file |-> upload.file, scans |-> upload.scans, read |-> upload.read,
                  findings |-> upload.findings, batches |-> upload.batches, next |-> upload.next,
                  attempt |-> upload.attempt, heard |-> upload.heard, calls |-> upload.calls]
    BY <1>1 DEF UnderWay, Shaped
  <2> HIDE DEF findings, batches
  <2>3. /\ upload'.phase = "review" /\ upload'.file = upload.file /\ upload'.read = upload.read
        /\ upload'.batches = batches /\ upload'.next = 1 /\ upload'.attempt = 1
        /\ upload'.heard = findings /\ upload'.calls = upload.calls /\ Shaped(upload')
    BY <2>1, <2>2 DEF Shaped
  <2>4. UnderWay'
    BY <1>1, <2>1, <2>3 DEF UnderWay, Admissible
  <2>5. upload'.batches = ReviewBatches(upload.file)' /\ 1 \in 1 .. Len(upload'.batches)
    <3>1. ReviewBatches(upload.file)' = ReviewBatches(upload.file)
      BY <1>1, <2>1, <2>3, SameBatches
    <3>2. 1 \in 1 .. Len(batches)
      BY <1>3, <1>6
    <3> QED BY <2>3, <3>1, <3>2 DEF batches
  <2>6. MaxAttempts \in Nat \ {0}
    BY IntakeAssumption
  <2>7. /\ upload'.calls \in Nat /\ upload'.attempt \in 1 .. MaxAttempts
        /\ upload'.calls <= MaxAttempts * (upload'.next - 1) + upload'.attempt - 1
    BY <1>1, <2>3, <2>6
  <2>8. HeardOf(upload'.file, upload'.heard)
    BY <1>2, <2>3
  <2>9. upload'.read = Scans(upload'.file)
    BY <1>1, <2>3
  <2>10. ReviewInStep'
    BY <2>3, <2>4, <2>5, <2>7, <2>8, <2>9 DEF ReviewInStep
  <2>11. RecognizeInStep' /\ ScreenInStep'
    BY <2>3 DEF RecognizeInStep, ScreenInStep
  <2> QED BY <1>1, <2>1, <2>3, <2>10, <2>11, Between
<1> QED BY <1>4, <1>5, <1>6

(* What all the steps of a review rest on.                                  *)
LEMMA InReview ==
    ASSUME IntakeIInv, upload.phase = "review"
    PROVE  /\ settings \in [mode : {"rules", "balanced", "strict"}, ocr : BOOLEAN] /\ DocumentsKept
           /\ UnderWay /\ upload.read = Scans(upload.file) /\ upload.file \in Files
           /\ upload.next \in 1 .. Len(upload.batches) /\ Len(upload.batches) \in Nat /\ upload.next \in Nat \ {0}
           /\ upload.attempt \in 1 .. MaxAttempts /\ MaxAttempts \in Nat \ {0} /\ upload.attempt \in Nat \ {0}
           /\ HeardOf(upload.file, upload.heard)
           /\ upload.calls \in Nat /\ upload.calls <= MaxAttempts * (upload.next - 1) + upload.attempt - 1
           /\ upload.batches = ReviewBatches(upload.file)
           /\ settings.mode \in {"balanced", "strict"}
           /\ settings.mode = "balanced" => Len(upload.batches) <= MaxCandidates
                                            /\ Seen(Len(upload.batches)) = Range(Balanced(upload.file))
           /\ settings.mode = "strict" => Len(upload.batches) <= StrictMaxBatches
                                          /\ Covered(upload.file, Seen(Len(upload.batches)))
<1> DEFINE f == upload.file
           b == ReviewBatches(f)
<1>1. /\ settings \in [mode : {"rules", "balanced", "strict"}, ocr : BOOLEAN] /\ DocumentsKept
      /\ UnderWay /\ upload.read = Scans(f) /\ f \in Files /\ Content[f].fits
      /\ upload.batches = b /\ upload.next \in 1 .. Len(b)
      /\ upload.attempt \in 1 .. MaxAttempts /\ HeardOf(f, upload.heard)
      /\ upload.calls \in Nat /\ upload.calls <= MaxAttempts * (upload.next - 1) + upload.attempt - 1
  BY DEF IntakeIInv, ReviewInStep, UnderWay, Admissible
<1>2. MaxAttempts \in Nat \ {0}
  BY IntakeAssumption
<1>3. /\ Len(b) \in Nat /\ (b = <<>> <=> Len(b) = 0)
      /\ b # <<>> => settings.mode \in {"balanced", "strict"}
      /\ settings.mode = "balanced" => Len(b) <= MaxCandidates /\ Shown(b) = Range(Balanced(f))
      /\ settings.mode = "strict" => Len(b) <= StrictMaxBatches
      /\ settings.mode = "strict" /\ b # <<>> => Covered(f, Shown(b))
  <2>1. settings.mode \in {"rules", "balanced", "strict"}
    BY <1>1
  <2> HIDE DEF f
  <2> QED BY <1>1, <2>1, ReviewedIs DEF Covered
<1>4. Seen(Len(upload.batches)) = Shown(b)
  BY <1>1 DEF Seen, Shown
<1> HIDE DEF b
<1>5. b # <<>> /\ upload.next \in Nat \ {0} /\ upload.attempt \in Nat \ {0}
  BY <1>1, <1>2, <1>3
<1> QED BY <1>1, <1>2, <1>3, <1>4, <1>5 DEF b

(* A step that leaves the review where it is, or takes it to its next batch. *)
LEMMA ReviewGoesOn ==
    ASSUME IntakeIInv, upload.phase = "review", NEW heard, HeardOf(upload.file, heard), NEW next, NEW attempt,
           next \in 1 .. Len(upload.batches), attempt \in 1 .. MaxAttempts,
           upload.calls + 1 <= MaxAttempts * (next - 1) + attempt - 1,
           upload' = [upload EXCEPT !.next = next, !.attempt = attempt, !.heard = heard, !.calls = @ + 1],
           settings' = settings, documents' = documents
    PROVE  IntakeIInv'
<1>1. /\ settings \in [mode : {"rules", "balanced", "strict"}, ocr : BOOLEAN] /\ DocumentsKept
      /\ UnderWay /\ upload.read = Scans(upload.file) /\ upload.batches = ReviewBatches(upload.file)
      /\ upload.calls \in Nat
  BY InReview
<1>2. upload = [phase |-> upload.phase, file |-> upload.file, scans |-> upload.scans, read |-> upload.read,
                findings |-> upload.findings, batches |-> upload.batches, next |-> upload.next,
                attempt |-> upload.attempt, heard |-> upload.heard, calls |-> upload.calls]
  BY <1>1 DEF UnderWay, Shaped
<1>3. /\ upload'.phase = "review" /\ upload'.file = upload.file /\ upload'.read = upload.read
      /\ upload'.batches = upload.batches /\ upload'.next = next /\ upload'.attempt = attempt
      /\ upload'.heard = heard /\ upload'.calls = upload.calls + 1 /\ Shaped(upload')
  BY <1>2 DEF Shaped
<1>4. UnderWay'
  BY <1>1, <1>3 DEF UnderWay, Admissible
<1>5. ReviewBatches(upload.file)' = ReviewBatches(upload.file)
  BY <1>1, <1>3, SameBatches
<1>6. /\ upload'.read = Scans(upload'.file) /\ upload'.batches = ReviewBatches(upload.file)'
      /\ upload'.next \in 1 .. Len(upload'.batches) /\ upload'.attempt \in 1 .. MaxAttempts
      /\ HeardOf(upload'.file, upload'.heard) /\ upload'.calls \in Nat
      /\ upload'.calls <= MaxAttempts * (upload'.next - 1) + upload'.attempt - 1
  BY <1>1, <1>3, <1>5
<1>7. ReviewInStep'
  BY <1>3, <1>4, <1>6 DEF ReviewInStep
<1>8. RecognizeInStep' /\ ScreenInStep'
  BY <1>3 DEF RecognizeInStep, ScreenInStep
<1> QED BY <1>1, <1>3, <1>7, <1>8, Between

LEMMA RetryKeeps ==
    ASSUME IntakeIInv, Retry
    PROVE  IntakeIInv'
<1>1. /\ upload.phase = "review" /\ upload.attempt < MaxAttempts
      /\ upload' = [upload EXCEPT !.attempt = @ + 1, !.calls = @ + 1]
      /\ settings' = settings /\ documents' = documents
  BY DEF Retry, MayRetry
<1>2. /\ UnderWay /\ upload.next \in 1 .. Len(upload.batches) /\ upload.next \in Nat \ {0}
      /\ upload.attempt \in 1 .. MaxAttempts /\ MaxAttempts \in Nat \ {0} /\ HeardOf(upload.file, upload.heard)
      /\ upload.calls \in Nat /\ upload.calls <= MaxAttempts * (upload.next - 1) + upload.attempt - 1
  BY <1>1, InReview
<1>3. upload = [phase |-> upload.phase, file |-> upload.file, scans |-> upload.scans, read |-> upload.read,
                findings |-> upload.findings, batches |-> upload.batches, next |-> upload.next,
                attempt |-> upload.attempt, heard |-> upload.heard, calls |-> upload.calls]
  BY <1>2 DEF UnderWay, Shaped
<1> DEFINE next == upload.next
           attempt == upload.attempt + 1
           heard == upload.heard
           before == MaxAttempts * (next - 1)
<1>4. upload' = [upload EXCEPT !.next = next, !.attempt = attempt, !.heard = heard, !.calls = @ + 1]
  BY <1>1, <1>3
<1>5. before \in Int
  BY <1>2
<1>6. upload.calls <= before + upload.attempt - 1
  BY <1>2
<1> HIDE DEF before
<1>7. attempt \in 1 .. MaxAttempts /\ upload.calls + 1 <= before + attempt - 1
  BY <1>1, <1>2, <1>5, <1>6, SMTT(40)
<1>8. upload.calls + 1 <= MaxAttempts * (next - 1) + attempt - 1
  BY <1>7 DEF before
<1> HIDE DEF next, attempt, heard
<1>9. next \in 1 .. Len(upload.batches) /\ HeardOf(upload.file, heard)
  BY <1>2 DEF next, heard
<1> QED BY <1>1, <1>4, <1>7, <1>8, <1>9, ReviewGoesOn

LEMMA NextBatch ==
    ASSUME NEW n \in Nat \ {0}, NEW a \in Nat, NEW m \in Nat, NEW c \in Nat, a <= m, c <= m * (n - 1) + a - 1
    PROVE  c + 1 <= m * n + 1 - 1 /\ c < m * n
<1>1. m * n = m * (n - 1) + m
  OBVIOUS
<1> QED BY <1>1

LEMMA AnsweredKeeps ==
    ASSUME IntakeIInv, upload.phase = "review", NEW answer \in Answers, Answered(answer)
    PROVE  IntakeIInv'
<1> DEFINE f == upload.file
           heard == upload.heard \cup AsFindings(answer)
<1>1. /\ settings \in [mode : {"rules", "balanced", "strict"}, ocr : BOOLEAN] /\ DocumentsKept
      /\ UnderWay /\ upload.read = Scans(f)
      /\ upload.next \in 1 .. Len(upload.batches) /\ upload.next \in Nat \ {0} /\ Len(upload.batches) \in Nat
      /\ upload.attempt \in 1 .. MaxAttempts /\ MaxAttempts \in Nat \ {0} /\ upload.attempt \in Nat \ {0}
      /\ HeardOf(f, upload.heard)
      /\ upload.calls \in Nat /\ upload.calls <= MaxAttempts * (upload.next - 1) + upload.attempt - 1
      /\ settings.mode = "strict" => Covered(f, Seen(Len(upload.batches)))
  BY InReview
<1>2. HeardOf(f, heard)
  <2>1. /\ AsFindings(answer) \in SUBSET Finding /\ IsFiniteSet(AsFindings(answer))
        /\ \A x \in AsFindings(answer) : x.severity # "critical"
    BY <1>1, AnswerAdds
  <2>2. IsFiniteSet(heard)
    BY <1>1, <2>1, FS_Union DEF HeardOf
  <2> HIDE DEF f
  <2> QED BY <1>1, <2>1, <2>2 DEF HeardOf
<1>3. CASE upload.next = Len(upload.batches)
  <2> DEFINE findings == Deduplicated(heard)
             seen == Seen(upload.next)
  <2>1. Record(findings, TRUE, TRUE, heard, seen)
    BY <1>3 DEF Answered
  <2> HIDE DEF f, heard
  <2>2. /\ findings \in SUBSET Finding /\ IsFiniteSet(findings)
        /\ \A x \in heard : x \in Finding /\ \E y \in findings : SameKey(x, y) /\ Rank[y.severity] >= Rank[x.severity]
        /\ RuleFindings(f) \subseteq heard
        /\ \A x \in findings : x.severity = "critical" => x \in RuleFindings(f)
    BY <1>2, HeardIs
  <2>3. settings.mode = "strict" => Covered(f, seen)
    BY <1>1, <1>3
  <2>4. TRUE \in BOOLEAN
    OBVIOUS
  <2> HIDE DEF findings, seen
  <2> QED BY <1>1, <2>1, <2>2, <2>3, <2>4, RecordSound DEF f
<1>4. CASE upload.next # Len(upload.batches)
  <2>1. /\ upload' = [upload EXCEPT !.next = @ + 1, !.attempt = 1, !.heard = heard, !.calls = @ + 1]
        /\ settings' = settings /\ documents' = documents
    BY <1>4 DEF Answered
  <2> DEFINE next == upload.next + 1
  <2>2. upload' = [upload EXCEPT !.next = next, !.attempt = 1, !.heard = heard, !.calls = @ + 1]
    BY <2>1
  <2>3. next \in 1 .. Len(upload.batches) /\ 1 \in 1 .. MaxAttempts /\ next - 1 = upload.next
    BY <1>1, <1>4
  <2>4. upload.calls + 1 <= MaxAttempts * upload.next + 1 - 1
    <3>1. upload.attempt <= MaxAttempts /\ MaxAttempts \in Nat /\ upload.attempt \in Nat
      BY <1>1
    <3> QED BY <1>1, <3>1, NextBatch
  <2>5. upload.calls + 1 <= MaxAttempts * (next - 1) + 1 - 1
    BY <2>3, <2>4
  <2> HIDE DEF next, heard
  <2> QED BY <1>2, <2>1, <2>2, <2>3, <2>5, ReviewGoesOn
<1> QED BY <1>3, <1>4

LEMMA ReviewFailsKeeps ==
    ASSUME IntakeIInv, ReviewFails
    PROVE  IntakeIInv'
<1> DEFINE f == upload.file
           heard == upload.heard
           findings == Deduplicated(heard)
           complete == settings.mode # "strict"
           seen == Seen(upload.next - 1)
<1>1. upload.phase = "review" /\ Record(findings, complete, FALSE, heard, seen)
  BY DEF ReviewFails, Kept, CompleteWithoutReview
<1>2. /\ settings \in [mode : {"rules", "balanced", "strict"}, ocr : BOOLEAN] /\ DocumentsKept
      /\ UnderWay /\ upload.read = Scans(f) /\ HeardOf(f, heard)
  BY <1>1, InReview
<1>3. /\ findings \in SUBSET Finding /\ IsFiniteSet(findings)
      /\ \A x \in heard : x \in Finding /\ \E y \in findings : SameKey(x, y) /\ Rank[y.severity] >= Rank[x.severity]
      /\ RuleFindings(f) \subseteq heard
      /\ \A x \in findings : x.severity = "critical" => x \in RuleFindings(f)
  <2> HIDE DEF f, heard
  <2> QED BY <1>2, HeardIs
<1>4. complete \in BOOLEAN /\ ~(complete /\ settings.mode = "strict")
  OBVIOUS
<1> HIDE DEF findings, seen, complete, heard
<1> QED BY <1>1, <1>2, <1>3, <1>4, RecordSound

LEMMA IntakeStepKeeps == IntakeIInv /\ [IntakeNext]_intakeVars => IntakeIInv'
<1> SUFFICES ASSUME IntakeIInv, [IntakeNext]_intakeVars PROVE IntakeIInv'
  OBVIOUS
<1>1. ASSUME NEW f \in Files, TurnAway(f) \/ Offer(f) PROVE IntakeIInv'
  BY <1>1, OfferKeeps
<1>2. ASSUME NEW readable \in BOOLEAN, Recognize(readable) PROVE IntakeIInv'
  BY <1>2, RecognizeKeeps
<1>3. ASSUME Screen \/ ScreenBreaks PROVE IntakeIInv'
  BY <1>3, ScreenKeeps
<1>4. ASSUME Retry PROVE IntakeIInv'
  BY <1>4, RetryKeeps
<1>5. ASSUME ReviewFails PROVE IntakeIInv'
  BY <1>5, ReviewFailsKeeps
<1>6. ASSUME upload.phase = "review", NEW answer \in Answers, Answered(answer) PROVE IntakeIInv'
  BY <1>6, AnsweredKeeps
<1>7. ASSUME UNCHANGED intakeVars PROVE IntakeIInv'
  BY <1>7 DEF intakeVars, IntakeIInv, DocumentsKept, RecognizeInStep, ScreenInStep, ReviewInStep, KeptInStep,
              UnderWay, Admissible, ReviewBatches, UsableOnlyScreened, SafeTextClean, ReviewerOnlyAdds,
              Usable, Evidence
<1> QED BY <1>1, <1>2, <1>3, <1>4, <1>5, <1>6, <1>7 DEF IntakeNext

-----------------------------------------------------------------------------
(* The theorems.                                                            *)

(* The invariant holds of every upload, with any files, pages, modes and    *)
(* budgets, however OCR and the reviewer fail.                              *)
THEOREM IntakeInductive == IntakeSpec => []IntakeIInv
<1>1. IntakeInit => IntakeIInv
  BY StartsKept
<1>2. IntakeIInv /\ [IntakeNext]_intakeVars => IntakeIInv'
  BY IntakeStepKeeps
<1> QED BY <1>1, <1>2, PTL DEF IntakeSpec

LEMMA CallsAreBounded == IntakeIInv => CallsBounded
<1> SUFFICES ASSUME IntakeIInv, upload.phase = "review"
             PROVE  upload.calls < MaxAttempts * (IF settings.mode = "strict" THEN StrictMaxBatches ELSE MaxCandidates)
  BY DEF CallsBounded
<1> DEFINE most == IF settings.mode = "strict" THEN StrictMaxBatches ELSE MaxCandidates
           next == upload.next
           calls == upload.calls
           n == Len(upload.batches)
<1>1. /\ next \in 1 .. n /\ n \in Nat /\ next \in Nat \ {0}
      /\ upload.attempt \in 1 .. MaxAttempts /\ MaxAttempts \in Nat \ {0} /\ upload.attempt \in Nat \ {0}
      /\ calls \in Nat /\ calls <= MaxAttempts * (next - 1) + upload.attempt - 1
      /\ settings.mode \in {"balanced", "strict"}
      /\ settings.mode = "balanced" => n <= MaxCandidates
      /\ settings.mode = "strict" => n <= StrictMaxBatches
  BY InReview
<1>2. calls < MaxAttempts * next
  <2>1. upload.attempt <= MaxAttempts /\ MaxAttempts \in Nat /\ upload.attempt \in Nat
    BY <1>1
  <2> HIDE DEF calls, next
  <2> QED BY <1>1, <2>1, NextBatch
<1>3. most \in Nat /\ next <= most
  <2>1. MaxCandidates \in Nat /\ StrictMaxBatches \in Nat
    BY IntakeAssumption
  <2>2. n <= most
    BY <1>1
  <2> HIDE DEF n, next
  <2>3. most \in Nat
    BY <2>1
  <2> HIDE DEF most
  <2> QED BY <1>1, <2>2, <2>3
<1> HIDE DEF most, next, calls
<1>4. ASSUME NEW a \in Nat, NEW b \in Nat, NEW m \in Nat, a <= b PROVE m * a <= m * b
  <2>1. m * (b - a) >= 0
    BY <1>4
  <2>2. m * b = m * a + m * (b - a)
    BY <1>4
  <2>3. m * a \in Int /\ m * b \in Int /\ m * (b - a) \in Int
    BY <1>4
  <2> QED BY <2>1, <2>2, <2>3
<1>5. MaxAttempts * next <= MaxAttempts * most
  BY <1>1, <1>3, <1>4
<1>6. MaxAttempts * next \in Int /\ MaxAttempts * most \in Int /\ calls \in Int
  BY <1>1, <1>3
<1>7. calls < MaxAttempts * most
  BY <1>2, <1>5, <1>6
<1> QED BY <1>7 DEF most, calls

(* Text comes into use only when its file was read to the last page and     *)
(* screened to the end, with nothing strong found; it quotes nothing        *)
(* flagged; and the screening kept to its budget of calls.                  *)
THEOREM UsableIsSound == IntakeSpec => []UsableSound
<1>1. IntakeIInv => UsableSound
  <2> SUFFICES ASSUME IntakeIInv PROVE UsableSound
    OBVIOUS
  <2>1. CallsBounded
    BY CallsAreBounded
  <2>2. upload.phase = "review" => upload.next \in DOMAIN upload.batches
    <3>1. SUFFICES ASSUME upload.phase = "review" PROVE upload.next \in DOMAIN upload.batches
      OBVIOUS
    <3>2. upload.file \in Files /\ Content[upload.file].fits /\ settings.mode \in {"balanced", "strict"}
          /\ upload.batches = ReviewBatches(upload.file) /\ upload.next \in 1 .. Len(upload.batches)
      BY <3>1, InReview DEF UnderWay, Admissible
    <3>3. DOMAIN ReviewBatches(upload.file) = 1 .. Len(ReviewBatches(upload.file))
      BY <3>2, ReviewedIs
    <3> QED BY <3>2, <3>3
  <2>3. IntakeTypeOK
    BY <2>2 DEF IntakeTypeOK, IntakeIInv, DocumentsKept, RecognizeInStep, KeptInStep
  <2> QED BY <2>1, <2>3 DEF UsableSound, IntakeIInv, KeptInStep
<1> QED BY <1>1, IntakeInductive, PTL

(* The reviewer takes nothing away: what was heard before it failed is in   *)
(* the assessment as strong or stronger, and it blocks nothing by itself.   *)
THEOREM ReviewerAdds == IntakeSpec => []ReviewerOnlyAdds
<1>1. IntakeIInv => ReviewerOnlyAdds
  BY DEF IntakeIInv, KeptInStep
<1> QED BY <1>1, IntakeInductive, PTL

(* In the bounded review no page crowds out another, whatever the pages     *)
(* hold and however many there are.                                         *)
THEOREM PagesAreHeard == IntakeSpec => []EveryPageHeard
<1>1. IntakeIInv => EveryPageHeard
  <2> SUFFICES ASSUME IntakeIInv, upload.phase = "review", settings.mode = "balanced"
               PROVE  EveryPageHeard
    BY DEF EveryPageHeard
  <2> DEFINE f == upload.file
             shown == Seen(Len(upload.batches))
             ruled == {Passage(x.page, x.quote) : x \in RuleFindings(f)}
  <2>1. f \in Files /\ shown = Range(Balanced(f))
    BY InReview
  <2> HIDE DEF f, shown
  <2>2. ASSUME NEW p \in DOMAIN Pages(f), NEW q \in DOMAIN Pages(f),
               NEW i \in DOMAIN FocusPassages(f, p), NEW j \in DOMAIN FocusPassages(f, q),
               FocusPassages(f, p)[i] \notin shown, FocusPassages(f, q)[j] \in shown \ ruled,
               \A k \in 1 .. j - 1 : FocusPassages(f, q)[k] # FocusPassages(f, q)[j]
        PROVE  j <= i
    BY <2>1, <2>2, Fair
  <2> QED BY <2>2 DEF EveryPageHeard, f, shown
<1> QED BY <1>1, IntakeInductive, PTL

(* The least and the greatest of finitely many numbers.                     *)
LEMMA MinIs ==
    ASSUME NEW T \in SUBSET Nat, T # {}
    PROVE  Min(T) \in T /\ \A y \in T : Min(T) <= y
<1>1. PICK m \in T : \A y \in T : m <= y
  BY Least
<1> QED BY <1>1 DEF Min

LEMMA MaxIs ==
    ASSUME NEW T \in SUBSET Nat, IsFiniteSet(T), T # {}
    PROVE  Max(T) \in T /\ \A y \in T : y <= Max(T)
<1> DEFINE n == Cardinality(T)
<1>1. /\ n \in Nat /\ Listed(T) \in [1 .. n -> T]
      /\ \A x \in T : \E k \in 1 .. n : Listed(T)[k] = x
      /\ \A i, j \in 1 .. n : i < j => Listed(T)[i] < Listed(T)[j]
  BY ListedIs
<1> HIDE DEF n
<1>2. n \in 1 .. n
  <2>1. PICK x \in T : TRUE
    OBVIOUS
  <2>2. PICK k \in 1 .. n : Listed(T)[k] = x
    BY <1>1, <2>1
  <2> QED BY <1>1, <2>2
<1>3. Listed(T)[n] \in T
  BY <1>1, <1>2
<1>4. \A y \in T : y <= Listed(T)[n]
  <2> SUFFICES ASSUME NEW y \in T PROVE y <= Listed(T)[n]
    OBVIOUS
  <2>1. PICK k \in 1 .. n : Listed(T)[k] = y
    BY <1>1
  <2>2. CASE k = n
    BY <1>3, <2>1, <2>2
  <2>3. CASE k # n
    <3>1. k < n
      BY <1>1, <2>3
    <3>2. Listed(T)[k] < Listed(T)[n]
      BY <1>1, <1>2, <3>1
    <3>3. y \in Nat /\ Listed(T)[n] \in Nat
      BY <1>3
    <3> QED BY <2>1, <3>2, <3>3
  <2> QED BY <2>2, <2>3
<1>5. \E x \in T : \A y \in T : x >= y
  BY <1>3, <1>4
<1>6. Max(T) \in T /\ \A y \in T : Max(T) >= y
  BY <1>5 DEF Max
<1> QED BY <1>6

(* Something weighs as much as anything else.                               *)
LEMMA Heaviest ==
    ASSUME NEW n \in Nat \ {0}, NEW weight, \A i \in 1 .. n : weight[i] \in Nat
    PROVE  \E i \in 1 .. n : \A j \in 1 .. n : weight[j] <= weight[i]
<1> DEFINE g == [i \in 1 .. n |-> weight[i]]
           T == {g[i] : i \in 1 .. n}
<1>1. IsFiniteSet(T)
  <2>1. IsFiniteSet(1 .. n)
    BY FS_Interval
  <2> QED BY <2>1, FiniteImage
<1>2. T \in SUBSET Nat /\ T # {}
  OBVIOUS
<1>3. Max(T) \in T /\ \A y \in T : y <= Max(T)
  <2> HIDE DEF T
  <2> QED BY <1>1, <1>2, MaxIs
<1>4. PICK i \in 1 .. n : g[i] = Max(T)
  BY <1>3
<1>5. \A j \in 1 .. n : g[j] <= g[i]
  BY <1>3, <1>4
<1> QED BY <1>5

(* What is kept of a sequence stays in its order.                           *)
LEMMA Filtered ==
    ASSUME NEW W, NEW seq \in Seq(W), NEW P \in SUBSET (1 .. Len(seq))
    PROVE  /\ Those(seq, P) \in Seq(W) /\ Len(Those(seq, P)) \in Nat /\ Len(Those(seq, P)) <= Len(seq)
           /\ \E at \in [1 .. Len(Those(seq, P)) -> P] :
                 /\ \A k \in 1 .. Len(Those(seq, P)) : Those(seq, P)[k] = seq[at[k]]
                 /\ \A i, j \in 1 .. Len(Those(seq, P)) : i < j => at[i] < at[j]
                 /\ \A p \in P : \E k \in 1 .. Len(Those(seq, P)) : at[k] = p
<1>1. Len(seq) \in Nat /\ P \in SUBSET Nat /\ \A p \in P : seq[p] \in W
  OBVIOUS
<1>2. IsFiniteSet(1 .. Len(seq)) /\ Cardinality(1 .. Len(seq)) = Len(seq)
  <2> DEFINE n == Len(seq)
  <2>1. n \in Int
    BY <1>1
  <2> HIDE DEF n
  <2>2. IsFiniteSet(1 .. n) /\ Cardinality(1 .. n) = IF 1 > n THEN 0 ELSE n - 1 + 1
    BY <2>1, FS_Interval
  <2>3. n \in Nat
    BY <1>1 DEF n
  <2>4. Cardinality(1 .. n) = n
    BY <2>2, <2>3
  <2> QED BY <2>2, <2>4 DEF n
<1>3. IsFiniteSet(P) /\ Cardinality(P) <= Len(seq)
  BY <1>2, FS_Subset
<1>4. /\ Those(seq, P) \in Seq(W) /\ Len(Those(seq, P)) = Cardinality(P)
      /\ \A k \in 1 .. Cardinality(P) : Those(seq, P)[k] = seq[Listed(P)[k]]
  BY <1>1, <1>3, ThoseOf
<1>5. /\ Cardinality(P) \in Nat /\ Listed(P) \in [1 .. Cardinality(P) -> P]
      /\ \A x \in P : \E k \in 1 .. Cardinality(P) : Listed(P)[k] = x
      /\ \A i, j \in 1 .. Cardinality(P) : i < j => Listed(P)[i] < Listed(P)[j]
  BY <1>1, <1>3, ListedIs
<1> QED BY <1>3, <1>4, <1>5

LEMMA FirstKAt ==
    ASSUME NEW S, NEW s \in Seq(S), NEW k \in Nat
    PROVE  /\ FirstK(s, k) \in Seq(S) /\ Len(FirstK(s, k)) \in Nat
           /\ Len(FirstK(s, k)) <= k /\ Len(FirstK(s, k)) <= Len(s)
           /\ \A i \in 1 .. Len(FirstK(s, k)) : i \in 1 .. Len(s) /\ FirstK(s, k)[i] = s[i]
<1> DEFINE n == IF k < Len(s) THEN k ELSE Len(s)
<1>1. Len(s) \in Nat /\ n \in Nat /\ n <= k /\ n <= Len(s) /\ \A i \in 1 .. n : s[i] \in S
  OBVIOUS
<1>2. FirstK(s, k) = SubSeq(s, 1, n)
  BY DEF FirstK
<1> HIDE DEF n
<1>3. /\ SubSeq(s, 1, n) \in Seq(S)
      /\ Len(SubSeq(s, 1, n)) = IF 1 <= n THEN n - 1 + 1 ELSE 0
      /\ \A i \in 1 .. n - 1 + 1 : SubSeq(s, 1, n)[i] = s[1 + i - 1]
  BY <1>1, SubSeqProperties
<1> QED BY <1>1, <1>2, <1>3

(* Two that are different make two.                                         *)
LEMMA AtLeastTwo ==
    ASSUME NEW S, IsFiniteSet(S), NEW a \in S, NEW b \in S, a # b
    PROVE  Cardinality(S) \in Nat /\ Cardinality(S) >= 2
<1>1. IsFiniteSet({a, b}) /\ Cardinality({a, b}) = 2
  <2>1. IsFiniteSet({a}) /\ Cardinality({a}) = 1
    BY FS_Singleton
  <2>2. {a, b} = {a} \cup {b}
    OBVIOUS
  <2>3. IsFiniteSet({a} \cup {b}) /\ Cardinality({a} \cup {b}) = Cardinality({a}) + 1
    <3>1. b \notin {a}
      OBVIOUS
    <3> QED BY <2>1, <3>1, FS_AddElement
  <2> QED BY <2>1, <2>2, <2>3
<1> QED BY <1>1, FS_Subset, FS_CardinalityType

-----------------------------------------------------------------------------
(* What a notice may cite: the inductive invariant.  Each chunk is in one   *)
(* place of a list, and those both channels returned come first where the   *)
(* reranker's tiers or the weights of the channels have it so.              *)
Items(chunks) == [chunk : chunks, dense : Nat, lexical : Nat, score : Nat]

Apart(items) == \A r, s \in DOMAIN items : items[r].chunk = items[s].chunk => r = s

TiersKept(items) == \A r, s \in DOMAIN items : r < s /\ Agreed(items[s]) => Agreed(items[r])

TiersHold == case.reranker \/ TiersByScore

Queries == <<"framed", "bare", "complaint", "remedy">>

TraceOK(t, query) ==
    /\ t.query = query /\ t.lexical \in BOOLEAN /\ t.fused \in BOOLEAN
    /\ t.results \in Seq(Items(DOMAIN Corpus)) /\ Len(t.results) <= RequestedK
    /\ Apart(t.results) /\ (TiersHold => TiersKept(t.results))

TracesOK ==
    /\ traces \in Seq(Range(traces)) /\ Len(traces) \in {0, 2, 4}
    /\ \A i \in 1 .. Len(traces) : TraceOK(traces[i], Queries[i])
    /\ phase = "ranking" => Len(traces) = 0
    /\ phase = "corroborating" => Len(traces) = 2
    /\ phase \in {"evidence", "verifying", "composing", "made"} => Len(traces) \in {2, 4}

(* What matched was returned by a ranking query, and a chunk of the same    *)
(* provision that is in force was supported.                                *)
GroundOK(g) ==
    /\ g.matched \in DOMAIN Corpus /\ g.quoted = Chunk(g.matched).quotes
    /\ g.provision = Chunk(g.matched).provision /\ g.law = Chunk(g.matched).law
    /\ Chunk(g.matched).citable \/ Chunk(g.matched).part = "caput"
    /\ \E i \in 1 .. 2 : \E item \in Range(traces[i].results) : item.chunk = g.matched
    /\ \E c \in Supported : c \in DOMAIN Corpus /\ Chunk(c).provision = g.provision /\ Chunk(c).citable

Listable(gs) ==
    /\ gs \in Seq(Range(gs)) /\ Len(gs) <= MaxGrounds
    /\ \A g \in Range(gs) : GroundOK(g)
    /\ \A i, j \in DOMAIN gs : i # j => gs[i].provision # gs[j].provision
    /\ LET extra == {g \in Range(gs) : g.law \in Complementary}
       IN  IsFiniteSet(extra) /\ Cardinality(extra) <= MaxComplementary /\ (DegradedRanking => extra = {})

AnchorHeld(gs) == (\E g \in Range(gs) : g.law = "civil") => \E g \in Range(gs) : g.law = "cdc"

Written ==
    /\ notice.made /\ notice.grounds = grounds /\ notice.cited = exhibits.cited /\ notice.included = Included
    /\ notice.offer = PublicProposal(File.facts) /\ notice.components = Components(File.facts)
    /\ Grounded /\ Computable(File.facts)
    /\ notice.warnings = Warnings \cup (IF "composer" \in lost THEN {"composer"} ELSE {})
    /\ "composer" \in lost => notice.mode = "deterministic"

CaseOK ==
    case \in [given : DOMAIN Given, mode : {"case", "prompt"}, harassment : BOOLEAN,
              reranker : Rerankers, weights : Weights]

ExhibitsOK ==
    /\ exhibits \in [attached : BOOLEAN, lexical : BOOLEAN,
                     cited : {<<>>} \cup {CitationsOf[case.given][ranking] : ranking \in EvidenceRankings}]
    /\ ~exhibits.attached => exhibits.cited = <<>>

NoticeIInv ==
    /\ CaseOK
    /\ phase \in {"ranking", "corroborating", "evidence", "verifying", "composing", "made", "refused"}
    /\ TracesOK
    /\ ExhibitsOK
    /\ phase \in {"ranking", "corroborating", "evidence"} => ~exhibits.lexical /\ grounds = <<>>
    /\ "embedding" \in lost <=> Degraded
    /\ "composer" \in lost => phase = "made"
    /\ Listable(grounds) /\ AnchorHeld(grounds)
    /\ IF phase = "made" THEN Written ELSE notice = NoNotice

-----------------------------------------------------------------------------
(* The scores of fused ranks: where the weights are close enough, what two  *)
(* channels give is more than what one gives, as deep as the lists go.      *)
LEMMA Divides ==
    ASSUME NEW u \in Nat \ {0}, NEW d \in Nat \ {0}, u % d = 0
    PROVE  u \div d \in Nat \ {0} /\ u = (u \div d) * d
<1>1. u \div d \in Nat /\ u = (d * (u \div d)) + (u % d)
  OBVIOUS
<1> QED BY <1>1

LEMMA Product ==
    ASSUME NEW a \in Nat, NEW b \in Nat, NEW c \in Nat, a <= b
    PROVE  a * c <= b * c /\ a * c \in Nat /\ b * c \in Nat
OBVIOUS

LEMMA TwoExceedOne ==
    ASSUME NEW q \in Nat \ {0}, NEW a \in Nat, NEW b \in Nat, NEW v \in Nat, NEW w \in Nat, NEW x \in Nat,
           NEW d \in Nat, NEW e \in Nat, NEW u \in Nat,
           q * e <= u, u <= a * d, u <= b * d, x * d < (v + w) * e
    PROVE  x * q < v * a + w * b
<1>0. /\ x * q \in Nat /\ v * a + w * b \in Nat /\ v + w \in Nat /\ q * e \in Nat /\ a * d \in Nat /\ b * d \in Nat
      /\ x * d \in Nat /\ (v + w) * e \in Nat /\ x * d + 1 \in Nat /\ x * d + 1 <= (v + w) * e
  OBVIOUS
<1> SUFFICES ASSUME v * a + w * b <= x * q PROVE FALSE
  BY <1>0
<1>1. u * v <= (a * d) * v /\ u * w <= (b * d) * w
  BY <1>0, Product
<1>2. (v * a + w * b) * d <= (x * q) * d
  BY <1>0, Product
<1>3. (x * d + 1) * q <= ((v + w) * e) * q
  BY <1>0, Product
<1>4. (q * e) * (v + w) <= u * (v + w)
  BY <1>0, Product
<1>5. /\ (v * a + w * b) * d = (a * d) * v + (b * d) * w
      /\ (x * d + 1) * q = (x * q) * d + q
      /\ ((v + w) * e) * q = (q * e) * (v + w)
      /\ u * (v + w) = u * v + u * w
  OBVIOUS
<1>6. /\ u * v \in Nat /\ u * w \in Nat /\ (a * d) * v \in Nat /\ (b * d) * w \in Nat /\ (x * q) * d \in Nat
      /\ (q * e) * (v + w) \in Nat
  BY <1>0
<1> DEFINE p1 == u * v
           p2 == u * w
           p3 == (a * d) * v
           p4 == (b * d) * w
           p5 == (x * q) * d
           p6 == (q * e) * (v + w)
<1>7. /\ p1 \in Nat /\ p2 \in Nat /\ p3 \in Nat /\ p4 \in Nat /\ p5 \in Nat /\ p6 \in Nat
      /\ p1 <= p3 /\ p2 <= p4 /\ p3 + p4 <= p5 /\ p5 + q <= p6 /\ p6 <= p1 + p2
  BY <1>1, <1>2, <1>3, <1>4, <1>5, <1>6, Zenon
<1> HIDE DEF p1, p2, p3, p4, p5, p6
<1> QED BY <1>7

LEMMA SharesAre ==
    /\ Share(0) = 0
    /\ \A r \in 1 .. CandidateK :
          /\ Share(r) \in Nat \ {0}
          /\ Share(r) * (RrfConstant + 1) <= Unit /\ Unit <= Share(r) * (RrfConstant + CandidateK)
<1>0. /\ CandidateK \in Nat \ {0} /\ RrfConstant \in Nat
      /\ Unit \in Nat \ {0} /\ \A r \in 1 .. CandidateK : Unit % (RrfConstant + r) = 0
  BY GroundsAssumption
<1>1. ASSUME NEW r \in 1 .. CandidateK
      PROVE  Share(r) \in Nat \ {0} /\ Unit = Share(r) * (RrfConstant + r)
  <2>1. RrfConstant + r \in Nat \ {0} /\ r # 0
    BY <1>0
  <2>2. Unit % (RrfConstant + r) = 0
    BY <1>0
  <2>3. Share(r) = Unit \div (RrfConstant + r)
    BY <2>1 DEF Share
  <2> QED BY <1>0, <2>1, <2>2, <2>3, Divides, ZenonT(60)
<1>2. ASSUME NEW r \in 1 .. CandidateK
      PROVE  /\ Share(r) * (RrfConstant + 1) <= Unit
             /\ Unit <= Share(r) * (RrfConstant + CandidateK)
  <2>1. /\ Share(r) \in Nat /\ Unit = (RrfConstant + r) * Share(r)
        /\ RrfConstant + 1 \in Nat /\ RrfConstant + r \in Nat /\ RrfConstant + CandidateK \in Nat
        /\ RrfConstant + 1 <= RrfConstant + r /\ RrfConstant + r <= RrfConstant + CandidateK
    BY <1>0, <1>1
  <2>2. /\ (RrfConstant + 1) * Share(r) <= (RrfConstant + r) * Share(r)
        /\ (RrfConstant + r) * Share(r) <= (RrfConstant + CandidateK) * Share(r)
    BY <2>1, Product
  <2> QED BY <2>1, <2>2
<1> QED BY <1>1, <1>2 DEF Share

(* What fusion gives to a chunk for its two ranks.                          *)
Score(a, b) == case.weights.dense * Share(a) + case.weights.lexical * Share(b)

LEMMA ScoresAre ==
    ASSUME CaseOK
    PROVE  /\ \A a, b \in 0 .. CandidateK : Score(a, b) \in Nat
           /\ TiersByScore => \A a, b, q \in 1 .. CandidateK :
                                 Score(q, 0) < Score(a, b) /\ Score(0, q) < Score(a, b)
<1> DEFINE v == case.weights.dense
           w == case.weights.lexical
<1>1. v \in Nat /\ w \in Nat
  <2>1. case.weights \in Weights
    BY DEF CaseOK
  <2>2. case.weights \in [dense : Nat \ {0}, lexical : Nat \ {0}]
    BY <2>1, GroundsAssumption
  <2> QED BY <2>2
<1>2. CandidateK \in Nat /\ RrfConstant + 1 \in Nat /\ RrfConstant + CandidateK \in Nat /\ Unit \in Nat
  BY GroundsAssumption
<1>3. \A a, b : Score(a, b) = v * Share(a) + w * Share(b)
  BY DEF Score
<1>4. TiersByScore => /\ v * (RrfConstant + CandidateK) < (v + w) * (RrfConstant + 1)
                      /\ w * (RrfConstant + CandidateK) < (v + w) * (RrfConstant + 1)
  BY DEF TiersByScore
<1> HIDE DEF v, w
<1>5. \A a \in 0 .. CandidateK : Share(a) \in Nat
  <2> SUFFICES ASSUME NEW a \in 0 .. CandidateK PROVE Share(a) \in Nat
    OBVIOUS
  <2>1. a = 0 \/ a \in 1 .. CandidateK
    BY <1>2
  <2> QED BY <2>1, SharesAre
<1>6. \A a, b \in 0 .. CandidateK : Score(a, b) \in Nat
  <2> SUFFICES ASSUME NEW a \in 0 .. CandidateK, NEW b \in 0 .. CandidateK PROVE v * Share(a) + w * Share(b) \in Nat
    BY <1>3
  <2>1. Share(a) \in Nat /\ Share(b) \in Nat
    BY <1>5
  <2> QED BY <1>1, <2>1
<1>7. ASSUME TiersByScore, NEW a \in 1 .. CandidateK, NEW b \in 1 .. CandidateK, NEW q \in 1 .. CandidateK
      PROVE  Score(q, 0) < Score(a, b) /\ Score(0, q) < Score(a, b)
  <2>1. /\ Share(q) \in Nat \ {0} /\ Share(a) \in Nat /\ Share(b) \in Nat /\ Share(0) = 0
        /\ Share(q) * (RrfConstant + 1) <= Unit
        /\ Unit <= Share(a) * (RrfConstant + CandidateK) /\ Unit <= Share(b) * (RrfConstant + CandidateK)
    BY SharesAre
  <2>2. /\ v * Share(q) < v * Share(a) + w * Share(b)
        /\ w * Share(q) < v * Share(a) + w * Share(b)
    BY <1>1, <1>2, <1>4, <1>7, <2>1, TwoExceedOne, ZenonT(60)
  <2>3. v * Share(q) + w * 0 = v * Share(q) /\ v * 0 + w * Share(q) = w * Share(q)
    BY <1>1, <2>1
  <2> QED BY <1>3, <2>1, <2>2, <2>3
<1> QED BY <1>6, <1>7

LEMMA RankInIs ==
    ASSUME NEW l \in Seq(Nat), Len(l) <= CandidateK, NEW c
    PROVE  /\ c \in Range(l) => RankIn(l, c) \in 1 .. CandidateK
           /\ c \notin Range(l) => RankIn(l, c) = 0
<1>1. Len(l) \in Nat /\ DOMAIN l = 1 .. Len(l) /\ CandidateK \in Nat
  BY GroundsAssumption
<1>2. CASE c \in Range(l)
  <2>1. \E r \in DOMAIN l : l[r] = c
    BY <1>2 DEF Range
  <2>2. RankIn(l, c) \in DOMAIN l
    BY <1>2, <2>1 DEF RankIn
  <2> QED BY <1>1, <1>2, <2>2
<1>3. CASE c \notin Range(l)
  BY <1>3 DEF RankIn
<1> QED BY <1>2, <1>3

(* Every order of items by score is strict: a chunk is among them once.     *)
LEMMA ByScoreIs ==
    ASSUME NEW items, IsFiniteSet(items),
           \A x \in items : x.chunk \in Nat /\ x.score \in Nat,
           \A x, y \in items : x.chunk = y.chunk => x = y
    PROVE  LET s == ByScore(items) IN
           /\ Cardinality(items) \in Nat
           /\ s \in [1 .. Cardinality(items) -> items]
           /\ \A x \in items : \E k \in 1 .. Cardinality(items) : s[k] = x
           /\ \A i, j \in 1 .. Cardinality(items) : i < j => Before(s[i], s[j]) /\ s[i].chunk # s[j].chunk
<1> DEFINE before == {p \in items \X items : Before(p[1], p[2])}
<1>1. \A x, y \in items : <<x, y>> \in before <=> Before(x, y)
  OBVIOUS
<1>2. StrictOrder(items, before)
  <2> HIDE DEF before
  <2>1. \A x \in items : ~Before(x, x)
    BY DEF Before
  <2>2. \A x, y \in items : x # y => Before(x, y) \/ Before(y, x)
    BY DEF Before
  <2>3. \A x, y, z \in items : Before(x, y) /\ Before(y, z) => Before(x, z)
    BY DEF Before
  <2> QED BY <1>1, <2>1, <2>2, <2>3 DEF StrictOrder
<1>3. ByScore(items) = InOrder(items, before)
  BY DEF ByScore
<1> HIDE DEF before
<1> DEFINE s == InOrder(items, before)
           n == Cardinality(items)
<1>4. /\ n \in Nat /\ s \in [1 .. n -> items]
      /\ \A x \in items : \E k \in 1 .. n : s[k] = x
      /\ \A i, j \in 1 .. n : i < j => <<s[i], s[j]>> \in before /\ s[i] # s[j]
  BY <1>2, InOrderIs
<1> HIDE DEF s, n
<1>5. \A i, j \in 1 .. n : i < j => Before(s[i], s[j]) /\ s[i].chunk # s[j].chunk
  <2> SUFFICES ASSUME NEW i \in 1 .. n, NEW j \in 1 .. n, i < j
               PROVE  Before(s[i], s[j]) /\ s[i].chunk # s[j].chunk
    OBVIOUS
  <2>1. s[i] \in items /\ s[j] \in items
    BY <1>4
  <2> QED BY <1>1, <1>4, <2>1
<1> QED BY <1>3, <1>4, <1>5 DEF s, n

LEMMA RangeFinite ==
    ASSUME NEW S, NEW s \in Seq(S)
    PROVE  IsFiniteSet(Range(s)) /\ Range(s) \subseteq S
<1>1. Len(s) \in Nat /\ DOMAIN s = 1 .. Len(s) /\ \A i \in 1 .. Len(s) : s[i] \in S
  OBVIOUS
<1>2. IsFiniteSet(DOMAIN s)
  BY <1>1, FS_Interval
<1>3. Range(s) = {s[i] : i \in DOMAIN s}
  BY DEF Range
<1>4. IsFiniteSet({s[i] : i \in DOMAIN s})
  BY <1>2, FiniteImage
<1> QED BY <1>1, <1>3, <1>4

(* What a query's channels return, before its results are cut.              *)
CandidatesOK(items, chunks) ==
    /\ items \in Seq(Items(chunks)) /\ Len(items) <= CandidateK /\ Apart(items)
    /\ TiersByScore => TiersKept(items)

LEMMA FusedIs ==
    ASSUME CaseOK, NEW d \in Seq(Nat), NEW l \in Seq(Nat), Len(d) <= CandidateK, Len(l) <= CandidateK
    PROVE  CandidatesOK(Fused(d, l), Range(d) \cup Range(l))
<1> DEFINE C == Range(d) \cup Range(l)
           g == [c \in C |-> [chunk |-> c, dense |-> RankIn(d, c), lexical |-> RankIn(l, c),
                              score |-> Score(RankIn(d, c), RankIn(l, c))]]
           S == {g[c] : c \in C}
           n == Cardinality(S)
           s == ByScore(S)
<1>1. IsFiniteSet(C) /\ C \subseteq Nat
  BY RangeFinite, FS_Union
<1>2. \A c \in C : /\ g[c] = [chunk |-> c, dense |-> RankIn(d, c), lexical |-> RankIn(l, c),
                              score |-> Score(RankIn(d, c), RankIn(l, c))]
                   /\ RankIn(d, c) \in 0 .. CandidateK /\ RankIn(l, c) \in 0 .. CandidateK
                   /\ RankIn(d, c) # 0 \/ RankIn(l, c) # 0
  <2> SUFFICES ASSUME NEW c \in C
               PROVE /\ RankIn(d, c) \in 0 .. CandidateK /\ RankIn(l, c) \in 0 .. CandidateK
                     /\ RankIn(d, c) # 0 \/ RankIn(l, c) # 0
    OBVIOUS
  <2>1. CandidateK \in Nat
    BY GroundsAssumption
  <2>2. c \in Range(d) => RankIn(d, c) \in 1 .. CandidateK
    BY RankInIs
  <2>3. c \notin Range(d) => RankIn(d, c) = 0
    BY RankInIs
  <2>4. c \in Range(l) => RankIn(l, c) \in 1 .. CandidateK
    BY RankInIs
  <2>5. c \notin Range(l) => RankIn(l, c) = 0
    BY RankInIs
  <2> QED BY <2>1, <2>2, <2>3, <2>4, <2>5
<1> HIDE DEF g, C
<1>3. \A a, b \in 0 .. CandidateK : Score(a, b) \in Nat
  BY ScoresAre
<1>4. \A c \in C : /\ g[c] \in Items(C) /\ g[c].chunk = c
                   /\ g[c].dense \in 0 .. CandidateK /\ g[c].lexical \in 0 .. CandidateK
                   /\ g[c].dense # 0 \/ g[c].lexical # 0
                   /\ g[c].score = Score(g[c].dense, g[c].lexical)
  <2> SUFFICES ASSUME NEW c \in C
               PROVE /\ g[c] \in Items(C) /\ g[c].chunk = c
                     /\ g[c].dense \in 0 .. CandidateK /\ g[c].lexical \in 0 .. CandidateK
                     /\ g[c].dense # 0 \/ g[c].lexical # 0
                     /\ g[c].score = Score(g[c].dense, g[c].lexical)
    OBVIOUS
  <2> DEFINE a == RankIn(d, c)
             b == RankIn(l, c)
  <2>1. /\ g[c] = [chunk |-> c, dense |-> a, lexical |-> b, score |-> Score(a, b)]
        /\ a \in 0 .. CandidateK /\ b \in 0 .. CandidateK /\ (a # 0 \/ b # 0)
    BY <1>2
  <2> HIDE DEF a, b
  <2>2. Score(a, b) \in Nat
    BY <1>3, <2>1
  <2>3. Score(a, b) \in Nat /\ a \in Nat /\ b \in Nat
    BY <2>1, <2>2
  <2>4. g[c] \in Items(C)
    BY <2>1, <2>3 DEF Items
  <2> QED BY <2>1, <2>4
<1>5. /\ IsFiniteSet(S)
      /\ \A x \in S : x.chunk \in Nat /\ x.score \in Nat
      /\ \A x, y \in S : x.chunk = y.chunk => x = y
  <2>1. IsFiniteSet(S)
    <3>1. DOMAIN g = C
      BY DEF g
    <3> QED BY <1>1, <3>1, FiniteImage
  <2>2. \A x \in S : x.chunk \in Nat /\ x.score \in Nat
    BY <1>1, <1>4 DEF Items
  <2> QED BY <1>4, <2>1, <2>2
<1>6. /\ n \in Nat /\ s \in [1 .. n -> S]
      /\ \A i, j \in 1 .. n : i < j => Before(s[i], s[j]) /\ s[i].chunk # s[j].chunk
  <2> HIDE DEF S
  <2> QED BY <1>5, ByScoreIs
<1>7. Fused(d, l) = FirstK(s, CandidateK)
  <2>1. {[chunk |-> c, dense |-> RankIn(d, c), lexical |-> RankIn(l, c),
          score |-> Score(RankIn(d, c), RankIn(l, c))] : c \in C} = S
    BY <1>2
  <2> QED BY <2>1 DEF Fused, Score, C
<1> DEFINE f == FirstK(s, CandidateK)
<1>8. \A x \in S : /\ x \in Items(C) /\ x.score \in Nat
                   /\ x.dense \in 0 .. CandidateK /\ x.lexical \in 0 .. CandidateK
                   /\ x.dense # 0 \/ x.lexical # 0
                   /\ x.score = Score(x.dense, x.lexical)
  BY <1>4, <1>5
<1> HIDE DEF S, n, s
<1>9. /\ f \in Seq(S) /\ Len(f) \in Nat /\ Len(f) <= CandidateK
      /\ \A i \in 1 .. Len(f) : i \in 1 .. n /\ f[i] = s[i]
  <2>1. s \in Seq(S) /\ Len(s) = n
    BY <1>6
  <2>2. CandidateK \in Nat
    BY GroundsAssumption
  <2> QED BY <2>1, <2>2, FirstKAt
<1>10. f \in Seq(Items(C)) /\ DOMAIN f = 1 .. Len(f)
  BY <1>8, <1>9
<1> HIDE DEF f
<1>11. Apart(f)
  <2> SUFFICES ASSUME NEW i \in 1 .. Len(f), NEW j \in 1 .. Len(f), f[i].chunk = f[j].chunk, i # j
               PROVE  FALSE
    BY <1>10 DEF Apart
  <2>1. i < j \/ j < i
    BY <1>9
  <2> QED BY <1>6, <1>9, <2>1
<1>12. ASSUME TiersByScore PROVE TiersKept(f)
  <2> SUFFICES ASSUME NEW i \in 1 .. Len(f), NEW j \in 1 .. Len(f), i < j, Agreed(f[j]), ~Agreed(f[i])
               PROVE  FALSE
    BY <1>10 DEF TiersKept
  <2>1. Before(f[i], f[j]) /\ f[i] \in S /\ f[j] \in S
    BY <1>6, <1>9
  <2>2. f[i].score >= f[j].score /\ f[i].score \in Nat /\ f[j].score \in Nat
    BY <1>8, <2>1 DEF Before
  <2>3. CandidateK \in Nat
    BY GroundsAssumption
  <2>4. /\ f[j].dense \in 1 .. CandidateK /\ f[j].lexical \in 1 .. CandidateK
        /\ f[j].score = Score(f[j].dense, f[j].lexical)
    BY <1>8, <2>1, <2>3 DEF Agreed
  <2>5. /\ f[i].score = Score(f[i].dense, f[i].lexical)
        /\ \/ f[i].dense = 0 /\ f[i].lexical \in 1 .. CandidateK
           \/ f[i].lexical = 0 /\ f[i].dense \in 1 .. CandidateK
    <3>1. /\ f[i].score = Score(f[i].dense, f[i].lexical)
          /\ f[i].dense \in 0 .. CandidateK /\ f[i].lexical \in 0 .. CandidateK
          /\ f[i].dense # 0 \/ f[i].lexical # 0
          /\ f[i].dense = 0 \/ f[i].lexical = 0
      BY <1>8, <2>1 DEF Agreed
    <3> QED BY <2>3, <3>1
  <2>6. f[i].score < f[j].score
    BY <1>12, <2>4, <2>5, ScoresAre
  <2> QED BY <2>2, <2>6
<1> QED BY <1>7, <1>9, <1>10, <1>11, <1>12 DEF CandidatesOK, f, C

LEMMA LexicalOnlyIs ==
    ASSUME NEW l \in Seq(Nat), IsInjective(l), Len(l) <= CandidateK
    PROVE  CandidatesOK(LexicalOnly(l), Range(l))
<1> DEFINE f == LexicalOnly(l)
<1>1. /\ Len(l) \in Nat /\ DOMAIN l = 1 .. Len(l) /\ CandidateK \in Nat
      /\ \A r \in 1 .. Len(l) : l[r] \in Range(l) /\ CandidateK + 1 - r \in Nat
  BY GroundsAssumption DEF Range
<1>2. f = [r \in 1 .. Len(l) |-> [chunk |-> l[r], dense |-> 0, lexical |-> r, score |-> CandidateK + 1 - r]]
  BY <1>1 DEF LexicalOnly
<1> HIDE DEF f
<1>3. f \in [1 .. Len(l) -> Items(Range(l))]
  BY <1>1, <1>2 DEF Items
<1>4. f \in Seq(Items(Range(l))) /\ Len(f) = Len(l)
  BY <1>1, <1>3
<1>5. Apart(f)
  BY <1>1, <1>2 DEF Apart, IsInjective
<1>6. TiersKept(f)
  BY <1>1, <1>2 DEF TiersKept, Agreed
<1> QED BY <1>1, <1>4, <1>5, <1>6 DEF CandidatesOK, f

(* Whatever order a reranker chose, the tiers are put back.                 *)
LEMMA WithinTiersIs ==
    ASSUME NEW C, NEW items \in Seq(Items(C)), Apart(items)
    PROVE  LET w == WithinTiers(items) IN w \in Seq(Items(C)) /\ Apart(w) /\ TiersKept(w)
<1> DEFINE P == {r \in DOMAIN items : Agreed(items[r])}
           Q == {r \in DOMAIN items : ~Agreed(items[r])}
           a == Those(items, P)
           b == Those(items, Q)
           w == a \o b
<1>1. Len(items) \in Nat /\ DOMAIN items = 1 .. Len(items)
  OBVIOUS
<1>2. /\ P \in SUBSET (1 .. Len(items)) /\ Q \in SUBSET (1 .. Len(items))
      /\ \A p \in P : Agreed(items[p])
      /\ \A q \in Q : ~Agreed(items[q])
      /\ P \subseteq Nat /\ Q \subseteq Nat
  BY <1>1
<1>3. WithinTiers(items) = w
  BY DEF WithinTiers
<1> HIDE DEF P, Q
<1>4. /\ a \in Seq(Items(C)) /\ Len(a) \in Nat
      /\ \E at \in [1 .. Len(a) -> P] :
             /\ \A k \in 1 .. Len(a) : a[k] = items[at[k]]
             /\ \A i, j \in 1 .. Len(a) : i < j => at[i] < at[j]
  BY <1>2, Filtered
<1>5. /\ b \in Seq(Items(C)) /\ Len(b) \in Nat
      /\ \E at \in [1 .. Len(b) -> Q] :
             /\ \A k \in 1 .. Len(b) : b[k] = items[at[k]]
             /\ \A i, j \in 1 .. Len(b) : i < j => at[i] < at[j]
  BY <1>2, Filtered
<1> HIDE DEF a, b
<1>6. PICK m \in [1 .. Len(a) -> P] : /\ \A k \in 1 .. Len(a) : a[k] = items[m[k]]
                                      /\ \A i, j \in 1 .. Len(a) : i < j => m[i] < m[j]
  BY <1>4
<1>7. PICK o \in [1 .. Len(b) -> Q] : /\ \A k \in 1 .. Len(b) : b[k] = items[o[k]]
                                      /\ \A i, j \in 1 .. Len(b) : i < j => o[i] < o[j]
  BY <1>5
<1>8. /\ w \in Seq(Items(C)) /\ Len(w) = Len(a) + Len(b)
      /\ \A k \in 1 .. Len(a) : w[k] = a[k]
      /\ \A k \in Len(a) + 1 .. Len(a) + Len(b) : w[k] = b[k - Len(a)]
  BY <1>4, <1>5, ConcatProperties
<1> HIDE DEF w
<1>9. DOMAIN w = 1 .. Len(a) + Len(b)
  BY <1>4, <1>5, <1>8
<1> DEFINE at(k) == IF k <= Len(a) THEN m[k] ELSE o[k - Len(a)]
<1>10. \A k \in 1 .. Len(a) + Len(b) :
          /\ w[k] = items[at(k)] /\ at(k) \in 1 .. Len(items)
          /\ k <= Len(a) => at(k) \in P
          /\ k > Len(a) => at(k) \in Q
  <2> SUFFICES ASSUME NEW k \in 1 .. Len(a) + Len(b)
               PROVE  /\ w[k] = items[at(k)] /\ at(k) \in 1 .. Len(items)
                      /\ k <= Len(a) => at(k) \in P
                      /\ k > Len(a) => at(k) \in Q
    OBVIOUS
  <2>1. CASE k <= Len(a)
    <3>1. k \in 1 .. Len(a)
      BY <1>4, <1>5, <2>1
    <3>2. at(k) = m[k] /\ m[k] \in P
      BY <1>6, <2>1, <3>1
    <3>3. at(k) \in 1 .. Len(items) /\ w[k] = a[k] /\ a[k] = items[m[k]]
      BY <1>2, <1>6, <1>8, <3>1, <3>2
    <3> QED BY <1>4, <2>1, <3>2, <3>3
  <2>2. CASE ~(k <= Len(a))
    <3>1. k \in Len(a) + 1 .. Len(a) + Len(b) /\ k - Len(a) \in 1 .. Len(b)
      BY <1>4, <1>5, <2>2
    <3>2. at(k) = o[k - Len(a)] /\ o[k - Len(a)] \in Q
      BY <1>7, <2>2, <3>1
    <3> QED BY <1>2, <1>7, <1>8, <2>2, <3>1, <3>2
  <2> QED BY <2>1, <2>2
<1>11. \A i, j \in 1 .. Len(a) + Len(b) : i < j => at(i) # at(j)
  <2> SUFFICES ASSUME NEW i \in 1 .. Len(a) + Len(b), NEW j \in 1 .. Len(a) + Len(b), i < j
               PROVE  at(i) # at(j)
    OBVIOUS
  <2>1. CASE j <= Len(a)
    <3>1. i \in 1 .. Len(a) /\ j \in 1 .. Len(a) /\ i <= Len(a)
      BY <1>4, <1>5, <2>1
    <3>2. m[i] < m[j] /\ m[i] \in P /\ m[j] \in P
      BY <1>6, <3>1
    <3>3. m[i] \in Nat /\ m[j] \in Nat
      BY <1>2, <3>2
    <3> QED BY <2>1, <3>1, <3>2, <3>3
  <2>2. CASE i <= Len(a) /\ ~(j <= Len(a))
    <3>1. at(i) \in P /\ at(j) \in Q
      BY <1>4, <1>5, <1>10, <2>2
    <3> QED BY <1>2, <3>1
  <2>3. CASE ~(i <= Len(a))
    <3>1. /\ i - Len(a) \in 1 .. Len(b) /\ j - Len(a) \in 1 .. Len(b) /\ ~(j <= Len(a))
          /\ i - Len(a) < j - Len(a)
      BY <1>4, <1>5, <2>3
    <3>2. o[i - Len(a)] < o[j - Len(a)] /\ o[i - Len(a)] \in Q /\ o[j - Len(a)] \in Q
      BY <1>7, <3>1
    <3>3. o[i - Len(a)] \in Nat /\ o[j - Len(a)] \in Nat
      BY <1>2, <3>2
    <3> QED BY <2>3, <3>1, <3>2, <3>3
  <2> QED BY <2>1, <2>2, <2>3
<1> HIDE DEF at
<1>12. Apart(w)
  <2> SUFFICES ASSUME NEW i \in 1 .. Len(a) + Len(b), NEW j \in 1 .. Len(a) + Len(b),
                      w[i].chunk = w[j].chunk, i # j
               PROVE  FALSE
    BY <1>9 DEF Apart
  <2>1. items[at(i)].chunk = items[at(j)].chunk /\ at(i) \in DOMAIN items /\ at(j) \in DOMAIN items
    BY <1>1, <1>10
  <2>2. at(i) = at(j)
    BY <2>1 DEF Apart
  <2>3. i < j \/ j < i
    BY <1>4, <1>5
  <2> QED BY <1>11, <2>2, <2>3
<1>13. TiersKept(w)
  <2> SUFFICES ASSUME NEW i \in 1 .. Len(a) + Len(b), NEW j \in 1 .. Len(a) + Len(b),
                      i < j, Agreed(w[j])
               PROVE  Agreed(w[i])
    BY <1>9 DEF TiersKept
  <2>1. ~(j > Len(a))
    BY <1>2, <1>10
  <2>2. i <= Len(a)
    BY <1>4, <1>5, <2>1
  <2> QED BY <1>2, <1>10, <2>2
<1> QED BY <1>3, <1>8, <1>12, <1>13

LEMMA CutKeeps ==
    ASSUME NEW C, NEW items \in Seq(Items(C)), Apart(items), NEW k \in Nat
    PROVE  LET f == FirstK(items, k) IN
           f \in Seq(Items(C)) /\ Len(f) <= k /\ Apart(f) /\ (TiersKept(items) => TiersKept(f))
<1> DEFINE f == FirstK(items, k)
<1>1. /\ f \in Seq(Items(C)) /\ Len(f) \in Nat /\ Len(f) <= k
      /\ \A i \in 1 .. Len(f) : i \in 1 .. Len(items) /\ f[i] = items[i]
  BY FirstKAt
<1> HIDE DEF f
<1>2. DOMAIN f = 1 .. Len(f) /\ DOMAIN items = 1 .. Len(items)
  BY <1>1
<1>3. Apart(f)
  BY <1>1, <1>2 DEF Apart
<1>4. TiersKept(items) => TiersKept(f)
  BY <1>1, <1>2 DEF TiersKept
<1> QED BY <1>1, <1>3, <1>4 DEF f

LEMMA RankedAre ==
    ASSUME NEW C, NEW items, CandidatesOK(items, C), NEW r \in Ranked(items)
    PROVE  r \in Seq(Items(C)) /\ Len(r) <= RequestedK /\ Apart(r) /\ (TiersHold => TiersKept(r))
<1>1. RequestedK \in Nat /\ CandidateK \in Nat
  BY GroundsAssumption
<1>2. items \in Seq(Items(C)) /\ Len(items) <= CandidateK /\ Apart(items) /\ (TiersByScore => TiersKept(items))
  BY DEF CandidatesOK
<1>3. CASE ~case.reranker /\ r = FirstK(items, RequestedK)
  <2>1. r \in Seq(Items(C)) /\ Len(r) <= RequestedK /\ Apart(r) /\ (TiersKept(items) => TiersKept(r))
    BY <1>1, <1>2, <1>3, CutKeeps
  <2>2. TiersHold => TiersByScore
    BY <1>3 DEF TiersHold
  <2> QED BY <1>2, <2>1, <2>2
<1>4. ASSUME NEW list \in Seq(Items(C)), Apart(list), Len(list) <= CandidateK, r = FirstK(WithinTiers(Rescored(list)), RequestedK)
      PROVE  r \in Seq(Items(C)) /\ Len(r) <= RequestedK /\ Apart(r) /\ TiersKept(r)
  <2> DEFINE s == Rescored(list)
  <2>1. /\ Len(list) \in Nat /\ DOMAIN list = 1 .. Len(list)
        /\ \A i \in 1 .. Len(list) : list[i] \in Items(C) /\ CandidateK + 1 - i \in Nat
    BY <1>1, <1>4
  <2>2. s = [i \in 1 .. Len(list) |-> [list[i] EXCEPT !.score = CandidateK + 1 - i]]
    BY <2>1 DEF Rescored
  <2>3. \A i \in 1 .. Len(list) : s[i] \in Items(C) /\ s[i].chunk = list[i].chunk
    BY <2>1, <2>2 DEF Items
  <2> HIDE DEF s
  <2>4. s \in Seq(Items(C)) /\ DOMAIN s = 1 .. Len(list)
    BY <2>1, <2>2, <2>3
  <2>5. Apart(s)
    BY <1>4, <2>1, <2>3, <2>4 DEF Apart
  <2>6. WithinTiers(s) \in Seq(Items(C)) /\ Apart(WithinTiers(s)) /\ TiersKept(WithinTiers(s))
    BY <2>4, <2>5, WithinTiersIs
  <2> QED BY <1>1, <1>4, <2>6, CutKeeps DEF s
<1>5. Reverse(items) \in Seq(Items(C)) /\ Apart(Reverse(items)) /\ Len(Reverse(items)) <= CandidateK
  <2> DEFINE v == Reverse(items)
  <2>1. Len(items) \in Nat /\ DOMAIN items = 1 .. Len(items) /\ \A i \in 1 .. Len(items) : items[i] \in Items(C)
    BY <1>2
  <2>2. v = [i \in 1 .. Len(items) |-> items[(Len(items) - i) + 1]]
    BY DEF Reverse
  <2>3. \A i \in 1 .. Len(items) : (Len(items) - i) + 1 \in 1 .. Len(items)
    BY <2>1
  <2> HIDE DEF v
  <2>4. v \in [1 .. Len(items) -> Items(C)]
    BY <2>1, <2>2, <2>3
  <2>5. v \in Seq(Items(C)) /\ Len(v) = Len(items) /\ DOMAIN v = 1 .. Len(items)
    BY <2>1, <2>4
  <2>6. Apart(v)
    <3> SUFFICES ASSUME NEW i \in 1 .. Len(items), NEW j \in 1 .. Len(items), v[i].chunk = v[j].chunk
                 PROVE  i = j
      BY <2>5 DEF Apart
    <3>1. items[(Len(items) - i) + 1].chunk = items[(Len(items) - j) + 1].chunk
      BY <2>2
    <3>2. (Len(items) - i) + 1 = (Len(items) - j) + 1
      BY <1>2, <2>1, <2>3, <3>1 DEF Apart
    <3> QED BY <2>1, <3>2
  <2> QED BY <1>2, <2>5, <2>6 DEF v
<1>6. \/ ~case.reranker /\ r = FirstK(items, RequestedK)
      \/ \E list \in {items, Reverse(items)} : r = FirstK(WithinTiers(Rescored(list)), RequestedK)
  BY DEF Ranked
<1> QED BY <1>2, <1>3, <1>4, <1>5, <1>6

LEMMA GivenIs ==
    ASSUME CaseOK
    PROVE  /\ Len(Corpus) \in Nat /\ DOMAIN Corpus = 1 .. Len(Corpus)
           /\ \A c \in DOMAIN Corpus : c \in Nat /\ ChunkOK(Corpus, c)
           /\ FileOK(File)
           /\ \A l \in DenseLists \cup LexicalLists :
                 l \in Seq(Nat) /\ IsInjective(l) /\ Len(l) <= CandidateK /\ Range(l) \subseteq DOMAIN Corpus
           /\ \A l \in EvidenceRankings :
                 l \in Seq(Nat) /\ IsInjective(l) /\ Range(l) \subseteq DOMAIN File.chunks
<1>1. case.given \in DOMAIN Given
  BY DEF CaseOK
<1>2. Given[case.given] \in Range(Given)
  BY <1>1 DEF Range
<1>3. /\ Corpus = Given[case.given].corpus /\ File = Given[case.given].file
  BY DEF Corpus, File
<1>4. /\ FileOK(File) /\ Corpus \in Seq(Range(Corpus)) /\ \A c \in DOMAIN Corpus : ChunkOK(Corpus, c)
  BY <1>2, <1>3, GroundsAssumption
<1>5. Len(Corpus) \in Nat /\ DOMAIN Corpus = 1 .. Len(Corpus)
  BY <1>4
<1>6. \A l \in DenseLists \cup LexicalLists :
          l \in Seq(Nat) /\ IsInjective(l) /\ Len(l) <= CandidateK /\ Range(l) \subseteq DOMAIN Corpus
  BY <1>2, <1>3, GroundsAssumption
<1>7. \A l \in EvidenceRankings : l \in Seq(Nat) /\ IsInjective(l) /\ Range(l) \subseteq DOMAIN File.chunks
  BY <1>2, <1>3, GroundsAssumption
<1> QED BY <1>4, <1>5, <1>6, <1>7

LEMMA SearchesAre ==
    ASSUME CaseOK, NEW query, NEW lexical \in BOOLEAN, NEW t \in Searches(query, lexical)
    PROVE  TraceOK(t, query) /\ t.lexical = lexical
<1>1. PICK items : /\ \E r \in Ranked(items) : t = Trace(query, r, lexical)
                   /\ \/ \E w \in LexicalLists : items = LexicalOnly(w)
                      \/ \E d \in DenseLists, w \in LexicalLists : items = Fused(d, w)
  BY DEF Searches
<1>2. PICK r \in Ranked(items) : t = Trace(query, r, lexical)
  BY <1>1
<1>3. CandidatesOK(items, DOMAIN Corpus)
  <2>1. ASSUME NEW C, C \subseteq DOMAIN Corpus, CandidatesOK(items, C) PROVE CandidatesOK(items, DOMAIN Corpus)
    <3>1. items \in Seq(Items(C)) /\ Items(C) \subseteq Items(DOMAIN Corpus)
      BY <2>1 DEF CandidatesOK, Items
    <3>2. items \in Seq(Items(DOMAIN Corpus))
      BY <3>1
    <3> QED BY <2>1, <3>2 DEF CandidatesOK
  <2>2. CASE \E w \in LexicalLists : items = LexicalOnly(w)
    <3>1. PICK w \in LexicalLists : items = LexicalOnly(w)
      BY <2>2
    <3>2. w \in Seq(Nat) /\ IsInjective(w) /\ Len(w) <= CandidateK /\ Range(w) \subseteq DOMAIN Corpus
      BY GivenIs
    <3> QED BY <2>1, <3>1, <3>2, LexicalOnlyIs
  <2>3. CASE \E d \in DenseLists, w \in LexicalLists : items = Fused(d, w)
    <3>1. PICK d \in DenseLists, w \in LexicalLists : items = Fused(d, w)
      BY <2>3
    <3>2. /\ w \in Seq(Nat) /\ Len(w) <= CandidateK /\ Range(w) \subseteq DOMAIN Corpus
          /\ d \in Seq(Nat) /\ Len(d) <= CandidateK /\ Range(d) \subseteq DOMAIN Corpus
      BY GivenIs
    <3>3. CandidatesOK(items, Range(d) \cup Range(w))
      BY <3>1, <3>2, FusedIs
    <3>4. Range(d) \cup Range(w) \subseteq DOMAIN Corpus
      BY <3>2
    <3> QED BY <2>1, <3>3, <3>4
  <2> QED BY <1>1, <2>2, <2>3
<1>4. r \in Seq(Items(DOMAIN Corpus)) /\ Len(r) <= RequestedK /\ Apart(r) /\ (TiersHold => TiersKept(r))
  BY <1>2, <1>3, RankedAre
<1>5. t.query = query /\ t.results = r /\ t.lexical = lexical /\ t.fused \in BOOLEAN
  BY <1>2 DEF Trace
<1> QED BY <1>4, <1>5 DEF TraceOK

LEMMA TraceIs ==
    ASSUME TracesOK
    PROVE  /\ Len(traces) \in Nat /\ DOMAIN traces = 1 .. Len(traces) /\ Len(traces) <= 4
           /\ IsFiniteSet(Range(traces))
           /\ \A t \in Range(traces) : \E i \in 1 .. Len(traces) : t = traces[i] /\ TraceOK(t, Queries[i])
           /\ \A t \in Range(traces) :
                 /\ t.results \in Seq(Items(DOMAIN Corpus)) /\ Len(t.results) \in Nat
                 /\ DOMAIN t.results = 1 .. Len(t.results) /\ IsFiniteSet(Range(t.results))
                 /\ \A item \in Range(t.results) : item \in Items(DOMAIN Corpus)
<1>1. /\ traces \in Seq(Range(traces)) /\ Len(traces) \in {0, 2, 4}
      /\ \A i \in 1 .. Len(traces) : TraceOK(traces[i], Queries[i])
  BY DEF TracesOK
<1>2. Len(traces) \in Nat /\ DOMAIN traces = 1 .. Len(traces) /\ Len(traces) <= 4
  BY <1>1
<1>3. IsFiniteSet(Range(traces))
  BY <1>1, RangeFinite
<1>4. \A t \in Range(traces) : \E i \in 1 .. Len(traces) : t = traces[i] /\ TraceOK(t, Queries[i])
  BY <1>1, <1>2 DEF Range
<1>5. ASSUME NEW t \in Range(traces)
      PROVE  /\ t.results \in Seq(Items(DOMAIN Corpus)) /\ Len(t.results) \in Nat
             /\ DOMAIN t.results = 1 .. Len(t.results) /\ IsFiniteSet(Range(t.results))
             /\ \A item \in Range(t.results) : item \in Items(DOMAIN Corpus)
  <2>1. t.results \in Seq(Items(DOMAIN Corpus))
    BY <1>4 DEF TraceOK
  <2>2. IsFiniteSet(Range(t.results)) /\ Range(t.results) \subseteq Items(DOMAIN Corpus)
    BY <2>1, RangeFinite
  <2>3. Len(t.results) \in Nat /\ DOMAIN t.results = 1 .. Len(t.results)
    BY <2>1
  <2> QED BY <2>1, <2>2, <2>3
<1> QED BY <1>2, <1>3, <1>4, <1>5

(* The merge is of what the ranking queries returned, each chunk once.      *)
LEMMA MergedIs ==
    ASSUME CaseOK, TracesOK
    PROVE  /\ Len(Merged) \in Nat /\ DOMAIN Merged = 1 .. Len(Merged)
           /\ \A k \in 1 .. Len(Merged) :
                 /\ Merged[k].chunk \in DOMAIN Corpus /\ Merged[k].score \in Nat
                 /\ \E i \in 1 .. 2 : i \in DOMAIN traces /\ \E item \in Range(traces[i].results) : item.chunk = Merged[k].chunk
           /\ \A j, k \in 1 .. Len(Merged) : Merged[j].chunk = Merged[k].chunk => j = k
<1> DEFINE ts == {t \in Range(traces) : t.query \in RankingQueries}
           items == UNION {Range(t.results) : t \in ts}
           C == {i.chunk : i \in items}
           scores(c) == {i.score : i \in {j \in items : j.chunk = c}}
           g == [c \in C |-> [chunk |-> c, score |-> Max(scores(c))]]
           S == {g[c] : c \in C}
           s == ByScore(S)
           n == Cardinality(S)
<1>1. IsFiniteSet(items) /\ items \subseteq Items(DOMAIN Corpus)
  <2> DEFINE h == [t \in ts |-> Range(t.results)]
  <2>1. IsFiniteSet(ts)
    BY TraceIs, FS_Subset
  <2>2. IsFiniteSet({h[t] : t \in ts})
    <3> HIDE DEF ts
    <3> QED BY <2>1, FiniteImage
  <2>3. \A t \in ts : h[t] = Range(t.results) /\ IsFiniteSet(Range(t.results)) /\ Range(t.results) \subseteq Items(DOMAIN Corpus)
    BY TraceIs
  <2> HIDE DEF h
  <2>4. IsFiniteSet(UNION {h[t] : t \in ts})
    BY <2>2, <2>3, FS_UNION
  <2>5. items = UNION {h[t] : t \in ts}
    BY <2>3
  <2> QED BY <2>3, <2>4, <2>5
<1>2. \A item \in items : \E i \in 1 .. 2 : i \in DOMAIN traces /\ item \in Range(traces[i].results)
  <2> SUFFICES ASSUME NEW t \in ts, NEW item \in Range(t.results)
               PROVE  \E i \in 1 .. 2 : i \in DOMAIN traces /\ item \in Range(traces[i].results)
    OBVIOUS
  <2>1. PICK i \in 1 .. Len(traces) : t = traces[i] /\ TraceOK(t, Queries[i])
    BY TraceIs
  <2>2. Queries[i] \in {"framed", "bare"}
    BY <2>1 DEF TraceOK, RankingQueries
  <2>3. i \in 1 .. 4 /\ i \in DOMAIN traces
    BY TraceIs
  <2>4. i \in 1 .. 2
    BY <2>2, <2>3 DEF Queries
  <2> QED BY <2>1, <2>3, <2>4
<1>3. IsFiniteSet(C) /\ C \subseteq DOMAIN Corpus /\ \A c \in C : \E item \in items : item.chunk = c
  <2> DEFINE h == [i \in items |-> i.chunk]
  <2> HIDE DEF items
  <2>1. IsFiniteSet({h[i] : i \in items})
    BY <1>1, FiniteImage
  <2>2. C = {h[i] : i \in items}
    OBVIOUS
  <2> QED BY <1>1, <2>1, <2>2 DEF Items
<1> HIDE DEF items, ts
<1>4. \A c \in C : Max(scores(c)) \in Nat
  <2> SUFFICES ASSUME NEW c \in C PROVE Max(scores(c)) \in Nat
    OBVIOUS
  <2> DEFINE mine == {j \in items : j.chunk = c}
             h == [i \in mine |-> i.score]
  <2>1. IsFiniteSet(mine) /\ mine # {} /\ \A i \in mine : i.score \in Nat
    <3>1. IsFiniteSet(mine)
      BY <1>1, FS_Subset
    <3> QED BY <1>1, <1>3, <3>1 DEF Items
  <2> HIDE DEF mine
  <2>2. IsFiniteSet({h[i] : i \in mine})
    BY <2>1, FiniteImage, ZenonT(60)
  <2>3. {h[i] : i \in mine} = scores(c)
    BY DEF mine
  <2>4. scores(c) \in SUBSET Nat /\ scores(c) # {}
    BY <2>1, <2>3
  <2> HIDE DEF scores
  <2> QED BY <2>2, <2>3, <2>4, MaxIs
<1>5. /\ IsFiniteSet(S)
      /\ \A c \in C : g[c].chunk = c /\ g[c].score \in Nat
  <2> HIDE DEF C, scores
  <2>1. IsFiniteSet(S)
    <3>1. DOMAIN g = C
      OBVIOUS
    <3> HIDE DEF g
    <3> QED BY <1>3, <3>1, FiniteImage
  <2> QED BY <1>4, <2>1
<1>6. Merged = s
  <2>1. S = {[chunk |-> c, score |-> Max(scores(c))] : c \in C}
    <3> HIDE DEF C, scores
    <3> QED OBVIOUS
  <2>2. Merged = ByScore({[chunk |-> c, score |-> Max(scores(c))] : c \in C})
    BY DEF Merged, MergeOf, items, ts
  <2> QED BY <2>1, <2>2
<1> HIDE DEF g, C, scores
<1>7. \A x \in S : x.chunk \in C /\ x.chunk \in Nat /\ x.score \in Nat
  BY <1>3, <1>5, GivenIs
<1>8. \A x, y \in S : x.chunk = y.chunk => x = y
  BY <1>5
<1> HIDE DEF S
<1>9. /\ n \in Nat /\ s \in [1 .. n -> S]
      /\ \A i, j \in 1 .. n : i < j => Before(s[i], s[j]) /\ s[i].chunk # s[j].chunk
  BY <1>5, <1>7, <1>8, ByScoreIs
<1> HIDE DEF s, n
<1>10. Len(s) = n /\ DOMAIN s = 1 .. n
  BY <1>9
<1>11. \A k \in 1 .. n : s[k].chunk \in C /\ s[k].score \in Nat
  BY <1>7, <1>9
<1>12. \A k \in 1 .. n : /\ s[k].chunk \in DOMAIN Corpus
                        /\ \E i \in 1 .. 2 : i \in DOMAIN traces /\ \E item \in Range(traces[i].results) : item.chunk = s[k].chunk
  BY <1>2, <1>3, <1>11
<1>13. \A j, k \in 1 .. n : s[j].chunk = s[k].chunk => j = k
  <2> SUFFICES ASSUME NEW j \in 1 .. n, NEW k \in 1 .. n, s[j].chunk = s[k].chunk, j # k PROVE FALSE
    OBVIOUS
  <2>1. j < k \/ k < j
    BY <1>9
  <2> QED BY <1>9, <2>1
<1> QED BY <1>6, <1>9, <1>10, <1>11, <1>12, <1>13

(* What the support gate lets by was agreed on by two channels or by two    *)
(* queries.                                                                 *)
LEMMA SupportedIs ==
    ASSUME TracesOK, NEW c \in Supported
    PROVE  \/ \E t \in Range(traces) : \E item \in Range(t.results) :
                  item.chunk = c /\ item.dense \in 1 .. AgreementMaxRank /\ item.lexical \in 1 .. AgreementMaxRank
           \/ Cardinality({t.query : t \in {u \in Range(traces) : TopIn(c, u)}}) >= 2
<1>1. CASE \E t \in Range(traces) : c \in Agreeing(t)
  <2>1. PICK t \in Range(traces) : c \in Agreeing(t)
    BY <1>1
  <2>2. PICK r \in DOMAIN t.results : Agree(t.results[r]) /\ t.results[r].chunk = c
    BY <2>1 DEF Agreeing
  <2>3. t.results[r] \in Range(t.results)
    BY <2>2 DEF Range
  <2> QED BY <2>2, <2>3 DEF Agree
<1>2. CASE Corroborated(c)
  <2>1. PICK s \in Range(traces), t \in Range(traces) :
            Independent(s.query, t.query) /\ TopIn(c, s) /\ TopIn(c, t)
    BY <1>2 DEF Corroborated
  <2>2. s.query # t.query
    BY <2>1 DEF Independent
  <2> DEFINE found == {u \in Range(traces) : TopIn(c, u)}
             g == [u \in found |-> u.query]
             Q == {u.query : u \in found}
  <2>3. IsFiniteSet(found)
    BY TraceIs, FS_Subset
  <2>4. Q = {g[u] : u \in found}
    OBVIOUS
  <2>5. IsFiniteSet(Q)
    <3>1. DOMAIN g = found
      OBVIOUS
    <3> HIDE DEF g, found
    <3> QED BY <2>3, <2>4, <3>1, FiniteImage
  <2>6. s.query \in Q /\ t.query \in Q
    BY <2>1
  <2> HIDE DEF Q
  <2>7. Cardinality(Q) >= 2
    BY <2>2, <2>5, <2>6, AtLeastTwo
  <2> QED BY <2>7 DEF Q
<1>3. (\E t \in Range(traces) : c \in Agreeing(t)) \/ Corroborated(c)
  <2> DEFINE agreed == {Agreeing(t) : t \in {t \in Range(traces) : ~t.lexical}}
             seconded == {d \in DOMAIN Corpus : Corroborated(d)}
  <2>1. Supported = (UNION agreed) \cup seconded
    BY DEF Supported
  <2>2. ASSUME c \in UNION agreed PROVE \E t \in Range(traces) : c \in Agreeing(t)
    BY <2>2
  <2>3. ASSUME c \in seconded PROVE Corroborated(c)
    <3> HIDE DEF Corroborated
    <3> QED BY <2>3
  <2>4. c \in UNION agreed \/ c \in seconded
    <3> HIDE DEF agreed, seconded
    <3> QED BY <2>1
  <2>5. CASE c \in UNION agreed
    BY <2>2, <2>5
  <2>6. CASE c \in seconded
    BY <2>3, <2>6
  <2> QED BY <2>4, <2>5, <2>6
<1> QED BY <1>1, <1>2, <1>3

(* A candidate: a chunk that a ranking query returned, of a provision one of *)
(* whose chunks is in force and supported.                                  *)
CandidateOK(x) ==
    /\ x.rank \in Nat /\ x.score \in Nat /\ x.chunk \in DOMAIN Corpus
    /\ Chunk(x.chunk).citable \/ Chunk(x.chunk).part = "caput"
    /\ \E i \in 1 .. 2 : \E item \in Range(traces[i].results) : item.chunk = x.chunk
    /\ \E c \in Supported : c \in DOMAIN Corpus /\ Chunk(c).provision = Chunk(x.chunk).provision /\ Chunk(c).citable

CandidatesAre(candidates) ==
    /\ IsFiniteSet(candidates)
    /\ \A x \in candidates : CandidateOK(x)
    /\ \A x, y \in candidates : x.chunk = y.chunk => x = y

LEMMA EligibleIs ==
    ASSUME CaseOK, TracesOK
    PROVE  CandidatesAre(Eligible)
<1> DEFINE R == {q \in DOMAIN Merged : Merged[q].chunk \in Supported /\ Chunk(Merged[q].chunk).citable}
           g == [r \in R |-> Candidate(r)]
<1>1. /\ Len(Merged) \in Nat /\ DOMAIN Merged = 1 .. Len(Merged)
      /\ \A k \in 1 .. Len(Merged) :
            /\ Merged[k].chunk \in DOMAIN Corpus /\ Merged[k].score \in Nat
            /\ \E i \in 1 .. 2 : i \in DOMAIN traces /\ \E item \in Range(traces[i].results) : item.chunk = Merged[k].chunk
      /\ \A j, k \in 1 .. Len(Merged) : Merged[j].chunk = Merged[k].chunk => j = k
  BY MergedIs
<1>2. IsFiniteSet(R)
  <2>1. R \in SUBSET (1 .. Len(Merged)) /\ IsFiniteSet(1 .. Len(Merged))
    BY <1>1, FS_Interval
  <2> HIDE DEF R
  <2> QED BY <2>1, FS_Subset
<1>3. Eligible = {g[r] : r \in R}
  BY DEF Eligible
<1>4. IsFiniteSet(Eligible)
  <2>1. DOMAIN g = R
    OBVIOUS
  <2> HIDE DEF g, R
  <2> QED BY <1>2, <1>3, <2>1, FiniteImage
<1>5. ASSUME NEW r \in R PROVE CandidateOK(g[r]) /\ g[r].chunk = Merged[r].chunk
  <2>1. g[r].rank = r /\ g[r].chunk = Merged[r].chunk /\ g[r].score = Merged[r].score
    BY DEF Candidate
  <2>2. r \in 1 .. Len(Merged) /\ Merged[r].chunk \in Supported /\ Chunk(Merged[r].chunk).citable
    BY <1>1
  <2>3. Merged[r].chunk \in DOMAIN Corpus /\ Merged[r].score \in Nat /\ r \in Nat
    BY <1>1, <2>2
  <2>4. \E i \in 1 .. 2 : \E item \in Range(traces[i].results) : item.chunk = Merged[r].chunk
    BY <1>1, <2>2
  <2> HIDE DEF g
  <2>5. \E c \in Supported : c \in DOMAIN Corpus /\ Chunk(c).provision = Chunk(g[r].chunk).provision /\ Chunk(c).citable
    BY <2>1, <2>2, <2>3
  <2>6. /\ g[r].rank \in Nat /\ g[r].score \in Nat /\ g[r].chunk \in DOMAIN Corpus
        /\ Chunk(g[r].chunk).citable
        /\ \E i \in 1 .. 2 : \E item \in Range(traces[i].results) : item.chunk = g[r].chunk
    BY <2>1, <2>2, <2>3, <2>4
  <2> QED BY <2>1, <2>5, <2>6 DEF CandidateOK
<1>6. \A r, s \in R : g[r].chunk = g[s].chunk => r = s
  BY <1>1, <1>5
<1> HIDE DEF g, R
<1> QED BY <1>3, <1>4, <1>5, <1>6 DEF CandidatesAre

LEMMA DisambiguatedIs ==
    ASSUME CaseOK, TracesOK, NEW candidates, CandidatesAre(candidates)
    PROVE  CandidatesAre(Disambiguated(candidates))
<1> DEFINE found == OfProvision("cdc-42", candidates)
           kept  == {x \in found : Chunk(x.chunk).part # "sole paragraph"}
           caput == {r \in DOMAIN Merged : Chunk(Merged[r].chunk).part = "caput"}
           one == [rank |-> Min({x.rank : x \in found}), chunk |-> Merged[Min(caput)].chunk,
                   score |-> Max({Merged[Min(caput)].score} \cup {x.score : x \in found})]
           taken == IF caput = {} THEN {} ELSE {one}
           chosen == IF kept # {} THEN kept ELSE taken
<1>1. Disambiguated(candidates) = IF found = {} \/ ~case.harassment THEN candidates
                                  ELSE (candidates \ found) \cup chosen
  BY DEF Disambiguated
<1>2. CASE found = {} \/ ~case.harassment
  BY <1>1, <1>2
<1>3. ASSUME NEW T \in SUBSET candidates PROVE CandidatesAre(T)
  BY FS_Subset DEF CandidatesAre
<1>4. CASE found # {} /\ case.harassment /\ (kept # {} \/ caput = {})
  <2>1. (candidates \ found) \cup chosen \in SUBSET candidates
    BY <1>4 DEF OfProvision
  <2> QED BY <1>1, <1>3, <1>4, <2>1
<1>5. CASE found # {} /\ kept = {} /\ caput # {} /\ case.harassment
  <2>1. Disambiguated(candidates) = (candidates \ found) \cup {one}
    BY <1>1, <1>5
  <2>2. PICK y \in candidates : Chunk(y.chunk).provision = "cdc-42"
    BY <1>5 DEF OfProvision
  <2>3. IsFiniteSet(found) /\ \A x \in found : x.rank \in Nat /\ x.score \in Nat
    BY FS_Subset DEF OfProvision, CandidatesAre, CandidateOK
  <2>4. /\ Min(caput) \in 1 .. Len(Merged) /\ Chunk(Merged[Min(caput)].chunk).part = "caput"
        /\ Merged[Min(caput)].chunk \in DOMAIN Corpus /\ Merged[Min(caput)].score \in Nat
        /\ \E i \in 1 .. 2 : \E item \in Range(traces[i].results) : item.chunk = Merged[Min(caput)].chunk
    <3>1. DOMAIN Merged = 1 .. Len(Merged) /\ caput \in SUBSET Nat
      BY MergedIs
    <3>2. Min(caput) \in caput
      <4> HIDE DEF caput
      <4> QED BY <1>5, <3>1, MinIs
    <3> QED BY <3>1, <3>2, MergedIs
  <2>5. Chunk(one.chunk).provision = "cdc-42" /\ one.chunk = Merged[Min(caput)].chunk
    BY <2>4, GivenIs DEF ChunkOK, Chunk
  <2>6. one.rank \in Nat
    <3> DEFINE ranks == {x.rank : x \in found}
    <3>1. ranks \in SUBSET Nat /\ ranks # {}
      BY <1>5, <2>3
    <3> HIDE DEF ranks
    <3>2. Min(ranks) \in Nat
      BY <3>1, MinIs
    <3> QED BY <3>2 DEF ranks
  <2>7. one.score \in Nat
    <3> DEFINE g == [x \in found |-> x.score]
               scores == {Merged[Min(caput)].score} \cup {x.score : x \in found}
    <3>1. scores = {Merged[Min(caput)].score} \cup {g[x] : x \in found}
      OBVIOUS
    <3>2. IsFiniteSet({g[x] : x \in found})
      <4>1. DOMAIN g = found
        OBVIOUS
      <4> HIDE DEF g, found
      <4> QED BY <2>3, <4>1, FiniteImage
    <3>3. IsFiniteSet(scores)
      <4> HIDE DEF g, scores
      <4> QED BY <3>1, <3>2, FS_Singleton, FS_Union
    <3>4. scores \in SUBSET Nat /\ scores # {}
      BY <2>3, <2>4
    <3> HIDE DEF scores
    <3>5. Max(scores) \in Nat
      BY <3>3, <3>4, MaxIs
    <3> QED BY <3>5 DEF scores
  <2>8. \E c \in Supported : c \in DOMAIN Corpus /\ Chunk(c).provision = "cdc-42" /\ Chunk(c).citable
    BY <2>2 DEF CandidatesAre, CandidateOK
  <2> HIDE DEF one
  <2>9. CandidateOK(one)
    BY <2>4, <2>5, <2>6, <2>7, <2>8 DEF CandidateOK
  <2>10. /\ IsFiniteSet((candidates \ found) \cup {one})
         /\ \A x \in candidates \ found : CandidateOK(x)
         /\ \A u, v \in candidates \ found : u.chunk = v.chunk => u = v
    <3>1. CandidatesAre(candidates \ found)
      BY <1>3
    <3> QED BY <3>1, FS_AddElement DEF CandidatesAre
  <2>11. \A x \in candidates \ found : x.chunk # one.chunk
    BY <2>5 DEF OfProvision
  <2> QED BY <2>1, <2>9, <2>10, <2>11 DEF CandidatesAre
<1> QED BY <1>2, <1>4, <1>5

LEMMA OccurrencesIs ==
    ASSUME TracesOK, NEW c
    PROVE  Occurrences(c) \in Nat
<1> DEFINE found == {u \in Range(traces) : \E i \in Range(u.results) : i.chunk = c}
           g == [u \in found |-> u.query]
<1>1. IsFiniteSet(found)
  BY TraceIs, FS_Subset
<1>2. {t.query : t \in found} = {g[u] : u \in found}
  OBVIOUS
<1>3. IsFiniteSet({g[u] : u \in found})
  <2>1. DOMAIN g = found
    OBVIOUS
  <2> HIDE DEF g, found
  <2> QED BY <1>1, <2>1, FiniteImage
<1>4. Occurrences(c) = Cardinality({t.query : t \in found})
  BY DEF Occurrences
<1> HIDE DEF g, found
<1> QED BY <1>2, <1>3, <1>4, FS_CardinalityType

(* Of several candidates one is preferred to the others.                    *)
LEMMA PreferredIs ==
    ASSUME TracesOK, NEW siblings, CandidatesAre(siblings), siblings # {},
           \A x \in siblings : x.chunk \in Nat
    PROVE  \E x \in siblings : \A y \in siblings \ {x} : Preferred(x, y)
<1> DEFINE occ  == [x \in siblings |-> Occurrences(x.chunk)]
           unit == [x \in siblings |-> IF OfUnit(x.chunk) THEN 1 ELSE 0]
           at   == [x \in siblings |-> x.chunk]
           pts  == [x \in siblings |-> x.score]
           Over(x, y) == \/ occ[x] > occ[y]
                         \/ occ[x] = occ[y] /\ unit[x] > unit[y]
                         \/ occ[x] = occ[y] /\ unit[x] = unit[y] /\ pts[x] > pts[y]
                         \/ occ[x] = occ[y] /\ unit[x] = unit[y] /\ pts[x] = pts[y] /\ at[x] < at[y]
           before == {p \in siblings \X siblings : Over(p[1], p[2])}
           n == Cardinality(siblings)
           s == InOrder(siblings, before)
<1>1. \A x \in siblings : occ[x] \in Nat /\ unit[x] \in Nat /\ at[x] \in Nat /\ pts[x] \in Nat
  BY OccurrencesIs DEF CandidatesAre, CandidateOK
<1>2. \A x, y \in siblings : at[x] = at[y] => x = y
  BY DEF CandidatesAre
<1>3. \A x, y \in siblings : Over(x, y) => Preferred(x, y)
  <2> SUFFICES ASSUME NEW x \in siblings, NEW y \in siblings, Over(x, y) PROVE Preferred(x, y)
    OBVIOUS
  <2>1. occ[x] = Occurrences(x.chunk) /\ occ[y] = Occurrences(y.chunk) /\ pts[x] = x.score /\ pts[y] = y.score
        /\ at[x] = x.chunk /\ at[y] = y.chunk
    OBVIOUS
  <2>2. CASE occ[x] > occ[y]
    BY <2>1, <2>2 DEF Preferred
  <2>3. CASE occ[x] = occ[y] /\ unit[x] > unit[y]
    <3>1. OfUnit(x.chunk) /\ ~OfUnit(y.chunk)
      BY <2>3
    <3> QED BY <2>1, <2>3, <3>1 DEF Preferred
  <2>4. CASE occ[x] = occ[y] /\ unit[x] = unit[y] /\ (pts[x] > pts[y] \/ (pts[x] = pts[y] /\ at[x] < at[y]))
    <3>1. OfUnit(x.chunk) <=> OfUnit(y.chunk)
      BY <2>4
    <3>2. OfUnit(x.chunk) = OfUnit(y.chunk)
      BY <3>1 DEF OfUnit
    <3>3. Before(x, y)
      BY <2>1, <2>4 DEF Before
    <3> QED BY <2>1, <2>4, <3>2, <3>3 DEF Preferred
  <2> QED BY <2>2, <2>3, <2>4
<1> HIDE DEF occ, unit, at, pts
<1>4. \A x, y \in siblings : <<x, y>> \in before <=> Over(x, y)
  OBVIOUS
<1>5. StrictOrder(siblings, before)
  <2>1. \A x \in siblings : <<x, x>> \notin before
    BY <1>1, <1>4
  <2>2. \A x, y \in siblings : x # y => <<x, y>> \in before \/ <<y, x>> \in before
    <3> SUFFICES ASSUME NEW x \in siblings, NEW y \in siblings, x # y PROVE Over(x, y) \/ Over(y, x)
      BY <1>4
    <3>1. at[x] # at[y]
      BY <1>2
    <3> QED BY <1>1, <3>1
  <2>3. \A x, y, z \in siblings : <<x, y>> \in before /\ <<y, z>> \in before => <<x, z>> \in before
    <3> SUFFICES ASSUME NEW x \in siblings, NEW y \in siblings, NEW z \in siblings, Over(x, y), Over(y, z)
                 PROVE  Over(x, z)
      BY <1>4
    <3>1. /\ occ[x] \in Nat /\ occ[y] \in Nat /\ occ[z] \in Nat /\ unit[x] \in Nat /\ unit[y] \in Nat /\ unit[z] \in Nat
          /\ at[x] \in Nat /\ at[y] \in Nat /\ at[z] \in Nat /\ pts[x] \in Nat /\ pts[y] \in Nat /\ pts[z] \in Nat
      BY <1>1
    <3> QED BY <3>1
  <2> HIDE DEF before
  <2> QED BY <2>1, <2>2, <2>3 DEF StrictOrder
<1> HIDE DEF before
<1>6. /\ n \in Nat /\ s \in [1 .. n -> siblings]
      /\ \A x \in siblings : \E k \in 1 .. n : s[k] = x
      /\ \A i, j \in 1 .. n : i < j => <<s[i], s[j]>> \in before /\ s[i] # s[j]
  BY <1>5, InOrderIs DEF CandidatesAre
<1> HIDE DEF n, s, Over
<1>7. 1 \in 1 .. n
  BY <1>6
<1>8. \A y \in siblings \ {s[1]} : Preferred(s[1], y)
  <2> SUFFICES ASSUME NEW y \in siblings \ {s[1]} PROVE Preferred(s[1], y)
    OBVIOUS
  <2>1. PICK k \in 1 .. n : s[k] = y
    BY <1>6
  <2>2. 1 < k /\ s[1] \in siblings
    BY <1>6, <1>7, <2>1
  <2>3. Over(s[1], y)
    BY <1>4, <1>6, <1>7, <2>1, <2>2
  <2> QED BY <1>3, <2>2, <2>3
<1> QED BY <1>6, <1>7, <1>8

LEMMA StandingIs ==
    ASSUME CaseOK, TracesOK, NEW siblings, CandidatesAre(siblings), siblings # {},
           NEW p, \A x \in siblings : Chunk(x.chunk).provision = p
    PROVE  LET s == Standing(siblings) IN
           GroundOK(s) /\ s.provision = p /\ s.place \in Nat /\ s.matched \in Nat
<1> DEFINE chosen == CHOOSE x \in siblings : \A y \in siblings \ {x} : Preferred(x, y)
           ranks == {x.rank : x \in siblings}
           s == Standing(siblings)
<1>1. \A x \in siblings : CandidateOK(x) /\ x.chunk \in Nat
  BY GivenIs DEF CandidatesAre, CandidateOK
<1>2. chosen \in siblings
  <2>1. \E x \in siblings : \A y \in siblings \ {x} : Preferred(x, y)
    BY <1>1, PreferredIs
  <2> QED BY <2>1
<1>3. ranks \in SUBSET Nat /\ ranks # {}
  BY <1>1 DEF CandidateOK
<1>4. s.place = Min(ranks) /\ s.matched = chosen.chunk /\ s.quoted = Chunk(chosen.chunk).quotes
      /\ s.provision = Chunk(chosen.chunk).provision /\ s.law = Chunk(chosen.chunk).law
  BY DEF Standing
<1> HIDE DEF chosen, ranks, s
<1>5. s.place \in Nat
  BY <1>3, <1>4, MinIs
<1>6. GroundOK(s)
  BY <1>1, <1>2, <1>4 DEF GroundOK, CandidateOK
<1>7. s.provision = p /\ s.matched \in Nat
  BY <1>1, <1>2, <1>4
<1> QED BY <1>5, <1>6, <1>7 DEF s

(* One standing for each provision, by place.                               *)
LEMMA StandingsAre ==
    ASSUME CaseOK, TracesOK
    PROVE  /\ Len(Standings) \in Nat /\ Standings \in Seq(Range(Standings))
           /\ \A k \in 1 .. Len(Standings) : GroundOK(Standings[k])
           /\ \A i, j \in 1 .. Len(Standings) : i # j => Standings[i].provision # Standings[j].provision
<1> DEFINE candidates == Disambiguated(Eligible)
           P == {Chunk(x.chunk).provision : x \in candidates}
           h == [x \in candidates |-> Chunk(x.chunk).provision]
           g == [p \in P |-> Standing(OfProvision(p, candidates))]
           S == {g[p] : p \in P}
           before == {p \in S \X S : \/ p[1].place < p[2].place
                                     \/ p[1].place = p[2].place /\ p[1].matched < p[2].matched}
           n == Cardinality(S)
<1>1. CandidatesAre(candidates)
  BY EligibleIs, DisambiguatedIs
<1>2. IsFiniteSet(P) /\ DOMAIN g = P
  <2>1. P = {h[x] : x \in candidates} /\ DOMAIN h = candidates
    OBVIOUS
  <2>2. IsFiniteSet({h[x] : x \in candidates})
    <3> HIDE DEF h, candidates
    <3> QED BY <1>1, <2>1, FiniteImage DEF CandidatesAre
  <2> QED BY <2>1, <2>2
<1>3. ASSUME NEW p \in P
      PROVE  GroundOK(g[p]) /\ g[p].provision = p /\ g[p].place \in Nat /\ g[p].matched \in Nat
  <2> DEFINE siblings == OfProvision(p, candidates)
  <2>1. siblings # {} /\ \A x \in siblings : Chunk(x.chunk).provision = p
    BY DEF OfProvision
  <2>2. CandidatesAre(siblings)
    <3>1. siblings \in SUBSET candidates
      BY DEF OfProvision
    <3> HIDE DEF siblings, candidates
    <3> QED BY <1>1, <3>1, FS_Subset DEF CandidatesAre
  <2>3. g[p] = Standing(siblings)
    OBVIOUS
  <2> HIDE DEF siblings, g
  <2> QED BY <2>1, <2>2, <2>3, StandingIs
<1>4. Standings = InOrder(S, before)
  BY DEF Standings, ByPlace
<1> HIDE DEF g, P, h, candidates
<1>5. IsFiniteSet(S)
  BY <1>2, FiniteImage
<1>6. /\ \A x \in S : GroundOK(x) /\ x.place \in Nat /\ x.matched \in Nat
      /\ \A x, y \in S : x # y => x.provision # y.provision /\ x.matched # y.matched
  <2>1. \A x \in S : \E p \in P : x = g[p]
    OBVIOUS
  <2>2. \A x \in S : GroundOK(x) /\ x.place \in Nat /\ x.matched \in Nat
    BY <1>3, <2>1
  <2>3. \A x, y \in S : x # y => x.provision # y.provision
    BY <1>3, <2>1
  <2>4. \A x \in S : x.provision = Chunk(x.matched).provision
    BY <2>2 DEF GroundOK
  <2> QED BY <2>2, <2>3, <2>4
<1>7. StrictOrder(S, before)
  <2>1. \A x, y \in S : <<x, y>> \in before <=>
            x.place < y.place \/ (x.place = y.place /\ x.matched < y.matched)
    OBVIOUS
  <2> HIDE DEF S, before
  <2>2. \A x \in S : <<x, x>> \notin before
    BY <1>6, <2>1
  <2>3. \A x, y \in S : x # y => <<x, y>> \in before \/ <<y, x>> \in before
    BY <1>6, <2>1
  <2>4. \A x, y, z \in S : <<x, y>> \in before /\ <<y, z>> \in before => <<x, z>> \in before
    BY <1>6, <2>1
  <2> QED BY <2>2, <2>3, <2>4 DEF StrictOrder
<1> HIDE DEF S, before
<1>8. /\ n \in Nat /\ Standings \in [1 .. n -> S]
      /\ \A i, j \in 1 .. n : i < j => Standings[i] # Standings[j]
  <2> DEFINE s == InOrder(S, before)
  <2>1. /\ n \in Nat /\ s \in [1 .. n -> S]
        /\ \A x \in S : \E k \in 1 .. n : s[k] = x
        /\ \A i, j \in 1 .. n : i < j => <<s[i], s[j]>> \in before /\ s[i] # s[j]
    BY <1>5, <1>7, InOrderIs
  <2> HIDE DEF n, s
  <2>2. Standings = s
    BY <1>4 DEF s
  <2> QED BY <2>1, <2>2
<1> HIDE DEF n
<1>9. Len(Standings) = n /\ Standings \in Seq(Range(Standings))
  BY <1>8 DEF Range
<1>10. \A i, j \in 1 .. n : i # j => Standings[i] # Standings[j]
  <2> SUFFICES ASSUME NEW i \in 1 .. n, NEW j \in 1 .. n, i # j PROVE Standings[i] # Standings[j]
    OBVIOUS
  <2>1. i < j \/ j < i
    BY <1>8
  <2> QED BY <1>8, <2>1
<1> QED BY <1>6, <1>8, <1>9, <1>10

(* What may be cited may be cited in part.                                  *)
LEMMA KeptListable ==
    ASSUME NEW gs, Listable(gs), NEW P \in SUBSET DOMAIN gs
    PROVE  /\ Listable(Those(gs, P)) /\ Range(Those(gs, P)) \subseteq Range(gs)
           /\ \A g \in Range(Those(gs, P)) : \E p \in P : g = gs[p]
<1> DEFINE t == Those(gs, P)
           extra(s) == {g \in Range(s) : g.law \in Complementary}
<1>1. gs \in Seq(Range(gs)) /\ Len(gs) \in Nat /\ P \in SUBSET (1 .. Len(gs)) /\ DOMAIN gs = 1 .. Len(gs)
  BY DEF Listable
<1>2. t \in Seq(Range(gs)) /\ Len(t) \in Nat /\ Len(t) <= Len(gs)
  BY <1>1, Filtered
<1>3. PICK at \in [1 .. Len(t) -> P] :
          /\ \A k \in 1 .. Len(t) : t[k] = gs[at[k]]
          /\ \A i, j \in 1 .. Len(t) : i < j => at[i] < at[j]
  BY <1>1, Filtered
<1> HIDE DEF t
<1>4. DOMAIN t = 1 .. Len(t) /\ \A k \in 1 .. Len(t) : at[k] \in 1 .. Len(gs)
  BY <1>1, <1>2, <1>3
<1>5. t \in Seq(Range(t)) /\ Range(t) \subseteq Range(gs) /\ \A g \in Range(t) : \E p \in P : g = gs[p]
  <2>1. Range(t) = {t[k] : k \in 1 .. Len(t)}
    BY <1>4 DEF Range
  <2>2. \A k \in 1 .. Len(t) : at[k] \in P /\ t[k] = gs[at[k]]
    BY <1>3
  <2>3. \A g \in Range(t) : \E p \in P : g = gs[p]
    BY <2>1, <2>2
  <2>4. t \in Seq(Range(t))
    BY <1>2, <2>1
  <2>5. Range(t) \subseteq Range(gs)
    BY <2>3 DEF Range
  <2> QED BY <2>3, <2>4, <2>5
<1>6. \A i, j \in DOMAIN t : i # j => t[i].provision # t[j].provision
  <2> SUFFICES ASSUME NEW i \in 1 .. Len(t), NEW j \in 1 .. Len(t), i # j PROVE t[i].provision # t[j].provision
    BY <1>4
  <2>1. i < j \/ j < i
    BY <1>2
  <2>2. at[i] # at[j] /\ at[i] \in DOMAIN gs /\ at[j] \in DOMAIN gs
    BY <1>1, <1>3, <1>4, <2>1
  <2> QED BY <1>3, <2>2 DEF Listable
<1>7. IsFiniteSet(extra(gs)) /\ Cardinality(extra(gs)) <= MaxComplementary /\ (DegradedRanking => extra(gs) = {})
  BY DEF Listable
<1>8. IsFiniteSet(extra(t)) /\ Cardinality(extra(t)) <= MaxComplementary /\ (DegradedRanking => extra(t) = {})
  <2>1. extra(t) \in SUBSET extra(gs)
    BY <1>5
  <2>2. MaxComplementary \in Nat
    BY GroundsAssumption
  <2> DEFINE now == extra(t)
             old == extra(gs)
  <2>3. IsFiniteSet(old) /\ Cardinality(old) <= MaxComplementary /\ (DegradedRanking => old = {}) /\ now \in SUBSET old
    BY <1>7, <2>1
  <2> HIDE DEF now, old, DegradedRanking
  <2>4. IsFiniteSet(now) /\ Cardinality(now) <= Cardinality(old) /\ Cardinality(now) \in Nat /\ Cardinality(old) \in Nat
    BY <2>3, FS_Subset, FS_CardinalityType
  <2>5. IsFiniteSet(now) /\ Cardinality(now) <= MaxComplementary /\ (DegradedRanking => now = {})
    BY <2>2, <2>3, <2>4
  <2> QED BY <2>5 DEF now
<1>9. Len(t) <= MaxGrounds /\ \A g \in Range(t) : GroundOK(g)
  <2>1. Len(gs) <= MaxGrounds /\ MaxGrounds \in Nat /\ \A g \in Range(gs) : GroundOK(g)
    BY GroundsAssumption DEF Listable
  <2> QED BY <1>1, <1>2, <1>5, <2>1
<1> HIDE DEF extra
<1>10. Listable(t)
  BY <1>5, <1>6, <1>8, <1>9 DEF Listable, extra
<1> QED BY <1>5, <1>10 DEF t

LEMMA AnchoredIs ==
    ASSUME NEW gs, Listable(gs)
    PROVE  Listable(Anchored(gs)) /\ AnchorHeld(Anchored(gs))
<1>1. CASE \E g \in Range(gs) : g.law = "cdc"
  BY <1>1 DEF Anchored, AnchorHeld
<1>2. CASE ~ \E g \in Range(gs) : g.law = "cdc"
  <2> DEFINE P == {k \in DOMAIN gs : gs[k].law # "civil"}
  <2>1. Anchored(gs) = Those(gs, P) /\ P \in SUBSET DOMAIN gs
    BY <1>2 DEF Anchored
  <2>2. \A p \in P : gs[p].law # "civil"
    OBVIOUS
  <2> HIDE DEF P
  <2>3. Listable(Those(gs, P)) /\ \A g \in Range(Those(gs, P)) : g.law # "civil"
    BY <2>1, <2>2, KeptListable
  <2> QED BY <2>1, <2>3 DEF AnchorHeld
<1> QED BY <1>1, <1>2

(* The places that complementary laws take are counted before each is given. *)
LEMMA ComplementaryCounted ==
    ASSUME CaseOK, TracesOK
    PROVE  LET X == {k \in DOMAIN Standings : Admits(Standings, k) /\ Standings[k].law \in Complementary}
           IN  /\ IsFiniteSet(X) /\ Cardinality(X) \in Nat /\ Cardinality(X) <= MaxComplementary
               /\ DegradedRanking => X = {}
<1> DEFINE st == Standings
           X == {k \in DOMAIN st : Admits(st, k) /\ st[k].law \in Complementary}
           prior(m) == {j \in 1 .. m - 1 : st[j].law \in Complementary}
<1>1. Len(st) \in Nat /\ DOMAIN st = 1 .. Len(st)
  BY StandingsAre
<1>2. X \in SUBSET Nat /\ IsFiniteSet(X)
  <2>1. X \in SUBSET (1 .. Len(st)) /\ X \in SUBSET Nat /\ IsFiniteSet(1 .. Len(st))
    BY <1>1, FS_Interval
  <2> HIDE DEF X
  <2> QED BY <2>1, FS_Subset
<1>3. DegradedRanking => X = {}
  BY DEF DegradedRanking, Admits
<1>4. ASSUME X # {} PROVE Cardinality(X) <= MaxComplementary
  <2> DEFINE m == Max(X)
             P == prior(m)
  <2>1. m \in X /\ \A y \in X : y <= m
    <3> HIDE DEF X
    <3> QED BY <1>2, <1>4, MaxIs
  <2>2. m \in Nat /\ Cardinality(P) < MaxComplementary
    BY <1>2, <2>1 DEF Admits
  <2>3. IsFiniteSet(P)
    <3>1. P \in SUBSET (1 .. m - 1)
      OBVIOUS
    <3>2. IsFiniteSet(1 .. m - 1)
      BY <2>2, FS_Interval
    <3> HIDE DEF P
    <3> QED BY <3>1, <3>2, FS_Subset
  <2>4. X \in SUBSET (P \cup {m})
    <3> SUFFICES ASSUME NEW y \in X, y # m PROVE y \in P
      OBVIOUS
    <3>1. y \in Nat /\ y >= 1 /\ y <= m /\ st[y].law \in Complementary
      BY <1>1, <2>1
    <3>2. y \in 1 .. m - 1
      BY <2>2, <3>1
    <3> QED BY <3>1, <3>2
  <2> HIDE DEF m, P, X, prior
  <2>5. /\ IsFiniteSet(P \cup {m}) /\ Cardinality(P) \in Nat
        /\ Cardinality(P \cup {m}) = Cardinality(P) \/ Cardinality(P \cup {m}) = Cardinality(P) + 1
    BY <2>3, FS_AddElement, FS_CardinalityType
  <2>6. Cardinality(X) <= Cardinality(P \cup {m}) /\ Cardinality(X) \in Nat
    BY <2>4, <2>5, FS_Subset, FS_CardinalityType
  <2>7. MaxComplementary \in Nat
    BY GroundsAssumption
  <2> QED BY <2>2, <2>5, <2>6, <2>7
<1>5. MaxComplementary \in Nat
  BY GroundsAssumption
<1>6. Cardinality(X) \in Nat /\ Cardinality(X) <= MaxComplementary
  <2> HIDE DEF X
  <2>1. CASE X = {}
    BY <1>5, <2>1, FS_EmptySet
  <2> QED BY <1>2, <1>4, <2>1, FS_CardinalityType
<1> QED BY <1>2, <1>3, <1>6

LEMMA WindowIs ==
    ASSUME CaseOK, TracesOK
    PROVE  Listable(GroundWindow)
<1> DEFINE st == Standings
           P == {k \in DOMAIN st : Admits(st, k)}
           X == {k \in DOMAIN st : Admits(st, k) /\ st[k].law \in Complementary}
           t == Those(st, P)
           w == FirstK(t, MaxGrounds)
           h == [k \in X |-> st[k]]
           H == {h[k] : k \in X}
           extra == {g \in Range(w) : g.law \in Complementary}
<1>1. /\ Len(st) \in Nat /\ st \in Seq(Range(st)) /\ DOMAIN st = 1 .. Len(st)
      /\ \A k \in 1 .. Len(st) : GroundOK(st[k])
      /\ \A i, j \in 1 .. Len(st) : i # j => st[i].provision # st[j].provision
  BY StandingsAre
<1>2. IsFiniteSet(X) /\ Cardinality(X) \in Nat /\ Cardinality(X) <= MaxComplementary /\ (DegradedRanking => X = {})
  BY ComplementaryCounted
<1>3. GroundWindow = w
  BY DEF GroundWindow
<1>4. P \in SUBSET (1 .. Len(st)) /\ \A k \in P : st[k].law \in Complementary => k \in X
  BY <1>1
<1>5. IsFiniteSet(H) /\ Cardinality(H) <= Cardinality(X) /\ Cardinality(H) \in Nat /\ (DegradedRanking => H = {})
  <2>1. h \in Surjection(X, H)
    BY DEF Surjection
  <2>2. X = {} => H = {}
    OBVIOUS
  <2> HIDE DEF h, H, X
  <2> QED BY <1>2, <2>1, <2>2, FS_Surjection, FS_CardinalityType
<1>6. \A k \in X : st[k] \in H
  OBVIOUS
<1> HIDE DEF st, P, X, h, H
<1>7. t \in Seq(Range(st)) /\ Len(t) \in Nat
  BY <1>1, <1>4, Filtered
<1>8. PICK at \in [1 .. Len(t) -> P] :
          /\ \A k \in 1 .. Len(t) : t[k] = st[at[k]]
          /\ \A i, j \in 1 .. Len(t) : i < j => at[i] < at[j]
  BY <1>1, <1>4, Filtered
<1> HIDE DEF t
<1>9. MaxGrounds \in Nat
  BY GroundsAssumption
<1>10. /\ w \in Seq(Range(st)) /\ Len(w) \in Nat /\ Len(w) <= MaxGrounds
       /\ \A i \in 1 .. Len(w) : i \in 1 .. Len(t) /\ w[i] = t[i]
  BY <1>7, <1>9, FirstKAt
<1> HIDE DEF w
<1>11. DOMAIN w = 1 .. Len(w) /\ \A k \in 1 .. Len(w) : at[k] \in P /\ w[k] = st[at[k]]
  BY <1>8, <1>10
<1>12. /\ w \in Seq(Range(w)) /\ \A g \in Range(w) : \E p \in P : g = st[p]
  BY <1>10, <1>11 DEF Range
<1>13. \A i, j \in DOMAIN w : i # j => w[i].provision # w[j].provision
  <2> SUFFICES ASSUME NEW i \in 1 .. Len(w), NEW j \in 1 .. Len(w), i # j PROVE w[i].provision # w[j].provision
    BY <1>11
  <2>1. i < j \/ j < i
    BY <1>10
  <2>2. at[i] \in Nat /\ at[j] \in Nat /\ i \in 1 .. Len(t) /\ j \in 1 .. Len(t)
    <3>1. P \in SUBSET Nat
      BY <1>1, <1>4
    <3>2. i \in 1 .. Len(t) /\ j \in 1 .. Len(t)
      BY <1>10
    <3> QED BY <1>11, <3>1, <3>2
  <2>3. at[i] # at[j] /\ at[i] \in 1 .. Len(st) /\ at[j] \in 1 .. Len(st)
    BY <1>4, <1>8, <1>11, <2>1, <2>2
  <2> QED BY <1>1, <1>11, <2>3
<1>14. \A g \in Range(w) : GroundOK(g)
  BY <1>1, <1>4, <1>12
<1>15. extra \in SUBSET H
  BY <1>4, <1>6, <1>12
<1>16. IsFiniteSet(extra) /\ Cardinality(extra) <= MaxComplementary /\ (DegradedRanking => extra = {})
  <2> HIDE DEF extra, DegradedRanking
  <2>1. IsFiniteSet(extra) /\ Cardinality(extra) <= Cardinality(H) /\ Cardinality(extra) \in Nat
    BY <1>5, <1>15, FS_Subset, FS_CardinalityType
  <2>2. MaxComplementary \in Nat
    BY GroundsAssumption
  <2> QED BY <1>2, <1>5, <1>15, <2>1, <2>2
<1> HIDE DEF extra
<1>17. Listable(w)
  BY <1>10, <1>12, <1>13, <1>14, <1>16 DEF Listable, extra
<1> QED BY <1>3, <1>17

LEMMA SelectedIs ==
    ASSUME CaseOK, TracesOK
    PROVE  Listable(Selected) /\ AnchorHeld(Selected)
<1> DEFINE P == {k \in DOMAIN GroundWindow : AboveFloor(GroundWindow[k])}
<1>1. Selected = Anchored(Those(GroundWindow, P)) /\ P \in SUBSET DOMAIN GroundWindow
  BY DEF Selected
<1> HIDE DEF P
<1>2. Listable(Those(GroundWindow, P))
  BY <1>1, WindowIs, KeptListable
<1> QED BY <1>1, <1>2, AnchoredIs

LEMMA PlacesOfTraces ==
    ASSUME TracesOK
    PROVE  /\ IsFiniteSet(Places(traces))
           /\ \A p \in Places(traces) :
                 /\ p[1] \in 1 .. Len(traces) /\ p[2] \in DOMAIN traces[p[1]].results /\ p = <<p[1], p[2]>>
                 /\ p[1] \in Nat /\ At(traces, p) \in Items(DOMAIN Corpus)
           /\ \A i \in 1 .. Len(traces) : \A k \in DOMAIN traces[i].results :
                 <<i, k>> \in Places(traces) /\ At(traces, <<i, k>>) = traces[i].results[k]
<1> DEFINE n == Len(traces)
           seqs == [i \in DOMAIN traces |-> traces[i].results]
<1>1. n \in Nat /\ DOMAIN traces = 1 .. n /\ \A i \in 1 .. n : traces[i] \in Range(traces)
  BY TraceIs DEF Range
<1>2. \A i \in 1 .. n : /\ traces[i].results \in Seq(Items(DOMAIN Corpus)) /\ Len(traces[i].results) \in Nat
                        /\ DOMAIN traces[i].results = 1 .. Len(traces[i].results)
  BY <1>1, TraceIs
<1>3. DOMAIN seqs = 1 .. n /\ \A i \in 1 .. n : seqs[i] = traces[i].results
  BY <1>1
<1>4. Places(traces) = Positions(seqs)
  BY DEF Places
<1> HIDE DEF n, seqs
<1>5. \A i \in 1 .. n : \E m \in Nat : DOMAIN seqs[i] = 1 .. m
  BY <1>2, <1>3
<1>6. /\ IsFiniteSet(Positions(seqs)) /\ Positions(seqs) \in SUBSET (Nat \X Nat)
      /\ \A p, i : <<p, i>> \in Positions(seqs) <=> p \in 1 .. n /\ i \in DOMAIN seqs[p]
  BY <1>1, <1>3, <1>5, PositionsAre
<1>7. ASSUME NEW p \in Places(traces)
      PROVE  /\ p[1] \in 1 .. n /\ p[2] \in DOMAIN traces[p[1]].results /\ p = <<p[1], p[2]>>
             /\ p[1] \in Nat /\ At(traces, p) \in Items(DOMAIN Corpus)
  <2>1. p = <<p[1], p[2]>> /\ p[1] \in Nat
    BY <1>4, <1>6
  <2>2. p[1] \in 1 .. n /\ p[2] \in DOMAIN traces[p[1]].results
    BY <1>3, <1>4, <1>6, <2>1
  <2>3. At(traces, p) \in Items(DOMAIN Corpus)
    BY <1>2, <2>2 DEF At
  <2> QED BY <2>1, <2>2, <2>3
<1>8. \A i \in 1 .. n : \A k \in DOMAIN traces[i].results :
         <<i, k>> \in Places(traces) /\ At(traces, <<i, k>>) = traces[i].results[k]
  <2> SUFFICES ASSUME NEW i \in 1 .. n, NEW k \in DOMAIN traces[i].results
               PROVE  <<i, k>> \in Places(traces) /\ At(traces, <<i, k>>) = traces[i].results[k]
    OBVIOUS
  <2>1. k \in DOMAIN seqs[i]
    BY <1>3
  <2>2. <<i, k>> \in Places(traces)
    BY <1>4, <1>6, <2>1
  <2> QED BY <2>2 DEF At
<1> QED BY <1>4, <1>6, <1>7, <1>8 DEF n

(* A chunk that was found somewhere wins in one place.                      *)
LEMMA WinnerIs ==
    ASSUME TracesOK, NEW c, \E p \in Places(traces) : At(traces, p).chunk = c
    PROVE  \E w : {p \in Places(traces) : At(traces, p).chunk = c /\ Wins(traces, p)} = {w}
<1> DEFINE S == {p \in Places(traces) : At(traces, p).chunk = c}
           Over(p, q) == \/ At(traces, p).score > At(traces, q).score
                         \/ At(traces, p).score = At(traces, q).score /\ p[1] < q[1]
           before == {p \in S \X S : Over(p[1], p[2])}
           n == Cardinality(S)
           s == InOrder(S, before)
<1>1. \A p \in S : At(traces, p).score \in Nat /\ p[1] \in Nat
  BY PlacesOfTraces DEF Items
<1>2. \A p, q \in S : p[1] = q[1] => p = q
  <2> SUFFICES ASSUME NEW p \in S, NEW q \in S, p[1] = q[1] PROVE p = q
    OBVIOUS
  <2>1. /\ p[1] \in 1 .. Len(traces) /\ p = <<p[1], p[2]>> /\ q = <<q[1], q[2]>>
        /\ p[2] \in DOMAIN traces[p[1]].results /\ q[2] \in DOMAIN traces[p[1]].results
    BY PlacesOfTraces
  <2>2. traces[p[1]].results[p[2]].chunk = c /\ traces[p[1]].results[q[2]].chunk = c
    BY DEF At
  <2>3. Apart(traces[p[1]].results)
    BY <2>1 DEF TracesOK, TraceOK
  <2> QED BY <2>1, <2>2, <2>3 DEF Apart
<1>3. IsFiniteSet(S) /\ S # {}
  BY PlacesOfTraces, FS_Subset
<1>4. \A p \in S : Wins(traces, p) <=> \A q \in S \ {p} : Over(p, q)
  BY DEF Wins
<1> HIDE DEF S
<1>5. \A p, q \in S : <<p, q>> \in before <=> Over(p, q)
  OBVIOUS
<1>6. StrictOrder(S, before)
  <2> HIDE DEF before
  <2>1. \A p \in S : <<p, p>> \notin before
    BY <1>1, <1>5
  <2>2. \A p, q \in S : p # q => <<p, q>> \in before \/ <<q, p>> \in before
    BY <1>1, <1>2, <1>5
  <2>3. \A p, q, r \in S : <<p, q>> \in before /\ <<q, r>> \in before => <<p, r>> \in before
    BY <1>1, <1>5
  <2> QED BY <2>1, <2>2, <2>3 DEF StrictOrder
<1> HIDE DEF before
<1>7. /\ n \in Nat /\ s \in [1 .. n -> S]
      /\ \A x \in S : \E k \in 1 .. n : s[k] = x
      /\ \A i, j \in 1 .. n : i < j => <<s[i], s[j]>> \in before /\ s[i] # s[j]
  BY <1>3, <1>6, InOrderIs
<1> HIDE DEF n, s, Over
<1>8. 1 \in 1 .. n /\ s[1] \in S
  BY <1>3, <1>7
<1>9. Wins(traces, s[1])
  <2> SUFFICES ASSUME NEW q \in S \ {s[1]} PROVE Over(s[1], q)
    BY <1>4, <1>8
  <2>1. PICK k \in 1 .. n : s[k] = q
    BY <1>7
  <2>2. 1 < k
    BY <1>7, <1>8, <2>1
  <2> QED BY <1>5, <1>7, <1>8, <2>1, <2>2
<1>10. \A p \in S : Wins(traces, p) => p = s[1]
  <2> SUFFICES ASSUME NEW p \in S, Wins(traces, p), p # s[1] PROVE FALSE
    OBVIOUS
  <2>1. Over(p, s[1]) /\ Over(s[1], p)
    BY <1>4, <1>8, <1>9
  <2> QED BY <1>5, <1>6, <1>8, <2>1 DEF StrictOrder
<1>11. {p \in S : Wins(traces, p)} = {s[1]}
  BY <1>8, <1>9, <1>10
<1>12. {p \in Places(traces) : At(traces, p).chunk = c /\ Wins(traces, p)} = {p \in S : Wins(traces, p)}
  BY DEF S
<1> QED BY <1>11, <1>12

LEMMA AuditIs ==
    ASSUME CaseOK, TracesOK, Listable(grounds), Len(traces) \in {2, 4}
    PROVE  /\ \A g \in Range(grounds) : Cardinality({p \in Included : At(traces, p).chunk = g.matched}) = 1
           /\ \A p \in Included : \E g \in Range(grounds) : Chunk(At(traces, p).chunk).provision = g.provision
<1>1. \A g \in Range(grounds) : GroundOK(g)
  BY DEF Listable
<1>2. ASSUME NEW g \in Range(grounds)
      PROVE  Cardinality({p \in Included : At(traces, p).chunk = g.matched}) = 1
  <2>1. \E p \in Places(traces) : At(traces, p).chunk = g.matched
    <3>1. PICK i \in 1 .. 2 : \E item \in Range(traces[i].results) : item.chunk = g.matched
      BY <1>1 DEF GroundOK
    <3>2. PICK k \in DOMAIN traces[i].results : traces[i].results[k].chunk = g.matched
      BY <3>1 DEF Range
    <3>3. i \in 1 .. Len(traces)
      OBVIOUS
    <3> QED BY <3>2, <3>3, PlacesOfTraces
  <2>2. PICK w : {p \in Places(traces) : At(traces, p).chunk = g.matched /\ Wins(traces, p)} = {w}
    BY <2>1, WinnerIs
  <2>3. g.matched \in CitedChunks
    BY DEF CitedChunks
  <2>4. {p \in Included : At(traces, p).chunk = g.matched}
          = {p \in Places(traces) : At(traces, p).chunk = g.matched /\ Wins(traces, p)}
    BY <2>3 DEF Included
  <2> QED BY <2>2, <2>4, FS_Singleton
<1>3. ASSUME NEW p \in Included
      PROVE  \E g \in Range(grounds) : Chunk(At(traces, p).chunk).provision = g.provision
  <2>1. PICK g \in Range(grounds) : At(traces, p).chunk \in {g.matched, g.quoted}
    BY DEF Included, CitedChunks
  <2>2. Chunk(g.matched).provision = g.provision
    BY <1>1 DEF GroundOK
  <2>3. Chunk(g.quoted).provision = g.provision
    <3>1. g.matched \in DOMAIN Corpus /\ g.quoted = Chunk(g.matched).quotes
      BY <1>1 DEF GroundOK
    <3>2. ChunkOK(Corpus, g.matched)
      BY <3>1, GivenIs
    <3>3. Corpus[Corpus[g.matched].quotes].provision = Corpus[g.matched].provision
      BY <3>2 DEF ChunkOK
    <3> QED BY <2>2, <3>1, <3>3 DEF Chunk
  <2> QED BY <2>1, <2>2, <2>3
<1> QED BY <1>2, <1>3

-----------------------------------------------------------------------------
(* Quotes: sequences joined are a sequence.                                 *)
LEMMA FlattenIs ==
    ASSUME NEW T, NEW seqs \in Seq(Seq(T))
    PROVE  FlattenSeq(seqs) \in Seq(T)
<1> DEFINE S == Seq(T)
           n == Len(seqs)
           m == n - 1
           start == seqs[1]
           flatten[i \in 1 .. Len(seqs)] == IF i = 1 THEN seqs[i] ELSE flatten[i - 1] \o seqs[i]
           Runs(u) == u = [i \in 1 .. Len(seqs) |-> IF i = 1 THEN seqs[i] ELSE u[i - 1] \o seqs[i]]
           step == [s \in S \X (1 .. m) |-> s[1] \o seqs[s[2] + 1]]
<1>1. n \in Nat /\ \A i \in 1 .. n : seqs[i] \in S
  OBVIOUS
<1>2. CASE n = 0
  <2>1. FlattenSeq(seqs) = seqs /\ seqs = <<>>
    BY <1>2 DEF FlattenSeq
  <2> QED BY <2>1
<1>3. CASE n # 0
  <2>1. m \in Nat /\ 1 \in 1 .. n /\ start \in S /\ \A k \in 1 .. m : k + 1 \in 1 .. n
    BY <1>1, <1>3
  <2>2. step \in [S \X (1 .. m) -> S]
    <3>1. \A s \in S \X (1 .. m) : s[1] \o seqs[s[2] + 1] \in S
      <4>1. SUFFICES ASSUME NEW s \in S \X (1 .. m) PROVE s[1] \o seqs[s[2] + 1] \in S
        OBVIOUS
      <4>2. s[1] \in Seq(T) /\ seqs[s[2] + 1] \in Seq(T)
        BY <1>1, <2>1
      <4> QED BY <4>2
    <3> HIDE DEF S, m
    <3> QED BY <3>1
  <2>3. PICK u \in [0 .. m -> S] : Follows(u, m, start, step)
    <3> HIDE DEF start, step, m, S
    <3> QED BY <2>1, <2>2, Recursion
  <2> DEFINE v == [i \in 1 .. n |-> u[i - 1]]
  <2>4. \A i \in 1 .. n : v[i] = IF i = 1 THEN seqs[i] ELSE v[i - 1] \o seqs[i]
    <3> SUFFICES ASSUME NEW i \in 1 .. n PROVE v[i] = IF i = 1 THEN seqs[i] ELSE v[i - 1] \o seqs[i]
      OBVIOUS
    <3>1. CASE i = 1
      BY <2>3, <3>1 DEF Follows
    <3>2. CASE i # 1
      <4>1. i - 1 \in 1 .. m /\ i - 1 \in 1 .. n /\ (i - 1) - 1 \in 0 .. m
        BY <1>1, <3>2
      <4>2. u[i - 1] = step[<<u[(i - 1) - 1], i - 1>>] /\ v[i] = u[i - 1] /\ v[i - 1] = u[(i - 1) - 1]
        BY <2>3, <4>1 DEF Follows
      <4>3. <<u[(i - 1) - 1], i - 1>> \in S \X (1 .. m)
        BY <2>3, <4>1
      <4>4. step[<<u[(i - 1) - 1], i - 1>>] = u[(i - 1) - 1] \o seqs[(i - 1) + 1]
        <5> HIDE DEF S, m
        <5> QED BY <4>3
      <4>5. (i - 1) + 1 = i
        OBVIOUS
      <4> QED BY <3>2, <4>2, <4>4, <4>5
    <3> QED BY <3>1, <3>2
  <2>5. Runs(v)
    <3>1. DOMAIN v = 1 .. n /\ v = [i \in 1 .. n |-> v[i]]
      OBVIOUS
    <3> HIDE DEF v
    <3> QED BY <2>4, <3>1
  <2>6. Runs(flatten)
    <3>1. flatten = CHOOSE w : Runs(w)
      OBVIOUS
    <3> HIDE DEF flatten, Runs, v
    <3> QED BY <2>5, <3>1
  <2>7. FlattenSeq(seqs) = flatten[n]
    BY <1>3 DEF FlattenSeq
  <2> HIDE DEF flatten
  <2> DEFINE g == [k \in 0 .. m |-> flatten[k + 1]]
  <2>8. g[0] \in S
    BY <2>1, <2>6
  <2>9. ASSUME NEW k \in 1 .. m, g[k - 1] \in S PROVE g[k] \in S
    <3>1. k + 1 \in 1 .. n /\ k + 1 # 1 /\ (k + 1) - 1 = k /\ (k - 1) + 1 = k /\ k - 1 \in 0 .. m /\ k \in 0 .. m
      BY <1>1, <2>1
    <3>2. flatten[k + 1] = flatten[k] \o seqs[k + 1]
      BY <2>6, <3>1
    <3>3. flatten[k] \in Seq(T) /\ seqs[k + 1] \in Seq(T)
      BY <1>1, <2>9, <3>1
    <3>4. flatten[k] \o seqs[k + 1] \in Seq(T)
      BY <3>3
    <3> QED BY <3>1, <3>2, <3>4
  <2>10. \A k \in 0 .. m : g[k] \in S
    <3> HIDE DEF g, S, m
    <3> QED BY <2>1, <2>8, <2>9, Along
  <2>11. m \in 0 .. m /\ m + 1 = n
    BY <1>1, <2>1
  <2> QED BY <2>7, <2>10, <2>11
<1> QED BY <1>2, <1>3

(* Words, whatever their tokens are made of.                                *)
WordsOK(words) == words \in Seq(Range(words)) /\ \A word \in Range(words) : WordOK(word)

LEMMA TokensAre ==
    ASSUME NEW words, WordsOK(words)
    PROVE  Tokens(words) \in Seq(Range(Tokens(words)))
<1> DEFINE T == UNION {Range(word.tokens) : word \in Range(words)}
           seqs == [i \in DOMAIN words |-> words[i].tokens]
<1>1. words \in Seq(Range(words)) /\ \A i \in 1 .. Len(words) : words[i] \in Range(words)
  BY DEF WordsOK, Range
<1>2. \A i \in 1 .. Len(words) : words[i].tokens \in Seq(T)
  <2> SUFFICES ASSUME NEW i \in 1 .. Len(words) PROVE words[i].tokens \in Seq(T)
    OBVIOUS
  <2>1. words[i].tokens \in Seq(Range(words[i].tokens)) /\ words[i] \in Range(words)
    BY <1>1 DEF WordsOK, WordOK
  <2>2. Range(words[i].tokens) \subseteq T
    BY <2>1
  <2> HIDE DEF T
  <2> QED BY <2>1, <2>2
<1>3. seqs \in Seq(Seq(T))
  <2>1. DOMAIN words = 1 .. Len(words) /\ Len(words) \in Nat
    BY <1>1
  <2> HIDE DEF T
  <2> QED BY <1>2, <2>1
<1>4. Tokens(words) = FlattenSeq(seqs)
  BY DEF Tokens
<1> HIDE DEF T, seqs
<1>5. Tokens(words) \in Seq(T)
  BY <1>3, <1>4, FlattenIs
<1> QED BY <1>5 DEF Range

(* What supports a case names it: an identifier, or two terms of it.        *)
NamesCase(words, facts) ==
    \/ \E id \in facts.identifiers : ContainsIdentifier(Tokens(words), FlattenSeq(id))
    \/ Cardinality(Range(Tokens(words)) \cap Range(facts.narrative)) >= 2

LEMMA SupportsIs ==
    ASSUME NEW words, WordsOK(words), NEW facts, facts.narrative \in Seq(Range(facts.narrative)),
           Supports(words, facts)
    PROVE  Tokens(words) # <<>> /\ NamesCase(words, facts)
<1>1. Tokens(words) # <<>>
  BY DEF Supports
<1>2. CASE Identified(words, facts)
  BY <1>1, <1>2 DEF Identified, NamesCase
<1>3. CASE Overlap(Topic(facts.narrative, facts), Topic(Tokens(words), facts), Cardinality(Anchors(words, facts)))
  <2> DEFINE tokens == Tokens(words)
             told == facts.narrative
             R == Range(tokens)
             N == Range(told)
             both == Range(Topic(told, facts)) \cap Range(Topic(tokens, facts))
  <2>1. Cardinality(both) >= 2
    BY <1>3 DEF Overlap
  <2>2. ASSUME NEW seq, seq \in Seq(Range(seq)) PROVE Range(Topic(seq, facts)) \subseteq Range(seq)
    <3> DEFINE P == {k \in DOMAIN seq : seq[k] \in Topical \ Range(facts.supplier)}
    <3>1. P \in SUBSET (1 .. Len(seq)) /\ Topic(seq, facts) = Those(seq, P)
      BY <2>2 DEF Topic
    <3> HIDE DEF P
    <3>2. Those(seq, P) \in Seq(Range(seq))
      BY <2>2, <3>1, Filtered
    <3> QED BY <3>1, <3>2, RangeFinite
  <2>3. tokens \in Seq(R) /\ told \in Seq(N)
    BY TokensAre
  <2>4. both \in SUBSET (R \cap N)
    BY <2>2, <2>3
  <2>5. IsFiniteSet(R)
    <3> HIDE DEF R, tokens
    <3>1. IsFiniteSet(Range(tokens))
      BY <2>3, RangeFinite
    <3> QED BY <3>1 DEF R
  <2>6. R \cap N \in SUBSET R
    OBVIOUS
  <2> DEFINE shared == R \cap N
  <2> HIDE DEF both, R, N, shared
  <2>7. IsFiniteSet(shared) /\ both \in SUBSET shared
    BY <2>4, <2>5, <2>6, FS_Subset DEF shared
  <2>8. Cardinality(both) <= Cardinality(shared) /\ Cardinality(both) \in Nat /\ Cardinality(shared) \in Nat
    BY <2>7, FS_Subset, FS_CardinalityType
  <2>9. Cardinality(shared) >= 2
    BY <2>1, <2>8
  <2> QED BY <1>1, <2>9 DEF NamesCase, shared, R, N
<1> QED BY <1>1, <1>2, <1>3 DEF Supports

LEMMA AmongIs ==
    ASSUME NEW word, WordOK(word), NEW terms
    PROVE  Cardinality({k \in DOMAIN word.tokens : word.tokens[k] \in terms}) \in Nat
<1> DEFINE P == {k \in DOMAIN word.tokens : word.tokens[k] \in terms}
<1>1. P \in SUBSET (1 .. Len(word.tokens)) /\ Len(word.tokens) \in Nat
  BY DEF WordOK
<1>2. IsFiniteSet(1 .. Len(word.tokens))
  BY <1>1, FS_Interval
<1> HIDE DEF P
<1>3. Cardinality(P) \in Nat
  BY <1>1, <1>2, FS_Subset, FS_CardinalityType
<1> QED BY <1>3 DEF P

LEMMA WeightIs ==
    ASSUME NEW word, WordOK(word), NEW facts
    PROVE  Weight(word, facts) \in Nat
<1> DEFINE anchored == facts.anchored
           topical  == Range(Topic(facts.narrative, facts)) \ anchored
           among(terms) == Cardinality({k \in DOMAIN word.tokens : word.tokens[k] \in terms})
<1>1. Weight(word, facts) = 2 * among(anchored) + among(topical)
  BY DEF Weight
<1>2. among(anchored) \in Nat /\ among(topical) \in Nat
  BY AmongIs
<1> HIDE DEF among
<1> QED BY <1>1, <1>2

LEMMA WindowWeightIs ==
    ASSUME NEW words, WordsOK(words), NEW facts, NEW from \in Nat
    PROVE  /\ WindowWeight(words, from, facts) \in Nat
           /\ (\A i \in DOMAIN words : from <= i => ~(Weight(words[i], facts) > 0)) => WindowWeight(words, from, facts) = 0
<1> DEFINE window == {i \in DOMAIN words : from <= i /\ i < from + QuoteWords}
           g == [i \in window |-> {i} \X (1 .. Weight(words[i], facts))]
           G == {g[i] : i \in window}
<1>1. words \in Seq(Range(words)) /\ Len(words) \in Nat /\ DOMAIN words = 1 .. Len(words)
      /\ \A i \in DOMAIN words : WordOK(words[i])
  BY DEF WordsOK, Range
<1>2. IsFiniteSet(window)
  <2>1. window \in SUBSET (1 .. Len(words)) /\ IsFiniteSet(1 .. Len(words))
    BY <1>1, FS_Interval
  <2> HIDE DEF window
  <2> QED BY <2>1, FS_Subset
<1>3. \A i \in window : Weight(words[i], facts) \in Nat
  BY <1>1, WeightIs
<1>4. \A i \in window : IsFiniteSet(g[i])
  <2> SUFFICES ASSUME NEW i \in window PROVE IsFiniteSet({i} \X (1 .. Weight(words[i], facts)))
    OBVIOUS
  <2> DEFINE w == Weight(words[i], facts)
  <2>0. w \in Int
    BY <1>3
  <2> HIDE DEF w
  <2>1. IsFiniteSet(1 .. w)
    BY <2>0, FS_Interval
  <2>2. IsFiniteSet({i})
    BY FS_Singleton
  <2>3. IsFiniteSet({i} \X (1 .. w))
    BY <2>1, <2>2, FS_Product
  <2> QED BY <2>3 DEF w
<1>5. WindowWeight(words, from, facts) = Cardinality(UNION G)
  BY DEF WindowWeight
<1>6. IsFiniteSet(UNION G)
  <2>1. DOMAIN g = window
    OBVIOUS
  <2> HIDE DEF g, window
  <2>2. IsFiniteSet(G)
    BY <1>2, <2>1, FiniteImage
  <2>3. \A T \in G : IsFiniteSet(T)
    BY <1>4
  <2> HIDE DEF G
  <2> QED BY <2>2, <2>3, FS_UNION
<1>7. ASSUME \A i \in DOMAIN words : from <= i => ~(Weight(words[i], facts) > 0)
      PROVE  UNION G = {}
  <2>1. \A i \in window : 1 .. Weight(words[i], facts) = {}
    BY <1>3, <1>7
  <2>2. \A i \in window : g[i] = {}
    BY <2>1
  <2> QED BY <2>2
<1> HIDE DEF G
<1> QED BY <1>5, <1>6, <1>7, FS_CardinalityType, FS_EmptySet

LEMMA BestStartIs ==
    ASSUME NEW words, WordsOK(words), Len(words) # 0, NEW facts
    PROVE  BestStart(words, facts) \in 1 .. Len(words)
<1> DEFINE n == Len(words)
           weight == [i \in DOMAIN words |-> WindowWeight(words, i, facts)]
           heaviest == {i \in DOMAIN words : \A j \in DOMAIN words : weight[j] <= weight[i]}
           best == Min(heaviest)
           after == {i \in DOMAIN words : i >= best /\ Weight(words[i], facts) > 0}
<1>1. n \in Nat \ {0} /\ DOMAIN words = 1 .. n
  BY DEF WordsOK
<1>2. \A i \in 1 .. n : weight[i] \in Nat
  BY <1>1, WindowWeightIs
<1>3. heaviest # {} /\ heaviest \in SUBSET Nat /\ heaviest \in SUBSET (1 .. n)
  <2>1. \E i \in 1 .. n : \A j \in 1 .. n : weight[j] <= weight[i]
    <3> HIDE DEF weight, n
    <3> QED BY <1>1, <1>2, Heaviest
  <2> QED BY <1>1, <2>1
<1>4. best \in 1 .. n
  <2> HIDE DEF heaviest
  <2> QED BY <1>3, MinIs
<1>5. BestStart(words, facts) = IF weight[best] = 0 THEN 1 ELSE Min(after)
  BY DEF BestStart
<1>6. CASE weight[best] = 0
  BY <1>1, <1>5, <1>6
<1>7. CASE weight[best] # 0
  <2>1. weight[best] = WindowWeight(words, best, facts) /\ best \in Nat
    BY <1>1, <1>4
  <2> HIDE DEF best, weight
  <2>2. after # {}
    <3> SUFFICES ASSUME after = {} PROVE FALSE
      OBVIOUS
    <3>1. \A i \in DOMAIN words : best <= i => ~(Weight(words[i], facts) > 0)
      BY <1>1, <2>1
    <3> QED BY <1>7, <2>1, <3>1, WindowWeightIs
  <2>3. after \in SUBSET Nat /\ after \in SUBSET (1 .. n)
    BY <1>1
  <2> HIDE DEF after, n
  <2>4. Min(after) \in 1 .. n
    BY <2>2, <2>3, MinIs
  <2> QED BY <1>5, <1>7, <2>4 DEF n
<1> QED BY <1>6, <1>7

LEMMA SentenceStartIs ==
    ASSUME NEW words, WordsOK(words), NEW start \in 1 .. Len(words)
    PROVE  SentenceStart(words, start) \in 1 .. Len(words)
<1> DEFINE back == QuoteWords \div 4
           ends == {i \in DOMAIN words : start - back <= i /\ i < start /\ words[i].ends # "no"}
<1>1. Len(words) \in Nat /\ DOMAIN words = 1 .. Len(words)
  BY DEF WordsOK
<1>2. SentenceStart(words, start) = IF ends # {} THEN Max(ends) + 1
                                    ELSE IF start - 1 <= back THEN 1 ELSE start
  BY DEF SentenceStart
<1>3. CASE ends = {}
  BY <1>1, <1>2, <1>3
<1>4. CASE ends # {}
  <2>1. ends \in SUBSET (1 .. Len(words)) /\ ends \in SUBSET Nat /\ \A i \in ends : i >= 1 /\ i < start
    BY <1>1
  <2>2. IsFiniteSet(1 .. Len(words))
    BY <1>1, FS_Interval
  <2> HIDE DEF ends
  <2>3. IsFiniteSet(ends)
    BY <2>1, <2>2, FS_Subset
  <2>4. Max(ends) \in ends
    BY <1>4, <2>1, <2>3, MaxIs
  <2>5. Max(ends) + 1 \in 1 .. Len(words)
    <3>1. Max(ends) \in Nat /\ Max(ends) >= 1 /\ Max(ends) < start
      BY <2>1, <2>4
    <3> QED BY <1>1, <3>1
  <2> QED BY <1>2, <1>4, <2>5
<1> QED BY <1>3, <1>4

(* A run of a text that fits a letter.                                      *)
RunOf(quote, words) ==
    \E i \in 1 .. Len(words), n \in 0 .. QuoteWords :
        i + n - 1 <= Len(words) /\ quote = SubSeq(words, i, i + n - 1) /\ Len(quote) = n

LEMMA WordBoundedIs ==
    ASSUME NEW words, WordsOK(words), NEW start \in 1 .. Len(words)
    PROVE  RunOf(WordBounded(words, start), words)
<1> DEFINE n == Len(words)
           end == IF start + QuoteWords - 1 < n THEN start + QuoteWords - 1 ELSE n
           window == Slice(words, start, QuoteWords)
           stops == {i \in DOMAIN window : window[i].ends = "stop" /\ 2 * i > QuoteWords}
           m == end - start + 1
           W == Range(words)
<1>1. n \in Nat /\ words \in Seq(W) /\ \A i \in 1 .. n : words[i] \in W
  BY DEF WordsOK, Range
<1>2. QuoteWords \in Nat \ {0}
  BY EvidenceAssumption
<1>3. window = SubSeq(words, start, end)
  BY DEF Slice
<1>4. /\ start \in Nat /\ end \in Nat /\ start <= end /\ end <= n /\ m \in 1 .. QuoteWords /\ start + m - 1 = end
      /\ \A i \in start .. end : i \in 1 .. n /\ words[i] \in W
  BY <1>1, <1>2
<1> HIDE DEF end, window, m, W
<1>5. /\ window \in Seq(W) /\ Len(window) = m
      /\ \A i \in 1 .. m : window[i] = words[start + i - 1]
  <2>1. /\ SubSeq(words, start, end) \in Seq(W)
        /\ Len(SubSeq(words, start, end)) = IF start <= end THEN end - start + 1 ELSE 0
        /\ \A i \in 1 .. end - start + 1 : SubSeq(words, start, end)[i] = words[start + i - 1]
    BY <1>1, <1>4, SubSeqProperties
  <2> QED BY <1>3, <1>4, <2>1 DEF m
<1>6. RunOf(window, words)
  <2>1. m \in 0 .. QuoteWords /\ start + m - 1 <= Len(words) /\ window = SubSeq(words, start, start + m - 1)
    BY <1>2, <1>3, <1>4
  <2> QED BY <1>5, <2>1 DEF RunOf
<1>7. WordBounded(words, start) = IF start + QuoteWords > n \/ stops = {} THEN window
                                  ELSE SubSeq(window, 1, Max(stops))
  BY DEF WordBounded, window
<1>8. CASE stops = {}
  BY <1>6, <1>7, <1>8
<1>9. ASSUME stops # {} PROVE RunOf(SubSeq(window, 1, Max(stops)), words)
  <2> DEFINE k == Max(stops)
             t == SubSeq(window, 1, k)
             u == SubSeq(words, start, start + k - 1)
  <2>1. stops \in SUBSET (1 .. m) /\ stops \in SUBSET Nat /\ IsFiniteSet(1 .. m)
    <3>1. DOMAIN window = 1 .. m /\ m \in Nat
      BY <1>2, <1>4, <1>5
    <3> QED BY <3>1, FS_Interval
  <2>2. k \in 1 .. m
    <3> HIDE DEF stops
    <3>1. IsFiniteSet(stops)
      BY <2>1, FS_Subset
    <3> QED BY <1>9, <2>1, <3>1, MaxIs
  <2>3. /\ start + k - 1 \in Nat /\ start + k - 1 <= n /\ k \in Nat /\ 1 <= k /\ k <= QuoteWords
        /\ \A i \in 1 .. k : i \in 1 .. m /\ start + i - 1 \in start .. end
    <3> HIDE DEF k, stops
    <3>1. k \in Nat /\ 1 <= k /\ k <= m /\ m \in Nat /\ m <= QuoteWords /\ n \in Nat
      BY <1>1, <1>2, <1>4, <2>2
    <3> QED BY <1>2, <1>4, <3>1
  <2> HIDE DEF k, t, u, stops
  <2>4. /\ t \in Seq(W) /\ Len(t) = k /\ \A i \in 1 .. k : t[i] = words[start + i - 1]
    <3>1. \A i \in 1 .. k : window[i] \in W
      BY <1>5, <2>3
    <3>2. /\ SubSeq(window, 1, k) \in Seq(W)
          /\ Len(SubSeq(window, 1, k)) = IF 1 <= k THEN k - 1 + 1 ELSE 0
          /\ \A i \in 1 .. k - 1 + 1 : SubSeq(window, 1, k)[i] = window[1 + i - 1]
      BY <2>3, <3>1, SubSeqProperties
    <3>3. k - 1 + 1 = k /\ \A i \in 1 .. k : 1 + i - 1 = i
      BY <2>3
    <3> QED BY <1>5, <2>3, <3>2, <3>3 DEF t
  <2>5. /\ u \in Seq(W) /\ Len(u) = k /\ \A i \in 1 .. k : u[i] = words[start + i - 1]
    <3>1. \A i \in start .. start + k - 1 : words[i] \in W
      BY <1>1, <1>4, <2>3
    <3>2. /\ SubSeq(words, start, start + k - 1) \in Seq(W)
          /\ Len(SubSeq(words, start, start + k - 1)) = IF start <= start + k - 1 THEN start + k - 1 - start + 1 ELSE 0
          /\ \A i \in 1 .. start + k - 1 - start + 1 : SubSeq(words, start, start + k - 1)[i] = words[start + i - 1]
      BY <1>4, <2>3, <3>1, SubSeqProperties
    <3>3. start + k - 1 - start + 1 = k /\ start <= start + k - 1
      BY <1>4, <2>3
    <3> QED BY <3>2, <3>3 DEF u
  <2>6. t = u
    BY <2>4, <2>5, SMTT(40)
  <2>7. k \in 0 .. QuoteWords
    BY <1>2, <2>3
  <2> QED BY <2>3, <2>4, <2>6, <2>7 DEF RunOf, t, u, k
<1> QED BY <1>6, <1>7, <1>8, <1>9

LEMMA QuoteRuns ==
    ASSUME NEW words, WordsOK(words), Len(words) # 0, NEW facts
    PROVE  RunOf(Quote(words, facts), words)
<1>1. CASE Len(words) <= QuoteWords
  <2> DEFINE n == Len(words)
  <2>1. n \in Nat \ {0} /\ words \in Seq(Range(words))
    BY DEF WordsOK
  <2>2. SubSeq(words, 1, 1 + n - 1) = words
    <3>1. SubSeq(words, 1, n) = words
      BY <2>1
    <3> QED BY <2>1, <3>1
  <2>3. Quote(words, facts) = words /\ n \in 0 .. QuoteWords /\ 1 \in 1 .. n /\ 1 + n - 1 <= n
    BY <1>1, <2>1, EvidenceAssumption DEF Quote
  <2> QED BY <2>2, <2>3 DEF RunOf
<1>2. CASE ~(Len(words) <= QuoteWords)
  <2>1. SentenceStart(words, BestStart(words, facts)) \in 1 .. Len(words)
    BY BestStartIs, SentenceStartIs
  <2> QED BY <1>2, <2>1, WordBoundedIs DEF Quote
<1> QED BY <1>1, <1>2

QuoteSound(c) ==
    LET facts == File.facts
        words == File.chunks[c.chunk].words
    IN  /\ Len(c.quote) <= QuoteWords
        /\ \E i \in DOMAIN words : SubSeq(words, i, i + Len(c.quote) - 1) = c.quote
        /\ \A i \in DOMAIN c.quote : c.quote[i].page = c.page
        /\ NamesCase(c.quote, facts)

(* A run of sound words is made of them.                                    *)
LEMMA RunIs ==
    ASSUME NEW words, WordsOK(words), NEW quote, RunOf(quote, words)
    PROVE  /\ WordsOK(quote) /\ Range(quote) \subseteq Range(words) /\ Len(quote) <= QuoteWords
           /\ \E i \in DOMAIN words : SubSeq(words, i, i + Len(quote) - 1) = quote
<1> DEFINE W == Range(words)
<1>1. Len(words) \in Nat /\ DOMAIN words = 1 .. Len(words) /\ \A i \in 1 .. Len(words) : words[i] \in W
  BY DEF WordsOK, Range
<1>2. PICK i \in 1 .. Len(words), n \in 0 .. QuoteWords :
          i + n - 1 <= Len(words) /\ quote = SubSeq(words, i, i + n - 1) /\ Len(quote) = n
  BY DEF RunOf
<1>3. QuoteWords \in Nat
  BY EvidenceAssumption
<1>4. \A k \in i .. i + n - 1 : words[k] \in W
  BY <1>1, <1>2, <1>3
<1> HIDE DEF W
<1>5. quote \in Seq(W)
  <2>1. i \in Int /\ i + n - 1 \in Int
    BY <1>1, <1>3
  <2>2. SubSeq(words, i, i + n - 1) \in Seq(W)
    BY <1>4, <2>1, SubSeqProperties
  <2> QED BY <1>2, <2>2
<1>6. Range(quote) \subseteq W /\ quote \in Seq(Range(quote))
  BY <1>5 DEF Range
<1>7. WordsOK(quote)
  BY <1>6 DEF WordsOK, W
<1> QED BY <1>1, <1>2, <1>3, <1>6, <1>7 DEF W

LEMMA NoTokens ==
    ASSUME NEW words, WordsOK(words), Len(words) = 0
    PROVE  Tokens(words) = <<>>
<1> DEFINE seqs == [i \in DOMAIN words |-> words[i].tokens]
<1>1. DOMAIN words = {} /\ words = <<>>
  BY DEF WordsOK
<1>2. seqs = <<>>
  BY <1>1
<1>3. FlattenSeq(seqs) = seqs
  <2> HIDE DEF seqs
  <2>1. Len(seqs) = 0
    BY <1>2
  <2> QED BY <2>1 DEF FlattenSeq
<1> QED BY <1>2, <1>3 DEF Tokens

LEMMA CitationsAre ==
    ASSUME CaseOK, NEW ranking \in EvidenceRankings
    PROVE  \A c \in Range(CitationsOf[case.given][ranking]) : QuoteSound(c)
<1> DEFINE P == {k \in DOMAIN ranking : LET chunk == File.chunks[ranking[k]]
                                        IN  OfOnePage(chunk) /\ SupportsAsQuoted(chunk, File.facts)}
           those == Those(ranking, P)
           kept == FirstK(those, MaxCitations)
           cited == [k \in DOMAIN kept |->
                       [chunk |-> kept[k], page |-> File.chunks[kept[k]].first,
                        quote |-> Quote(File.chunks[kept[k]].words, File.facts)]]
<1>1. CitationsOf[case.given][ranking] = cited
  <2>1. case.given \in DOMAIN Given
    BY DEF CaseOK
  <2>2. CitationsOf[case.given][ranking] = Citations(Given[case.given].file, ranking)
    BY <2>1 DEF CitationsOf
  <2> QED BY <2>2 DEF Citations, File
<1>2. ranking \in Seq(Nat) /\ Range(ranking) \subseteq DOMAIN File.chunks /\ FileOK(File)
  BY GivenIs
<1>3. P \in SUBSET (1 .. Len(ranking)) /\ DOMAIN ranking = 1 .. Len(ranking)
  BY <1>2
<1>4. \A k \in P : OfOnePage(File.chunks[ranking[k]]) /\ SupportsAsQuoted(File.chunks[ranking[k]], File.facts)
  OBVIOUS
<1> HIDE DEF P
<1>5. /\ those \in Seq(Nat) /\ Len(those) \in Nat
      /\ \A k \in 1 .. Len(those) : \E p \in P : those[k] = ranking[p]
  <2>1. those \in Seq(Nat) /\ Len(those) \in Nat
    BY <1>2, <1>3, Filtered
  <2>2. PICK at \in [1 .. Len(those) -> P] :
            /\ \A k \in 1 .. Len(those) : those[k] = ranking[at[k]]
            /\ \A i, j \in 1 .. Len(those) : i < j => at[i] < at[j]
    BY <1>2, <1>3, Filtered
  <2> QED BY <2>1, <2>2
<1> HIDE DEF those
<1>6. /\ kept \in Seq(Nat) /\ DOMAIN kept = 1 .. Len(kept)
      /\ \A i \in 1 .. Len(kept) : i \in 1 .. Len(those) /\ kept[i] = those[i]
  <2>1. MaxCitations \in Nat
    BY EvidenceAssumption
  <2>2. /\ kept \in Seq(Nat) /\ Len(kept) \in Nat
        /\ \A i \in 1 .. Len(kept) : i \in 1 .. Len(those) /\ kept[i] = those[i]
    BY <1>5, <2>1, FirstKAt
  <2> HIDE DEF kept
  <2> QED BY <2>2
<1> HIDE DEF kept
<1>7. ASSUME NEW k \in DOMAIN kept PROVE QuoteSound(cited[k])
  <2>1. PICK p \in P : kept[k] = ranking[p]
    BY <1>5, <1>6
  <2> DEFINE d == kept[k]
             chunk == File.chunks[d]
             words == chunk.words
             facts == File.facts
             quote == Quote(words, facts)
             c == cited[k]
  <2>2. d \in DOMAIN File.chunks /\ OfOnePage(chunk) /\ Supports(quote, facts)
    <3>1. ranking[p] \in Range(ranking)
      BY <1>3 DEF Range
    <3> QED BY <1>2, <1>4, <2>1, <3>1 DEF SupportsAsQuoted
  <2>3. c.chunk = d /\ c.page = chunk.first /\ c.quote = quote
    OBVIOUS
  <2>4. /\ chunk.first \in Nat /\ chunk.last \in Nat
        /\ words \in Seq(Range(words))
        /\ \A word \in Range(words) : WordOK(word) /\ word.page \in chunk.first .. chunk.last
        /\ facts.narrative \in Seq(Range(facts.narrative))
    BY <1>2, <2>2 DEF FileOK
  <2>5. WordsOK(words) /\ \A word \in Range(words) : word.page = chunk.first
    <3>1. chunk.first = chunk.last
      BY <2>2 DEF OfOnePage
    <3>2. \A word \in Range(words) : word.page = chunk.first
      BY <2>4, <3>1
    <3> QED BY <2>4, <3>2 DEF WordsOK
  <2> HIDE DEF words, facts, quote, c, chunk
  <2>6. Len(words) # 0
    <3> SUFFICES ASSUME Len(words) = 0 PROVE FALSE
      OBVIOUS
    <3>1. quote = words
      <4>1. Len(words) <= QuoteWords
        BY EvidenceAssumption
      <4> QED BY <4>1 DEF Quote, quote
    <3>2. Tokens(quote) = <<>>
      BY <2>5, <3>1, NoTokens
    <3> QED BY <2>2, <3>2 DEF Supports
  <2>7. RunOf(quote, words)
    BY <2>5, <2>6, QuoteRuns DEF quote
  <2>8. /\ WordsOK(quote) /\ Range(quote) \subseteq Range(words) /\ Len(quote) <= QuoteWords
        /\ \E i \in DOMAIN words : SubSeq(words, i, i + Len(quote) - 1) = quote
    BY <2>5, <2>7, RunIs
  <2>9. NamesCase(quote, facts)
    BY <2>2, <2>4, <2>8, SupportsIs
  <2>10. \A i \in DOMAIN quote : quote[i].page = chunk.first
    <3>1. \A i \in DOMAIN quote : quote[i] \in Range(quote)
      BY DEF Range
    <3> QED BY <2>5, <2>8, <3>1
  <2>11. words = File.chunks[c.chunk].words /\ facts = File.facts
    BY <2>3 DEF words, facts, chunk
  <2>12. QuoteSound(c)
    BY <2>3, <2>8, <2>9, <2>10, <2>11 DEF QuoteSound
  <2> QED BY <2>12 DEF c
<1>8. \A c \in Range(cited) : \E k \in DOMAIN kept : c = cited[k]
  BY DEF Range
<1> HIDE DEF cited
<1> QED BY <1>1, <1>7, <1>8, SMTT(40)

-----------------------------------------------------------------------------
(* The settlement: what the facts a notice is composed from come to, for    *)
(* every amount.                                                            *)

(* What the validators of the facts and of the settlement's inputs let by.  *)
Sound(inputs) ==
    /\ inputs.loss \in Nat /\ inputs.improper \in Nat /\ inputs.cost \in Nat
    /\ inputs.doubled \in BOOLEAN
    /\ inputs.reference \in {0, inputs.loss}
    /\ Computable(inputs)

(* Rounding keeps amounts natural and in order (_money).                    *)
LEMMA MoneyOrdered ==
    ASSUME NEW a \in Nat, NEW b \in Nat, a <= b
    PROVE  /\ Money(a) \in Nat /\ Money(b) \in Nat
           /\ Money(a) <= Money(b)
           /\ (Money(a) > 0 => a > 0)
BY DEF Money

(* Doubling never asks for more than twice the rounded loss, however the    *)
(* two amounts are rounded, and asks for nothing where no loss is confirmed *)
(* (SettlementCalculator.calculate).                                        *)
THEOREM OfferBounded ==
    ASSUME NEW inputs, Sound(inputs)
    PROVE  /\ PublicProposal(inputs) \in Nat
           /\ Reservation(inputs) <= PublicProposal(inputs)
           /\ PublicProposal(inputs) <= 2 * Reservation(inputs)
           /\ inputs.loss = 0 => PublicProposal(inputs) = 0
<1>1. inputs.improper \in Nat /\ inputs.loss \in Nat /\ inputs.improper <= inputs.loss
  BY DEF Sound, Computable
<1>2. /\ Money(inputs.improper) \in Nat /\ Money(inputs.loss) \in Nat
      /\ Money(inputs.improper) <= Money(inputs.loss)
  BY <1>1, MoneyOrdered
<1>3. Increment(inputs) \in Nat /\ Increment(inputs) <= Money(inputs.loss)
  BY <1>2 DEF Increment
<1>4. inputs.loss = 0 => Money(inputs.loss) = 0
  BY DEF Money
<1> QED
  BY <1>2, <1>3, <1>4 DEF PublicProposal, Reservation

(* Every component has a source, and a document that backs one states that  *)
(* very amount (_settlement_inputs, _direct_loss_sources).                  *)
THEOREM ComponentsBacked ==
    ASSUME NEW inputs, Sound(inputs), NEW c \in Components(inputs)
    PROVE  /\ c.sources # {}
           /\ \A source \in c.sources : Money(source.states) = c.amount
<1>0. inputs.loss \in Nat /\ inputs.improper \in Nat /\ inputs.cost \in Nat
  BY DEF Sound
<1>1. ASSUME NEW a \in Nat, Money(a) > 0
      PROVE  Confirmed(a) # {} /\ \A source \in Confirmed(a) : source.states = a
  <2>1. a > 0
    BY <1>1, MoneyOrdered
  <2>2. Confirmed(a) = {[from |-> "consumer", states |-> a]}
    BY <2>1 DEF Confirmed
  <2>3. \A source \in Confirmed(a) : source.states = a
    BY <2>2
  <2> QED
    BY <2>2, <2>3
<1>2. ASSUME Money(inputs.loss) > 0
      PROVE  LossSources(inputs) # {} /\ \A source \in LossSources(inputs) : source.states = inputs.loss
  <2>1. CASE inputs.reference = 0
    BY <1>0, <1>1, <1>2, <2>1 DEF LossSources
  <2>2. CASE inputs.reference # 0
    <3>1. inputs.reference = inputs.loss
      BY <2>2 DEF Sound
    <3>2. LossSources(inputs) = {[from |-> "document", states |-> inputs.loss]}
      BY <2>2, <3>1 DEF LossSources
    <3>3. \A source \in LossSources(inputs) : source.states = inputs.loss
      BY <3>2
    <3> QED
      BY <3>2, <3>3
  <2> QED
    BY <2>1, <2>2
<1>3. c.amount > 0
  BY DEF Components
<1>4. CASE c.amount = Money(inputs.loss) /\ c.sources = LossSources(inputs)
  BY <1>2, <1>3, <1>4
<1>5. CASE c.amount = Increment(inputs) /\ c.sources = ImproperSources(inputs)
  <2>1. c.amount = Money(inputs.improper)
    BY <1>3, <1>5 DEF Increment
  <2>2. CASE inputs.reference # 0 /\ inputs.improper = inputs.loss
    BY <1>2, <1>3, <1>5, <2>1, <2>2 DEF ImproperSources
  <2>3. CASE ~(inputs.reference # 0 /\ inputs.improper = inputs.loss)
    BY <1>0, <1>1, <1>3, <1>5, <2>1, <2>3 DEF ImproperSources
  <2> QED
    BY <2>2, <2>3
<1>6. CASE c.amount = Money(inputs.cost) /\ c.sources = Confirmed(inputs.cost)
  BY <1>0, <1>1, <1>3, <1>6
<1> QED
  BY <1>4, <1>5, <1>6 DEF Components

LEMMA SumOfTwo ==
    ASSUME NEW a, NEW b, a # b, a.amount \in Nat, b.amount \in Nat, NEW S \in SUBSET {a, b}
    PROVE  FoldSet(LAMBDA c, sum : sum + c.amount, 0, S)
             = (IF a \in S THEN a.amount ELSE 0) + (IF b \in S THEN b.amount ELSE 0)
<1> DEFINE iter[s \in SUBSET S] ==
               IF s = {} THEN 0
               ELSE iter[s \ {CHOOSE x \in s : TRUE}] + (CHOOSE x \in s : TRUE).amount
           Runs(u) == u = [s \in SUBSET S |->
                              IF s = {} THEN 0
                              ELSE u[s \ {CHOOSE x \in s : TRUE}] + (CHOOSE x \in s : TRUE).amount]
           h == [s \in SUBSET S |-> (IF a \in s THEN a.amount ELSE 0) + (IF b \in s THEN b.amount ELSE 0)]
<1>1. FoldSet(LAMBDA c, sum : sum + c.amount, 0, S) = iter[S]
  BY Zenon DEF FoldSet, MapThenFoldSet
<1>2. ASSUME NEW s \in SUBSET S, s # {}
      PROVE  h[s] = h[s \ {CHOOSE x \in s : TRUE}] + (CHOOSE x \in s : TRUE).amount
  <2> DEFINE x == CHOOSE x \in s : TRUE
  <2>1. x \in s
    BY <1>2
  <2> HIDE DEF x
  <2>2. x = a \/ x = b
    BY <2>1
  <2>3. s \ {x} \in SUBSET S
    OBVIOUS
  <2>4. h[s] = h[s \ {x}] + x.amount
    BY <2>1, <2>2, <2>3
  <2> QED BY <2>4 DEF x
<1>3. h[{}] = 0
  OBVIOUS
<1>4. Runs(h)
  <2>1. h = [s \in SUBSET S |-> h[s]]
    OBVIOUS
  <2> HIDE DEF h
  <2> QED BY <1>2, <1>3, <2>1
<1>5. Runs(iter)
  <2>1. iter = CHOOSE u : Runs(u)
    OBVIOUS
  <2> HIDE DEF iter, Runs, h
  <2> QED BY <1>4, <2>1
<1> HIDE DEF iter
<1> DEFINE total == (IF a \in S THEN a.amount ELSE 0) + (IF b \in S THEN b.amount ELSE 0)
<1>6. iter[{}] = 0 /\ \A s \in SUBSET S : s # {} =>
          iter[s] = iter[s \ {CHOOSE x \in s : TRUE}] + (CHOOSE x \in s : TRUE).amount
  BY <1>5
<1>7. ASSUME NEW s \in SUBSET S, NEW x \in S, s = {x} PROVE iter[s] = x.amount
  <2>1. (CHOOSE y \in s : TRUE) = x /\ s \ {x} = {}
    BY <1>7
  <2>2. iter[s] = iter[{}] + x.amount
    BY <1>6, <1>7, <2>1
  <2>3. x.amount \in Nat
    OBVIOUS
  <2> QED BY <1>6, <2>2, <2>3
<1>8. ASSUME S = {} PROVE iter[S] = total
  BY <1>6, <1>8
<1>9. ASSUME S = {a} \/ S = {b} PROVE iter[S] = total
  <2>1. S \in SUBSET S
    OBVIOUS
  <2>2. PICK x \in {a, b} : S = {x}
    BY <1>9
  <2>3. iter[S] = x.amount
    BY <1>7, <2>1, <2>2
  <2> QED BY <2>2, <2>3
<1>10. ASSUME S = {a, b} PROVE iter[S] = total
  <2> DEFINE x == CHOOSE x \in S : TRUE
             y == IF x = a THEN b ELSE a
  <2>1. x \in S
    BY <1>10
  <2>2. iter[S] = iter[S \ {x}] + x.amount
    BY <1>6, <1>10
  <2> HIDE DEF x
  <2>3. S \ {x} = {y} /\ y \in S /\ S \ {x} \in SUBSET S
    BY <1>10, <2>1
  <2>4. iter[S \ {x}] = y.amount
    BY <1>7, <2>3
  <2>5. y.amount + x.amount = a.amount + b.amount
    BY <1>10, <2>1
  <2> QED BY <1>10, <2>2, <2>4, <2>5
<1>11. S = {} \/ (S = {a} \/ S = {b}) \/ S = {a, b}
  OBVIOUS
<1>12. iter[S] = total
  BY <1>8, <1>9, <1>10, <1>11
<1> QED BY <1>1, <1>12, Zenon

(* The letter offers what its components offer together.                    *)
LEMMA OfferIsTheSum ==
    ASSUME NEW inputs, Sound(inputs)
    PROVE  PublicProposal(inputs) = FoldSet(LAMBDA c, sum : sum + c.amount, 0, {c \in Components(inputs) : c.offered})
<1> DEFINE a == [kind |-> "direct_loss", amount |-> Money(inputs.loss), offered |-> TRUE,
                 sources |-> LossSources(inputs)]
           b == [kind |-> "conditional_article_42", amount |-> Increment(inputs), offered |-> TRUE,
                 sources |-> ImproperSources(inputs)]
           d == [kind |-> "downside_cost", amount |-> Money(inputs.cost), offered |-> FALSE,
                 sources |-> Confirmed(inputs.cost)]
           S == {c \in Components(inputs) : c.offered}
<1>1. Components(inputs) = {c \in {a, b, d} : c.amount > 0}
  BY DEF Components
<1>2. a # b /\ a.amount = Money(inputs.loss) /\ b.amount = Increment(inputs) /\ a.offered /\ b.offered /\ ~d.offered
  <2>1. a.kind # b.kind
    OBVIOUS
  <2> QED BY <2>1
<1>3. a.amount \in Nat /\ b.amount \in Nat
  BY <1>2, MoneyOrdered DEF Sound, Increment
<1> HIDE DEF a, b, d
<1>4. S \in SUBSET {a, b} /\ (a \in S <=> a.amount > 0) /\ (b \in S <=> b.amount > 0)
  BY <1>1, <1>2
<1> HIDE DEF S
<1>5. FoldSet(LAMBDA c, sum : sum + c.amount, 0, S)
        = (IF a \in S THEN a.amount ELSE 0) + (IF b \in S THEN b.amount ELSE 0)
  BY <1>2, <1>3, <1>4, SumOfTwo
<1>6. (IF a \in S THEN a.amount ELSE 0) + (IF b \in S THEN b.amount ELSE 0) = a.amount + b.amount
  BY <1>3, <1>4
<1>7. FoldSet(LAMBDA c, sum : sum + c.amount, 0, S) = PublicProposal(inputs)
  BY <1>2, <1>5, <1>6 DEF PublicProposal
<1> QED BY <1>7 DEF S

-----------------------------------------------------------------------------
(* What a step that leaves the case and the searches alone leaves alone.    *)
LEMMA SupportedKept ==
    ASSUME UNCHANGED <<case, traces>>
    PROVE  Corpus' = Corpus /\ File' = File /\ Supported' = Supported /\ (DegradedRanking' <=> DegradedRanking)
<1>1. Corpus' = Corpus /\ File' = File
  BY DEF Corpus, File
<1>2. DegradedRanking' <=> DegradedRanking
  BY DEF DegradedRanking
<1>3. Supported' = Supported
  BY <1>1 DEF Supported, Agreeing, Corroborated, TopIn, IsAlias, Agree, Independent
<1> QED BY <1>1, <1>2, <1>3

LEMMA ListableKept ==
    ASSUME UNCHANGED <<case, traces>>, Listable(grounds'), AnchorHeld(grounds')
    PROVE  Listable(grounds)' /\ AnchorHeld(grounds)'
<1>1. AnchorHeld(grounds)'
  BY DEF AnchorHeld
<1>2. \A g \in Range(grounds') : GroundOK(g)
  BY DEF Listable
<1>3. (\A g \in Range(grounds) : GroundOK(g))'
  BY <1>2, SupportedKept DEF GroundOK, Chunk
<1>4. Listable(grounds)'
  BY <1>3, SupportedKept DEF Listable
<1> QED BY <1>1, <1>4

LEMMA NothingListable ==
    ASSUME TRUE PROVE Listable(<<>>) /\ AnchorHeld(<<>>)
<1>1. Range(<<>>) = {} /\ <<>> \in Seq(Range(<<>>)) /\ Len(<<>>) = 0
  BY DEF Range
<1>2. MaxComplementary \in Nat /\ MaxGrounds \in Nat
  BY GroundsAssumption
<1>3. IsFiniteSet({g \in Range(<<>>) : g.law \in Complementary}) /\ Cardinality({g \in Range(<<>>) : g.law \in Complementary}) = 0
      /\ {g \in Range(<<>>) : g.law \in Complementary} = {}
  BY <1>1, FS_EmptySet
<1>4. Listable(<<>>)
  BY <1>1, <1>2, <1>3 DEF Listable
<1>5. AnchorHeld(<<>>)
  BY <1>1 DEF AnchorHeld
<1> QED BY <1>4, <1>5

LEMMA TracesKept ==
    ASSUME UNCHANGED <<case, traces>>, TracesOK,
           phase' = "ranking" => Len(traces) = 0,
           phase' = "corroborating" => Len(traces) = 2,
           phase' \in {"evidence", "verifying", "composing", "made"} => Len(traces) \in {2, 4}
    PROVE  TracesOK'
BY SupportedKept DEF TracesOK, TraceOK, Items, TiersHold, TiersByScore

(* A batch appends a sound search of each of its two queries.               *)
LEMMA BatchIs ==
    ASSUME CaseOK, TracesOK, NEW n \in {0, 2}, Len(traces) = n, NEW lexical \in BOOLEAN,
           Batch(Queries[n + 1], Queries[n + 2], lexical), "embedding" \in lost <=> DegradedRanking,
           phase' \in {"corroborating", "evidence"}, phase' = "corroborating" => n = 0
    PROVE  TracesOK' /\ ("embedding" \in lost' <=> DegradedRanking') /\ lost' \subseteq lost \cup {"embedding"}
<1>1. PICK s \in Searches(Queries[n + 1], lexical), t \in Searches(Queries[n + 2], lexical) :
          traces' = traces \o <<s, t>>
  BY DEF Batch
<1>2. lost' = (IF lexical THEN lost \cup {"embedding"} ELSE lost) /\ case' = case
  BY DEF Batch
<1>3. TraceOK(s, Queries[n + 1]) /\ TraceOK(t, Queries[n + 2]) /\ s.lexical = lexical /\ t.lexical = lexical
  BY <1>1, SearchesAre
<1> DEFINE U == Range(traces) \cup {s, t}
<1>4. traces \in Seq(Range(traces)) /\ \A i \in 1 .. n : traces[i] \in Range(traces) /\ TraceOK(traces[i], Queries[i])
  BY TraceIs DEF TracesOK, Range
<1>5. <<s, t>> \in Seq(U) /\ Len(<<s, t>>) = 2 /\ <<s, t>>[1] = s /\ <<s, t>>[2] = t /\ traces \in Seq(U)
  BY <1>4
<1> HIDE DEF U
<1>6. /\ traces' \in Seq(U) /\ Len(traces') = n + 2
      /\ \A i \in 1 .. n : traces'[i] = traces[i]
      /\ traces'[n + 1] = s /\ traces'[n + 2] = t
  <2> DEFINE w == <<s, t>>
  <2>1. w \in Seq(U) /\ Len(w) = 2 /\ w[1] = s /\ w[2] = t
    BY <1>5
  <2> HIDE DEF w
  <2>2. traces' = traces \o w
    BY <1>1 DEF w
  <2>3. /\ traces \o w \in Seq(U) /\ Len(traces \o w) = n + 2
        /\ \A i \in 1 .. n + 2 : (traces \o w)[i] = IF i <= n THEN traces[i] ELSE w[i - n]
    <3>1. /\ traces \o w \in Seq(U) /\ Len(traces \o w) = Len(traces) + Len(w)
          /\ \A i \in 1 .. Len(traces) + Len(w) :
                (traces \o w)[i] = IF i <= Len(traces) THEN traces[i] ELSE w[i - Len(traces)]
      BY <1>5, <2>1, ConcatProperties, ZenonT(60)
    <3> QED BY <2>1, <3>1
  <2>4. /\ n \in Nat /\ \A i \in 1 .. n : i \in 1 .. n + 2 /\ i <= n
        /\ n + 1 \in 1 .. n + 2 /\ n + 2 \in 1 .. n + 2 /\ ~(n + 1 <= n) /\ ~(n + 2 <= n)
        /\ (n + 1) - n = 1 /\ (n + 2) - n = 2
    OBVIOUS
  <2> QED BY <2>1, <2>2, <2>3, <2>4
<1>7. \A i \in 1 .. n + 2 : i \in 1 .. n \/ i = n + 1 \/ i = n + 2
  OBVIOUS
<1>8. DOMAIN traces' = 1 .. n + 2 /\ traces' \in Seq(Range(traces')) /\ Len(traces') \in {0, 2, 4}
  BY <1>6 DEF Range
<1>9. \A i \in 1 .. n + 2 : TraceOK(traces'[i], Queries[i])
  BY <1>3, <1>4, <1>6, <1>7
<1>10. Corpus' = Corpus /\ (TiersHold' <=> TiersHold)
  BY <1>2 DEF Corpus, TiersHold, TiersByScore
<1>11. (\A i \in 1 .. Len(traces) : TraceOK(traces[i], Queries[i]))'
  BY <1>6, <1>9, <1>10 DEF TraceOK, Items
<1>12. TracesOK'
  BY <1>6, <1>8, <1>11 DEF TracesOK
<1>13. DegradedRanking' <=> DegradedRanking \/ lexical
  <2>1. Range(traces') = {traces'[i] : i \in 1 .. n + 2} /\ Range(traces) = {traces[i] : i \in 1 .. n}
    BY <1>8, TraceIs DEF Range
  <2>2. \A i \in 1 .. n : i \in 1 .. n + 2
    OBVIOUS
  <2>3. n + 1 \in 1 .. n + 2
    OBVIOUS
  <2> QED BY <1>3, <1>6, <1>7, <2>1, <2>2, <2>3 DEF DegradedRanking
<1> QED BY <1>2, <1>12, <1>13

LEMMA NoticeInitInductive == NoticeInit => NoticeIInv
<1> SUFFICES ASSUME NoticeInit PROVE NoticeIInv
  OBVIOUS
<1> USE DEF NoticeInit
<1>1. CaseOK
  BY DEF CaseOK
<1>2. Range(traces) = {} /\ traces \in Seq(Range(traces)) /\ Len(traces) = 0
  BY DEF Range
<1>3. TracesOK
  BY <1>2 DEF TracesOK
<1>4. ExhibitsOK /\ ~exhibits.lexical
  <2>1. exhibits \in [attached : BOOLEAN, lexical : {FALSE}, cited : {<<>>}]
    OBVIOUS
  <2>2. exhibits.cited = <<>> /\ exhibits.lexical = FALSE
    BY <2>1
  <2>3. exhibits \in [attached : BOOLEAN, lexical : BOOLEAN,
                      cited : {<<>>} \cup {CitationsOf[case.given][ranking] : ranking \in EvidenceRankings}]
    BY <2>1
  <2> QED BY <2>2, <2>3 DEF ExhibitsOK
<1>5. ~Degraded
  BY <1>2, <1>4 DEF Degraded
<1>6. Listable(grounds) /\ AnchorHeld(grounds)
  BY NothingListable
<1> QED BY <1>1, <1>3, <1>4, <1>5, <1>6 DEF NoticeIInv

(* What a search of the laws leaves to be done.                             *)
LEMMA SearchedIs ==
    ASSUME NoticeIInv, NEW n \in {0, 2}, Len(traces) = n, NEW lexical \in BOOLEAN,
           Batch(Queries[n + 1], Queries[n + 2], lexical),
           phase \in {"ranking", "corroborating"},
           phase' \in {"corroborating", "evidence"}, phase' = "corroborating" => n = 0
    PROVE  NoticeIInv'
<1>1. ~exhibits.lexical /\ grounds = <<>> /\ notice = NoNotice
  BY DEF NoticeIInv
<1>2. "embedding" \in lost <=> DegradedRanking
  BY <1>1 DEF NoticeIInv, Degraded, DegradedRanking
<1>3. TracesOK' /\ ("embedding" \in lost' <=> DegradedRanking') /\ lost' \subseteq lost \cup {"embedding"}
  BY <1>2, BatchIs DEF NoticeIInv
<1>4. UNCHANGED <<case, exhibits, grounds, notice>>
  BY DEF Batch
<1>5. CaseOK' /\ ExhibitsOK'
  BY <1>4 DEF NoticeIInv, CaseOK, ExhibitsOK
<1>6. Degraded' <=> "embedding" \in lost'
  BY <1>1, <1>3, <1>4 DEF Degraded, DegradedRanking
<1>7. (Listable(grounds) /\ AnchorHeld(grounds))'
  <2>1. grounds' = <<>>
    BY <1>1, <1>4
  <2>2. (Listable(<<>>) /\ AnchorHeld(<<>>))'
    BY NothingListable, PTL
  <2> QED BY <2>1, <2>2
<1>8. "composer" \notin lost'
  <2>1. "composer" \notin lost
    BY DEF NoticeIInv
  <2> QED BY <1>3, <2>1
<1> QED BY <1>1, <1>3, <1>4, <1>5, <1>6, <1>7, <1>8 DEF NoticeIInv, NoNotice

(* The exhibits are attached as quoted, and the grounds selected.           *)
LEMMA RetrievedIs ==
    ASSUME NoticeIInv, RetrieveEvidence
    PROVE  NoticeIInv'
<1>1. phase = "evidence" /\ phase' = "verifying" /\ grounds' = Selected /\ UNCHANGED <<case, traces, notice>>
  BY DEF RetrieveEvidence
<1>2. CaseOK /\ TracesOK /\ ExhibitsOK /\ ~exhibits.lexical /\ notice = NoNotice /\ "composer" \notin lost
      /\ Len(traces) \in {2, 4} /\ ("embedding" \in lost <=> Degraded)
  BY <1>1 DEF NoticeIInv, TracesOK
<1>3. (Listable(grounds) /\ AnchorHeld(grounds))'
  BY <1>1, <1>2, SelectedIs, ListableKept
<1>4. CaseOK' /\ TracesOK'
  <2>1. CaseOK'
    BY <1>1, <1>2 DEF CaseOK
  <2>2. TracesOK'
    BY <1>1, <1>2, TracesKept
  <2> QED BY <2>1, <2>2
<1>5. CASE exhibits.attached
  <2>1. PICK lexical \in BOOLEAN, ranking \in EvidenceRankings :
            /\ exhibits' = [exhibits EXCEPT !.lexical = lexical, !.cited = CitationsOf[case.given][ranking]]
            /\ lost' = IF lexical THEN lost \cup {"embedding"} ELSE lost
    BY <1>5 DEF RetrieveEvidence
  <2>2. exhibits'.attached = exhibits.attached /\ exhibits'.lexical = lexical
        /\ exhibits'.cited = CitationsOf[case.given][ranking] /\ exhibits'.attached \in BOOLEAN
        /\ exhibits' = [attached |-> exhibits'.attached, lexical |-> exhibits'.lexical, cited |-> exhibits'.cited]
    BY <1>2, <2>1 DEF ExhibitsOK
  <2>3. ExhibitsOK'
    <3>1. exhibits'.cited \in {CitationsOf[case.given][r] : r \in EvidenceRankings}
      BY <2>2
    <3>2. (exhibits \in [attached : BOOLEAN, lexical : BOOLEAN,
                         cited : {<<>>} \cup {CitationsOf[case.given][r] : r \in EvidenceRankings}])'
      <4> DEFINE C == {<<>>} \cup {CitationsOf[case.given][r] : r \in EvidenceRankings}
      <4>1. exhibits'.cited \in C /\ C' = C
        BY <1>1, <3>1
      <4> HIDE DEF C
      <4>2. exhibits' \in [attached : BOOLEAN, lexical : BOOLEAN, cited : C]
        BY <2>2, <4>1
      <4> QED BY <4>1, <4>2 DEF C
    <3> QED BY <1>5, <2>2, <3>2 DEF ExhibitsOK
  <2>4. "embedding" \in lost' <=> Degraded'
    BY <1>1, <1>2, <2>1, <2>2 DEF Degraded
  <2> QED BY <1>1, <1>2, <1>3, <1>4, <2>1, <2>3, <2>4 DEF NoticeIInv, NoNotice
<1>6. CASE ~exhibits.attached
  <2>1. UNCHANGED <<exhibits, lost>>
    BY <1>6 DEF RetrieveEvidence
  <2>2. ExhibitsOK' /\ ("embedding" \in lost' <=> Degraded')
    BY <1>1, <1>2, <2>1 DEF ExhibitsOK, Degraded
  <2> QED BY <1>1, <1>2, <1>3, <1>4, <2>1, <2>2 DEF NoticeIInv, NoNotice
<1> QED BY <1>5, <1>6

(* A step that only goes on, refuses or drops grounds.                      *)
LEMMA GoesOn ==
    ASSUME NoticeIInv, UNCHANGED <<case, traces, exhibits, notice>>, phase # "made",
           phase' \in {"evidence", "verifying", "composing", "refused"},
           phase' = "evidence" => phase = "corroborating",
           phase' = "composing" => phase = "verifying",
           phase' = "verifying" => phase = "evidence",
           lost' = lost \/ lost' = lost \cup {"verifier"},
           grounds' = grounds \/ (phase' = "composing" /\ Listable(grounds') /\ AnchorHeld(grounds'))
    PROVE  NoticeIInv'
<1>1. CaseOK /\ TracesOK /\ ExhibitsOK /\ notice = NoNotice /\ "composer" \notin lost /\ Listable(grounds) /\ AnchorHeld(grounds)
      /\ ("embedding" \in lost <=> Degraded)
  BY DEF NoticeIInv
<1>2. (Listable(grounds) /\ AnchorHeld(grounds))'
  <2>1. Listable(grounds') /\ AnchorHeld(grounds')
    BY <1>1
  <2> QED BY <2>1, ListableKept
<1>3. CaseOK' /\ ExhibitsOK'
  BY <1>1 DEF CaseOK, ExhibitsOK
<1>4. TracesOK'
  <2>1. Len(traces) \in {2, 4} \/ phase' = "refused"
    BY <1>1 DEF TracesOK
  <2> QED BY <1>1, <2>1, TracesKept
<1>5. Degraded' <=> "embedding" \in lost'
  BY <1>1 DEF Degraded
<1>6. phase' \in {"ranking", "corroborating", "evidence"} => ~exhibits'.lexical /\ grounds' = <<>>
  BY DEF NoticeIInv
<1> QED BY <1>1, <1>2, <1>3, <1>4, <1>5, <1>6 DEF NoticeIInv, NoNotice

(* What is drafted is written as everything stands.                         *)
LEMMA DraftedIs ==
    ASSUME NoticeIInv, CanCompose, NEW mode, NEW warnings, Draft(mode, warnings),
           \/ warnings = {} /\ lost' = lost
           \/ warnings = {"composer"} /\ lost' = lost \cup {"composer"} /\ mode = "deterministic"
    PROVE  NoticeIInv'
<1>1. phase = "composing" /\ phase' = "made" /\ UNCHANGED <<case, traces, exhibits, grounds>> /\ Grounded /\ Computable(File.facts)
  BY DEF CanCompose, Draft
<1>2. CaseOK /\ TracesOK /\ ExhibitsOK /\ "composer" \notin lost /\ Listable(grounds) /\ AnchorHeld(grounds)
      /\ ("embedding" \in lost <=> Degraded)
  BY <1>1 DEF NoticeIInv
<1>3. (Listable(grounds) /\ AnchorHeld(grounds))'
  BY <1>1, <1>2, ListableKept
<1>4. CaseOK' /\ ExhibitsOK'
  BY <1>1, <1>2 DEF CaseOK, ExhibitsOK
<1>5. TracesOK'
  <2>1. Len(traces) \in {2, 4}
    BY <1>1, <1>2 DEF TracesOK
  <2> QED BY <1>1, <1>2, <2>1, TracesKept
<1>6. Degraded' <=> "embedding" \in lost'
  BY <1>1, <1>2 DEF Degraded
<1>7. /\ notice'.made /\ notice'.grounds = grounds /\ notice'.cited = exhibits.cited /\ notice'.included = Included
      /\ notice'.offer = PublicProposal(File.facts) /\ notice'.components = Components(File.facts)
      /\ notice'.mode = mode /\ notice'.warnings = Warnings \cup warnings
  BY DEF Draft
<1>8. File' = File
  BY <1>1, SupportedKept
<1>9. Included' = Included
  BY <1>1 DEF Included, Places, At, CitedChunks, Wins
<1>10. Grounded' <=> Grounded
  BY <1>1 DEF Grounded
<1>11. Warnings' = Warnings
  <2>1. "verifier" \in lost' <=> "verifier" \in lost
    OBVIOUS
  <2>2. Degraded' <=> Degraded
    BY <1>1 DEF Degraded
  <2> QED BY <1>1, <2>1, <2>2 DEF Warnings
<1>12. "composer" \in lost' <=> warnings = {"composer"}
  BY <1>2
<1>13. Written'
  <2>1. /\ notice'.made /\ notice'.grounds = grounds' /\ notice'.cited = exhibits'.cited /\ notice'.included = Included'
        /\ Grounded'
    BY <1>1, <1>7, <1>9, <1>10
  <2>2. /\ notice'.offer = PublicProposal(File'.facts) /\ notice'.components = Components(File'.facts)
        /\ Computable(File'.facts)
    BY <1>1, <1>7, <1>8
  <2>3. "composer" \in lost' => notice'.mode = "deterministic"
    BY <1>2, <1>7
  <2>4. notice'.warnings = Warnings' \cup (IF "composer" \in lost' THEN {"composer"} ELSE {})
    BY <1>7, <1>11, <1>12
  <2> QED BY <2>1, <2>2, <2>3, <2>4 DEF Written
<1> QED BY <1>1, <1>2, <1>3, <1>4, <1>5, <1>6, <1>13 DEF NoticeIInv

LEMMA NoticeNextInductive == NoticeIInv /\ [NoticeNext]_noticeVars => NoticeIInv'
<1> SUFFICES ASSUME NoticeIInv, [NoticeNext]_noticeVars PROVE NoticeIInv'
  OBVIOUS
<1>1. ASSUME RankLaws PROVE NoticeIInv'
  <2>1. PICK lexical \in BOOLEAN :
            Batch("framed", "bare", lexical) /\ phase' = IF lexical THEN "corroborating" ELSE "evidence"
    BY <1>1 DEF RankLaws
  <2>2. phase = "ranking" /\ Len(traces) = 0
    BY <1>1 DEF RankLaws, NoticeIInv, TracesOK
  <2>3. Queries[0 + 1] = "framed" /\ Queries[0 + 2] = "bare"
    BY DEF Queries
  <2> QED BY <2>1, <2>2, <2>3, SearchedIs
<1>2. ASSUME Corroborate PROVE NoticeIInv'
  <2>1. PICK lexical \in BOOLEAN : Batch("complaint", "remedy", lexical)
    BY <1>2 DEF Corroborate
  <2>2. phase = "corroborating" /\ phase' = "evidence" /\ Len(traces) = 2
    BY <1>2 DEF Corroborate, NoticeIInv, TracesOK
  <2>3. Queries[2 + 1] = "complaint" /\ Queries[2 + 2] = "remedy"
    BY DEF Queries
  <2> QED BY <2>1, <2>2, <2>3, SearchedIs
<1>3. ASSUME NothingToCorroborate PROVE NoticeIInv'
  BY <1>3, GoesOn DEF NothingToCorroborate
<1>4. ASSUME RetrieveEvidence PROVE NoticeIInv'
  BY <1>4, RetrievedIs
<1>5. ASSUME Verify PROVE NoticeIInv'
  <2>1. PICK rejected \in SUBSET DOMAIN grounds : grounds' = Anchored(Those(grounds, DOMAIN grounds \ rejected))
    BY <1>5 DEF Verify
  <2>2. Listable(grounds) /\ DOMAIN grounds \ rejected \in SUBSET DOMAIN grounds
    BY DEF NoticeIInv
  <2>3. Listable(Those(grounds, DOMAIN grounds \ rejected))
    BY <2>2, KeptListable
  <2>4. Listable(grounds') /\ AnchorHeld(grounds')
    BY <2>1, <2>3, AnchoredIs
  <2> QED BY <1>5, <2>4, GoesOn DEF Verify
<1>6. ASSUME VerifierFails PROVE NoticeIInv'
  BY <1>6, GoesOn DEF VerifierFails
<1>7. ASSUME NEW from \in {"ranking", "corroborating", "evidence", "composing"}, RefuseFrom(from) PROVE NoticeIInv'
  BY <1>7, GoesOn DEF RefuseFrom
<1>8. ASSUME RefuseUngrounded \/ RefuseAmounts PROVE NoticeIInv'
  BY <1>7, <1>8 DEF RefuseUngrounded, RefuseAmounts
<1>9. ASSUME ComposeFixed PROVE NoticeIInv'
  <2>1. CanCompose /\ Draft("deterministic", {}) /\ lost' = lost
    BY <1>9 DEF ComposeFixed
  <2> QED BY <2>1, DraftedIs
<1>10. ASSUME ComposeProse PROVE NoticeIInv'
  <2>1. CanCompose /\ Draft("llm", {}) /\ lost' = lost
    BY <1>10 DEF ComposeProse
  <2> QED BY <2>1, DraftedIs
<1>11. ASSUME ComposerFails PROVE NoticeIInv'
  <2>1. CanCompose /\ Draft("deterministic", {"composer"}) /\ lost' = lost \cup {"composer"}
    BY <1>11 DEF ComposerFails
  <2> QED BY <2>1, DraftedIs
<1>12. ASSUME UNCHANGED noticeVars PROVE NoticeIInv'
  <2>1. UNCHANGED <<case, phase, traces, exhibits, grounds, lost, notice>>
    BY <1>12 DEF noticeVars
  <2>2. CaseOK' /\ ExhibitsOK' /\ TracesOK' /\ (Degraded' <=> Degraded)
    BY <2>1, TracesKept DEF NoticeIInv, CaseOK, ExhibitsOK, TracesOK, Degraded
  <2>3. (Listable(grounds) /\ AnchorHeld(grounds))'
    BY <2>1, ListableKept DEF NoticeIInv
  <2>4. Written => Written'
    <3>1. File' = File
      BY <2>1, SupportedKept
    <3>2. Included' = Included
      BY <2>1 DEF Included, Places, At, CitedChunks, Wins
    <3>3. Grounded' <=> Grounded
      BY <2>1 DEF Grounded
    <3>4. Warnings' = Warnings
      BY <2>1, <2>2 DEF Warnings
    <3> QED BY <2>1, <3>1, <3>2, <3>3, <3>4 DEF Written
  <2> QED BY <2>1, <2>2, <2>3, <2>4 DEF NoticeIInv, NoNotice
<1> QED BY <1>1, <1>2, <1>3, <1>4, <1>5, <1>6, <1>7, <1>8, <1>9, <1>10, <1>11, <1>12 DEF NoticeNext

(* The grounds, the order of the searches and the citations of a notice are *)
(* inductive together with what each step of the pipeline has in hand       *)
(* (retrieve_legal_candidates, select_legal_grounds, apply_verdicts,        *)
(* _generate_notice).                                                       *)
THEOREM NoticeInductive == NoticeSpec => []NoticeIInv
BY NoticeInitInductive, NoticeNextInductive, PTL DEF NoticeSpec

LEMMA CitationsFollow == NoticeIInv => CitationsSound
<1> SUFFICES ASSUME NoticeIInv PROVE CitationsSound
  OBVIOUS
<1>1. CaseOK /\ TracesOK /\ ExhibitsOK /\ Listable(grounds) /\ AnchorHeld(grounds)
  BY DEF NoticeIInv
<1>2. (notice.grounds = grounds /\ notice.cited = exhibits.cited /\ notice.made /\ phase = "made")
      \/ (notice.grounds = <<>> /\ notice.cited = <<>> /\ ~notice.made /\ phase # "made")
  BY DEF NoticeIInv, Written, NoNotice
<1>3. Listable(notice.grounds) /\ AnchorHeld(notice.grounds)
  BY <1>1, <1>2, NothingListable
<1>4. NoticeTypeOK
  <2>1. \A t \in Range(traces) : Len(t.results) <= RequestedK
    BY <1>1, TraceIs DEF TraceOK
  <2>2. Len(traces) \in {0, 2, 4} /\ Len(grounds) <= MaxGrounds
    BY <1>1 DEF TracesOK, Listable
  <2>3. notice.made <=> phase = "made"
    BY <1>2
  <2> QED BY <2>1, <2>2, <2>3 DEF NoticeTypeOK, NoticeIInv
<1>5. CitedOnAgreement
  <2> SUFFICES ASSUME NEW g \in Range(notice.grounds)
               PROVE  /\ Chunk(g.quoted).kind # "alias" /\ Chunk(g.quoted).provision = g.provision
                      /\ Chunk(g.matched).citable \/ Chunk(g.matched).part = "caput"
                      /\ \E i \in 1 .. 2 : \E item \in Range(traces[i].results) : item.chunk = g.matched
                      /\ \E c \in DOMAIN Corpus :
                           /\ Chunk(c).provision = g.provision /\ Chunk(c).citable
                           /\ \/ \E t \in Range(traces) : \E item \in Range(t.results) :
                                   item.chunk = c /\ item.dense \in 1 .. AgreementMaxRank
                                                  /\ item.lexical \in 1 .. AgreementMaxRank
                              \/ Cardinality({t.query : t \in {u \in Range(traces) : TopIn(c, u)}}) >= 2
    BY DEF CitedOnAgreement
  <2>1. GroundOK(g)
    BY <1>3 DEF Listable
  <2>2. Chunk(g.quoted).kind # "alias" /\ Chunk(g.quoted).provision = g.provision
    <3>1. g.matched \in DOMAIN Corpus /\ g.quoted = Chunk(g.matched).quotes /\ g.provision = Chunk(g.matched).provision
      BY <2>1 DEF GroundOK
    <3>2. ChunkOK(Corpus, g.matched)
      BY <1>1, <3>1, GivenIs
    <3>3. Corpus[Corpus[g.matched].quotes].kind # "alias"
          /\ Corpus[Corpus[g.matched].quotes].provision = Corpus[g.matched].provision
      BY <3>2 DEF ChunkOK
    <3> QED BY <3>1, <3>3 DEF Chunk
  <2>3. PICK c \in Supported : c \in DOMAIN Corpus /\ Chunk(c).provision = g.provision /\ Chunk(c).citable
    BY <2>1 DEF GroundOK
  <2>4. \/ \E t \in Range(traces) : \E item \in Range(t.results) :
              item.chunk = c /\ item.dense \in 1 .. AgreementMaxRank /\ item.lexical \in 1 .. AgreementMaxRank
        \/ Cardinality({t.query : t \in {u \in Range(traces) : TopIn(c, u)}}) >= 2
    BY <1>1, <2>3, SupportedIs
  <2>5. /\ Chunk(g.matched).citable \/ Chunk(g.matched).part = "caput"
        /\ \E i \in 1 .. 2 : \E item \in Range(traces[i].results) : item.chunk = g.matched
    BY <2>1 DEF GroundOK
  <2> QED BY <2>2, <2>3, <2>4, <2>5
<1>6. ComplementaryHeld
  BY <1>3 DEF ComplementaryHeld, Listable, AnchorHeld, DegradedRanking, Complementary
<1>7. CitedOnce
  BY <1>3 DEF CitedOnce, Listable
<1>8. AgreedFirst
  BY <1>1, TraceIs DEF AgreedFirst, TraceOK, TiersKept, TiersHold
<1>9. QuotesStandAlone
  <2>1. \A c \in Range(notice.cited) : QuoteSound(c)
    <3>1. \A c \in Range(<<>>) : QuoteSound(c)
      BY DEF Range
    <3>2. exhibits.cited = <<>> \/ \E ranking \in EvidenceRankings : exhibits.cited = CitationsOf[case.given][ranking]
      BY <1>1 DEF ExhibitsOK
    <3>3. \A c \in Range(exhibits.cited) : QuoteSound(c)
      BY <1>1, <3>1, <3>2, CitationsAre
    <3> QED BY <1>2, <3>1, <3>3
  <2> QED BY <2>1 DEF QuotesStandAlone, QuoteSound, NamesCase
<1> QED BY <1>4, <1>5, <1>6, <1>7, <1>8, <1>9 DEF CitationsSound

(* What any notice cites was agreed on by two channels or two queries, is   *)
(* the statute's own text, stands beside the consumer code and is cited     *)
(* once, and what it quotes of the documents stands alone.                  *)
THEOREM CitationsAreSound == NoticeSpec => []CitationsSound
BY NoticeInductive, CitationsFollow, PTL

LEMMA ReaderFollows == NoticeIInv => ReaderInformed
<1> SUFFICES ASSUME NoticeIInv PROVE ReaderInformed
  OBVIOUS
<1>1. CaseOK /\ TracesOK /\ ExhibitsOK /\ Listable(grounds) /\ ("embedding" \in lost <=> Degraded)
  BY DEF NoticeIInv
<1>2. CASE ~notice.made
  BY <1>2 DEF ReaderInformed, ReaderTold, AuditNamesCitations, OfferAccountedFor
<1>3. CASE notice.made
  <2>1. phase = "made" /\ Written
    BY <1>3 DEF NoticeIInv, NoNotice
  <2>2. notice.warnings = Warnings \cup (IF "composer" \in lost THEN {"composer"} ELSE {})
    BY <2>1 DEF Written
  <2>3. ReaderTold
    <3>1. ("degraded" \in notice.warnings <=> "embedding" \in lost) /\ ("verifier" \in notice.warnings <=> "verifier" \in lost)
      BY <1>1, <2>2 DEF Warnings
    <3>2. "composer" \in notice.warnings <=> "composer" \in lost
      BY <2>2 DEF Warnings
    <3>3. notice.cited = <<>> <=> notice.warnings \cap {"no document", "nothing cited"} # {}
      <4>1. notice.cited = exhibits.cited /\ (case.mode = "case" => exhibits.cited # <<>>) /\ case.mode \in {"case", "prompt"}
        BY <1>1, <2>1 DEF Written, Grounded, CaseOK
      <4>2. ~exhibits.attached => exhibits.cited = <<>>
        BY <1>1 DEF ExhibitsOK
      <4>3. "no document" \in notice.warnings <=> case.mode = "prompt" /\ ~exhibits.attached
        BY <2>2 DEF Warnings
      <4>4. "nothing cited" \in notice.warnings <=> case.mode = "prompt" /\ exhibits.attached /\ exhibits.cited = <<>>
        BY <2>2 DEF Warnings
      <4> QED BY <4>1, <4>2, <4>3, <4>4
    <3>4. "composer" \in notice.warnings => notice.mode = "deterministic"
      BY <2>1, <3>2 DEF Written
    <3> QED BY <3>1, <3>2, <3>3, <3>4 DEF ReaderTold
  <2>4. AuditNamesCitations
    <3>1. Len(traces) \in {2, 4} /\ notice.grounds = grounds /\ notice.included = Included
      BY <1>1, <2>1 DEF TracesOK, Written
    <3> QED BY <1>1, <3>1, AuditIs DEF AuditNamesCitations
  <2>5. OfferAccountedFor
    <3> DEFINE inputs == File.facts
    <3>1. notice.offer = PublicProposal(inputs) /\ notice.components = Components(inputs) /\ Computable(inputs)
      BY <2>1 DEF Written
    <3>2. FileOK(File)
      BY <1>1, GivenIs
    <3>3. Sound(inputs)
      BY <3>1, <3>2 DEF FileOK, Sound
    <3> HIDE DEF inputs
    <3>4. PublicProposal(inputs) <= 2 * Reservation(inputs)
      BY <3>3, OfferBounded
    <3>5. \A c \in Components(inputs) : c.sources # {} /\ \A source \in c.sources : Money(source.states) = c.amount
      BY <3>3, ComponentsBacked
    <3>6. PublicProposal(inputs) = FoldSet(LAMBDA c, sum : sum + c.amount, 0, {c \in Components(inputs) : c.offered})
      BY <3>3, OfferIsTheSum
    <3>7. notice.offer = FoldSet(LAMBDA c, sum : sum + c.amount, 0, {c \in notice.components : c.offered})
      BY <3>1, <3>6, Zenon
    <3>8. notice.offer <= 2 * Reservation(File.facts)
      BY <3>1, <3>4 DEF inputs
    <3>9. \A c \in notice.components : c.sources # {} /\ \A source \in c.sources : Money(source.states) = c.amount
      BY <3>1, <3>5
    <3> QED BY <3>7, <3>8, <3>9, Zenon DEF OfferAccountedFor
  <2> QED BY <2>3, <2>4, <2>5 DEF ReaderInformed
<1> QED BY <1>2, <1>3

(* The reader is told of whatever was missing, the audit marks the matched  *)
(* chunk of each citation in one place, and each amount is that of its      *)
(* sources (_prompt_mode_warnings, _annotate_composer_selection,            *)
(* SettlementCalculator).                                                   *)
THEOREM ReaderIsInformed == NoticeSpec => []ReaderInformed
BY NoticeInductive, ReaderFollows, PTL
=============================================================================
