------------------------- MODULE FilePipelineProofs -------------------------
(***************************************************************************)
(* Theorems about FilePipeline for every set of files, workers and         *)
(* messages and every bound.                                               *)
(***************************************************************************)
EXTENDS FilePipeline, TLAPS

USE DEF storageVars, localVars, eventVars, mergingVars, workerVars,
        receiverVars, vars,
        Mergable, Dirs, Places, Content,
        CanceledIn, SendAck, DuplicateStep, NotAccepted,
        OptsError

(* Well-typedness together with what it rests on: a busy worker has a      *)
(* message, so File(w) is a file.                                          *)
TypeInv == TypeOK /\ Bookkeeping

(* What Handle does to the control state of the workers.                   *)
LEMMA HandleType ==
    ASSUME TypeInv, NEW w \in Workers, NEW m \in Messages, NEW s \in Steps,
           Handle(w, m, s)
    PROVE  /\ pc' \in [Workers -> Steps]
           /\ msg' \in [Workers -> Messages \cup {NoMessage}]
           /\ \A v \in Workers : pc'[v] # "idle" => msg'[v] \in Messages
  BY DEF TypeInv, TypeOK, Bookkeeping, BusyHasMessage, Handle

(* A busy worker's file is one.                                            *)
LEMMA FileType ==
    ASSUME TypeInv, NEW w \in Workers, pc[w] # "idle"
    PROVE  msg[w] \in Messages /\ File(w) \in Files
  BY PipelineAssumption DEF TypeInv, TypeOK, Bookkeeping, BusyHasMessage,
                              File

(* The same for a worker that goes on with its own message.                *)
LEMMA GotoType ==
    ASSUME TypeInv, NEW w \in Workers, NEW s \in Steps, pc[w] # "idle",
           Goto(w, s)
    PROVE  /\ pc' \in [Workers -> Steps]
           /\ msg' \in [Workers -> Messages \cup {NoMessage}]
           /\ \A v \in Workers : pc'[v] # "idle" => msg'[v] \in Messages
  BY HandleType, FileType DEF Goto

(* What going to a step does to the other workers: nothing.                *)
LEMMA GotoEffect ==
    ASSUME TypeInv, NEW w \in Workers, NEW s \in Steps, Goto(w, s)
    PROVE  /\ pc'[w] = s
           /\ s # "idle" => msg'[w] = msg[w]
           /\ \A v \in Workers : v # w => pc'[v] = pc[v] /\ msg'[v] = msg[v]
  BY DEF Goto, Handle, TypeInv, TypeOK

(* processMessage sends every message to a step.                           *)
LEMMA FirstStepType ==
    ASSUME NEW m \in Messages
    PROVE  FirstStep(m) \in Steps
  BY PipelineAssumption DEF FirstStep, Steps, Kinds

(* Unlucky events stay within their bound.                                 *)
LEMMA HappensType ==
    ASSUME TypeInv, NEW k, Happens(k)
    PROVE  adverse' \in 0 .. MaxAdverse
  BY StorageAssumption DEF TypeInv, TypeOK, StorageTypeOK, Happens

(* The program starts well typed.                                          *)
LEMMA TypeInit == Init => TypeInv
  <1>. SUFFICES ASSUME Init PROVE TypeInv
    OBVIOUS
  <1>1. StorageTypeOK
    BY StorageAssumption DEF Init, StorageInit, StorageTypeOK
  <1>2. MergingTypeOK
    <2>1. cutoffs \in 0 .. MaxCutoffs /\ cutDir \in Places
      BY StorageAssumption DEF Init, MergingInit
    <2>2. cut \in CutoffSteps /\ uploads \in [Files -> Nat]
      BY DEF Init, MergingInit, CutoffSteps
    <2>. QED  BY <2>1, <2>2 DEF Init, MergingInit, MergingTypeOK
  <1>3. Bookkeeping
    BY DEF Init, MergingInit, Bookkeeping, BusyHasMessage, LocalsInOrder
  <1>4. pc \in [Workers -> Steps] /\ db \in [Files -> Rows]
    BY DEF Init, Steps, Rows
  <1>. QED
    BY <1>1, <1>2, <1>3, <1>4, StorageAssumption DEF Init, TypeInv, TypeOK

(* The storage operations of the receiver keep the types of the tree.      *)
LEMMA StorageOpsType ==
    ASSUME StorageTypeOK, NEW f \in Files, NEW p \in Places,
           adverse' \in 0 .. MaxAdverse,
           \/ CreateFile(f) \/ FillFile(p, f) \/ WriteOpts(f)
           \/ ReplaceFile(f) \/ UNCHANGED storageVars
    PROVE  StorageTypeOK'
  <1>. USE StorageAssumption DEF StorageTypeOK
  <1>1. CASE CreateFile(f)
    <2>1. ach' \in [Places -> [Files -> Content]]
      BY <1>1 DEF CreateFile
    <2>. QED  BY <1>1, <2>1 DEF CreateFile
  <1>2. CASE FillFile(p, f)
    <2>1. ach' \in [Places -> [Files -> Content]]
      BY <1>2 DEF FillFile
    <2>. QED  BY <1>2, <2>1 DEF FillFile
  <1>3. CASE WriteOpts(f)
    <2>1. opts' \in [Places -> SUBSET Files]
      BY <1>3 DEF WriteOpts
    <2>. QED  BY <1>3, <2>1 DEF WriteOpts
  <1>4. CASE ReplaceFile(f)
    <2>1. ach' \in [Places -> [Files -> Content]]
      BY <1>4 DEF ReplaceFile
    <2>2. canceled' \in [Places -> SUBSET Files]
      BY <1>4 DEF ReplaceFile
    <2>. QED  BY <1>4, <2>1, <2>2 DEF ReplaceFile
  <1>5. CASE UNCHANGED storageVars
    BY <1>5
  <1>. QED  BY <1>1, <1>2, <1>3, <1>4, <1>5

(* A worker that leaves the aggregator alone keeps the types when it keeps *)
(* those of what it touches.                                               *)
LEMMA WorkerType ==
    ASSUME TypeInv, UNCHANGED mergingVars,
           StorageTypeOK',
           pc' \in [Workers -> Steps],
           msg' \in [Workers -> Messages \cup {NoMessage}],
           \A v \in Workers : pc'[v] # "idle" => msg'[v] \in Messages,
           fd' \in [Workers -> Places],
           found' \in [Workers -> BOOLEAN],
           acking' \subseteq Messages,
           acked' \subseteq Messages,
           db' \in [Files -> Rows],
           responses' \subseteq Files \X BOOLEAN
    PROVE  TypeInv'
  BY DEF TypeInv, TypeOK, MergingTypeOK, Bookkeeping, BusyHasMessage,
         LocalsInOrder

(* Handing out a message keeps the types.                                  *)
LEMMA ReceiveType ==
    ASSUME TypeInv, NEW w \in Workers, NEW m \in Messages, Receive(w, m)
    PROVE  TypeInv'
  <1>1. Handle(w, m, FirstStep(m))
    BY DEF Receive
  <1>2. StorageTypeOK' /\ UNCHANGED mergingVars
    BY DEF Receive, TypeInv, TypeOK, StorageTypeOK
  <1>3. /\ acking' \subseteq Messages
        /\ UNCHANGED <<fd, found, acked, db, responses>>
    BY DEF Receive, TypeInv, TypeOK
  <1>. QED
    BY <1>1, <1>2, <1>3, HandleType, FirstStepType, WorkerType
    DEF TypeInv, TypeOK

(* Every call of processMessage keeps the types.                           *)
LEMMA WorkerStepType ==
    ASSUME TypeInv, NEW w \in Workers, WorkerStep(w)
    PROVE  TypeInv'
  <1>. USE DEF TypeInv, TypeOK
  <1>1. pc[w] # "idle" /\ msg[w] \in Messages /\ File(w) \in Files
    <2>1. pc[w] # "idle"
      BY DEF WorkerStep, Ack, RecordFails, Record, OpenACHFile, FillACHFile,
             WriteValidateOpts, CleanupRecord, CancelRecord,
             CancelWithoutShard, LookForFile, ReplaceACHFile, RespondCancel
    <2>. QED  BY <2>1, FileType
  <1>2. \A s \in Steps : Goto(w, s) =>
           /\ pc' \in [Workers -> Steps]
           /\ msg' \in [Workers -> Messages \cup {NoMessage}]
           /\ \A v \in Workers : pc'[v] # "idle" => msg'[v] \in Messages
    BY <1>1, GotoType
  <1>3. /\ "idle" \in Steps /\ "open" \in Steps /\ "fill" \in Steps
        /\ "opts" \in Steps /\ "undo" \in Steps /\ "ack" \in Steps
        /\ "look" \in Steps /\ "replace" \in Steps
        /\ "cancelRespond" \in Steps
    BY DEF Steps
  <1>4. \A k : Happens(k) => adverse' \in 0 .. MaxAdverse
    BY HappensType
  <1>5. CASE Ack(w)
    BY <1>1, <1>2, <1>3, <1>5, WorkerType
    DEF Ack, StorageTypeOK
  <1>6. CASE RecordFails(w)
    BY <1>1, <1>2, <1>3, <1>4, <1>6, WorkerType
    DEF RecordFails, Rows, StorageTypeOK
  <1>7. CASE Record(w)
    BY <1>1, <1>2, <1>3, <1>7, WorkerType
    DEF Record, Rows, StorageTypeOK
  <1>8. CASE OpenACHFile(w)
    <2>1. StorageTypeOK'
      BY <1>1, <1>4, <1>8, StorageOpsType DEF OpenACHFile, StorageTypeOK
    <2>. QED
      BY <1>1, <1>2, <1>3, <1>8, <2>1, WorkerType, StorageAssumption
      DEF OpenACHFile
  <1>9. CASE FillACHFile(w)
    <2>1. StorageTypeOK'
      BY <1>1, <1>4, <1>9, StorageOpsType DEF FillACHFile, StorageTypeOK
    <2>. QED
      BY <1>1, <1>2, <1>3, <1>9, <2>1, WorkerType, StorageAssumption
      DEF FillACHFile
  <1>10. CASE WriteValidateOpts(w)
    <2>1. StorageTypeOK'
      BY <1>1, <1>4, <1>10, StorageOpsType
      DEF WriteValidateOpts, StorageTypeOK
    <2>. QED
      BY <1>1, <1>2, <1>3, <1>10, <2>1, WorkerType DEF WriteValidateOpts
  <1>11. CASE CleanupRecord(w)
    BY <1>1, <1>2, <1>3, <1>4, <1>11, WorkerType
    DEF CleanupRecord, Rows, StorageTypeOK
  <1>12. CASE CancelRecord(w)
    BY <1>1, <1>2, <1>3, <1>4, <1>12, WorkerType
    DEF CancelRecord, Rows, StorageTypeOK
  <1>13. CASE CancelWithoutShard(w)
    BY <1>1, <1>2, <1>3, <1>4, <1>13, WorkerType
    DEF CancelWithoutShard, StorageTypeOK
  <1>14. CASE LookForFile(w)
    BY <1>1, <1>2, <1>3, <1>14, WorkerType
    DEF LookForFile, StorageTypeOK
  <1>15. CASE ReplaceACHFile(w)
    <2>1. StorageTypeOK'
      BY <1>1, <1>4, <1>15, StorageOpsType DEF ReplaceACHFile, StorageTypeOK
    <2>. QED
      BY <1>1, <1>2, <1>3, <1>15, <2>1, WorkerType DEF ReplaceACHFile
  <1>16. CASE RespondCancel(w)
    BY <1>1, <1>2, <1>3, <1>4, <1>16, WorkerType
    DEF RespondCancel, StorageTypeOK
  <1>. QED
    BY <1>5, <1>6, <1>7, <1>8, <1>9, <1>10, <1>11, <1>12, <1>13, <1>14,
       <1>15, <1>16
    DEF WorkerStep

(* An aggregator that leaves the workers alone, or ends with all of them,  *)
(* keeps the types when it keeps its own.                                  *)
LEMMA AggregatorType ==
    ASSUME TypeInv, StorageTypeOK', MergingTypeOK',
           UNCHANGED receiverVars \/ ProcessDies,
           LocalsInOrder'
    PROVE  TypeInv'
  <1>. USE DEF TypeInv, TypeOK, Bookkeeping, BusyHasMessage
  <1>1. CASE UNCHANGED receiverVars
    BY <1>1
  <1>2. CASE ProcessDies
    <2>1. /\ pc' \in [Workers -> Steps]
          /\ \A w \in Workers : pc'[w] = "idle"
      BY <1>2 DEF ProcessDies, Steps
    <2>2. /\ msg' \in [Workers -> Messages \cup {NoMessage}]
          /\ fd' \in [Workers -> Places]
          /\ found' \in [Workers -> BOOLEAN]
      BY <1>2, StorageAssumption DEF ProcessDies
    <2>. QED  BY <1>2, <2>1, <2>2 DEF ProcessDies
  <1>. QED  BY <1>1, <1>2

(* The locals of a cutoff that ended are well typed.                       *)
LEMMA CutoffReturnsType ==
    ASSUME TypeInv, CutoffReturns,
           UNCHANGED <<cutoffs, uploads, announced, unsent>>,
           succeeded' \subseteq Dirs
    PROVE  MergingTypeOK' /\ LocalsInOrder'
  <1>1. cutDir' \in Places /\ cut' \in CutoffSteps
    BY StorageAssumption DEF CutoffReturns, CutoffSteps
  <1>. QED
    BY <1>1 DEF CutoffReturns, TypeInv, TypeOK, MergingTypeOK, LocalsInOrder

(* Isolating the pending directory keeps the types.                        *)
LEMMA IsolateType ==
    ASSUME TypeInv, NEW d \in Dirs, StartCutoff(d)
    PROVE  TypeInv'
  <1>. USE DEF TypeInv, TypeOK
  <1>1. adverse' \in 0 .. MaxAdverse
    BY HappensType
    DEF StartCutoff, IsolateMergableDir, Timestamp, StorageTypeOK
  <1>2. d \in Places /\ fd' \in [Workers -> Places]
    BY StorageAssumption DEF StartCutoff
  <1>3. CASE ReplaceDirFails(d)
    BY <1>1, <1>2, <1>3
    DEF StartCutoff, IsolateMergableDir, StorageTypeOK, MergingTypeOK,
        Bookkeeping, BusyHasMessage, LocalsInOrder
  <1>4. CASE ~ReplaceDirFails(d)
    <2>1. ReplaceDir(d)
      BY <1>4 DEF StartCutoff, IsolateMergableDir
    <2>2. StorageTypeOK'
      <3>1. CASE Mergable \in exists
        <4>1. ach' \in [Places -> [Files -> Content]]
          <5>1. /\ ach[Mergable] \in [Files -> Content]
                /\ [f \in Files |-> "none"] \in [Files -> Content]
            BY StorageAssumption DEF StorageTypeOK
          <5>2. ach' = [ach EXCEPT ![d] = ach[Mergable],
                                   ![Mergable] = [f \in Files |-> "none"]]
            BY <2>1, <3>1 DEF ReplaceDir
          <5>. QED
            BY <1>2, <5>1, <5>2 DEF StorageTypeOK
        <4>2. /\ opts' \in [Places -> SUBSET Files]
              /\ canceled' \in [Places -> SUBSET Files]
          BY <2>1, <3>1, <1>2, StorageAssumption
          DEF ReplaceDir, StorageTypeOK
        <4>3. exists' \subseteq Places /\ UNCHANGED uploaded
          BY <1>2, <2>1, <3>1 DEF ReplaceDir, StorageTypeOK
        <4>. QED
          BY <1>1, <4>1, <4>2, <4>3 DEF StorageTypeOK
      <3>2. CASE Mergable \notin exists
        BY <1>1, <1>2, <2>1, <3>2 DEF ReplaceDir, StorageTypeOK
      <3>. QED  BY <3>1, <3>2
    <2>3. MergingTypeOK'
      BY <1>2, <1>4
      DEF StartCutoff, IsolateMergableDir, MergingTypeOK, CutoffSteps
    <2>4. LocalsInOrder'
      BY <1>4
      DEF StartCutoff, IsolateMergableDir, Bookkeeping, LocalsInOrder
    <2>. QED
      BY <1>2, <2>2, <2>3, <2>4 DEF StartCutoff, Bookkeeping, BusyHasMessage
  <1>. QED  BY <1>3, <1>4

(* Every step of a cutoff keeps the types.                                 *)
LEMMA CutoffStepType ==
    ASSUME TypeInv, CutoffStep, UNCHANGED receiverVars
    PROVE  TypeInv'
  <1>. SUFFICES StorageTypeOK' /\ MergingTypeOK' /\ LocalsInOrder'
    BY AggregatorType
  <1>. USE DEF TypeInv, TypeOK, Bookkeeping, StorageTypeOK, CutoffSteps
  <1>1. \A k : Happens(k) => adverse' \in 0 .. MaxAdverse
    BY HappensType
  <1>2. cutDir \in Places /\ (cut # "idle" => cutDir \in Dirs)
    BY DEF MergingTypeOK, LocalsInOrder
  <1>3. CASE GetCanceledFiles
    <2>1. CASE /\ cut' = "merge" /\ canceledFiles' = canceled[cutDir]
               /\ UNCHANGED <<adverse, cutDir, files, todo, merged, el, inputs>>
      BY <1>2, <1>3, <2>1 DEF GetCanceledFiles, MergingTypeOK, LocalsInOrder
    <2>2. CASE Happens("list") /\ CutoffReturns
      BY <1>1, <1>3, <2>2, CutoffReturnsType DEF GetCanceledFiles, MergingTypeOK
    <2>. QED  BY <1>3, <2>1, <2>2 DEF GetCanceledFiles
  <1>4. CASE MergeDir
    <2>1. files' \subseteq SUBSET Files
      BY <1>4 DEF MergeDir, Groupings, AcceptedFiles
    <2>. QED
      BY <1>1, <1>2, <1>4, <2>1 DEF MergeDir, MergingTypeOK, LocalsInOrder
  <1>5. CASE PrepareUploadedDir
    <2>1. adverse' \in 0 .. MaxAdverse
      BY <1>1, <1>5 DEF PrepareUploadedDir
    <2>2. StorageTypeOK'
      <3>1. CASE files = {}
        <4>1. EmptyDir(cutDir)
          BY <1>5, <3>1 DEF PrepareUploadedDir
        <4>2. ach' \in [Places -> [Files -> Content]]
          BY <4>1, <1>2 DEF EmptyDir
        <4>3. /\ opts' \in [Places -> SUBSET Files]
              /\ canceled' \in [Places -> SUBSET Files]
              /\ uploaded' \in [Places -> SUBSET SUBSET Files]
          BY <4>1, <1>2 DEF EmptyDir
        <4>. QED  BY <2>1, <4>1, <4>2, <4>3 DEF EmptyDir
      <3>2. CASE files # {}
        BY <1>5, <2>1, <3>2 DEF PrepareUploadedDir
      <3>. QED  BY <3>1, <3>2
    <2>3. CASE /\ cut' = "save" /\ todo' = files
               /\ UNCHANGED <<cutDir, canceledFiles, files, merged, el, inputs>>
      BY <1>2, <1>5, <2>2, <2>3
      DEF PrepareUploadedDir, MergingTypeOK, LocalsInOrder
    <2>4. CASE CutoffReturns
      BY <1>5, <2>2, <2>4, CutoffReturnsType DEF PrepareUploadedDir, MergingTypeOK
    <2>. QED  BY <1>5, <2>3, <2>4 DEF PrepareUploadedDir
  <1>6. ASSUME NEW m \in todo, SaveMergedFile(m)
        PROVE  StorageTypeOK' /\ MergingTypeOK' /\ LocalsInOrder'
    <2>1. StorageTypeOK'
      <3>1. CASE SaveUploaded(cutDir, m)
        <4>1. m \subseteq Files
          BY <1>6 DEF MergingTypeOK
        <4>2. uploaded' \in [Places -> SUBSET SUBSET Files]
          BY <1>2, <3>1, <4>1 DEF SaveUploaded
        <4>. QED  BY <1>1, <1>6, <3>1, <4>2 DEF SaveUploaded, SaveMergedFile
      <3>2. CASE Happens("save") /\ UNCHANGED storageVars
        BY <1>1, <3>2
      <3>. QED  BY <1>6, <3>1, <3>2 DEF SaveMergedFile
    <2>2. MergingTypeOK'
      BY <1>2, <1>6 DEF SaveMergedFile, MergingTypeOK
    <2>3. LocalsInOrder'
      BY <1>2, <1>6 DEF SaveMergedFile, LocalsInOrder
    <2>. QED  BY <2>1, <2>2, <2>3
  <1>7. CASE BeginUploads
    BY <1>2, <1>7 DEF BeginUploads, MergingTypeOK, LocalsInOrder
  <1>8. ASSUME NEW m \in todo, UploadFile(m)
        PROVE  StorageTypeOK' /\ MergingTypeOK' /\ LocalsInOrder'
    <2>1. StorageTypeOK'
      BY <1>1, <1>8 DEF UploadFile
    <2>2. uploads' \in [Files -> Nat]
      <3>1. CASE ReachesRemote(m)
        BY <3>1 DEF ReachesRemote, MergingTypeOK
      <3>2. CASE UNCHANGED uploads
        BY <3>2 DEF MergingTypeOK
      <3>. QED  BY <1>8, <3>1, <3>2 DEF UploadFile
    <2>3. merged' \subseteq SUBSET Files /\ el' \in BOOLEAN
      BY <1>8 DEF UploadFile, MergingTypeOK
    <2>4. MergingTypeOK'
      BY <1>8, <2>2, <2>3 DEF UploadFile, MergingTypeOK
    <2>5. LocalsInOrder'
      BY <1>2, <1>8 DEF UploadFile, LocalsInOrder
    <2>. QED  BY <2>1, <2>4, <2>5
  <1>9. CASE FindInputFilepaths
    <2>1. CASE el
      BY <1>9, <2>1, CutoffReturnsType DEF FindInputFilepaths, MergingTypeOK
    <2>2. CASE ~el
      BY <1>2, <1>9, <2>2
      DEF FindInputFilepaths, InputsOf, AcceptedFiles, MergingTypeOK,
          LocalsInOrder
    <2>. QED  BY <2>1, <2>2
  <1>10. ASSUME NEW f \in inputs, EmitFileUploaded(f)
         PROVE  StorageTypeOK' /\ MergingTypeOK' /\ LocalsInOrder'
    BY <1>1, <1>2, <1>10 DEF EmitFileUploaded, MergingTypeOK, LocalsInOrder
  <1>11. CASE EndCutoff
    <2>1. succeeded' \subseteq Dirs
      BY <1>2, <1>11 DEF EndCutoff, MergingTypeOK
    <2>. QED  BY <1>11, <2>1, CutoffReturnsType DEF EndCutoff
  <1>12. CASE RmdirAllFails
    BY <1>1, <1>2, <1>12 DEF RmdirAllFails, MergingTypeOK, LocalsInOrder
  <1>. QED
    BY <1>3, <1>4, <1>5, <1>6, <1>7, <1>8, <1>9, <1>10, <1>11, <1>12
    DEF CutoffStep

(* Every step keeps the types.                                             *)
LEMMA TypeNext ==
    ASSUME TypeInv, [Next]_vars
    PROVE  TypeInv'
  <1>1. ASSUME NEW w \in Workers, NEW m \in Messages, Receive(w, m)
        PROVE  TypeInv'
    BY <1>1, ReceiveType
  <1>2. ASSUME NEW w \in Workers, WorkerStep(w) PROVE TypeInv'
    BY <1>2, WorkerStepType
  <1>3. ASSUME NEW d \in Dirs, StartCutoff(d) PROVE TypeInv'
    BY <1>3, IsolateType
  <1>4. CASE Cutoff
    BY <1>4, CutoffStepType DEF Cutoff
  <1>5. CASE MapFails
    <2>1. StorageTypeOK' /\ CutoffReturns
          /\ UNCHANGED <<cutoffs, uploads, eventVars>>
      BY <1>5, HappensType
      DEF MapFails, BuildDirMappingFails, TypeInv, TypeOK, StorageTypeOK
    <2>. QED
      BY <1>5, <2>1, CutoffReturnsType, AggregatorType
      DEF MapFails, TypeInv, TypeOK, MergingTypeOK
  <1>6. CASE Crash
    <2>1. StorageTypeOK'
      BY <1>6, HappensType DEF Crash, TypeInv, TypeOK, StorageTypeOK
    <2>. QED
      BY <1>6, <2>1, CutoffReturnsType, AggregatorType
      DEF Crash, TypeInv, TypeOK, MergingTypeOK
  <1>7. CASE UNCHANGED vars
    BY <1>7
    DEF TypeInv, TypeOK, StorageTypeOK, MergingTypeOK, Bookkeeping,
        BusyHasMessage, LocalsInOrder
  <1>8. ASSUME NEW m \in Messages, AckArrives(m) PROVE TypeInv'
    BY <1>8, WorkerType
    DEF AckArrives, TypeInv, TypeOK, StorageTypeOK, Bookkeeping,
        BusyHasMessage
  <1>. QED
    BY <1>1, <1>2, <1>3, <1>4, <1>5, <1>6, <1>7, <1>8 DEF Next, Quiet

(* Every variable keeps its type: whatever is interleaved, redelivered,    *)
(* lost or crashed, no step leaves the program in a state the model cannot *)
(* describe, and a busy worker always has its message.                     *)
THEOREM TypeCorrect == Spec => []TypeInv
  BY TypeInit, TypeNext, PTL DEF Spec

(* In particular the type invariant the runs check.                        *)
THEOREM TypeOKHolds == Spec => []TypeOK
  <1>1. TypeInv => TypeOK
    BY DEF TypeInv
  <1>. QED  BY TypeCorrect, <1>1, PTL

(***************************************************************************)
(* What a cutoff uploads and announces, whatever goes wrong: the canceled  *)
(* files of its directory stay behind, and FileUploaded tells the truth.   *)
(* Both rest on CutoffInv, which says what the locals of WithEachMerged    *)
(* hold between two of its steps: without an error, nothing is left out.   *)
(***************************************************************************)

(* The part of CutoffInv beyond the types.                                 *)
Truthful == CanceledFilesListed /\ OnlyUploadedAnnounced /\ NothingLeftOut

(* The first state has no cutoff and has announced nothing.                *)
LEMMA TruthfulInit == Init => Truthful
  BY DEF Init, StorageInit, MergingInit, Truthful, CanceledFilesListed,
         OnlyUploadedAnnounced, NothingLeftOut

(* A step that leaves the cutoff's locals alone, and neither cancels nor   *)
(* adds nor removes a file where it works.                                 *)
LEMMA TruthfulReceiver ==
    ASSUME TypeInv, Truthful, UNCHANGED mergingVars,
           \A d \in Dirs : /\ canceled'[d] = canceled[d]
                          /\ \A f \in Files :
                                ach'[d][f] = "none" <=> ach[d][f] = "none"
    PROVE  Truthful'
  <1>1. cut # "idle" =>
           /\ canceled'[cutDir] = canceled[cutDir]
           /\ \A f \in Files :
                 ach'[cutDir][f] = "none" <=> ach[cutDir][f] = "none"
    BY DEF TypeInv, Bookkeeping, LocalsInOrder
  <1>2. canceledFiles \subseteq Files
    BY DEF TypeInv, TypeOK, MergingTypeOK
  <1>3. CanceledFilesListed'
    BY <1>1, <1>2 DEF Truthful, CanceledFilesListed
  <1>4. cut # "idle" => AcceptedFiles' = AcceptedFiles
    BY <1>1 DEF AcceptedFiles
  <1>. QED
    BY <1>3, <1>4 DEF Truthful, OnlyUploadedAnnounced, NothingLeftOut

(* Every call of processMessage is such a step: a worker may still fill    *)
(* the file it had open when the pending directory was renamed.            *)
LEMMA WorkerStepCancels ==
    ASSUME TypeInv, NEW w \in Workers, WorkerStep(w)
    PROVE  /\ UNCHANGED mergingVars
           /\ \A d \in Dirs :
                 /\ canceled'[d] = canceled[d]
                 /\ \A f \in Files :
                       ach'[d][f] = "none" <=> ach[d][f] = "none"
  <1>1. UNCHANGED mergingVars
    BY DEF WorkerStep, Ack, RecordFails, Record, OpenACHFile, FillACHFile,
           WriteValidateOpts, CleanupRecord, CancelRecord,
           CancelWithoutShard, LookForFile, ReplaceACHFile, RespondCancel
  <1>2. \/ UNCHANGED <<ach, canceled>>
        \/ File(w) \in Files /\ ReplaceFile(File(w))
        \/ File(w) \in Files /\ CreateFile(File(w))
        \/ File(w) \in Files /\ FillFile(fd[w], File(w))
    BY FileType
    DEF WorkerStep, Ack, RecordFails, Record, OpenACHFile, FillACHFile,
        WriteValidateOpts, CleanupRecord, CancelRecord,
        CancelWithoutShard, LookForFile, ReplaceACHFile, RespondCancel,
        WriteOpts
  <1>3. /\ Mergable \in Places /\ Mergable \notin Dirs /\ Dirs \subseteq Places
        /\ fd[w] \in Places
        /\ ach \in [Places -> [Files -> Content]]
        /\ canceled \in [Places -> SUBSET Files]
    BY StorageAssumption DEF TypeInv, TypeOK, StorageTypeOK
  <1>4. \A d \in Dirs : canceled'[d] = canceled[d]
    BY <1>2, <1>3 DEF ReplaceFile, CreateFile, FillFile
  <1>5. ASSUME NEW d \in Dirs, NEW f \in Files
        PROVE  ach'[d][f] = "none" <=> ach[d][f] = "none"
    <2>1. CASE ReplaceFile(File(w)) /\ File(w) \in Files
      BY <1>3, <1>5, <2>1 DEF ReplaceFile
    <2>2. CASE CreateFile(File(w)) /\ File(w) \in Files
      BY <1>3, <1>5, <2>2 DEF CreateFile
    <2>3. CASE FillFile(fd[w], File(w)) /\ File(w) \in Files
      <3>1. ach' = [ach EXCEPT ![fd[w]][File(w)] =
                       IF @ = "partial" THEN "whole" ELSE @]
        BY <2>3 DEF FillFile
      <3>2. CASE d = fd[w] /\ f = File(w)
        <4>1. ach'[d][f] = IF ach[d][f] = "partial" THEN "whole" ELSE ach[d][f]
          BY <1>3, <1>5, <3>1, <3>2
        <4>. QED  BY <4>1
      <3>3. CASE ~(d = fd[w] /\ f = File(w))
        BY <1>3, <1>5, <2>3, <3>1, <3>3
      <3>. QED  BY <3>2, <3>3
    <2>. QED  BY <1>2, <2>1, <2>2, <2>3
  <1>. QED  BY <1>1, <1>4, <1>5

(* A cutoff that ends leaves no locals; what was announced stays true.     *)
LEMMA TruthfulReturns ==
    ASSUME Truthful, CutoffReturns, UNCHANGED <<uploads, announced>>
    PROVE  Truthful'
  BY DEF Truthful, CutoffReturns, CanceledFilesListed, OnlyUploadedAnnounced,
         NothingLeftOut

(* Isolating the pending directory.                                        *)
LEMMA TruthfulIsolate ==
    ASSUME TypeInv, Truthful, NEW d \in Dirs, StartCutoff(d)
    PROVE  Truthful'
  <1>1. CASE ReplaceDirFails(d)
    BY <1>1, TruthfulReceiver DEF StartCutoff, IsolateMergableDir
  <1>2. CASE ~ReplaceDirFails(d)
    BY <1>2
    DEF StartCutoff, IsolateMergableDir, Truthful, CanceledFilesListed,
        OnlyUploadedAnnounced, NothingLeftOut
  <1>. QED  BY <1>1, <1>2

(* What is left of the directory when the uploads are prepared.            *)
LEMMA PreparedDir ==
    ASSUME TypeInv, PrepareUploadedDir
    PROVE  \/ files # {} /\ UNCHANGED storageVars
           \/ /\ files = {} /\ canceled'[cutDir] = {}
              /\ \A f \in Files : ach'[cutDir][f] = "none"
              /\ \A d \in Dirs : d # cutDir => /\ ach'[d] = ach[d]
                                              /\ canceled'[d] = canceled[d]
  <1>1. /\ cutDir \in Places /\ Dirs \subseteq Places
        /\ ach \in [Places -> [Files -> Content]]
        /\ canceled \in [Places -> SUBSET Files]
    BY DEF TypeInv, TypeOK, StorageTypeOK, MergingTypeOK
  <1>2. CASE files = {}
    <2>1. /\ ach' = [ach EXCEPT ![cutDir] = [f \in Files |-> "none"]]
          /\ canceled' = [canceled EXCEPT ![cutDir] = {}]
      BY <1>2 DEF PrepareUploadedDir, EmptyDir
    <2>2. ach'[cutDir] = [f \in Files |-> "none"]
      BY <1>1, <2>1
    <2>. QED  BY <1>1, <1>2, <2>1, <2>2
  <1>. QED  BY <1>2 DEF PrepareUploadedDir

(* The canceled files stay listed through every step of the cutoff, ...    *)
LEMMA ListedCutoff ==
    ASSUME TypeInv, Truthful, CutoffStep
    PROVE  CanceledFilesListed'
  <1>. USE DEF Truthful, CanceledFilesListed
  <1>1. CASE CutoffReturns
    BY <1>1 DEF CutoffReturns
  <1>2. CASE GetCanceledFiles /\ ~CutoffReturns
    BY <1>2 DEF GetCanceledFiles, TypeInv, Bookkeeping, LocalsInOrder
  <1>3. CASE MergeDir
    <2>1. \A m \in files' : m \subseteq AcceptedFiles
      BY <1>3 DEF MergeDir, Groupings
    <2>2. \A m \in files' : m \cap canceledFiles = {}
      BY <2>1 DEF AcceptedFiles
    <2>. QED  BY <1>3, <2>2 DEF MergeDir
  <1>4. CASE PrepareUploadedDir /\ ~CutoffReturns
    <2>1. UNCHANGED <<cutDir, canceledFiles, files>> /\ cut = "prepare"
      BY <1>4 DEF PrepareUploadedDir
    <2>2. /\ canceled'[cutDir] \subseteq canceled[cutDir]
          /\ \A f \in Files :
                \/ ach'[cutDir][f] = "none"
                \/ /\ ach'[cutDir] = ach[cutDir]
                   /\ canceled'[cutDir] = canceled[cutDir]
      BY <1>4, PreparedDir
    <2>3. canceledFiles \subseteq Files
      BY DEF TypeInv, TypeOK, MergingTypeOK
    <2>. QED  BY <2>1, <2>2, <2>3
  <1>5. CASE UNCHANGED <<cutDir, canceledFiles, files, ach, canceled>>
             /\ cut \notin {"idle", "list"}
    BY <1>5
  <1>. QED
    BY <1>1, <1>2, <1>3, <1>4, <1>5
    DEF CutoffStep, RmdirAllFails, SaveMergedFile, SaveUploaded, BeginUploads,
        UploadFile, FindInputFilepaths, EmitFileUploaded, EndCutoff

(* ... nothing is left out, ...                                            *)
LEMMA NothingLeftOutCutoff ==
    ASSUME TypeInv, Truthful, CutoffStep
    PROVE  NothingLeftOut'
  <1>. USE DEF Truthful, NothingLeftOut
  <1>1. CASE CutoffReturns
    BY <1>1 DEF CutoffReturns
  <1>2. CASE GetCanceledFiles /\ ~CutoffReturns
    BY <1>2 DEF GetCanceledFiles
  <1>3. CASE MergeDir
    <2>1. AcceptedFiles' = AcceptedFiles
      BY <1>3 DEF MergeDir, AcceptedFiles
    <2>. QED  BY <1>3, <2>1 DEF MergeDir, Groupings
  <1>4. CASE PrepareUploadedDir /\ ~CutoffReturns
    <2>1. /\ UNCHANGED <<cutDir, canceledFiles, files, el>>
          /\ cut = "prepare" /\ cut' = "save"
      BY <1>4 DEF PrepareUploadedDir
    <2>2. CASE files = {}
      <3>1. \A f \in Files : ach'[cutDir][f] = "none"
        BY <1>4, <2>2, PreparedDir
      <3>2. AcceptedFiles' = {}
        BY <2>1, <3>1 DEF AcceptedFiles
      <3>. QED  BY <2>1, <2>2, <3>2
    <2>3. CASE files # {}
      <3>1. AcceptedFiles' = AcceptedFiles
        BY <1>4, <2>1, <2>3 DEF PrepareUploadedDir, AcceptedFiles
      <3>. QED  BY <2>1, <3>1
    <2>. QED  BY <2>2, <2>3
  <1>5. ASSUME UNCHANGED <<cutDir, canceledFiles, ach>>
        PROVE  AcceptedFiles' = AcceptedFiles
    BY <1>5 DEF AcceptedFiles
  <1>6. CASE RmdirAllFails
    BY <1>6 DEF RmdirAllFails
  <1>7. ASSUME NEW m \in todo, SaveMergedFile(m) PROVE NothingLeftOut'
    <2>1. AcceptedFiles' = AcceptedFiles
      BY <1>5, <1>7 DEF SaveMergedFile, SaveUploaded
    <2>. QED  BY <1>7, <2>1 DEF SaveMergedFile
  <1>8. CASE BeginUploads
    <2>1. AcceptedFiles' = AcceptedFiles
      BY <1>5, <1>8 DEF BeginUploads
    <2>. QED
      BY <1>8, <2>1 DEF BeginUploads, TypeInv, Bookkeeping, LocalsInOrder
  <1>9. ASSUME NEW m \in todo, UploadFile(m) PROVE NothingLeftOut'
    <2>1. AcceptedFiles' = AcceptedFiles
      BY <1>5, <1>9 DEF UploadFile
    <2>2. /\ cut = "upload" /\ UNCHANGED <<cut, files>> /\ todo' = todo \ {m}
          /\ (merged' = merged \cup {m} /\ UNCHANGED el) \/ el' = TRUE
      BY <1>9 DEF UploadFile
    <2>. QED  BY <1>9, <2>1, <2>2
  <1>10. CASE FindInputFilepaths /\ ~CutoffReturns
    <2>1. AcceptedFiles' = AcceptedFiles
      BY <1>5, <1>10 DEF FindInputFilepaths
    <2>. QED  BY <1>10, <2>1 DEF FindInputFilepaths
  <1>11. ASSUME NEW f \in inputs, EmitFileUploaded(f) PROVE NothingLeftOut'
    <2>1. AcceptedFiles' = AcceptedFiles
      BY <1>5, <1>11 DEF EmitFileUploaded
    <2>. QED  BY <1>11, <2>1 DEF EmitFileUploaded
  <1>. QED
    BY <1>1, <1>2, <1>3, <1>4, <1>6, <1>7, <1>8, <1>9, <1>10, <1>11
    DEF CutoffStep, EndCutoff

(* ... and what is announced was uploaded.                                 *)
LEMMA AnnouncedCutoff ==
    ASSUME TypeInv, Truthful, CutoffStep
    PROVE  OnlyUploadedAnnounced'
  <1>. USE DEF Truthful, OnlyUploadedAnnounced
  <1>1. ASSUME NEW m \in todo, UploadFile(m) PROVE OnlyUploadedAnnounced'
    <2>2. \A f \in Files : uploads[f] > 0 => uploads'[f] > 0
      BY <1>1 DEF UploadFile, ReachesRemote, TypeInv, TypeOK, MergingTypeOK
    <2>3. \/ merged' = merged
          \/ merged' = merged \cup {m} /\ ReachesRemote(m)
      BY <1>1 DEF UploadFile
    <2>4. ReachesRemote(m) => \A f \in Files \cap m : uploads'[f] > 0
      BY DEF ReachesRemote, TypeInv, TypeOK, MergingTypeOK
    <2>. SUFFICES ASSUME NEW f \in Files,
                         \/ f \in announced \/ f \in inputs
                         \/ f \in UNION merged'
                  PROVE  uploads'[f] > 0
      BY <1>1 DEF UploadFile
    <2>5. CASE f \in announced \/ f \in inputs \/ f \in UNION merged
      BY <2>2, <2>5
    <2>6. CASE f \in UNION merged' /\ f \notin UNION merged
      <3>1. f \in m /\ ReachesRemote(m)
        BY <2>3, <2>6
      <3>. QED  BY <2>4, <3>1
    <2>. QED  BY <2>5, <2>6
  <1>2. CASE FindInputFilepaths /\ ~CutoffReturns
    <2>1. AcceptedFiles = UNION merged
      BY <1>2 DEF FindInputFilepaths, NothingLeftOut
    <2>2. inputs' \subseteq UNION merged
      BY <1>2, <2>1 DEF FindInputFilepaths, InputsOf
    <2>. QED  BY <1>2, <2>2 DEF FindInputFilepaths
  <1>3. ASSUME NEW f \in inputs, EmitFileUploaded(f)
        PROVE  OnlyUploadedAnnounced'
    BY <1>3 DEF EmitFileUploaded, TypeInv, TypeOK, MergingTypeOK
  <1>4. CASE CutoffReturns /\ UNCHANGED <<uploads, announced>>
    BY <1>4 DEF CutoffReturns
  <1>5. CASE UNCHANGED <<merged, inputs, uploads, announced>>
    BY <1>5
  <1>. QED
    BY <1>1, <1>2, <1>3, <1>4, <1>5
    DEF CutoffStep, GetCanceledFiles, MergeDir, PrepareUploadedDir,
        RmdirAllFails, SaveMergedFile, BeginUploads, FindInputFilepaths,
        EndCutoff

(* Every step.                                                             *)
LEMMA TruthfulNext ==
    ASSUME TypeInv, Truthful, [Next]_vars
    PROVE  Truthful'
  <1>1. ASSUME NEW w \in Workers, NEW m \in Messages, Receive(w, m)
        PROVE  Truthful'
    BY <1>1, TruthfulReceiver DEF Receive
  <1>2. ASSUME NEW w \in Workers, WorkerStep(w) PROVE Truthful'
    BY <1>2, WorkerStepCancels, TruthfulReceiver
  <1>3. ASSUME NEW d \in Dirs, StartCutoff(d) PROVE Truthful'
    BY <1>3, TruthfulIsolate
  <1>4. CASE Cutoff
    BY <1>4, ListedCutoff, NothingLeftOutCutoff, AnnouncedCutoff
    DEF Cutoff, Truthful
  <1>5. CASE MapFails
    BY <1>5, TruthfulReturns DEF MapFails, BuildDirMappingFails
  <1>6. CASE Crash
    BY <1>6, TruthfulReturns DEF Crash
  <1>7. CASE UNCHANGED vars
    BY <1>7, TruthfulReceiver
  <1>8. ASSUME NEW m \in Messages, AckArrives(m) PROVE Truthful'
    BY <1>8, TruthfulReceiver DEF AckArrives
  <1>. QED
    BY <1>1, <1>2, <1>3, <1>4, <1>5, <1>6, <1>7, <1>8 DEF Next, Quiet

(* Between any two steps of a cutoff its locals say what they should.      *)
THEOREM CutoffInvariant == Spec => []CutoffInv
  <1>1. Spec => []Truthful
    BY TruthfulInit, TruthfulNext, TypeCorrect, PTL DEF Spec
  <1>2. TypeInv /\ Truthful => CutoffInv
    BY DEF TypeInv, Truthful, CutoffInv
  <1>. QED  BY <1>1, <1>2, TypeCorrect, PTL

(* A file canceled before its directory was isolated is never among the    *)
(* files a cutoff uploads from that directory.                             *)
THEOREM CanceledStaysBehindAlways == Spec => []CanceledStaysBehind
  <1>1. CutoffInv => CanceledStaysBehind
    BY DEF CutoffInv, Bookkeeping, LocalsInOrder, CanceledFilesListed,
           CanceledStaysBehind
  <1>. QED  BY CutoffInvariant, <1>1, PTL

(* FileUploaded is emitted only for files that reached the server.         *)
THEOREM AnnouncedWasUploadedAlways == Spec => []AnnouncedWasUploaded
  <1>1. CutoffInv => AnnouncedWasUploaded
    BY DEF CutoffInv, OnlyUploadedAnnounced, AnnouncedWasUploaded, TypeOK,
           MergingTypeOK
  <1>. QED  BY CutoffInvariant, <1>1, PTL

(***************************************************************************)
(* What the files of a directory come to.  A cutoff that removes some of   *)
(* them has an error to report, and one without an error has uploaded and  *)
(* announced them all.  No failure is excluded.                            *)
(***************************************************************************)

(* Isolating changes no directory but the one it fills, and a directory it *)
(* fills was not there.                                                    *)
LEMMA IsolatedDir ==
    ASSUME TypeInv, NEW d \in Dirs, StartCutoff(d), ~ReplaceDirFails(d)
    PROVE  /\ \A e \in Dirs : e # d => /\ ach'[e] = ach[e]
                                       /\ canceled'[e] = canceled[e]
           /\ d \in exists => UNCHANGED <<ach, canceled>>
           /\ \A p \in Places \ exists' :
                 \/ p = Mergable /\ \A f \in Files : ach'[p][f] = "none"
                 \/ p \notin exists /\ ach'[p] = ach[p]
  <1>1. /\ Mergable \in Places /\ Mergable \notin Dirs /\ Dirs \subseteq Places
        /\ ach \in [Places -> [Files -> Content]]
        /\ canceled \in [Places -> SUBSET Files]
    BY StorageAssumption DEF TypeInv, TypeOK, StorageTypeOK
  <1>2. ReplaceDir(d)
    BY DEF StartCutoff, IsolateMergableDir
  <1>3. CASE Mergable \in exists
    <2>1. /\ d \notin exists /\ exists' = (exists \ {Mergable}) \cup {d}
          /\ ach' = [ach EXCEPT ![d] = ach[Mergable],
                                ![Mergable] = [f \in Files |-> "none"]]
          /\ canceled' = [canceled EXCEPT ![d] = canceled[Mergable],
                                          ![Mergable] = {}]
      BY <1>2, <1>3 DEF ReplaceDir
    <2>2. \A p \in Places : p # d /\ p # Mergable =>
             ach'[p] = ach[p] /\ canceled'[p] = canceled[p]
      BY <1>1, <2>1
    <2>3. ach'[Mergable] = [f \in Files |-> "none"]
      BY <1>1, <2>1
    <2>. QED  BY <1>1, <2>1, <2>2, <2>3
  <1>4. CASE Mergable \notin exists
    BY <1>2, <1>4 DEF ReplaceDir
  <1>. QED  BY <1>3, <1>4

(* An empty disk.                                                          *)
LEMMA AbsentInit == Init => AbsentIsEmpty
  BY DEF Init, StorageInit, AbsentIsEmpty

(* A worker creates the pending directory with its first file.             *)
LEMMA AbsentWorker ==
    ASSUME TypeInv, AbsentIsEmpty, NEW w \in Workers, WorkerStep(w)
    PROVE  AbsentIsEmpty'
  <1>1. /\ Mergable \in Places /\ fd[w] \in Places
        /\ ach \in [Places -> [Files -> Content]]
    BY StorageAssumption DEF TypeInv, TypeOK, StorageTypeOK
  <1>2. \/ UNCHANGED ach /\ exists \subseteq exists'
        \/ File(w) \in Files /\ ReplaceFile(File(w))
        \/ File(w) \in Files /\ CreateFile(File(w))
        \/ File(w) \in Files /\ FillFile(fd[w], File(w))
    BY FileType
    DEF WorkerStep, Ack, RecordFails, Record, OpenACHFile, FillACHFile,
        WriteValidateOpts, CleanupRecord, CancelRecord,
        CancelWithoutShard, LookForFile, ReplaceACHFile, RespondCancel,
        WriteOpts
  <1>3. CASE File(w) \in Files /\ (ReplaceFile(File(w)) \/ CreateFile(File(w)))
    <2>1. /\ exists' = exists \cup {Mergable}
          /\ \A p \in Places : p # Mergable => ach'[p] = ach[p]
      BY <1>1, <1>3 DEF ReplaceFile, CreateFile
    <2>. QED  BY <2>1 DEF AbsentIsEmpty
  <1>4. CASE File(w) \in Files /\ FillFile(fd[w], File(w))
    <2>1. /\ ach' = [ach EXCEPT ![fd[w]][File(w)] =
                        IF @ = "partial" THEN "whole" ELSE @]
          /\ UNCHANGED exists
      BY <1>4 DEF FillFile
    <2>2. ASSUME NEW p \in Places \ exists, NEW f \in Files
          PROVE  ach'[p][f] = "none"
      <3>1. ach[p][f] = "none"
        BY <2>2 DEF AbsentIsEmpty
      <3>2. CASE p = fd[w] /\ f = File(w)
        <4>1. ach'[p][f] = IF ach[p][f] = "partial" THEN "whole" ELSE ach[p][f]
          BY <1>1, <2>1, <2>2, <3>2
        <4>. QED  BY <3>1, <4>1
      <3>3. CASE ~(p = fd[w] /\ f = File(w))
        BY <1>1, <1>4, <2>1, <2>2, <3>1, <3>3
      <3>. QED  BY <3>2, <3>3
    <2>. QED  BY <2>1, <2>2 DEF AbsentIsEmpty
  <1>5. CASE UNCHANGED ach /\ exists \subseteq exists'
    BY <1>5 DEF AbsentIsEmpty
  <1>. QED  BY <1>2, <1>3, <1>4, <1>5

(* Every step.                                                             *)
LEMMA AbsentNext ==
    ASSUME TypeInv, AbsentIsEmpty, [Next]_vars
    PROVE  AbsentIsEmpty'
  <1>. USE DEF AbsentIsEmpty
  <1>1. ASSUME NEW w \in Workers, WorkerStep(w) PROVE AbsentIsEmpty'
    BY <1>1, AbsentWorker
  <1>2. ASSUME NEW d \in Dirs, StartCutoff(d) PROVE AbsentIsEmpty'
    <2>1. CASE ReplaceDirFails(d)
      BY <1>2, <2>1 DEF StartCutoff, IsolateMergableDir
    <2>2. CASE ~ReplaceDirFails(d)
      BY <1>2, <2>2, IsolatedDir
    <2>. QED  BY <2>1, <2>2
  <1>3. CASE PrepareUploadedDir /\ files = {}
    <2>1. EmptyDir(cutDir) /\ cutDir \in Places
      BY <1>3 DEF PrepareUploadedDir, TypeInv, TypeOK, MergingTypeOK
    <2>2. \A p \in Places : \A f \in Files :
             ach'[p][f] = IF p = cutDir THEN "none" ELSE ach[p][f]
      BY <2>1 DEF EmptyDir, TypeInv, TypeOK, StorageTypeOK
    <2>. QED  BY <2>1, <2>2 DEF EmptyDir
  <1>4. CASE UNCHANGED <<ach, exists>>
    BY <1>4
  <1>. QED
    BY <1>1, <1>2, <1>3, <1>4
    DEF Next, Receive, AckArrives, Cutoff, CutoffStep, GetCanceledFiles,
        MergeDir, PrepareUploadedDir, RmdirAllFails, SaveMergedFile,
        SaveUploaded, BeginUploads, UploadFile, FindInputFilepaths,
        EmitFileUploaded, EndCutoff, MapFails, BuildDirMappingFails, Crash,
        Quiet

(* No directory that is not there has a file.                              *)
THEOREM AbsentAlways == Spec => []AbsentIsEmpty
  BY AbsentInit, AbsentNext, TypeCorrect, PTL DEF Spec

(* What the steps do to the files of a directory.                          *)
LEMMA FilesOfDirs ==
    ASSUME TypeInv, AbsentIsEmpty, [Next]_vars, NEW d \in Dirs, NEW f \in Files,
           ach[d][f] # "none", ach'[d][f] = "none"
    PROVE  PrepareUploadedDir /\ files = {} /\ d = cutDir
  <1>1. ASSUME NEW w \in Workers, WorkerStep(w) PROVE FALSE
    BY <1>1, WorkerStepCancels
  <1>2. ASSUME NEW e \in Dirs, StartCutoff(e) PROVE FALSE
    <2>1. CASE ReplaceDirFails(e)
      BY <1>2, <2>1 DEF StartCutoff, IsolateMergableDir
    <2>2. CASE ~ReplaceDirFails(e)
      <3>1. d = e => d \in exists
        BY DEF AbsentIsEmpty
      <3>. QED  BY <1>2, <2>2, <3>1, IsolatedDir
    <2>. QED  BY <2>1, <2>2
  <1>3. CASE PrepareUploadedDir
    BY <1>3, PreparedDir
  <1>4. CASE UNCHANGED ach
    BY <1>4
  <1>. QED
    BY <1>1, <1>2, <1>3, <1>4
    DEF Next, Receive, AckArrives, Cutoff, CutoffStep, GetCanceledFiles,
        MergeDir, RmdirAllFails, SaveMergedFile, SaveUploaded, BeginUploads,
        UploadFile, FindInputFilepaths, EmitFileUploaded, EndCutoff, MapFails,
        BuildDirMappingFails, Crash, Quiet

(* Whatever fails, a cutoff removes its directory with files in it that    *)
(* nobody canceled only with an error to report.                           *)
THEOREM LossIsReportedAlways == Spec => LossIsReported
  <1>1. ASSUME CutoffInv, AbsentIsEmpty, [Next]_vars, NEW d \in Dirs,
               NEW f \in Files, ach[d][f] # "none", ach'[d][f] = "none",
               f \notin canceled[d]
        PROVE  el
    <2>1. cut = "prepare" /\ files = {} /\ d = cutDir
      BY <1>1, FilesOfDirs DEF CutoffInv, TypeInv, PrepareUploadedDir
    <2>2. f \notin canceledFiles
      BY <1>1, <2>1 DEF CutoffInv, CanceledFilesListed
    <2>3. f \in AcceptedFiles
      BY <1>1, <2>1, <2>2 DEF AcceptedFiles
    <2>4. UNION files = {}
      BY <2>1
    <2>. QED  BY <1>1, <2>1, <2>3, <2>4 DEF CutoffInv, NothingLeftOut
  <1>2. CutoffInv /\ AbsentIsEmpty /\ [Next]_vars =>
           [\A d \in Dirs, f \in Files :
               ach[d][f] # "none" /\ ach'[d][f] = "none" /\ f \notin canceled[d]
               => el]_vars
    BY <1>1
  <1>. QED
    BY <1>2, CutoffInvariant, AbsentAlways, PTL DEF Spec, LossIsReported

(* No cutoff has succeeded.                                                *)
LEMMA CompleteInit == Init => CompleteInv
  BY DEF Init, MergingInit, CompleteInv, SucceededIsComplete

(* Once accounted for, a file stays so.                                    *)
LEMMA AccountedStays ==
    ASSUME NEW f \in Files, NEW A, NEW B, A \subseteq B, Accounted(f, A),
           uploads[f] > 0 => uploads'[f] > 0
    PROVE  uploads'[f] > 0 /\ \A k \in KeysOf[f] : \E g \in B : k \in KeysOf[g]
  BY DEF Accounted

(* A step that adds to no directory of a successful cutoff, forgets no     *)
(* upload and no event, and does not begin to emit.                        *)
LEMMA CompleteHarmless ==
    ASSUME TypeInv, CompleteInv,
           succeeded' \subseteq succeeded,
           cut' # "idle" => cutDir' \notin succeeded',
           \A d \in succeeded' : \A f \in Files :
               ach'[d][f] # "none" /\ f \notin canceled'[d]
               => ach[d][f] # "none" /\ f \notin canceled[d],
           \A f \in Files : uploads[f] > 0 => uploads'[f] > 0,
           announced \subseteq announced', unsent \subseteq unsent',
           cut' = "emit" =>
              \A f \in Files :
                 ach'[cutDir'][f] # "none" /\ f \notin canceled'[cutDir']
                 => Accounted(f, inputs \cup announced \cup unsent)'
    PROVE  CompleteInv'
  <1>1. ASSUME NEW d \in succeeded', NEW f \in Files,
               ach'[d][f] # "none", f \notin canceled'[d]
        PROVE  Accounted(f, announced \cup unsent)'
    <2>1. Accounted(f, announced \cup unsent)
      BY <1>1 DEF CompleteInv, SucceededIsComplete
    <2>. QED  BY <2>1, AccountedStays DEF Accounted
  <1>2. SucceededIsComplete'
    BY <1>1 DEF SucceededIsComplete
  <1>. QED  BY <1>2 DEF CompleteInv

(* A step that leaves the aggregator alone.                                *)
LEMMA CompleteReceiver ==
    ASSUME TypeInv, CompleteInv, UNCHANGED mergingVars,
           \A d \in Dirs : /\ canceled'[d] = canceled[d]
                           /\ \A f \in Files :
                                 ach'[d][f] = "none" <=> ach[d][f] = "none"
    PROVE  CompleteInv'
  <1>1. succeeded \subseteq Dirs /\ (cut # "idle" => cutDir \in Dirs)
    BY DEF TypeInv, TypeOK, MergingTypeOK, Bookkeeping, LocalsInOrder
  <1>2. cut = "emit" =>
           \A f \in Files :
              ach'[cutDir][f] # "none" /\ f \notin canceled'[cutDir]
              => Accounted(f, inputs \cup announced \cup unsent)
    BY <1>1 DEF CompleteInv
  <1>3. \A d \in succeeded : \A f \in Files :
           ach'[d][f] # "none" /\ f \notin canceled'[d]
           => ach[d][f] # "none" /\ f \notin canceled[d]
    BY <1>1
  <1>4. cut # "idle" => cutDir \notin succeeded
    BY DEF CompleteInv
  <1>5. \A f \in Files :
           Accounted(f, inputs \cup announced \cup unsent)' =
           Accounted(f, inputs \cup announced \cup unsent)
    BY DEF Accounted
  <1>. QED  BY <1>2, <1>3, <1>4, <1>5, CompleteHarmless

(* A cutoff that ends before it has emitted anything, or with the process. *)
LEMMA CompleteReturns ==
    ASSUME TypeInv, CompleteInv, CutoffReturns,
           UNCHANGED <<uploads, eventVars>>, UNCHANGED <<ach, canceled>>
    PROVE  CompleteInv'
  BY CompleteHarmless DEF CutoffReturns

(* When no error has come up, every entry of the directory is in a file    *)
(* that InputsOf returns: of the files that have it, the one listed last.  *)
LEMMA CompleteInputs ==
    ASSUME TypeInv, Truthful, cut = "upload", todo = {}, ~el,
           NEW f \in Files, ach[cutDir][f] # "none", f \notin canceled[cutDir]
    PROVE  Accounted(f, InputsOf(merged))
  <1>1. UNION merged = AcceptedFiles
    BY DEF Truthful, NothingLeftOut
  <1>2. f \in AcceptedFiles
    BY DEF Truthful, CanceledFilesListed, AcceptedFiles
  <1>3. uploads[f] > 0
    BY <1>1, <1>2 DEF Truthful, OnlyUploadedAnnounced
  <1>4. ASSUME NEW k \in KeysOf[f]
        PROVE  \E g \in InputsOf(merged) : k \in KeysOf[g]
    <2>. DEFINE S == {g \in AcceptedFiles : k \in KeysOf[g]}
    <2>1. S \in SUBSET Files /\ S # {}
      BY <1>2, <1>4 DEF AcceptedFiles
    <2>2. PICK g \in S : \A h \in S : Rank[h] <= Rank[g]
      BY <2>1, MergingAssumption
    <2>3. k \in EntryKeys(merged)
      BY <1>1, <1>2, <1>4 DEF EntryKeys
    <2>4. g \in InputsOf(merged)
      BY <2>2, <2>3 DEF InputsOf
    <2>. QED  BY <2>2, <2>4
  <1>. QED  BY <1>3, <1>4 DEF Accounted

(* Every step of the cutoff.                                               *)
LEMMA CompleteCutoff ==
    ASSUME TypeInv, Truthful, CompleteInv, CutoffStep
    PROVE  CompleteInv'
  <1>1. /\ succeeded \subseteq Dirs
        /\ cut # "idle" => cutDir \in Dirs /\ cutDir \notin succeeded
        /\ uploads \in [Files -> Nat]
    BY DEF TypeInv, TypeOK, MergingTypeOK, Bookkeeping, LocalsInOrder,
           CompleteInv
  <1>2. CASE CutoffReturns /\ ~PrepareUploadedDir /\ ~EndCutoff
    <2>1. UNCHANGED <<uploads, eventVars>> /\ UNCHANGED <<ach, canceled>>
      BY <1>2
      DEF CutoffStep, GetCanceledFiles, MergeDir, RmdirAllFails,
          SaveMergedFile, BeginUploads, UploadFile, FindInputFilepaths,
          EmitFileUploaded, CutoffReturns
    <2>. QED  BY <1>2, <2>1, CompleteReturns
  <1>3. CASE PrepareUploadedDir
    <2>1. /\ \A d \in Dirs : d # cutDir => /\ ach'[d] = ach[d]
                                           /\ canceled'[d] = canceled[d]
          /\ cut = "prepare" /\ UNCHANGED <<uploads, eventVars>>
          /\ cut' # "emit" /\ (cut' # "idle" => cutDir' = cutDir)
      BY <1>3, PreparedDir DEF PrepareUploadedDir, CutoffReturns
    <2>2. \A d \in succeeded : /\ ach'[d] = ach[d]
                               /\ canceled'[d] = canceled[d]
      BY <1>1, <2>1
    <2>. QED  BY <1>1, <2>1, <2>2, CompleteHarmless
  <1>4. ASSUME NEW m \in todo, UploadFile(m) PROVE CompleteInv'
    <2>1. \A f \in Files : uploads[f] > 0 => uploads'[f] > 0
      BY <1>1, <1>4 DEF UploadFile, ReachesRemote
    <2>2. /\ cut = "upload" /\ cut' = "upload"
          /\ UNCHANGED <<cutDir, ach, canceled, eventVars>>
      BY <1>4 DEF UploadFile
    <2>. QED  BY <1>1, <2>1, <2>2, CompleteHarmless
  <1>5. CASE FindInputFilepaths /\ ~CutoffReturns
    <2>1. /\ cut = "upload" /\ todo = {} /\ ~el /\ cut' = "emit"
          /\ inputs' = InputsOf(merged)
          /\ UNCHANGED <<cutDir, ach, canceled, uploads, eventVars>>
      BY <1>5 DEF FindInputFilepaths
    <2>2. ASSUME NEW f \in Files, ach[cutDir][f] # "none",
                 f \notin canceled[cutDir]
          PROVE  Accounted(f, inputs \cup announced \cup unsent)'
      <3>1. Accounted(f, InputsOf(merged))
        BY <2>1, <2>2, CompleteInputs
      <3>. QED  BY <2>1, <3>1 DEF Accounted
    <2>. QED  BY <1>1, <2>1, <2>2, CompleteHarmless
  <1>6. ASSUME NEW f \in inputs, EmitFileUploaded(f) PROVE CompleteInv'
    <2>1. /\ cut = "emit" /\ inputs' = inputs \ {f}
          /\ announced \subseteq announced' /\ unsent \subseteq unsent'
          /\ f \in announced' \cup unsent'
          /\ UNCHANGED <<cut, cutDir, ach, canceled, uploads, succeeded>>
      BY <1>6 DEF EmitFileUploaded
    <2>2. inputs \cup announced \cup unsent
             \subseteq inputs' \cup announced' \cup unsent'
      BY <2>1
    <2>3. ASSUME NEW g \in Files, ach[cutDir][g] # "none",
                 g \notin canceled[cutDir]
          PROVE  Accounted(g, inputs \cup announced \cup unsent)'
      <3>1. Accounted(g, inputs \cup announced \cup unsent)
        BY <2>1, <2>3 DEF CompleteInv
      <3>. QED  BY <2>1, <2>2, <3>1 DEF Accounted
    <2>. QED  BY <1>1, <2>1, <2>3, CompleteHarmless
  <1>7. CASE EndCutoff
    <2>1. /\ cut = "emit" /\ inputs = {} /\ cut' = "idle"
          /\ succeeded' = succeeded \cup {cutDir}
          /\ UNCHANGED <<ach, canceled, uploads, announced, unsent>>
      BY <1>7 DEF EndCutoff, CutoffReturns
    <2>2. ASSUME NEW d \in succeeded', NEW f \in Files,
                 ach[d][f] # "none", f \notin canceled[d]
          PROVE  Accounted(f, announced \cup unsent)
      <3>1. CASE d \in succeeded
        BY <2>2, <3>1 DEF CompleteInv, SucceededIsComplete
      <3>2. CASE d = cutDir
        <4>1. Accounted(f, inputs \cup announced \cup unsent)
          BY <2>1, <2>2, <3>2 DEF CompleteInv
        <4>. QED  BY <2>1, <4>1 DEF Accounted
      <3>. QED  BY <2>1, <2>2, <3>1, <3>2
    <2>3. SucceededIsComplete'
      BY <2>1, <2>2 DEF SucceededIsComplete, Accounted
    <2>. QED  BY <2>1, <2>3 DEF CompleteInv
  <1>8. CASE /\ UNCHANGED <<ach, canceled, uploads, eventVars>>
             /\ cut # "idle" /\ cut' # "emit" /\ UNCHANGED cutDir
    BY <1>1, <1>8, CompleteHarmless
  <1>. QED
    BY <1>2, <1>3, <1>4, <1>5, <1>6, <1>7, <1>8
    DEF CutoffStep, GetCanceledFiles, MergeDir, RmdirAllFails, SaveMergedFile,
        SaveUploaded, BeginUploads, FindInputFilepaths

(* Every step.                                                             *)
LEMMA CompleteNext ==
    ASSUME TypeInv, Truthful, AbsentIsEmpty, CompleteInv, [Next]_vars
    PROVE  CompleteInv'
  <1>1. ASSUME NEW w \in Workers, NEW m \in Messages, Receive(w, m)
        PROVE  CompleteInv'
    BY <1>1, CompleteReceiver DEF Receive
  <1>2. ASSUME NEW w \in Workers, WorkerStep(w) PROVE CompleteInv'
    BY <1>2, WorkerStepCancels, CompleteReceiver
  <1>3. ASSUME NEW m \in Messages, AckArrives(m) PROVE CompleteInv'
    BY <1>3, CompleteReceiver DEF AckArrives
  <1>4. ASSUME NEW d \in Dirs, StartCutoff(d) PROVE CompleteInv'
    <2>1. CASE ReplaceDirFails(d)
      BY <1>4, <2>1, CompleteReceiver DEF StartCutoff, IsolateMergableDir
    <2>2. CASE ~ReplaceDirFails(d)
      <3>1. /\ succeeded' = succeeded \ {d} /\ cutDir' = d /\ cut' = "list"
            /\ UNCHANGED <<uploads, announced, unsent>>
        BY <1>4, <2>2 DEF StartCutoff, IsolateMergableDir
      <3>2. \A e \in succeeded' : /\ ach'[e] = ach[e]
                                  /\ canceled'[e] = canceled[e]
        BY <1>4, <2>2, <3>1, IsolatedDir DEF TypeInv, TypeOK, MergingTypeOK
      <3>. QED  BY <3>1, <3>2, CompleteHarmless
    <2>. QED  BY <2>1, <2>2
  <1>5. CASE Cutoff
    BY <1>5, CompleteCutoff DEF Cutoff
  <1>6. CASE MapFails
    BY <1>6, CompleteReturns DEF MapFails, BuildDirMappingFails
  <1>7. CASE Crash
    BY <1>7, CompleteReturns DEF Crash
  <1>8. CASE UNCHANGED vars
    BY <1>8, CompleteReceiver
  <1>. QED
    BY <1>1, <1>2, <1>3, <1>4, <1>5, <1>6, <1>7, <1>8 DEF Next, Quiet

(* A cutoff that returns no error has uploaded every file of its directory *)
(* that was not canceled, and tried to announce every entry of theirs,     *)
(* whatever fails, is redelivered, crashes or is written beside it.        *)
THEOREM SucceededIsCompleteAlways == Spec => []SucceededIsComplete
  <1>1. CutoffInv => TypeInv /\ Truthful
    BY DEF CutoffInv, TypeInv, Truthful
  <1>2. CompleteInv => SucceededIsComplete
    BY DEF CompleteInv
  <1>. QED
    BY <1>1, <1>2, CompleteInit, CompleteNext, CutoffInvariant, AbsentAlways, PTL
    DEF Spec
=============================================================================
