----------------------------- MODULE KeptProofs -----------------------------
(***************************************************************************)
(* No accepted file is lost, for every set of files, workers and messages: *)
(* a cutoff can read what it finds (under ReadableAssumption), and what a  *)
(* committed message is about stays on disk until it is uploaded (under    *)
(* KeptAssumption).                                                        *)
(***************************************************************************)
EXTENDS FilePipelineProofs, CleanupService

USE DEF storageVars, localVars, eventVars, mergingVars, workerVars,
        receiverVars, vars,
        cleanupVars, allVars,
        Mergable, Dirs, Places, Content,
        CanceledIn, SendAck, Acknowledged, AbsentIsEmpty,
        DuplicateStep, NotAccepted, OptsError

(***************************************************************************)
(* What the operations of Storage do to each file.                         *)
(***************************************************************************)

(* Creating a file.                                                        *)
LEMMA CreateFileEffect ==
    ASSUME StorageTypeOK, NEW f \in Files, CreateFile(f)
    PROVE  /\ ach'[Mergable][f] = "partial"
           /\ \A p \in Places : \A g \in Files :
                 p # Mergable \/ g # f => ach'[p][g] = ach[p][g]
  BY StorageAssumption DEF CreateFile, StorageTypeOK

(* Filling a file that was created in the pending directory.               *)
LEMMA FillFileEffect ==
    ASSUME StorageTypeOK, NEW f \in Files, FillFile(Mergable, f)
    PROVE  /\ ach[Mergable][f] # "none" => ach'[Mergable][f] = "whole"
           /\ ach[Mergable][f] = "none" => ach'[Mergable][f] = "none"
           /\ \A p \in Places : \A g \in Files :
                 p # Mergable \/ g # f => ach'[p][g] = ach[p][g]
  <1>1. /\ Mergable \in Places /\ ach \in [Places -> [Files -> Content]]
        /\ ach' = [ach EXCEPT ![Mergable][f] =
                      IF @ = "partial" THEN "whole" ELSE @]
    BY StorageAssumption DEF FillFile, StorageTypeOK
  <1>2. ach[Mergable][f] \in Content
    BY <1>1
  <1>3. ach'[Mergable][f] =
           IF ach[Mergable][f] = "partial" THEN "whole" ELSE ach[Mergable][f]
    BY <1>1
  <1>4. \A p \in Places : \A g \in Files :
           p # Mergable \/ g # f => ach'[p][g] = ach[p][g]
    BY <1>1
  <1>. QED  BY <1>2, <1>3, <1>4

(* Writing its opts.                                                       *)
LEMMA WriteOptsEffect ==
    ASSUME StorageTypeOK, NEW f \in Files, WriteOpts(f)
    PROVE  /\ f \in opts'[Mergable]
           /\ \A p \in Places : opts[p] \subseteq opts'[p]
           /\ \A p \in Places : p # Mergable => opts'[p] = opts[p]
  <1>1. /\ Mergable \in Places /\ opts \in [Places -> SUBSET Files]
        /\ opts' = [opts EXCEPT ![Mergable] = @ \cup {f}]
    BY StorageAssumption DEF WriteOpts, StorageTypeOK
  <1>2. opts'[Mergable] = opts[Mergable] \cup {f}
    BY <1>1
  <1>3. \A p \in Places : p # Mergable => opts'[p] = opts[p]
    BY <1>1
  <1>. QED  BY <1>2, <1>3

(* Replacing a file by a marker.                                           *)
LEMMA ReplaceFileEffect ==
    ASSUME StorageTypeOK, NEW f \in Files, ReplaceFile(f)
    PROVE  /\ ach'[Mergable][f] = "none"
           /\ \A p \in Places : \A g \in Files :
                 p # Mergable \/ g # f => ach'[p][g] = ach[p][g]
           /\ \A p \in Places : \A g \in Files :
                 g \in canceled'[p] => g \in canceled[p] \/ g = f
  <1>1. /\ Mergable \in Places /\ ach \in [Places -> [Files -> Content]]
        /\ ach' = [ach EXCEPT ![Mergable][f] = "none"]
    BY StorageAssumption DEF ReplaceFile, StorageTypeOK
  <1>2. /\ ach'[Mergable][f] = "none"
        /\ \A p \in Places : \A g \in Files :
              p # Mergable \/ g # f => ach'[p][g] = ach[p][g]
    BY <1>1
  <1>3. /\ canceled \in [Places -> SUBSET Files]
        /\ canceled' = [canceled EXCEPT ![Mergable] = @ \cup {f}]
    BY DEF ReplaceFile, StorageTypeOK
  <1>4. /\ canceled'[Mergable] = canceled[Mergable] \cup {f}
        /\ \A p \in Places : p # Mergable => canceled'[p] = canceled[p]
    BY <1>1, <1>3
  <1>. QED  BY <1>2, <1>4

(* Renaming the pending directory, or making an empty one.                 *)
LEMMA ReplaceDirEffect ==
    ASSUME StorageTypeOK, NEW d \in Dirs, ReplaceDir(d)
    PROVE  \/ /\ Mergable \notin exists /\ exists' = exists \cup {d}
              /\ UNCHANGED <<ach, opts, canceled>>
           \/ /\ Mergable \in exists /\ d \notin exists
              /\ exists' = (exists \ {Mergable}) \cup {d}
              /\ ach'[d] = ach[Mergable]
              /\ \A f \in Files : ach'[Mergable][f] = "none"
              /\ opts'[d] = opts[Mergable]
              /\ canceled'[d] = canceled[Mergable] /\ canceled'[Mergable] = {}
              /\ \A p \in Places : p # d /\ p # Mergable =>
                    /\ ach'[p] = ach[p] /\ opts'[p] = opts[p]
                    /\ canceled'[p] = canceled[p]
  <1>1. CASE Mergable \notin exists
    BY <1>1 DEF ReplaceDir
  <1>2. CASE Mergable \in exists
    <2>1. d \in Places /\ d # Mergable /\ Mergable \in Places
      BY StorageAssumption
    <2>2. /\ ach'[d] = ach[Mergable]
          /\ \A f \in Files : ach'[Mergable][f] = "none"
          /\ \A p \in Places : p # d /\ p # Mergable => ach'[p] = ach[p]
      <3>1. /\ ach \in [Places -> [Files -> Content]]
            /\ ach' = [ach EXCEPT ![d] = ach[Mergable],
                                  ![Mergable] = [f \in Files |-> "none"]]
        BY <1>2 DEF ReplaceDir, StorageTypeOK
      <3>. QED  BY <2>1, <3>1
    <2>3. /\ opts'[d] = opts[Mergable]
          /\ \A p \in Places : p # d /\ p # Mergable => opts'[p] = opts[p]
      <3>1. /\ opts \in [Places -> SUBSET Files]
            /\ opts' = [opts EXCEPT ![d] = opts[Mergable], ![Mergable] = {}]
        BY <1>2 DEF ReplaceDir, StorageTypeOK
      <3>. QED  BY <2>1, <3>1
    <2>4. /\ canceled'[d] = canceled[Mergable] /\ canceled'[Mergable] = {}
          /\ \A p \in Places : p # d /\ p # Mergable =>
                canceled'[p] = canceled[p]
      <3>1. /\ canceled \in [Places -> SUBSET Files]
            /\ canceled' = [canceled EXCEPT ![d] = canceled[Mergable],
                                            ![Mergable] = {}]
        BY <1>2 DEF ReplaceDir, StorageTypeOK
      <3>. QED  BY <2>1, <3>1
    <2>. QED  BY <1>2, <2>2, <2>3, <2>4 DEF ReplaceDir
  <1>. QED  BY <1>1, <1>2

(* Removing a directory.                                                   *)
LEMMA EmptyDirEffect ==
    ASSUME StorageTypeOK, NEW d \in Places, EmptyDir(d)
    PROVE  /\ \A f \in Files : ach'[d][f] = "none"
           /\ canceled'[d] = {}
           /\ \A p \in Places : p # d =>
                 /\ ach'[p] = ach[p] /\ opts'[p] = opts[p]
                 /\ canceled'[p] = canceled[p]
  <1>1. /\ ach \in [Places -> [Files -> Content]]
        /\ ach' = [ach EXCEPT ![d] = [f \in Files |-> "none"]]
    BY DEF EmptyDir, StorageTypeOK
  <1>2. /\ opts \in [Places -> SUBSET Files]
        /\ opts' = [opts EXCEPT ![d] = {}]
    BY DEF EmptyDir, StorageTypeOK
  <1>3. /\ canceled \in [Places -> SUBSET Files]
        /\ canceled' = [canceled EXCEPT ![d] = {}]
    BY DEF EmptyDir, StorageTypeOK
  <1>4. /\ \A f \in Files : ach'[d][f] = "none"
        /\ \A p \in Places : p # d => ach'[p] = ach[p]
    BY <1>1
  <1>5. \A p \in Places : p # d => opts'[p] = opts[p]
    BY <1>2
  <1>6. /\ canceled'[d] = {}
        /\ \A p \in Places : p # d => canceled'[p] = canceled[p]
    BY <1>3
  <1>. QED  BY <1>4, <1>5, <1>6

(***************************************************************************)
(* What a cutoff finds can be read: ReadableInv.                           *)
(***************************************************************************)

(* An empty disk.                                                          *)
LEMMA ReadableInit == Init => ReadableInv
  BY DEF Init, StorageInit, MergingInit, ReadableInv, ReadableOrWriting,
         AllMerged

(* A step that takes nobody out of the middle of a write and no file's     *)
(* opts away, and changes no .ach file but to remove it.                   *)
LEMMA ReadableHarmless ==
    ASSUME ReadableOrWriting, UNCHANGED fd,
           \A p \in Places : \A f \in Files :
               \/ ach'[p][f] = "none"
               \/ ach'[p][f] = ach[p][f] /\ (f \in opts[p] => f \in opts'[p]),
           \A v \in Workers : Writing(v) => pc'[v] = pc[v] /\ msg'[v] = msg[v]
    PROVE  ReadableOrWriting'
  <1>1. \A p \in Places : \A f \in Files :
           Readied(p, f) => ach'[p][f] = "none" \/ Readied(p, f)'
    BY DEF Readied
  <1>2. \A v \in Workers : Writing(v) => File(v)' = File(v)
    BY DEF File
  <1>. QED  BY <1>1, <1>2 DEF ReadableOrWriting, Writing

(* Nothing a worker does reaches the directory of a cutoff: its descriptor *)
(* is one of the pending directory.                                        *)
LEMMA WorkerStepDirs ==
    ASSUME TypeInv, \A v \in Workers : fd[v] = Mergable,
           NEW w \in Workers, WorkerStep(w)
    PROVE  \A d \in Dirs : ach'[d] = ach[d] /\ opts'[d] = opts[d]
  <1>1. \/ UNCHANGED <<ach, opts>>
        \/ /\ File(w) \in Files
           /\ \/ CreateFile(File(w)) \/ FillFile(Mergable, File(w))
              \/ WriteOpts(File(w)) \/ ReplaceFile(File(w))
    BY FileType
    DEF WorkerStep, Ack, RecordFails, Record, OpenACHFile, FillACHFile,
        WriteValidateOpts, CleanupRecord, CancelRecord,
        CancelWithoutShard, LookForFile, ReplaceACHFile, RespondCancel
  <1>2. Mergable \in Places /\ Mergable \notin Dirs /\ Dirs \subseteq Places
    BY StorageAssumption
  <1>. QED
    BY <1>1, <1>2
    DEF CreateFile, FillFile, WriteOpts, ReplaceFile, TypeInv, TypeOK,
        StorageTypeOK

(* Creating <id>.ach: it is not whole, and its worker is at "fill".        *)
LEMMA ReadableOpen ==
    ASSUME TypeInv, ReadableOrWriting, NEW w \in Workers, OpenACHFile(w)
    PROVE  ReadableOrWriting'
  <1>1. File(w) \in Files /\ pc[w] = "open" /\ Mergable \in Places
    BY FileType, StorageAssumption DEF OpenACHFile
  <1>2. CASE /\ CreateFile(File(w)) /\ fd' = [fd EXCEPT ![w] = Mergable]
             /\ Goto(w, "fill")
    <2>1. /\ pc'[w] = "fill" /\ msg'[w] = msg[w]
          /\ \A v \in Workers : v # w => pc'[v] = pc[v] /\ msg'[v] = msg[v]
      BY <1>2, GotoEffect DEF Steps
    <2>2. \A p \in Places : \A f \in Files :
             /\ p # Mergable \/ f # File(w) => ach'[p][f] = ach[p][f]
             /\ opts'[p] = opts[p]
      BY <1>1, <1>2, CreateFileEffect DEF CreateFile, TypeInv, TypeOK
    <2>3. \A v \in Workers : fd'[v] = Mergable
      BY <1>2 DEF ReadableOrWriting, TypeInv, TypeOK
    <2>4. \A v \in Workers : File(v)' = File(v)
      BY <2>1 DEF File
    <2>5. \A p \in Places : \A f \in Files :
             p # Mergable \/ f # File(w) =>
                Readied(p, f)' = Readied(p, f)
      BY <2>2 DEF Readied
    <2>. QED
      BY <1>1, <2>1, <2>2, <2>3, <2>4, <2>5 DEF ReadableOrWriting
  <1>3. CASE Goto(w, "undo") /\ UNCHANGED <<storageVars, fd>>
    <2>1. \A v \in Workers : v # w => pc'[v] = pc[v] /\ msg'[v] = msg[v]
      BY <1>3, GotoEffect DEF Steps
    <2>. QED  BY <1>1, <1>3, <2>1, ReadableHarmless DEF Writing
  <1>. QED  BY <1>2, <1>3 DEF OpenACHFile

(* Filling it: it is whole, and its worker is at "opts".                   *)
LEMMA ReadableFill ==
    ASSUME ReadableAssumption, TypeInv, ReadableOrWriting, NEW w \in Workers,
           FillACHFile(w)
    PROVE  ReadableOrWriting'
  <1>1. File(w) \in Files /\ pc[w] = "fill" /\ Mergable \in Places
    BY FileType, StorageAssumption DEF FillACHFile
  <1>2. /\ FillFile(Mergable, File(w)) /\ Goto(w, "opts")
        /\ fd' = [fd EXCEPT ![w] = Mergable]
    BY DEF FillACHFile, Happens, ReadableAssumption, ReadableOrWriting
  <1>3. /\ pc'[w] = "opts" /\ msg'[w] = msg[w]
        /\ \A v \in Workers : v # w => pc'[v] = pc[v] /\ msg'[v] = msg[v]
    BY <1>2, GotoEffect DEF Steps
  <1>4. \A p \in Places : \A f \in Files :
           /\ p # Mergable \/ f # File(w) => ach'[p][f] = ach[p][f]
           /\ opts'[p] = opts[p]
    BY <1>1, <1>2, FillFileEffect DEF FillFile, TypeInv, TypeOK
  <1>5. ach'[Mergable][File(w)] \in {"none", "whole"}
    BY <1>1, <1>2, FillFileEffect DEF TypeInv, TypeOK
  <1>6. \A v \in Workers : fd'[v] = Mergable
    BY <1>2 DEF ReadableOrWriting, TypeInv, TypeOK
  <1>7. \A v \in Workers : File(v)' = File(v)
    BY <1>3 DEF File
  <1>8. \A p \in Places : \A f \in Files :
           p # Mergable \/ f # File(w) => Readied(p, f)' = Readied(p, f)
    BY <1>4 DEF Readied
  <1>. QED
    BY <1>1, <1>3, <1>4, <1>5, <1>6, <1>7, <1>8 DEF ReadableOrWriting

(* Writing <id>.json: the file can be read.                                *)
LEMMA ReadableOpts ==
    ASSUME ReadableAssumption, TypeInv, ReadableOrWriting, NEW w \in Workers,
           WriteValidateOpts(w)
    PROVE  ReadableOrWriting'
  <1>1. File(w) \in Files /\ pc[w] = "opts" /\ Mergable \in Places
    BY FileType, StorageAssumption DEF WriteValidateOpts
  <1>2. /\ Goto(w, "ack") /\ UNCHANGED <<ach, fd>>
        /\ IF File(w) \in NeedsOpts THEN WriteOpts(File(w))
           ELSE UNCHANGED storageVars
    BY DEF WriteValidateOpts, WriteOpts, Happens, ReadableAssumption
  <1>3. \A v \in Workers : v # w => pc'[v] = pc[v] /\ msg'[v] = msg[v]
    BY <1>2, GotoEffect DEF Steps
  <1>4. /\ \A p \in Places : opts[p] \subseteq opts'[p]
        /\ File(w) \in NeedsOpts => File(w) \in opts'[Mergable]
    BY <1>1, <1>2, WriteOptsEffect DEF TypeInv, TypeOK
  <1>5. \A v \in Workers : v # w => File(v)' = File(v)
    BY <1>3 DEF File
  <1>6. \A p \in Places : \A f \in Files : Readied(p, f) => Readied(p, f)'
    BY <1>2, <1>4 DEF Readied
  <1>7. \A f \in Files : f = File(w) /\ ach[Mergable][f] = "whole" =>
           Readied(Mergable, f)'
    BY <1>2, <1>4 DEF Readied
  <1>8. ASSUME NEW p \in Places, NEW f \in Files
        PROVE  \/ ach'[p][f] = "none"
               \/ Readied(p, f)'
               \/ /\ p = Mergable
                  /\ \E v \in Workers :
                        /\ \/ pc'[v] = "fill"
                           \/ pc'[v] = "opts" /\ ach'[p][f] = "whole"
                        /\ File(v)' = f
    <2>1. CASE ach[p][f] = "none" \/ Readied(p, f)
      BY <1>2, <1>6, <2>1
    <2>2. CASE p = Mergable /\ f = File(w) /\ ach[p][f] = "whole"
      BY <1>7, <2>2
    <2>3. ASSUME p = Mergable, NEW v \in Workers, v # w, File(v) = f,
                 pc[v] = "fill" \/ (pc[v] = "opts" /\ ach[p][f] = "whole")
          PROVE  /\ pc'[v] = "fill" \/ (pc'[v] = "opts" /\ ach'[p][f] = "whole")
                 /\ File(v)' = f
      BY <1>2, <1>3, <1>5, <2>3
    <2>. QED  BY <1>1, <2>1, <2>2, <2>3 DEF ReadableOrWriting
  <1>. QED  BY <1>2, <1>8 DEF ReadableOrWriting

(* Every call of processMessage.                                           *)
LEMMA ReadableWorkerStep ==
    ASSUME ReadableAssumption, TypeInv, ReadableOrWriting, NEW w \in Workers,
           WorkerStep(w)
    PROVE  ReadableOrWriting'
  <1>1. CASE OpenACHFile(w)
    BY <1>1, ReadableOpen
  <1>2. CASE FillACHFile(w)
    BY <1>2, ReadableFill
  <1>3. CASE WriteValidateOpts(w)
    BY <1>3, ReadableOpts
  <1>4. CASE ~(OpenACHFile(w) \/ FillACHFile(w) \/ WriteValidateOpts(w))
    <2>1. /\ ~Writing(w) /\ UNCHANGED fd
          /\ \E s \in Steps : Goto(w, s)
      BY <1>4
      DEF WorkerStep, Ack, RecordFails, Record, CleanupRecord, CancelRecord,
          CancelWithoutShard, LookForFile, ReplaceACHFile, RespondCancel,
          Writing, Steps
    <2>2. \A v \in Workers : Writing(v) => pc'[v] = pc[v] /\ msg'[v] = msg[v]
      BY <2>1, GotoEffect
    <2>3. UNCHANGED <<ach, opts>> \/ (pc[w] # "idle" /\ ReplaceFile(File(w)))
      BY <1>4
      DEF WorkerStep, Ack, RecordFails, Record, CleanupRecord, CancelRecord,
          CancelWithoutShard, LookForFile, ReplaceACHFile, RespondCancel
    <2>4. \A p \in Places : \A f \in Files :
             \/ ach'[p][f] = "none"
             \/ ach'[p][f] = ach[p][f] /\ (f \in opts[p] => f \in opts'[p])
      <3>1. CASE pc[w] # "idle" /\ ReplaceFile(File(w))
        <4>1. File(w) \in Files /\ UNCHANGED opts
          BY <3>1, FileType DEF ReplaceFile
        <4>. QED  BY <3>1, <4>1, ReplaceFileEffect DEF TypeInv, TypeOK
      <3>. QED  BY <2>3, <3>1
    <2>. QED  BY <2>1, <2>2, <2>4, ReadableHarmless
  <1>. QED  BY <1>1, <1>2, <1>3, <1>4

(* Isolating the pending directory, which nobody is writing in.            *)
LEMMA ReadableIsolate ==
    ASSUME ReadableAssumption, TypeInv, ReadableOrWriting, NEW d \in Dirs,
           StartCutoff(d)
    PROVE  ReadableOrWriting'
  <1>1. \A w \in Workers : ~Writing(w)
    BY DEF StartCutoff, ReadableAssumption
  <1>2. \A p \in Places : \A f \in Files :
           ach[p][f] = "none" \/ Readied(p, f)
    BY <1>1 DEF ReadableOrWriting, Writing
  <1>3. \A w \in Workers : fd'[w] = Mergable
    BY <1>1 DEF StartCutoff, ReadableOrWriting, Writing
  <1>4. Mergable \in Places
    BY StorageAssumption
  <1>5. UNCHANGED storageVars \/ ReplaceDir(d)
    BY DEF StartCutoff, IsolateMergableDir
  <1>6. \A p \in Places : \A f \in Files :
           \/ ach'[p][f] = "none"
           \/ ach'[p][f] = ach[p][f] /\ opts'[p] = opts[p]
           \/ ach'[p][f] = ach[Mergable][f] /\ opts'[p] = opts[Mergable]
    <2>1. CASE ReplaceDir(d)
      BY <2>1, ReplaceDirEffect DEF TypeInv, TypeOK
    <2>. QED  BY <1>5, <2>1
  <1>7. \A p \in Places : \A f \in Files :
           ach'[p][f] = "none" \/ Readied(p, f)'
    BY <1>2, <1>4, <1>6 DEF Readied
  <1>. QED  BY <1>3, <1>7 DEF ReadableOrWriting

(* Every step of the cutoff.  ach.MergeDir finds nothing it cannot read.   *)
LEMMA ReadableCutoff ==
    ASSUME ReadableAssumption, TypeInv, ReadableInv, Cutoff
    PROVE  ReadableInv'
  <1>1. UNCHANGED <<pc, msg, fd>>
    BY DEF Cutoff
  <1>2. cut # "idle" => cutDir \in Dirs /\ cutDir \in Places /\ cutDir # Mergable
    BY StorageAssumption DEF TypeInv, Bookkeeping, LocalsInOrder
  <1>3. \/ UNCHANGED <<ach, opts>>
        \/ PrepareUploadedDir /\ EmptyDir(cutDir)
    BY DEF Cutoff, CutoffStep, GetCanceledFiles, MergeDir,
           PrepareUploadedDir, RmdirAllFails, SaveMergedFile, SaveUploaded,
           BeginUploads, UploadFile, FindInputFilepaths, EmitFileUploaded,
           EndCutoff
  <1>4. ReadableOrWriting'
    <2>1. \A p \in Places : \A f \in Files :
             \/ ach'[p][f] = "none"
             \/ ach'[p][f] = ach[p][f] /\ opts'[p] = opts[p]
      <3>1. CASE PrepareUploadedDir /\ EmptyDir(cutDir)
        BY <1>2, <3>1, EmptyDirEffect DEF PrepareUploadedDir, TypeInv, TypeOK
      <3>. QED  BY <1>3, <3>1
    <2>. QED  BY <1>1, <2>1, ReadableHarmless DEF ReadableInv
  <1>5. AllMerged'
    <2>1. CASE MergeDir
      <3>1. \A f \in AcceptedFiles : Readable(f)
        BY <1>2, <2>1
        DEF MergeDir, ReadableInv, ReadableOrWriting, Readied, Readable,
            AcceptedFiles
      <3>2. files' \in Groupings(AcceptedFiles)
        BY <2>1, <3>1 DEF MergeDir, Happens, ReadableAssumption
      <3>3. UNION files' = AcceptedFiles
        BY <3>2 DEF Groupings
      <3>. QED  BY <2>1, <3>3 DEF MergeDir, AllMerged, AcceptedFiles
    <2>2. CASE ~MergeDir
      <3>1. cut' # "prepare"
        BY <2>2
        DEF Cutoff, CutoffStep, GetCanceledFiles, PrepareUploadedDir,
            RmdirAllFails, SaveMergedFile, BeginUploads, UploadFile,
            FindInputFilepaths, EmitFileUploaded, EndCutoff, CutoffReturns
      <3>. QED  BY <3>1 DEF AllMerged
    <2>. QED  BY <2>1, <2>2
  <1>. QED  BY <1>4, <1>5 DEF ReadableInv

(* A step beside the cutoff leaves what it merges alone.                   *)
LEMMA AllMergedKept ==
    ASSUME TypeInv, AllMerged, UNCHANGED mergingVars,
           \A d \in Dirs : ach'[d] = ach[d]
    PROVE  AllMerged'
  BY DEF AllMerged, AcceptedFiles, TypeInv, Bookkeeping, LocalsInOrder

(* Every step.                                                             *)
LEMMA ReadableNext ==
    ASSUME ReadableAssumption, TypeInv, ReadableInv, [Next]_vars
    PROVE  ReadableInv'
  <1>. USE DEF ReadableInv
  <1>1. ASSUME NEW w \in Workers, NEW m \in Messages, Receive(w, m)
        PROVE  ReadableInv'
    <2>1. \A v \in Workers : Writing(v) => pc'[v] = pc[v] /\ msg'[v] = msg[v]
      BY <1>1 DEF Receive, Handle, Writing, TypeInv, TypeOK
    <2>. QED
      BY <1>1, <2>1, ReadableHarmless, AllMergedKept DEF Receive
  <1>2. ASSUME NEW w \in Workers, WorkerStep(w) PROVE ReadableInv'
    <2>1. UNCHANGED mergingVars /\ \A d \in Dirs : ach'[d] = ach[d]
      BY <1>2, WorkerStepCancels, WorkerStepDirs DEF ReadableOrWriting
    <2>. QED  BY <1>2, <2>1, ReadableWorkerStep, AllMergedKept
  <1>3. ASSUME NEW d \in Dirs, StartCutoff(d) PROVE ReadableInv'
    <2>1. AllMerged'
      BY <1>3 DEF StartCutoff, IsolateMergableDir, AllMerged
    <2>. QED  BY <1>3, <2>1, ReadableIsolate
  <1>4. CASE Cutoff
    BY <1>4, ReadableCutoff
  <1>5. ~MapFails /\ ~Crash
    BY DEF MapFails, BuildDirMappingFails, Crash, Happens, ReadableAssumption
  <1>6. CASE UNCHANGED vars
    BY <1>6, ReadableHarmless, AllMergedKept
  <1>7. ASSUME NEW m \in Messages, AckArrives(m) PROVE ReadableInv'
    BY <1>7, ReadableHarmless, AllMergedKept DEF AckArrives
  <1>. QED
    BY <1>1, <1>2, <1>3, <1>4, <1>5, <1>6, <1>7 DEF Next, Quiet

(* What is on disk can be read, or is about to be, always.                 *)
THEOREM ReadableInvariant ==
    ASSUME ReadableAssumption
    PROVE  Spec => []ReadableInv
  <1>1. TypeInv /\ ReadableInv /\ [Next]_vars => ReadableInv'
    BY ReadableNext
  <1>. QED  BY ReadableInit, <1>1, TypeCorrect, PTL DEF Spec

(***************************************************************************)
(* What was accepted is kept: KeptInv.                                     *)
(***************************************************************************)

(* The first state.                                                        *)
LEMMA KeptInit == Init => KeptInv
  <1>. SUFFICES ASSUME Init PROVE KeptInv
    OBVIOUS
  <1>1. StepsOfKind /\ SoleHandler /\ HandledKept /\ FilesOnDisk
    BY DEF Init, StorageInit, StepsOfKind, SoleHandler, HandledKept,
           FilesOnDisk
  <1>2. WantedIsNotCanceled
    BY DEF Init, StorageInit, MergingInit, WantedIsNotCanceled
  <1>3. RowsKept /\ AcceptedFileKept
    BY DEF Init, RowsKept, AcceptedFileKept
  <1>. QED  BY <1>1, <1>2, <1>3 DEF KeptInv

(* AcceptedFileKept in terms of KeptOrWriting.                             *)
LEMMA AcceptedIsKept ==
    AcceptedFileKept <=>
        \A m \in Acknowledged : Kind[m] = "queue" /\ Wanted(FileOf[m]) =>
            KeptOrWriting(FileOf[m])
  BY DEF AcceptedFileKept, KeptOrWriting, Kept

(* Where each call of processMessage goes.                                 *)
LEMMA WorkerStepGoes ==
    ASSUME ReadableAssumption, NEW w \in Workers, WorkerStep(w)
    PROVE  \E s \in Steps :
              /\ Goto(w, s) /\ pc[w] # "idle"
              /\ s \in {"record", "open", "fill", "opts", "undo"} =>
                    pc[w] \in {"record", "open", "fill", "opts", "undo"}
              /\ s \in {"cancel", "look", "replace", "cancelRespond"} =>
                    pc[w] \in {"cancel", "look", "replace", "cancelRespond"}
              /\ s = "undo" => "open" \in Adverse
              /\ Acknowledged' = Acknowledged \/ (s = "idle" /\ Acknowledged' = Acknowledged \cup {msg[w]})
  <1>. USE DEF Steps, Happens, ReadableAssumption
  <1>1. CASE Ack(w) \/ RecordFails(w) \/ Record(w)
    BY <1>1 DEF Ack, RecordFails, Record
  <1>2. CASE OpenACHFile(w)
    BY <1>2 DEF OpenACHFile
  <1>3. CASE FillACHFile(w)
    BY <1>3 DEF FillACHFile
  <1>4. CASE WriteValidateOpts(w) \/ CleanupRecord(w)
    BY <1>4 DEF WriteValidateOpts, CleanupRecord
  <1>5. CASE CancelRecord(w) \/ CancelWithoutShard(w)
    BY <1>5 DEF CancelRecord, CancelWithoutShard
  <1>6. CASE LookForFile(w) \/ ReplaceACHFile(w) \/ RespondCancel(w)
    BY <1>6 DEF LookForFile, ReplaceACHFile, RespondCancel
  <1>. QED
    BY <1>1, <1>2, <1>3, <1>4, <1>5, <1>6 DEF WorkerStep

(* The control of the workers: each step handles its kind of message, and  *)
(* where Cleanup may be needed nobody shares a message.                    *)
LEMMA ControlReceive ==
    ASSUME KeptAssumption, TypeInv, StepsOfKind, SoleHandler,
           NEW w \in Workers, NEW m \in Messages, Receive(w, m)
    PROVE  StepsOfKind' /\ SoleHandler'
  <1>1. /\ Acknowledged' = Acknowledged
        /\ "open" \in Adverse => /\ m \notin Acknowledged
                                 /\ \A v \in Workers : msg[v] # m
    BY DEF Receive, KeptAssumption
  <1>2. /\ pc'[w] = FirstStep(m)
        /\ FirstStep(m) # "idle" => msg'[w] = m
        /\ \A v \in Workers : v # w => pc'[v] = pc[v] /\ msg'[v] = msg[v]
    BY DEF Receive, Handle, TypeInv, TypeOK
  <1>3. \/ FirstStep(m) = "record" /\ Kind[m] = "queue"
        \/ FirstStep(m) = "cancel" /\ Kind[m] = "cancel"
        \/ FirstStep(m) \in {"ack", "idle"}
    BY PipelineAssumption DEF FirstStep, Kinds
  <1>4. StepsOfKind'
    BY <1>2, <1>3 DEF StepsOfKind
  <1>5. SoleHandler'
    BY <1>1, <1>2, <1>3 DEF SoleHandler
  <1>. QED  BY <1>4, <1>5

(* The same for every call of processMessage.                              *)
LEMMA ControlWorkerStep ==
    ASSUME ReadableAssumption, TypeInv, StepsOfKind, SoleHandler,
           NEW w \in Workers, WorkerStep(w)
    PROVE  StepsOfKind' /\ SoleHandler'
  <1>1. PICK s \in Steps :
           /\ Goto(w, s) /\ pc[w] # "idle"
           /\ s \in {"record", "open", "fill", "opts", "undo"} =>
                 pc[w] \in {"record", "open", "fill", "opts", "undo"}
           /\ s \in {"cancel", "look", "replace", "cancelRespond"} =>
                 pc[w] \in {"cancel", "look", "replace", "cancelRespond"}
           /\ s = "undo" => "open" \in Adverse
           /\ Acknowledged' = Acknowledged \/ (s = "idle" /\ Acknowledged' = Acknowledged \cup {msg[w]})
    BY WorkerStepGoes
  <1>2. /\ pc'[w] = s
        /\ s # "idle" => msg'[w] = msg[w]
        /\ \A v \in Workers : v # w => pc'[v] = pc[v] /\ msg'[v] = msg[v]
    BY <1>1, GotoEffect
  <1>3. StepsOfKind'
    BY <1>1, <1>2 DEF StepsOfKind
  <1>4. SoleHandler'
    BY <1>1, <1>2 DEF SoleHandler
  <1>. QED  BY <1>3, <1>4

(* Who handles a cancellation handles a file that is not wanted.           *)
LEMMA CancelIsUnwanted ==
    ASSUME TypeInv, StepsOfKind, NEW w \in Workers,
           pc[w] \in {"cancel", "look", "replace", "cancelRespond"}
    PROVE  ~Wanted(File(w))
  BY FileType DEF StepsOfKind, Wanted, File

(* Nobody marks a wanted file as canceled.                                 *)
LEMMA WantedWorkerStep ==
    ASSUME TypeInv, StepsOfKind, WantedIsNotCanceled, NEW w \in Workers,
           WorkerStep(w)
    PROVE  WantedIsNotCanceled'
  <1>1. UNCHANGED canceledFiles
    BY WorkerStepCancels
  <1>2. UNCHANGED canceled \/ (pc[w] = "replace" /\ ReplaceFile(File(w)))
    BY DEF WorkerStep, Ack, RecordFails, Record, OpenACHFile, FillACHFile,
           WriteValidateOpts, CleanupRecord, CancelRecord,
           CancelWithoutShard, LookForFile, ReplaceACHFile, RespondCancel,
           CreateFile, FillFile, WriteOpts
  <1>3. \A p \in Places : \A f \in Files :
           Wanted(f) /\ f \in canceled'[p] => f \in canceled[p]
    <2>1. CASE pc[w] = "replace" /\ ReplaceFile(File(w))
      <3>1. File(w) \in Files /\ ~Wanted(File(w))
        BY <2>1, FileType, CancelIsUnwanted
      <3>. QED  BY <2>1, <3>1, ReplaceFileEffect DEF TypeInv, TypeOK
    <2>. QED  BY <1>2, <2>1
  <1>. QED  BY <1>1, <1>3 DEF WantedIsNotCanceled

(* The markers move with their directory, or go with it.                   *)
LEMMA WantedCutoff ==
    ASSUME TypeInv, WantedIsNotCanceled,
           Cutoff \/ \E d \in Dirs : StartCutoff(d)
    PROVE  WantedIsNotCanceled'
  <1>1. ASSUME NEW d \in Dirs, StartCutoff(d) PROVE WantedIsNotCanceled'
    <2>1. /\ UNCHANGED canceledFiles
          /\ UNCHANGED canceled \/ ReplaceDir(d)
      BY <1>1 DEF StartCutoff, IsolateMergableDir
    <2>2. Mergable \in Places
      BY StorageAssumption
    <2>3. \A p \in Places : \A f \in Files :
             f \in canceled'[p] => \E q \in Places : f \in canceled[q]
      BY <2>1, <2>2, ReplaceDirEffect DEF TypeInv, TypeOK
    <2>. QED  BY <2>1, <2>3 DEF WantedIsNotCanceled
  <1>2. CASE Cutoff
    <2>1. cut # "idle" => cutDir \in Places
      BY DEF TypeInv, TypeOK, MergingTypeOK
    <2>2. \/ UNCHANGED canceled
          \/ PrepareUploadedDir /\ EmptyDir(cutDir)
      BY <1>2
      DEF Cutoff, CutoffStep, GetCanceledFiles, MergeDir,
          PrepareUploadedDir, RmdirAllFails, SaveMergedFile, SaveUploaded,
          BeginUploads, UploadFile, FindInputFilepaths, EmitFileUploaded,
          EndCutoff
    <2>3. \A p \in Places : \A f \in Files :
             f \in canceled'[p] => f \in canceled[p]
      BY <2>1, <2>2, EmptyDirEffect DEF PrepareUploadedDir, TypeInv, TypeOK
    <2>4. \/ canceledFiles' = canceledFiles
          \/ canceledFiles' = {}
          \/ GetCanceledFiles /\ canceledFiles' = canceled[cutDir]
      BY <1>2
      DEF Cutoff, CutoffStep, GetCanceledFiles, MergeDir,
          PrepareUploadedDir, RmdirAllFails, SaveMergedFile,
          BeginUploads, UploadFile, FindInputFilepaths, EmitFileUploaded,
          EndCutoff, CutoffReturns
    <2>. QED
      BY <2>1, <2>3, <2>4 DEF GetCanceledFiles, WantedIsNotCanceled
  <1>. QED  BY <1>1, <1>2

(* A file that is kept stays so when its copies are not removed, nothing   *)
(* is taken back from the server and its writers go on writing.            *)
LEMMA KeptStable ==
    ASSUME NEW f \in Files,
           uploads[f] > 0 => uploads'[f] > 0,
           \A p \in Places : ach[p][f] = "whole" =>
               \E q \in Places : ach'[q][f] = "whole",
           \A v \in Workers :
               pc[v] \in {"open", "fill"} => pc'[v] = pc[v] /\ msg'[v] = msg[v]
    PROVE  KeptOrWriting(f) => KeptOrWriting(f)'
  BY DEF KeptOrWriting, Kept, File

(* A step that does nothing to wanted files on disk and to their rows, nor *)
(* to who writes or undoes one, and that lets a worker be done and commits *)
(* a message only when the file is kept.                                   *)
LEMMA KeptHarmless ==
    ASSUME TypeInv, FilesOnDisk, RowsKept,
           exists \subseteq exists',
           \A p \in Places : \A f \in Files :
               \/ ach'[p][f] = ach[p][f]
               \/ ach'[p][f] = "none" /\ ~Wanted(f),
           \A f \in Files : uploads[f] > 0 => uploads'[f] > 0,
           \A f \in Files : Wanted(f) => db'[f] = db[f],
           \A v \in Workers :
               {pc[v], pc'[v]} \cap {"open", "fill", "undo"} # {} =>
                   pc'[v] = pc[v] /\ msg'[v] = msg[v],
           \A v \in Workers :
               pc'[v] \in {"opts", "ack"} /\ Kind[msg'[v]] = "queue" =>
                   /\ msg'[v] = msg[v] /\ File(v) \in Files
                   /\ Wanted(File(v)) => KeptOrWriting(File(v)),
           \A m \in Acknowledged' :
               Kind[m] = "queue" /\ Wanted(FileOf[m]) =>
                   FileOf[m] \in Files /\ KeptOrWriting(FileOf[m])
    PROVE  FilesOnDisk' /\ RowsKept' /\ HandledKept' /\ AcceptedFileKept'
  <1>1. \A f \in Files : Wanted(f) /\ KeptOrWriting(f) => KeptOrWriting(f)'
    BY KeptStable
  <1>2. Mergable \in Places
    BY StorageAssumption
  <1>3. \A v \in Workers : msg'[v] = msg[v] => File(v)' = File(v)
    BY DEF File
  <1>4. FilesOnDisk'
    <2>1. \A v \in Workers : pc'[v] = "fill" =>
             /\ pc[v] = "fill" /\ File(v)' = File(v) /\ File(v) \in Files
      BY <1>3, FileType
    <2>2. \A v \in Workers : pc'[v] = "fill" /\ Wanted(File(v))' =>
             ach'[Mergable][File(v)] # "none"
      BY <1>2, <2>1 DEF FilesOnDisk
    <2>. QED  BY <2>1, <2>2 DEF FilesOnDisk
  <1>5. RowsKept'
    <2>1. \A v \in Workers : pc[v] = "undo" =>
             pc'[v] = "undo" /\ File(v)' = File(v)
      BY <1>3
    <2>. QED  BY <1>1, <2>1 DEF RowsKept
  <1>6. HandledKept'
    BY <1>1, <1>3 DEF HandledKept
  <1>7. AcceptedFileKept'
    <2>1. \A m \in Acknowledged' : Kind[m] = "queue" /\ Wanted(FileOf[m]) =>
             KeptOrWriting(FileOf[m])'
      BY <1>1
    <2>. QED  BY <2>1 DEF AcceptedFileKept, KeptOrWriting, Kept
  <1>. QED  BY <1>4, <1>5, <1>6, <1>7

(* Who undoes a file, or fails to open it, is the only one it is known to. *)
LEMMA SoleMeansSole ==
    ASSUME KeptAssumption, TypeInv, StepsOfKind, SoleHandler,
           "open" \in Adverse, NEW w \in Workers,
           pc[w] \in {"record", "open", "fill", "opts", "undo"}
    PROVE  /\ \A v \in Workers :
                 /\ pc[v] # "idle" /\ Kind[msg[v]] = "queue"
                 /\ File(v) = File(w)
                 => v = w
           /\ \A m \in Acknowledged : Kind[m] = "queue" => FileOf[m] # File(w)
  <1>1. msg[w] \in Messages /\ Kind[msg[w]] = "queue" /\ msg[w] \notin Acknowledged
    BY FileType DEF StepsOfKind, SoleHandler
  <1>2. \A m \in Messages : Kind[m] = "queue" /\ FileOf[m] = File(w) =>
           m = msg[w]
    BY <1>1 DEF KeptAssumption, File
  <1>3. Acknowledged \subseteq Messages
    BY DEF TypeInv, TypeOK
  <1>4. \A v \in Workers : pc[v] # "idle" => msg[v] \in Messages
    BY FileType
  <1>. QED  BY <1>1, <1>2, <1>3, <1>4 DEF SoleHandler, File

(* Record: the winner will write the file; who finds a row may rely on it. *)
LEMMA KeptRecord ==
    ASSUME KeptAssumption, TypeInv, KeptInv, NEW w \in Workers, Record(w)
    PROVE  FilesOnDisk' /\ RowsKept' /\ HandledKept' /\ AcceptedFileKept'
  <1>. USE DEF KeptInv
  <1>1. /\ pc[w] = "record" /\ File(w) \in Files
        /\ UNCHANGED <<exists, ach, uploads, Acknowledged>>
    BY FileType DEF Record
  <1>2. \A v \in Workers : pc[v] # "idle" => File(v) \in Files
    BY FileType
  <1>3. \A m \in Acknowledged : Kind[m] = "queue" /\ Wanted(FileOf[m]) =>
           FileOf[m] \in Files /\ KeptOrWriting(FileOf[m])
    BY AcceptedIsKept, PipelineAssumption DEF TypeInv, TypeOK
  <1>4. CASE db[File(w)] # "none"
    <2>1. Goto(w, "ack") /\ UNCHANGED db
      BY <1>4 DEF Record
    <2>2. /\ pc'[w] = "ack" /\ msg'[w] = msg[w]
          /\ \A v \in Workers : v # w => pc'[v] = pc[v] /\ msg'[v] = msg[v]
      BY <2>1, GotoEffect DEF Steps
    <2>3. Wanted(File(w)) => KeptOrWriting(File(w))
      <3>1. ASSUME NEW v \in Workers, pc[v] = "undo", File(v) = File(w)
            PROVE  FALSE
        <4>1. "open" \in Adverse
          BY <3>1 DEF SoleHandler
        <4>2. Kind[msg[w]] = "queue"
          BY <1>1 DEF StepsOfKind
        <4>3. w = v
          BY <1>1, <3>1, <4>1, <4>2, SoleMeansSole
        <4>. QED  BY <1>1, <3>1, <4>3
      <3>. QED  BY <1>1, <1>4, <3>1 DEF RowsKept
    <2>4. \A v \in Workers :
             pc'[v] \in {"opts", "ack"} /\ Kind[msg'[v]] = "queue" =>
                 /\ msg'[v] = msg[v] /\ File(v) \in Files
                 /\ Wanted(File(v)) => KeptOrWriting(File(v))
      BY <1>1, <1>2, <2>2, <2>3 DEF HandledKept
    <2>5. \A v \in Workers :
             {pc[v], pc'[v]} \cap {"open", "fill", "undo"} # {} =>
                 pc'[v] = pc[v] /\ msg'[v] = msg[v]
      BY <1>1, <2>2
    <2>. QED  BY <1>1, <1>3, <2>1, <2>4, <2>5, KeptHarmless
  <1>5. CASE db[File(w)] = "none"
    <2>1. /\ Goto(w, "open")
          /\ \A f \in Files : f # File(w) => db'[f] = db[f]
      BY <1>5 DEF Record, TypeInv, TypeOK
    <2>2. /\ pc'[w] = "open" /\ msg'[w] = msg[w]
          /\ \A v \in Workers : v # w => pc'[v] = pc[v] /\ msg'[v] = msg[v]
      BY <2>1, GotoEffect DEF Steps
    <2>3. \A v \in Workers : File(v)' = File(v)
      BY <2>2 DEF File
    <2>4. \A f \in Files : KeptOrWriting(f) => KeptOrWriting(f)'
      BY <1>1, <2>2, KeptStable
    <2>5. \A f \in Files : f = File(w) => KeptOrWriting(f)'
      BY <2>2, <2>3 DEF KeptOrWriting
    <2>6. FilesOnDisk'
      BY <1>1, <2>2, <2>3 DEF FilesOnDisk
    <2>7. RowsKept'
      BY <1>1, <2>1, <2>2, <2>3, <2>4, <2>5 DEF RowsKept
    <2>8. HandledKept'
      BY <1>2, <2>2, <2>3, <2>4 DEF HandledKept
    <2>9. AcceptedFileKept'
      <3>1. \A m \in Acknowledged : Kind[m] = "queue" /\ Wanted(FileOf[m]) =>
               KeptOrWriting(FileOf[m])'
        BY <1>3, <2>4
      <3>. QED  BY <1>1, <3>1 DEF AcceptedFileKept, KeptOrWriting, Kept
    <2>. QED  BY <2>6, <2>7, <2>8, <2>9
  <1>. QED  BY <1>4, <1>5

(* Creating the file: its worker writes on.  When that fails its worker    *)
(* will undo the row, and it was the only one to know of it.               *)
LEMMA KeptOpen ==
    ASSUME KeptAssumption, TypeInv, KeptInv, NEW w \in Workers,
           OpenACHFile(w)
    PROVE  FilesOnDisk' /\ RowsKept' /\ HandledKept' /\ AcceptedFileKept'
  <1>. USE DEF KeptInv
  <1>1. /\ pc[w] = "open" /\ File(w) \in Files
        /\ UNCHANGED <<uploads, Acknowledged, db>>
    BY FileType DEF OpenACHFile
  <1>2. \A v \in Workers : pc[v] # "idle" => File(v) \in Files
    BY FileType
  <1>3. \A m \in Acknowledged : Kind[m] = "queue" /\ Wanted(FileOf[m]) =>
           FileOf[m] \in Files /\ KeptOrWriting(FileOf[m])
    BY AcceptedIsKept, PipelineAssumption DEF TypeInv, TypeOK
  <1>4. CASE CreateFile(File(w)) /\ Goto(w, "fill")
    <2>1. /\ pc'[w] = "fill" /\ msg'[w] = msg[w]
          /\ \A v \in Workers : v # w => pc'[v] = pc[v] /\ msg'[v] = msg[v]
      BY <1>4, GotoEffect DEF Steps
    <2>2. \A v \in Workers : File(v)' = File(v)
      BY <2>1 DEF File
    <2>3. /\ ach'[Mergable][File(w)] = "partial"
          /\ \A p \in Places : \A f \in Files :
                p # Mergable \/ f # File(w) => ach'[p][f] = ach[p][f]
          /\ exists' = exists \cup {Mergable}
      BY <1>1, <1>4, CreateFileEffect DEF CreateFile, TypeInv, TypeOK
    <2>4. \A f \in Files : f = File(w) => KeptOrWriting(f)'
      BY <2>1, <2>2 DEF KeptOrWriting
    <2>5. \A f \in Files : f # File(w) /\ KeptOrWriting(f) =>
             KeptOrWriting(f)'
      BY <1>1, <2>1, <2>2, <2>3 DEF KeptOrWriting, Kept
    <2>6. FilesOnDisk'
      <3>1. \A v \in Workers : pc'[v] = "fill" /\ Wanted(File(v)) =>
               ach'[Mergable][File(v)] # "none"
        <4>1. Mergable \in Places
          BY StorageAssumption
        <4>. QED
          BY <1>1, <1>2, <2>1, <2>3, <4>1 DEF FilesOnDisk
      <3>2. \A p \in Places \ exists' : \A f \in Files : ach'[p][f] = "none"
        BY <2>3 DEF FilesOnDisk
      <3>. QED  BY <2>2, <3>1, <3>2 DEF FilesOnDisk
    <2>7. RowsKept'
      BY <1>1, <2>1, <2>2, <2>4, <2>5 DEF RowsKept
    <2>8. HandledKept'
      BY <1>2, <2>1, <2>2, <2>4, <2>5 DEF HandledKept
    <2>9. AcceptedFileKept'
      <3>1. \A m \in Acknowledged : Kind[m] = "queue" /\ Wanted(FileOf[m]) =>
               KeptOrWriting(FileOf[m])'
        BY <1>3, <2>4, <2>5
      <3>. QED  BY <1>1, <3>1 DEF AcceptedFileKept, KeptOrWriting, Kept
    <2>. QED  BY <2>6, <2>7, <2>8, <2>9
  <1>5. CASE Happens("open") /\ Goto(w, "undo") /\ UNCHANGED storageVars
    <2>1. /\ pc'[w] = "undo" /\ msg'[w] = msg[w]
          /\ \A v \in Workers : v # w => pc'[v] = pc[v] /\ msg'[v] = msg[v]
      BY <1>5, GotoEffect DEF Steps
    <2>2. \A v \in Workers : File(v)' = File(v)
      BY <2>1 DEF File
    <2>3. /\ \A v \in Workers :
                /\ pc[v] # "idle" /\ Kind[msg[v]] = "queue"
                /\ File(v) = File(w)
                => v = w
          /\ \A m \in Acknowledged : Kind[m] = "queue" => FileOf[m] # File(w)
      BY <1>1, <1>5, SoleMeansSole DEF Happens
    <2>4. \A f \in Files : f # File(w) /\ KeptOrWriting(f) =>
             KeptOrWriting(f)'
      BY <1>1, <1>5, <2>1, <2>2 DEF KeptOrWriting, Kept
    <2>5. FilesOnDisk'
      BY <1>1, <1>5, <2>1, <2>2 DEF FilesOnDisk
    <2>6. RowsKept'
      BY <1>1, <2>1, <2>2, <2>4 DEF RowsKept
    <2>7. HandledKept'
      BY <1>1, <1>2, <2>1, <2>2, <2>3, <2>4 DEF HandledKept
    <2>8. AcceptedFileKept'
      <3>1. \A m \in Acknowledged : Kind[m] = "queue" /\ Wanted(FileOf[m]) =>
               KeptOrWriting(FileOf[m])'
        BY <1>3, <2>3, <2>4
      <3>. QED  BY <1>1, <3>1 DEF AcceptedFileKept, KeptOrWriting, Kept
    <2>. QED  BY <2>5, <2>6, <2>7, <2>8
  <1>. QED  BY <1>4, <1>5 DEF OpenACHFile

(* Filling the file: it was there, and now it is whole.                    *)
LEMMA KeptFill ==
    ASSUME KeptAssumption, TypeInv, ReadableInv, KeptInv, NEW w \in Workers,
           FillACHFile(w)
    PROVE  FilesOnDisk' /\ RowsKept' /\ HandledKept' /\ AcceptedFileKept'
  <1>. USE DEF KeptInv
  <1>1. /\ pc[w] = "fill" /\ File(w) \in Files
        /\ UNCHANGED <<exists, uploads, Acknowledged, db>>
        /\ FillFile(Mergable, File(w)) /\ Goto(w, "opts")
    BY FileType
    DEF FillACHFile, FillFile, Happens, KeptAssumption, ReadableAssumption,
        ReadableInv, ReadableOrWriting
  <1>2. \A v \in Workers : pc[v] # "idle" => File(v) \in Files
    BY FileType
  <1>3. \A m \in Acknowledged : Kind[m] = "queue" /\ Wanted(FileOf[m]) =>
           FileOf[m] \in Files /\ KeptOrWriting(FileOf[m])
    BY AcceptedIsKept, PipelineAssumption DEF TypeInv, TypeOK
  <1>4. /\ pc'[w] = "opts" /\ msg'[w] = msg[w]
        /\ \A v \in Workers : v # w => pc'[v] = pc[v] /\ msg'[v] = msg[v]
    BY <1>1, GotoEffect DEF Steps
  <1>5. \A v \in Workers : File(v)' = File(v)
    BY <1>4 DEF File
  <1>6. /\ ach[Mergable][File(w)] # "none" =>
              ach'[Mergable][File(w)] = "whole"
        /\ ach[Mergable][File(w)] = "none" => ach'[Mergable][File(w)] = "none"
        /\ \A p \in Places : \A f \in Files :
              p # Mergable \/ f # File(w) => ach'[p][f] = ach[p][f]
    BY <1>1, FillFileEffect DEF TypeInv, TypeOK
  <1>7. Mergable \in Places
    BY StorageAssumption
  <1>8. \A f \in Files : f = File(w) /\ Wanted(f) => KeptOrWriting(f)'
    BY <1>1, <1>6, <1>7 DEF FilesOnDisk, KeptOrWriting, Kept
  <1>9. \A f \in Files : f # File(w) /\ KeptOrWriting(f) =>
           KeptOrWriting(f)'
    BY <1>1, <1>4, <1>5, <1>6 DEF KeptOrWriting, Kept
  <1>10. FilesOnDisk'
    <2>1. \A v \in Workers : pc'[v] = "fill" /\ Wanted(File(v)) =>
             ach'[Mergable][File(v)] # "none"
      BY <1>2, <1>4, <1>6, <1>7 DEF FilesOnDisk
    <2>2. \A p \in Places \ exists : \A f \in Files : ach'[p][f] = "none"
      BY <1>1, <1>6 DEF FilesOnDisk
    <2>. QED  BY <1>1, <1>5, <2>1, <2>2 DEF FilesOnDisk
  <1>11. RowsKept'
    BY <1>1, <1>4, <1>5, <1>8, <1>9 DEF RowsKept
  <1>12. HandledKept'
    BY <1>1, <1>2, <1>4, <1>5, <1>8, <1>9 DEF HandledKept
  <1>13. AcceptedFileKept'
    <2>1. \A m \in Acknowledged : Kind[m] = "queue" /\ Wanted(FileOf[m]) =>
             KeptOrWriting(FileOf[m])'
      BY <1>3, <1>8, <1>9
    <2>. QED  BY <1>1, <2>1 DEF AcceptedFileKept, KeptOrWriting, Kept
  <1>. QED  BY <1>10, <1>11, <1>12, <1>13

(* Cleanup: the row goes, and nobody relied on it.                         *)
LEMMA KeptCleanup ==
    ASSUME KeptAssumption, TypeInv, KeptInv, NEW w \in Workers,
           CleanupRecord(w)
    PROVE  FilesOnDisk' /\ RowsKept' /\ HandledKept' /\ AcceptedFileKept'
  <1>. USE DEF KeptInv
  <1>1. /\ pc[w] = "undo" /\ File(w) \in Files /\ Goto(w, "idle")
        /\ UNCHANGED <<exists, ach, uploads, Acknowledged>>
    BY FileType DEF CleanupRecord
  <1>2. db' = [db EXCEPT ![File(w)] = "none"]
    BY <1>1 DEF CleanupRecord, Happens, KeptAssumption, SoleHandler
  <1>3. /\ db'[File(w)] = "none"
        /\ \A f \in Files : f # File(w) => db'[f] = db[f]
    BY <1>1, <1>2 DEF TypeInv, TypeOK
  <1>4. /\ pc'[w] = "idle"
        /\ \A v \in Workers : v # w => pc'[v] = pc[v] /\ msg'[v] = msg[v]
    BY <1>1, GotoEffect DEF Steps
  <1>5. \A v \in Workers : v # w => File(v)' = File(v)
    BY <1>4 DEF File
  <1>6. \A v \in Workers : pc[v] # "idle" => File(v) \in Files
    BY FileType
  <1>7. \A f \in Files : KeptOrWriting(f) => KeptOrWriting(f)'
    BY <1>1, <1>4, <1>5 DEF KeptOrWriting, Kept
  <1>8. FilesOnDisk'
    BY <1>1, <1>4, <1>5 DEF FilesOnDisk
  <1>9. RowsKept'
    BY <1>1, <1>3, <1>4, <1>5, <1>7 DEF RowsKept
  <1>10. HandledKept'
    BY <1>4, <1>5, <1>6, <1>7 DEF HandledKept
  <1>11. AcceptedFileKept'
    <2>1. \A m \in Acknowledged : Kind[m] = "queue" /\ Wanted(FileOf[m]) =>
             KeptOrWriting(FileOf[m])'
      BY <1>7, AcceptedIsKept, PipelineAssumption DEF TypeInv, TypeOK
    <2>. QED  BY <1>1, <2>1 DEF AcceptedFileKept, KeptOrWriting, Kept
  <1>. QED  BY <1>8, <1>9, <1>10, <1>11

(* Every call of processMessage.                                           *)
LEMMA KeptWorkerStep ==
    ASSUME KeptAssumption, TypeInv, ReadableInv, KeptInv, NEW w \in Workers,
           WorkerStep(w)
    PROVE  FilesOnDisk' /\ RowsKept' /\ HandledKept' /\ AcceptedFileKept'
  <1>1. CASE Record(w)
    BY <1>1, KeptRecord
  <1>2. CASE OpenACHFile(w)
    BY <1>2, KeptOpen
  <1>3. CASE FillACHFile(w)
    BY <1>3, KeptFill
  <1>4. CASE CleanupRecord(w)
    BY <1>4, KeptCleanup
  <1>5. CASE ~(Record(w) \/ OpenACHFile(w) \/ FillACHFile(w)
               \/ CleanupRecord(w))
    <2>. USE DEF KeptInv
    <2>1. PICK s \in Steps :
             /\ Goto(w, s) /\ pc[w] # "idle"
             /\ pc[w] \notin {"open", "fill", "undo"}
             /\ s \notin {"open", "fill", "undo", "opts"}
             /\ s = "ack" => pc[w] = "opts" \/ Kind[msg[w]] = "cancel"
             /\ Acknowledged' = Acknowledged \/ (pc[w] = "ack" /\ Acknowledged' = Acknowledged \cup {msg[w]})
      BY <1>5
      DEF WorkerStep, Ack, RecordFails, WriteValidateOpts, CancelRecord,
          CancelWithoutShard, LookForFile, ReplaceACHFile, RespondCancel,
          Steps, StepsOfKind
    <2>2. /\ pc'[w] = s /\ (s # "idle" => msg'[w] = msg[w])
          /\ \A v \in Workers : v # w => pc'[v] = pc[v] /\ msg'[v] = msg[v]
      BY <2>1, GotoEffect
    <2>3. msg[w] \in Messages /\ File(w) \in Files
      BY <2>1, FileType
    <2>4. \A v \in Workers : pc[v] # "idle" => File(v) \in Files
      BY FileType
    <2>5. UNCHANGED uploads
      BY WorkerStepCancels
    <2>6. /\ exists \subseteq exists'
          /\ \/ UNCHANGED ach
             \/ pc[w] = "replace" /\ ReplaceFile(File(w))
      BY <1>5
      DEF WorkerStep, Ack, RecordFails, WriteValidateOpts, CancelRecord,
          CancelWithoutShard, LookForFile, ReplaceACHFile, RespondCancel,
          WriteOpts, ReplaceFile
    <2>7. \A p \in Places : \A f \in Files :
             \/ ach'[p][f] = ach[p][f]
             \/ ach'[p][f] = "none" /\ ~Wanted(f)
      <3>1. CASE pc[w] = "replace" /\ ReplaceFile(File(w))
        <4>1. ~Wanted(File(w))
          BY <3>1, CancelIsUnwanted
        <4>. QED  BY <2>3, <3>1, <4>1, ReplaceFileEffect DEF TypeInv, TypeOK
      <3>. QED  BY <2>6, <3>1
    <2>8. \A f \in Files : Wanted(f) => db'[f] = db[f]
      <3>1. \/ UNCHANGED db
            \/ pc[w] = "cancel" /\ db' = [db EXCEPT ![File(w)] = "canceled"]
        BY <1>5
        DEF WorkerStep, Ack, RecordFails, WriteValidateOpts, CancelRecord,
            CancelWithoutShard, LookForFile, ReplaceACHFile, RespondCancel,
            Happens, KeptAssumption
      <3>2. pc[w] = "cancel" => ~Wanted(File(w))
        BY CancelIsUnwanted
      <3>. QED  BY <2>3, <3>1, <3>2 DEF TypeInv, TypeOK
    <2>9. \A v \in Workers :
             {pc[v], pc'[v]} \cap {"open", "fill", "undo"} # {} =>
                 pc'[v] = pc[v] /\ msg'[v] = msg[v]
      BY <2>1, <2>2
    <2>10. \A v \in Workers :
              pc'[v] \in {"opts", "ack"} /\ Kind[msg'[v]] = "queue" =>
                  /\ msg'[v] = msg[v] /\ File(v) \in Files
                  /\ Wanted(File(v)) => KeptOrWriting(File(v))
      BY <2>1, <2>2, <2>4 DEF HandledKept
    <2>11. \A m \in Acknowledged' :
              Kind[m] = "queue" /\ Wanted(FileOf[m]) =>
                  FileOf[m] \in Files /\ KeptOrWriting(FileOf[m])
      <3>1. \A m \in Acknowledged :
               Kind[m] = "queue" /\ Wanted(FileOf[m]) =>
                   FileOf[m] \in Files /\ KeptOrWriting(FileOf[m])
        BY AcceptedIsKept, PipelineAssumption DEF TypeInv, TypeOK
      <3>2. /\ pc[w] = "ack" /\ Kind[msg[w]] = "queue"
            /\ Wanted(FileOf[msg[w]])
            => FileOf[msg[w]] \in Files /\ KeptOrWriting(FileOf[msg[w]])
        BY <2>3 DEF HandledKept, File
      <3>. QED  BY <2>1, <3>1, <3>2
    <2>. QED
      BY <2>5, <2>6, <2>7, <2>8, <2>9, <2>10, <2>11, KeptHarmless
  <1>. QED  BY <1>1, <1>2, <1>3, <1>4, <1>5

(* Handing out a message.                                                  *)
LEMMA KeptReceive ==
    ASSUME KeptAssumption, TypeInv, KeptInv, NEW w \in Workers,
           NEW m \in Messages, Receive(w, m)
    PROVE  FilesOnDisk' /\ RowsKept' /\ HandledKept' /\ AcceptedFileKept'
  <1>. USE DEF KeptInv
  <1>1. /\ pc[w] = "idle" /\ pc'[w] = FirstStep(m)
        /\ FirstStep(m) # "idle" => msg'[w] = m
        /\ \A v \in Workers : v # w => pc'[v] = pc[v] /\ msg'[v] = msg[v]
        /\ UNCHANGED <<exists, ach, uploads, db>>
    BY DEF Receive, Handle, TypeInv, TypeOK
  <1>2. Acknowledged' = Acknowledged
    BY DEF Receive, KeptAssumption
  <1>3. /\ FirstStep(m) \notin {"open", "fill", "undo", "opts"}
        /\ FirstStep(m) = "ack" => Kind[m] # "queue"
    BY PipelineAssumption DEF FirstStep, Kinds
  <1>4. \A v \in Workers :
           {pc[v], pc'[v]} \cap {"open", "fill", "undo"} # {} =>
               pc'[v] = pc[v] /\ msg'[v] = msg[v]
    BY <1>1, <1>3
  <1>5. \A v \in Workers :
           pc'[v] \in {"opts", "ack"} /\ Kind[msg'[v]] = "queue" =>
               /\ msg'[v] = msg[v] /\ File(v) \in Files
               /\ Wanted(File(v)) => KeptOrWriting(File(v))
    <2>1. \A v \in Workers : pc[v] # "idle" => File(v) \in Files
      BY FileType
    <2>. QED  BY <1>1, <1>3, <2>1 DEF HandledKept
  <1>6. \A n \in Acknowledged : Kind[n] = "queue" /\ Wanted(FileOf[n]) =>
           FileOf[n] \in Files /\ KeptOrWriting(FileOf[n])
    BY AcceptedIsKept, PipelineAssumption DEF TypeInv, TypeOK
  <1>. QED  BY <1>1, <1>2, <1>4, <1>5, <1>6, KeptHarmless

(* Isolating the pending directory: its copies move to a directory that    *)
(* had none, and nobody is writing.                                        *)
LEMMA KeptIsolate ==
    ASSUME KeptAssumption, TypeInv, KeptInv, NEW d \in Dirs, StartCutoff(d)
    PROVE  FilesOnDisk' /\ RowsKept' /\ HandledKept' /\ AcceptedFileKept'
  <1>. USE DEF KeptInv
  <1>1. /\ \A v \in Workers : ~Writing(v)
        /\ UNCHANGED <<pc, msg, Acknowledged, db, uploads>>
        /\ UNCHANGED storageVars \/ ReplaceDir(d)
    BY DEF StartCutoff, IsolateMergableDir, KeptAssumption,
           ReadableAssumption
  <1>2. d \in Places /\ d # Mergable /\ Mergable \in Places
    BY StorageAssumption
  <1>3. \A v \in Workers : File(v)' = File(v) /\ pc'[v] # "fill"
    BY <1>1 DEF File, Writing
  <1>4. /\ \A p \in Places : \A f \in Files : ach[p][f] = "whole" =>
              \E q \in Places : ach'[q][f] = "whole"
        /\ \A p \in Places \ exists' : \A f \in Files : ach'[p][f] = "none"
    <2>1. CASE UNCHANGED storageVars
      BY <2>1 DEF FilesOnDisk
    <2>2. CASE ReplaceDir(d)
      <3>1. CASE UNCHANGED ach /\ exists' = exists \cup {d}
        BY <3>1 DEF FilesOnDisk
      <3>2. CASE /\ d \notin exists /\ ach'[d] = ach[Mergable]
                 /\ exists' = (exists \ {Mergable}) \cup {d}
                 /\ \A f \in Files : ach'[Mergable][f] = "none"
                 /\ \A p \in Places : p # d /\ p # Mergable => ach'[p] = ach[p]
        <4>1. \A f \in Files : ach[d][f] = "none"
          BY <1>2, <3>2 DEF FilesOnDisk
        <4>2. \A p \in Places : \A f \in Files : ach[p][f] = "whole" =>
                 \E q \in Places : ach'[q][f] = "whole"
          BY <1>2, <3>2, <4>1
        <4>3. \A p \in Places \ exists' : \A f \in Files :
                 ach'[p][f] = "none"
          BY <1>2, <3>2 DEF FilesOnDisk
        <4>. QED  BY <4>2, <4>3
      <3>. QED
        BY <2>2, <3>1, <3>2, ReplaceDirEffect DEF TypeInv, TypeOK
    <2>. QED  BY <1>1, <2>1, <2>2
  <1>5. \A f \in Files : KeptOrWriting(f) => KeptOrWriting(f)'
    BY <1>1, <1>4, KeptStable
  <1>6. FilesOnDisk'
    BY <1>3, <1>4 DEF FilesOnDisk
  <1>7. RowsKept'
    BY <1>1, <1>3, <1>5 DEF RowsKept
  <1>8. HandledKept'
    <2>1. \A v \in Workers : pc[v] # "idle" => File(v) \in Files
      BY FileType
    <2>. QED  BY <1>1, <1>3, <1>5, <2>1 DEF HandledKept
  <1>9. AcceptedFileKept'
    <2>1. \A m \in Acknowledged : Kind[m] = "queue" /\ Wanted(FileOf[m]) =>
             KeptOrWriting(FileOf[m])'
      BY <1>5, AcceptedIsKept, PipelineAssumption DEF TypeInv, TypeOK
    <2>. QED  BY <1>1, <2>1 DEF AcceptedFileKept, KeptOrWriting, Kept
  <1>. QED  BY <1>6, <1>7, <1>8, <1>9

(* Every step of the cutoff: a directory is removed only when no wanted    *)
(* file is in it.                                                          *)
LEMMA KeptCutoff ==
    ASSUME TypeInv, ReadableInv, KeptInv, Cutoff
    PROVE  FilesOnDisk' /\ RowsKept' /\ HandledKept' /\ AcceptedFileKept'
  <1>. USE DEF KeptInv
  <1>1. UNCHANGED <<pc, msg, Acknowledged, db>>
    BY DEF Cutoff
  <1>2. /\ UNCHANGED exists
        /\ UNCHANGED ach \/ (PrepareUploadedDir /\ files = {} /\ EmptyDir(cutDir))
    BY DEF Cutoff, CutoffStep, GetCanceledFiles, MergeDir,
           PrepareUploadedDir, RmdirAllFails, SaveMergedFile, SaveUploaded,
           BeginUploads, UploadFile, FindInputFilepaths, EmitFileUploaded,
           EndCutoff, EmptyDir
  <1>3. \A p \in Places : \A f \in Files :
           \/ ach'[p][f] = ach[p][f]
           \/ ach'[p][f] = "none" /\ ~Wanted(f)
    <2>1. CASE PrepareUploadedDir /\ files = {} /\ EmptyDir(cutDir)
      <3>1. cutDir \in Places /\ AcceptedFiles = {}
        BY <2>1
        DEF PrepareUploadedDir, ReadableInv, AllMerged, TypeInv, TypeOK,
            MergingTypeOK
      <3>2. \A f \in Files : Wanted(f) => ach[cutDir][f] = "none"
        BY <3>1 DEF AcceptedFiles, WantedIsNotCanceled
      <3>. QED  BY <2>1, <3>1, <3>2, EmptyDirEffect DEF TypeInv, TypeOK
    <2>. QED  BY <1>2, <2>1
  <1>4. \A f \in Files : uploads[f] > 0 => uploads'[f] > 0
    <2>1. UNCHANGED uploads \/ \E m \in todo : ReachesRemote(m)
      BY DEF Cutoff, CutoffStep, GetCanceledFiles, MergeDir,
             PrepareUploadedDir, RmdirAllFails, SaveMergedFile,
             BeginUploads, UploadFile, FindInputFilepaths,
             EmitFileUploaded, EndCutoff
    <2>. QED
      BY <2>1 DEF ReachesRemote, TypeInv, TypeOK, MergingTypeOK
  <1>5. \A v \in Workers :
           pc'[v] \in {"opts", "ack"} /\ Kind[msg'[v]] = "queue" =>
               /\ msg'[v] = msg[v] /\ File(v) \in Files
               /\ Wanted(File(v)) => KeptOrWriting(File(v))
    <2>1. \A v \in Workers : pc[v] # "idle" => File(v) \in Files
      BY FileType
    <2>. QED  BY <1>1, <2>1 DEF HandledKept
  <1>6. \A m \in Acknowledged' : Kind[m] = "queue" /\ Wanted(FileOf[m]) =>
           FileOf[m] \in Files /\ KeptOrWriting(FileOf[m])
    BY <1>1, AcceptedIsKept, PipelineAssumption DEF TypeInv, TypeOK
  <1>. QED
    BY <1>1, <1>2, <1>3, <1>4, <1>5, <1>6, KeptHarmless

(* Every step.                                                             *)
LEMMA KeptNext ==
    ASSUME KeptAssumption, TypeInv, ReadableInv, KeptInv, [Next]_vars
    PROVE  KeptInv'
  <1>. USE DEF KeptInv
  <1>1. ReadableAssumption
    BY DEF KeptAssumption
  <1>2. ASSUME NEW w \in Workers, NEW m \in Messages, Receive(w, m)
        PROVE  KeptInv'
    <2>1. WantedIsNotCanceled'
      BY <1>2 DEF Receive, WantedIsNotCanceled
    <2>. QED  BY <1>2, <2>1, ControlReceive, KeptReceive
  <1>3. ASSUME NEW w \in Workers, WorkerStep(w) PROVE KeptInv'
    BY <1>1, <1>3, ControlWorkerStep, WantedWorkerStep, KeptWorkerStep
  <1>4. ASSUME NEW d \in Dirs, StartCutoff(d) PROVE KeptInv'
    <2>1. StepsOfKind' /\ SoleHandler'
      BY <1>4 DEF StartCutoff, StepsOfKind, SoleHandler
    <2>. QED  BY <1>4, <2>1, WantedCutoff, KeptIsolate
  <1>5. CASE Cutoff
    <2>1. StepsOfKind' /\ SoleHandler'
      BY <1>5 DEF Cutoff, StepsOfKind, SoleHandler
    <2>. QED  BY <1>5, <2>1, WantedCutoff, KeptCutoff
  <1>6. ~MapFails /\ ~Crash
    BY <1>1
    DEF MapFails, BuildDirMappingFails, Crash, Happens, ReadableAssumption
  <1>7. CASE UNCHANGED vars
    BY <1>7
    DEF StepsOfKind, SoleHandler, WantedIsNotCanceled, FilesOnDisk,
        RowsKept, HandledKept, AcceptedFileKept, KeptOrWriting, Kept, File
  <1>8. ASSUME NEW m \in Messages, AckArrives(m) PROVE KeptInv'
    <2>1. Acknowledged' = Acknowledged /\ UNCHANGED <<pc, msg>>
      BY <1>8 DEF AckArrives
    <2>. QED
      BY <1>8, <2>1
      DEF AckArrives, StepsOfKind, SoleHandler, WantedIsNotCanceled,
          FilesOnDisk, RowsKept, HandledKept, AcceptedFileKept,
          KeptOrWriting, Kept, File
  <1>. QED
    BY <1>2, <1>3, <1>4, <1>5, <1>6, <1>7, <1>8 DEF Next, Quiet

(* What rows, workers and committed messages stand for is kept, always.    *)
THEOREM KeptInvariant ==
    ASSUME KeptAssumption
    PROVE  Spec => []KeptInv
  <1>1. ReadableAssumption
    BY DEF KeptAssumption
  <1>2. TypeInv /\ ReadableInv /\ KeptInv /\ [Next]_vars => KeptInv'
    BY KeptNext
  <1>. QED
    BY KeptInit, <1>1, <1>2, TypeCorrect, ReadableInvariant, PTL DEF Spec

(* A file whose message is committed, and which nobody cancels, has been   *)
(* uploaded, is whole on disk, or is being written.                        *)
THEOREM AcceptedFileKeptAlways ==
    ASSUME KeptAssumption
    PROVE  Spec => []AcceptedFileKept
  <1>1. KeptInv => AcceptedFileKept
    BY DEF KeptInv
  <1>. QED  BY KeptInvariant, <1>1, PTL

(***************************************************************************)
(* The same beside a cleanup service: CleanupInv.                          *)
(***************************************************************************)

(* Nothing is on disk, nothing is old.                                     *)
LEMMA CleanupInitInv == CleanupInit => CleanupInv
  BY DEF CleanupInit, Init, StorageInit, MergingInit, CleanupInv, OldIsPast,
         MergedIsUploaded, SavedMeansUploaded, Running

(* A step beside the cutoff that leaves the directories alone.             *)
LEMMA CleanupHarmless ==
    ASSUME TypeInv, CleanupInv,
           UNCHANGED <<mergingVars, uploaded, cleanupVars>>,
           \A d \in Dirs : ach'[d] = ach[d] /\ (d \in exists' <=> d \in exists)
    PROVE  CleanupInv'
  <1>1. cut # "idle" => cutDir \in Dirs
    BY DEF TypeInv, Bookkeeping, LocalsInOrder
  <1>2. OldIsPast'
    BY DEF CleanupInv, OldIsPast, Running
  <1>3. MergedIsUploaded'
    BY <1>1 DEF CleanupInv, MergedIsUploaded, AcceptedFiles
  <1>4. SavedMeansUploaded'
    BY DEF CleanupInv, SavedMeansUploaded, Running
  <1>. QED  BY <1>2, <1>3, <1>4 DEF CleanupInv

(* A worker makes the pending directory and no other.                      *)
LEMMA WorkerStepExists ==
    ASSUME NEW w \in Workers, WorkerStep(w)
    PROVE  /\ UNCHANGED uploaded
           /\ \A d \in Dirs : d \in exists' <=> d \in exists
  <1>1. UNCHANGED uploaded /\ (UNCHANGED exists \/ exists' = exists \cup {Mergable})
    BY DEF WorkerStep, Ack, RecordFails, Record, OpenACHFile, FillACHFile,
           WriteValidateOpts, CleanupRecord, CancelRecord,
           CancelWithoutShard, LookForFile, ReplaceACHFile, RespondCancel,
           CreateFile, FillFile, WriteOpts, ReplaceFile
  <1>2. Mergable \notin Dirs
    BY StorageAssumption
  <1>. QED  BY <1>1, <1>2

(* A cutoff begins in a directory that nobody has used.                    *)
LEMMA CleanupIsolate ==
    ASSUME CleanupAssumption, TypeInv, CleanupInv, UNCHANGED cleanupVars,
           NEW d \in Dirs, StartCutoff(d)
    PROVE  CleanupInv'
  <1>1. d = cutoffs + 1 /\ cut = "idle" /\ cutoffs \in Nat /\ d \in Nat
    BY StorageAssumption
    DEF StartCutoff, IsolateMergableDir, Timestamp, Happens,
        CleanupAssumption, TypeInv, TypeOK, MergingTypeOK
  <1>2. d \notin exists /\ uploaded[d] = {}
    BY <1>1 DEF CleanupInv, OldIsPast
  <1>3. /\ ReplaceDir(d) /\ cut' = "list" /\ cutDir' = d /\ cutoffs' = d
        /\ UNCHANGED <<uploads, uploaded>>
    BY <1>2
    DEF StartCutoff, IsolateMergableDir, ReplaceDirFails, ReplaceDir
  <1>4. /\ \A e \in Dirs : e # d => ach'[e] = ach[e]
        /\ \A e \in Dirs : e \in exists' <=> e \in exists \/ e = d
    BY <1>3, StorageAssumption, ReplaceDirEffect DEF TypeInv, TypeOK
  <1>5. OldIsPast'
    <2>1. old \subseteq Dirs \cap exists /\ d \notin old
      BY <1>2 DEF CleanupInv, OldIsPast
    <2>2. \A e \in Dirs : e > d => e \notin exists' /\ uploaded'[e] = {}
      BY <1>1, <1>3, <1>4 DEF CleanupInv, OldIsPast
    <2>. QED
      BY <1>1, <1>3, <1>4, <2>1, <2>2 DEF CleanupInv, OldIsPast, Running
  <1>6. MergedIsUploaded'
    BY <1>2, <1>3 DEF MergedIsUploaded
  <1>7. SavedMeansUploaded'
    BY <1>1, <1>2, <1>3, <1>4 DEF CleanupInv, SavedMeansUploaded, Running
  <1>. QED  BY <1>5, <1>6, <1>7 DEF CleanupInv

(* What a step of the cutoff may change.                                   *)
LEMMA CutoffEffect ==
    ASSUME TypeInv, Cutoff
    PROVE  /\ cut # "idle" /\ cutDir \in Dirs
           /\ UNCHANGED <<exists, cutoffs>>
           /\ cut' # "idle" => cutDir' = cutDir
           /\ \A d \in Dirs : d # cutDir =>
                 ach'[d] = ach[d] /\ uploaded'[d] = uploaded[d]
           /\ \A f \in Files : uploads[f] > 0 => uploads'[f] > 0
  <1>1. cut # "idle" /\ UNCHANGED <<exists, cutoffs>>
    BY DEF Cutoff, CutoffStep, GetCanceledFiles, MergeDir,
           PrepareUploadedDir, RmdirAllFails, SaveMergedFile, SaveUploaded,
           BeginUploads, UploadFile, FindInputFilepaths, EmitFileUploaded,
           EndCutoff, EmptyDir
  <1>2. cutDir \in Dirs
    BY <1>1 DEF TypeInv, Bookkeeping, LocalsInOrder
  <1>3. cut' # "idle" => cutDir' = cutDir
    BY DEF Cutoff, CutoffStep, GetCanceledFiles, MergeDir,
           PrepareUploadedDir, RmdirAllFails, SaveMergedFile,
           BeginUploads, UploadFile, FindInputFilepaths, EmitFileUploaded,
           EndCutoff, CutoffReturns
  <1>4. \/ UNCHANGED <<ach, uploaded>>
        \/ EmptyDir(cutDir)
        \/ \E m \in todo : SaveUploaded(cutDir, m)
    BY DEF Cutoff, CutoffStep, GetCanceledFiles, MergeDir,
           PrepareUploadedDir, RmdirAllFails, SaveMergedFile,
           BeginUploads, UploadFile, FindInputFilepaths, EmitFileUploaded,
           EndCutoff
  <1>5. \A d \in Dirs : d # cutDir =>
           ach'[d] = ach[d] /\ uploaded'[d] = uploaded[d]
    BY <1>4, StorageAssumption
    DEF EmptyDir, SaveUploaded, TypeInv, TypeOK, StorageTypeOK
  <1>6. UNCHANGED uploads \/ \E m \in todo : ReachesRemote(m)
    BY DEF Cutoff, CutoffStep, GetCanceledFiles, MergeDir,
           PrepareUploadedDir, RmdirAllFails, SaveMergedFile,
           BeginUploads, UploadFile, FindInputFilepaths,
           EmitFileUploaded, EndCutoff
  <1>7. \A f \in Files : uploads[f] > 0 => uploads'[f] > 0
    BY <1>6 DEF ReachesRemote, TypeInv, TypeOK, MergingTypeOK
  <1>. QED  BY <1>1, <1>2, <1>3, <1>5, <1>7

(* Every file that was accepted is merged, saved and uploaded.             *)
LEMMA CleanupMerged ==
    ASSUME CleanupAssumption, TypeInv, ReadableInv, MergedIsUploaded, Cutoff
    PROVE  MergedIsUploaded'
  <1>. USE DEF MergedIsUploaded
  <1>1. cut # "idle" /\ cutDir \in Places
    BY CutoffEffect, StorageAssumption
  <1>2. CASE cut' = "idle"
    BY <1>2
  <1>3. CASE GetCanceledFiles /\ cut' # "idle"
    BY <1>3 DEF GetCanceledFiles, CutoffReturns
  <1>4. CASE MergeDir
    BY <1>4 DEF MergeDir
  <1>5. CASE PrepareUploadedDir /\ cut' # "idle"
    <2>1. /\ cut' = "save" /\ UNCHANGED <<cutDir, canceledFiles, files>>
          /\ cut = "prepare"
      BY <1>5 DEF PrepareUploadedDir, CutoffReturns
    <2>2. UNION files = AcceptedFiles
      BY <2>1 DEF ReadableInv, AllMerged
    <2>3. CASE files = {}
      <3>1. EmptyDir(cutDir)
        BY <1>5, <2>3 DEF PrepareUploadedDir
      <3>2. \A f \in Files : ach'[cutDir][f] = "none"
        BY <1>1, <3>1, EmptyDirEffect DEF TypeInv, TypeOK
      <3>3. AcceptedFiles' = {}
        BY <2>1, <3>2 DEF AcceptedFiles
      <3>. QED  BY <2>1, <2>3, <3>3
    <2>4. CASE files # {}
      <3>1. UNCHANGED ach
        BY <1>5, <2>4 DEF PrepareUploadedDir
      <3>. QED  BY <2>1, <2>2, <3>1 DEF AcceptedFiles
    <2>. QED  BY <2>3, <2>4
  <1>6. CASE RmdirAllFails
    BY <1>6 DEF RmdirAllFails, ReadableInv, AllMerged, AcceptedFiles
  <1>7. ASSUME NEW m \in todo, SaveMergedFile(m) PROVE MergedIsUploaded'
    BY <1>7 DEF SaveMergedFile, SaveUploaded, AcceptedFiles
  <1>8. CASE BeginUploads
    BY <1>8 DEF BeginUploads, AcceptedFiles
  <1>9. ASSUME NEW m \in todo, UploadFile(m) PROVE MergedIsUploaded'
    <2>1. /\ ReachesRemote(m) /\ todo' = todo \ {m} /\ cut = "upload"
          /\ UNCHANGED <<storageVars, cut, cutDir, canceledFiles, files>>
      BY <1>9 DEF UploadFile, Happens, CleanupAssumption
    <2>2. m \subseteq Files /\ \A n \in files : n \subseteq Files
      BY DEF TypeInv, TypeOK, MergingTypeOK
    <2>3. \A f \in Files : /\ uploads[f] > 0 => uploads'[f] > 0
                           /\ f \in m => uploads'[f] > 0
      BY <2>1 DEF ReachesRemote, TypeInv, TypeOK, MergingTypeOK
    <2>. QED  BY <2>1, <2>2, <2>3 DEF AcceptedFiles
  <1>10. CASE FindInputFilepaths /\ cut' # "idle"
    BY <1>10 DEF FindInputFilepaths, CutoffReturns, AcceptedFiles
  <1>11. ASSUME NEW f \in inputs, EmitFileUploaded(f) PROVE MergedIsUploaded'
    BY <1>11 DEF EmitFileUploaded, AcceptedFiles
  <1>12. EndCutoff => cut' = "idle"
    BY DEF EndCutoff, CutoffReturns
  <1>. QED
    BY <1>2, <1>3, <1>4, <1>5, <1>6, <1>7, <1>8, <1>9, <1>10, <1>11, <1>12
    DEF Cutoff, CutoffStep

(* A cutoff that ends has uploaded what it leaves beside uploaded/, or has *)
(* nothing there.                                                          *)
LEMMA CleanupReturns ==
    ASSUME TypeInv, WantedIsNotCanceled, MergedIsUploaded, Cutoff,
           cut' = "idle", uploaded'[cutDir] # {}
    PROVE  \A f \in Files : Wanted(f) /\ ach'[cutDir][f] = "whole" =>
              uploads'[f] > 0
  <1>1. cut # "idle" /\ cutDir \in Places
    BY CutoffEffect, StorageAssumption
  <1>2. ~PrepareUploadedDir /\ ~GetCanceledFiles
    <2>1. ASSUME PrepareUploadedDir PROVE uploaded'[cutDir] = {}
      BY <1>1, <2>1
      DEF PrepareUploadedDir, EmptyDir, MergedIsUploaded, TypeInv, TypeOK,
          StorageTypeOK
    <2>2. ASSUME GetCanceledFiles PROVE uploaded'[cutDir] = {}
      BY <2>2 DEF GetCanceledFiles, MergedIsUploaded
    <2>. QED  BY <2>1, <2>2
  <1>3. FindInputFilepaths \/ EndCutoff
    BY <1>2
    DEF Cutoff, CutoffStep, MergeDir, RmdirAllFails, SaveMergedFile,
        BeginUploads, UploadFile, EmitFileUploaded
  <1>4. /\ UNION files = AcceptedFiles /\ UNCHANGED <<ach, uploads>>
        /\ \A m \in files : \A f \in m : uploads[f] > 0
    BY <1>3 DEF FindInputFilepaths, EndCutoff, MergedIsUploaded
  <1>5. \A f \in Files : Wanted(f) /\ ach[cutDir][f] = "whole" =>
           f \in AcceptedFiles
    BY DEF AcceptedFiles, WantedIsNotCanceled
  <1>. QED  BY <1>4, <1>5

(* Every step of the cutoff.                                               *)
LEMMA CleanupCutoff ==
    ASSUME CleanupAssumption, TypeInv, ReadableInv, WantedIsNotCanceled,
           CleanupInv, UNCHANGED cleanupVars, Cutoff
    PROVE  CleanupInv'
  <1>. USE DEF CleanupInv
  <1>1. /\ cut # "idle" /\ cutDir \in Dirs
        /\ UNCHANGED <<exists, cutoffs>>
        /\ cut' # "idle" => cutDir' = cutDir
        /\ \A d \in Dirs : d # cutDir =>
              ach'[d] = ach[d] /\ uploaded'[d] = uploaded[d]
        /\ \A f \in Files : uploads[f] > 0 => uploads'[f] > 0
    BY CutoffEffect
  <1>2. OldIsPast'
    <2>1. cutDir \in Nat /\ cutoffs \in Nat /\ cutDir <= cutoffs
      BY <1>1, StorageAssumption DEF OldIsPast, TypeInv, TypeOK, MergingTypeOK
    <2>2. \A d \in Dirs : d > cutoffs => d # cutDir
      BY <2>1
    <2>. QED  BY <1>1, <2>1, <2>2 DEF OldIsPast, Running
  <1>3. MergedIsUploaded'
    BY CleanupMerged
  <1>4. SavedMeansUploaded'
    <2>. SUFFICES ASSUME NEW d \in Dirs, uploaded'[d] # {}, ~Running(d)',
                         NEW f \in Files, Wanted(f), ach'[d][f] = "whole"
                  PROVE  uploads'[f] > 0
      BY DEF SavedMeansUploaded, Wanted
    <2>1. CASE d # cutDir
      BY <1>1, <2>1 DEF SavedMeansUploaded, Running
    <2>2. CASE d = cutDir
      <3>1. cut' = "idle"
        BY <1>1, <2>2 DEF Running
      <3>. QED  BY <2>2, <3>1, CleanupReturns
    <2>. QED  BY <2>1, <2>2
  <1>. QED  BY <1>2, <1>3, <1>4

(* Every step of the pipeline.                                             *)
LEMMA CleanupPipelineStep ==
    ASSUME CleanupAssumption, TypeInv, ReadableInv, KeptInv, CleanupInv,
           PipelineStep
    PROVE  CleanupInv'
  <1>1. ~MapFails /\ ~Crash
    BY DEF MapFails, BuildDirMappingFails, Crash, Happens, CleanupAssumption,
           KeptAssumption, ReadableAssumption
  <1>2. UNCHANGED cleanupVars
    BY <1>1 DEF PipelineStep, Dies
  <1>3. ASSUME NEW w \in Workers, NEW m \in Messages, Receive(w, m)
        PROVE  CleanupInv'
    BY <1>2, <1>3, CleanupHarmless DEF Receive
  <1>4. ASSUME NEW w \in Workers, WorkerStep(w) PROVE CleanupInv'
    <2>1. UNCHANGED mergingVars /\ \A d \in Dirs : ach'[d] = ach[d]
      BY <1>4, WorkerStepCancels, WorkerStepDirs
      DEF ReadableInv, ReadableOrWriting
    <2>. QED  BY <1>2, <1>4, <2>1, WorkerStepExists, CleanupHarmless
  <1>5. ASSUME NEW d \in Dirs, StartCutoff(d) PROVE CleanupInv'
    BY <1>2, <1>5, CleanupIsolate
  <1>6. CASE Cutoff
    BY <1>2, <1>6, CleanupCutoff DEF KeptInv
  <1>7. CASE Quiet
    BY <1>2, <1>7, CleanupHarmless DEF Quiet
  <1>8. ASSUME NEW m \in Messages, AckArrives(m) PROVE CleanupInv'
    BY <1>2, <1>8, CleanupHarmless DEF AckArrives
  <1>. QED
    BY <1>1, <1>3, <1>4, <1>5, <1>6, <1>7, <1>8 DEF PipelineStep, Next

(* What DeleteDirectory removes is the directory of a past cutoff.         *)
LEMMA DeletesPast ==
    ASSUME CleanupInv, DeleteDirectory
    PROVE  /\ checked \in Dirs /\ checked \in Places /\ checked # Mergable
           /\ ~Running(checked) /\ uploaded[checked] # {}
  <1>1. checked # Mergable
    BY DEF DeleteDirectory
  <1>2. checked \in old /\ uploaded[checked] # {}
    BY <1>1 DEF CleanupInv, OldIsPast
  <1>3. \A d \in old : d \in Dirs /\ ~Running(d)
    BY DEF CleanupInv, OldIsPast
  <1>. QED  BY <1>1, <1>2, <1>3, StorageAssumption

LEMMA DeleteEffect ==
    ASSUME TypeInv, CleanupInv, DeleteDirectory, UNCHANGED adverse
    PROVE  /\ checked \in Dirs /\ checked \in Places /\ checked # Mergable
           /\ ~Running(checked)
           /\ exists' = exists \ {checked} /\ old' = old \ {checked}
           /\ checked' = Mergable
           /\ UNCHANGED <<mergingVars, receiverVars>>
           /\ \A f \in Files : ach'[checked][f] = "none"
           /\ canceled'[checked] = {} /\ uploaded'[checked] = {}
           /\ \A p \in Places : p # checked =>
                 /\ ach'[p] = ach[p] /\ opts'[p] = opts[p]
                 /\ canceled'[p] = canceled[p] /\ uploaded'[p] = uploaded[p]
  <1>1. /\ checked \in Dirs /\ checked \in Places /\ checked # Mergable
        /\ ~Running(checked)
    BY DeletesPast
  <1>2. /\ exists' = exists \ {checked} /\ old' = old \ {checked}
        /\ checked' = Mergable
        /\ UNCHANGED <<mergingVars, receiverVars>>
        /\ ach' = [ach EXCEPT ![checked] = [f \in Files |-> "none"]]
        /\ opts' = [opts EXCEPT ![checked] = {}]
        /\ canceled' = [canceled EXCEPT ![checked] = {}]
        /\ uploaded' = [uploaded EXCEPT ![checked] = {}]
    BY DEF DeleteDirectory, Happens, TypeInv, TypeOK, StorageTypeOK
  <1>3. /\ ach \in [Places -> [Files -> Content]]
        /\ opts \in [Places -> SUBSET Files]
        /\ canceled \in [Places -> SUBSET Files]
        /\ uploaded \in [Places -> SUBSET SUBSET Files]
    BY DEF TypeInv, TypeOK, StorageTypeOK
  <1>4. /\ \A f \in Files : ach'[checked][f] = "none"
        /\ \A p \in Places : p # checked => ach'[p] = ach[p]
    BY <1>1, <1>2, <1>3
  <1>5. \A p \in Places : p # checked => opts'[p] = opts[p]
    BY <1>1, <1>2, <1>3
  <1>6. /\ canceled'[checked] = {}
        /\ \A p \in Places : p # checked => canceled'[p] = canceled[p]
    BY <1>1, <1>2, <1>3
  <1>7. /\ uploaded'[checked] = {}
        /\ \A p \in Places : p # checked => uploaded'[p] = uploaded[p]
    BY <1>1, <1>2, <1>3
  <1>. QED  BY <1>1, <1>2, <1>4, <1>5, <1>6, <1>7

LEMMA DeleteType ==
    ASSUME TypeInv, CleanupInv, DeleteDirectory
    PROVE  TypeInv'
  <1>1. UNCHANGED <<mergingVars, receiverVars>>
    BY DEF DeleteDirectory
  <1>2. checked \in Places
    BY DeletesPast
  <1>3. StorageTypeOK'
    <2>1. CASE Happens("rmdir") /\ UNCHANGED storageVars
      BY <2>1, HappensType DEF TypeInv, TypeOK, StorageTypeOK
    <2>2. CASE ~(Happens("rmdir") /\ UNCHANGED storageVars)
      <3>1. /\ exists' = exists \ {checked} /\ UNCHANGED adverse
            /\ ach' = [ach EXCEPT ![checked] = [f \in Files |-> "none"]]
            /\ opts' = [opts EXCEPT ![checked] = {}]
            /\ canceled' = [canceled EXCEPT ![checked] = {}]
            /\ uploaded' = [uploaded EXCEPT ![checked] = {}]
        BY <2>2 DEF DeleteDirectory
      <3>. QED  BY <1>2, <3>1 DEF TypeInv, TypeOK, StorageTypeOK
    <2>. QED  BY <2>1, <2>2
  <1>. QED
    BY <1>1, <1>3
    DEF TypeInv, TypeOK, MergingTypeOK, Bookkeeping, BusyHasMessage,
        LocalsInOrder

LEMMA DeleteReadable ==
    ASSUME TypeInv, ReadableInv, CleanupInv, DeleteDirectory,
           UNCHANGED adverse
    PROVE  ReadableInv'
  <1>1. /\ checked \in Dirs /\ ~Running(checked)
        /\ UNCHANGED <<mergingVars, receiverVars>>
        /\ \A f \in Files : ach'[checked][f] = "none"
        /\ \A p \in Places : p # checked =>
              ach'[p] = ach[p] /\ opts'[p] = opts[p]
    BY DeleteEffect
  <1>2. ReadableOrWriting'
    BY <1>1, ReadableHarmless DEF ReadableInv
  <1>3. AllMerged'
    <2>1. cut = "prepare" => cutDir \in Places /\ cutDir # checked
      BY <1>1, StorageAssumption DEF Running, TypeInv, TypeOK, MergingTypeOK
    <2>. QED  BY <1>1, <2>1 DEF ReadableInv, AllMerged, AcceptedFiles
  <1>. QED  BY <1>2, <1>3 DEF ReadableInv

(* What is removed was uploaded, if anybody wants it.                      *)
LEMMA DeleteKept ==
    ASSUME TypeInv, KeptInv, CleanupInv, DeleteDirectory, UNCHANGED adverse
    PROVE  KeptInv'
  <1>. USE DEF KeptInv
  <1>1. /\ checked \in Dirs /\ checked \in Places /\ checked # Mergable
        /\ ~Running(checked)
        /\ exists' = exists \ {checked}
        /\ UNCHANGED <<uploads, canceledFiles, pc, msg, Acknowledged, db>>
        /\ \A f \in Files : ach'[checked][f] = "none"
        /\ canceled'[checked] = {}
        /\ \A p \in Places : p # checked =>
              ach'[p] = ach[p] /\ canceled'[p] = canceled[p]
    BY DeleteEffect
  <1>2. \A v \in Workers : File(v)' = File(v)
    BY <1>1 DEF File
  <1>3. \A f \in Files : Wanted(f) /\ ach[checked][f] = "whole" => uploads[f] > 0
    BY <1>1, DeletesPast DEF CleanupInv, SavedMeansUploaded
  <1>4. \A f \in Files : Wanted(f) /\ KeptOrWriting(f) => KeptOrWriting(f)'
    BY <1>1, <1>2, <1>3 DEF KeptOrWriting, Kept
  <1>5. \A v \in Workers : pc[v] # "idle" => File(v) \in Files
    BY FileType
  <1>6. StepsOfKind' /\ SoleHandler'
    BY <1>1 DEF StepsOfKind, SoleHandler
  <1>7. WantedIsNotCanceled'
    BY <1>1 DEF WantedIsNotCanceled
  <1>8. FilesOnDisk'
    <2>1. Mergable \in Places
      BY StorageAssumption
    <2>. QED  BY <1>1, <1>2, <2>1 DEF FilesOnDisk
  <1>9. RowsKept'
    BY <1>1, <1>2, <1>4 DEF RowsKept
  <1>10. HandledKept'
    BY <1>1, <1>2, <1>4, <1>5 DEF HandledKept
  <1>11. AcceptedFileKept'
    <2>1. \A m \in Acknowledged : Kind[m] = "queue" /\ Wanted(FileOf[m]) =>
             KeptOrWriting(FileOf[m])'
      BY <1>4, AcceptedIsKept, PipelineAssumption DEF TypeInv, TypeOK
    <2>. QED  BY <1>1, <2>1 DEF AcceptedFileKept, KeptOrWriting, Kept
  <1>. QED  BY <1>6, <1>7, <1>8, <1>9, <1>10, <1>11

LEMMA DeleteCleanup ==
    ASSUME TypeInv, CleanupInv, DeleteDirectory, UNCHANGED adverse
    PROVE  CleanupInv'
  <1>. USE DEF CleanupInv
  <1>1. /\ checked \in Dirs /\ checked \in Places /\ checked # Mergable
        /\ ~Running(checked)
        /\ exists' = exists \ {checked} /\ old' = old \ {checked}
        /\ checked' = Mergable
        /\ UNCHANGED mergingVars
        /\ uploaded'[checked] = {}
        /\ \A p \in Places : p # checked =>
              ach'[p] = ach[p] /\ uploaded'[p] = uploaded[p]
    BY DeleteEffect
  <1>2. Dirs \subseteq Places /\ (cut # "idle" => cutDir \in Dirs /\ cutDir # checked)
    BY <1>1, StorageAssumption
    DEF Running, TypeInv, Bookkeeping, LocalsInOrder
  <1>3. OldIsPast'
    BY <1>1, <1>2 DEF OldIsPast, Running
  <1>4. MergedIsUploaded'
    BY <1>1, <1>2 DEF MergedIsUploaded, AcceptedFiles
  <1>5. SavedMeansUploaded'
    BY <1>1, <1>2 DEF SavedMeansUploaded, Running
  <1>. QED  BY <1>3, <1>4, <1>5

(* Every step, of the pipeline or of the cleanup service.                  *)
CleanupSafe == TypeInv /\ ReadableInv /\ KeptInv /\ CleanupInv

LEMMA CleanupNextInv ==
    ASSUME CleanupAssumption, CleanupSafe, [CleanupNext]_allVars
    PROVE  CleanupSafe'
  <1>. USE DEF CleanupSafe
  <1>1. KeptAssumption /\ ReadableAssumption
    BY DEF CleanupAssumption, KeptAssumption
  <1>2. [Next]_vars => TypeInv' /\ ReadableInv' /\ KeptInv'
    BY <1>1, TypeNext, ReadableNext, KeptNext
  <1>3. CASE PipelineStep
    BY <1>2, <1>3, CleanupPipelineStep DEF PipelineStep
  <1>4. ASSUME NEW d \in Dirs, GetsOld(d) PROVE CleanupSafe'
    <2>1. UNCHANGED vars /\ checked' = checked /\ old' = old \cup {d}
      BY <1>4 DEF GetsOld
    <2>2. OldIsPast'
      BY <1>4, <2>1 DEF GetsOld, CleanupInv, OldIsPast, Running
    <2>3. MergedIsUploaded' /\ SavedMeansUploaded'
      BY <2>1
      DEF CleanupInv, MergedIsUploaded, SavedMeansUploaded, Running,
          AcceptedFiles
    <2>. QED  BY <1>2, <2>1, <2>2, <2>3 DEF CleanupInv
  <1>5. ASSUME NEW d \in Dirs, CheckDirectory(d) PROVE CleanupSafe'
    <2>1. /\ UNCHANGED <<vars, old>> /\ checked' = d
          /\ d \in old /\ uploaded[d] # {}
      BY <1>5 DEF CheckDirectory, shouldDeleteDirectory
    <2>2. OldIsPast'
      BY <2>1 DEF CleanupInv, OldIsPast, Running
    <2>3. MergedIsUploaded' /\ SavedMeansUploaded'
      BY <2>1
      DEF CleanupInv, MergedIsUploaded, SavedMeansUploaded, Running,
          AcceptedFiles
    <2>. QED  BY <1>2, <2>1, <2>2, <2>3 DEF CleanupInv
  <1>6. CASE DeleteDirectory /\ UNCHANGED adverse
    BY <1>6, DeleteType, DeleteReadable, DeleteKept, DeleteCleanup
  <1>7. CASE DeleteDirectory /\ ~UNCHANGED adverse
    <2>1. /\ UNCHANGED <<storageVars, mergingVars, receiverVars, old>>
          /\ checked' = Mergable
      BY <1>7 DEF DeleteDirectory
    <2>2. TypeInv'
      BY <1>7, DeleteType
    <2>3. ReadableInv'
      BY <2>1, ReadableHarmless, AllMergedKept DEF ReadableInv
    <2>4. KeptInv'
      BY <2>1
      DEF KeptInv, StepsOfKind, SoleHandler, WantedIsNotCanceled,
          FilesOnDisk, RowsKept, HandledKept, AcceptedFileKept,
          KeptOrWriting, Kept, File
    <2>5. CleanupInv'
      BY <2>1
      DEF CleanupInv, OldIsPast, MergedIsUploaded, SavedMeansUploaded,
          Running, AcceptedFiles
    <2>. QED  BY <2>2, <2>3, <2>4, <2>5
  <1>8. CASE UNCHANGED allVars
    <2>1. TypeInv' /\ ReadableInv' /\ KeptInv'
      BY <1>2, <1>8
    <2>. QED  BY <1>8, <2>1, CleanupHarmless
  <1>. QED
    BY <1>3, <1>4, <1>5, <1>6, <1>7, <1>8 DEF CleanupNext

(* Beside a cleanup service too nothing accepted is lost: the directories  *)
(* runCleanup removes are those of past cutoffs that uploaded every wanted *)
(* file in them (cleanup.go:142-320), as long as no upload fails.           *)
THEOREM KeptDespiteCleanup ==
    ASSUME CleanupAssumption
    PROVE  CleanupSpec => []AcceptedFileKept
  <1>1. CleanupInit => CleanupSafe
    BY TypeInit, ReadableInit, KeptInit, CleanupInitInv
    DEF CleanupInit, CleanupSafe
  <1>2. CleanupSafe /\ [CleanupNext]_allVars => CleanupSafe'
    BY CleanupNextInv
  <1>3. CleanupSafe => AcceptedFileKept
    BY DEF CleanupSafe, KeptInv
  <1>. QED  BY <1>1, <1>2, <1>3, PTL DEF CleanupSpec
=============================================================================
