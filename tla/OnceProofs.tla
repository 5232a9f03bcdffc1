----------------------------- MODULE OnceProofs -----------------------------
(***************************************************************************)
(* No file is uploaded twice (UploadedOnce), for every set of files,       *)
(* workers and messages, under OnceAssumption.  The argument, OnceInv: the *)
(* row of the files table is a lock, whose holder alone can make the one   *)
(* whole copy of a file; a cutoff moves the copy to a directory no other   *)
(* cutoff uses; and what a cutoff still has to send was never sent.        *)
(***************************************************************************)
EXTENDS FilePipelineProofs

USE DEF storageVars, localVars, eventVars, mergingVars, workerVars,
        receiverVars, vars,
        Mergable, Dirs, Places, Content,
        CanceledIn, SendAck, DuplicateStep, NotAccepted,
        OptsError

(* Nothing has happened yet.                                               *)
LEMMA OnceInit == Init => OnceInv
  <1>. SUFFICES ASSUME Init PROVE OnceInv
    OBVIOUS
  <1>1. \A p \in Places : \A f \in Files : ach[p][f] = "none"
    BY DEF Init, StorageInit
  <1>2. \A f \in Files : uploads[f] = 0
    BY DEF Init, MergingInit
  <1>3. RowIsLock
    BY <1>1, <1>2 DEF Init, RowIsLock, Owner, Unwritten
  <1>4. OneCopy
    BY <1>1 DEF OneCopy
  <1>5. UnsentIsUnsent
    BY <1>2 DEF Init, MergingInit, UnsentIsUnsent
  <1>. QED  BY <1>2, <1>3, <1>4, <1>5 DEF OnceInv, UploadedOnce

(* A step of the receiver that makes no whole copy, touches no isolated    *)
(* directory and no row, and gives nobody a file to write.                 *)
LEMMA OnceHarmless ==
    ASSUME TypeInv, OnceInv, UNCHANGED <<db, mergingVars>>,
           \A p \in Places : \A f \in Files :
               ach'[p][f] = "whole" => ach[p][f] = "whole",
           \A d \in Dirs : ach'[d] = ach[d],
           \A v \in Workers : Owner(v)' => Owner(v) /\ msg'[v] = msg[v]
    PROVE  OnceInv'
  <1>1. \A f \in Files : Unwritten(f) => Unwritten(f)'
    BY DEF Unwritten
  <1>2. \A v \in Workers : Owner(v)' => File(v)' = File(v)
    BY DEF File
  <1>3. \A v \in Workers : Owner(v) => File(v) \in Files
    BY FileType DEF Owner
  <1>4. RowIsLock'
    BY <1>1, <1>2, <1>3 DEF OnceInv, RowIsLock
  <1>5. OneCopy'
    BY DEF OnceInv, OneCopy
  <1>6. UnsentIsUnsent'
    <2>1. cut # "idle" => cutDir \in Dirs
      BY DEF TypeInv, Bookkeeping, LocalsInOrder
    <2>. QED  BY <2>1, StorageAssumption DEF OnceInv, UnsentIsUnsent
  <1>7. UploadedOnce'
    BY DEF OnceInv, UploadedOnce
  <1>. QED  BY <1>4, <1>5, <1>6, <1>7 DEF OnceInv

(* A step of the receiver that leaves the disk alone keeps all but         *)
(* RowIsLock.                                                              *)
LEMMA OnceRow ==
    ASSUME OnceInv, UNCHANGED <<ach, mergingVars>>, RowIsLock'
    PROVE  OnceInv'
  BY DEF OnceInv, OneCopy, UnsentIsUnsent, UploadedOnce

(* Record: the winner finds no row, so nobody else owns the file and no    *)
(* copy of it exists.                                                      *)
LEMMA OnceRecord ==
    ASSUME TypeInv, OnceInv, OnceAssumption, NEW w \in Workers,
           pc[w] = "record", db[File(w)] = "none",
           db' = [db EXCEPT ![File(w)] = "accepted"],
           Goto(w, "open") \/ Goto(w, "idle"),
           UNCHANGED <<ach, mergingVars>>
    PROVE  OnceInv'
  <1>1. File(w) \in Files
    BY FileType
  <1>2. \A v \in Workers : Owner(v) => File(v) \in Files /\ File(v) # File(w)
    BY FileType DEF OnceInv, RowIsLock, Owner
  <1>3. /\ pc'[w] = "open" => msg'[w] = msg[w]
        /\ pc'[w] \in {"open", "idle"}
        /\ \A v \in Workers : v # w => pc'[v] = pc[v] /\ msg'[v] = msg[v]
    BY GotoEffect DEF Steps
  <1>4. \A v \in Workers : Owner(v)' =>
           /\ File(v)' = File(v)
           /\ v = w \/ Owner(v)
    BY <1>3 DEF Owner, File
  <1>5. \A f \in Files : Unwritten(f) => Unwritten(f)'
    BY DEF Unwritten
  <1>6. db'[File(w)] = "accepted"
        /\ \A f \in Files : f # File(w) => db'[f] = db[f]
    BY <1>1 DEF TypeInv, TypeOK
  <1>7. RowIsLock'
    BY <1>1, <1>2, <1>4, <1>5, <1>6 DEF OnceInv, RowIsLock
  <1>. QED  BY <1>7, OnceRow

(* Cleanup: the row goes with its owner, who wrote nothing.                *)
LEMMA OnceCleanup ==
    ASSUME TypeInv, OnceInv, NEW w \in Workers,
           pc[w] = "undo", Goto(w, "idle"),
           db' = [db EXCEPT ![File(w)] = "none"],
           UNCHANGED <<ach, mergingVars>>
    PROVE  OnceInv'
  <1>1. File(w) \in Files /\ Unwritten(File(w))
    BY FileType DEF OnceInv, RowIsLock, Owner
  <1>2. /\ pc'[w] = "idle"
        /\ \A v \in Workers : v # w => pc'[v] = pc[v] /\ msg'[v] = msg[v]
    BY GotoEffect DEF Steps
  <1>3. \A v \in Workers : Owner(v)' =>
           Owner(v) /\ File(v)' = File(v) /\ v # w
    BY <1>2 DEF Owner, File
  <1>4. \A v \in Workers : Owner(v) /\ v # w =>
           File(v) \in Files /\ File(v) # File(w)
    BY FileType DEF OnceInv, RowIsLock, Owner
  <1>5. \A f \in Files : Unwritten(f) => Unwritten(f)'
    BY DEF Unwritten
  <1>6. db'[File(w)] = "none"
        /\ \A f \in Files : f # File(w) => db'[f] = db[f]
    BY <1>1 DEF TypeInv, TypeOK
  <1>7. RowIsLock'
    BY <1>1, <1>3, <1>4, <1>5, <1>6 DEF OnceInv, RowIsLock
  <1>. QED  BY <1>7, OnceRow

(* Cancel: a row that is there stays there.                                *)
LEMMA OnceCancel ==
    ASSUME TypeInv, OnceInv, NEW w \in Workers,
           pc[w] = "cancel", db[File(w)] # "none", Goto(w, "look"),
           db' = [db EXCEPT ![File(w)] = "canceled"],
           UNCHANGED <<ach, mergingVars>>
    PROVE  OnceInv'
  <1>1. File(w) \in Files
    BY FileType
  <1>2. /\ pc'[w] = "look"
        /\ \A v \in Workers : v # w => pc'[v] = pc[v] /\ msg'[v] = msg[v]
    BY GotoEffect DEF Steps
  <1>3. \A v \in Workers : Owner(v)' => Owner(v) /\ File(v)' = File(v)
    BY <1>2 DEF Owner, File
  <1>4. \A v \in Workers : Owner(v) => File(v) \in Files
    BY FileType DEF Owner
  <1>5. \A f \in Files : Unwritten(f) => Unwritten(f)'
    BY DEF Unwritten
  <1>6. \A f \in Files : db'[f] = "none" <=> db[f] = "none"
    BY <1>1 DEF TypeInv, TypeOK
  <1>7. RowIsLock'
    BY <1>3, <1>4, <1>5, <1>6 DEF OnceInv, RowIsLock
  <1>. QED  BY <1>7, OnceRow

(* Filling the file: its owner makes the one whole copy and gives up the   *)
(* right to make another.                                                  *)
LEMMA OnceFill ==
    ASSUME TypeInv, OnceInv, NEW w \in Workers,
           pc[w] = "fill", Goto(w, "opts"), FillFile(fd[w], File(w)),
           UNCHANGED <<db, mergingVars>>
    PROVE  OnceInv'
  <1>. DEFINE F == File(w)
              P == fd[w]
  <1>1. F \in Files /\ P \in Places
    BY FileType DEF TypeInv, TypeOK
  <1>2. /\ db[F] # "none" /\ uploads[F] = 0
        /\ \A p \in Places : ach[p][F] # "whole"
    BY DEF OnceInv, RowIsLock, Owner, Unwritten
  <1>3. /\ pc'[w] = "opts"
        /\ \A v \in Workers : v # w => pc'[v] = pc[v] /\ msg'[v] = msg[v]
    BY GotoEffect DEF Steps
  <1>4. \A p \in Places : \A f \in Files :
           /\ f # F \/ p # P => ach'[p][f] = ach[p][f]
           /\ ach[p][f] = "none" => ach'[p][f] = "none"
           /\ ach[p][f] = "whole" => ach'[p][f] = "whole"
    BY <1>1 DEF FillFile, TypeInv, TypeOK, StorageTypeOK
  <1>5. RowIsLock'
    <2>1. \A v \in Workers : Owner(v)' =>
             Owner(v) /\ File(v)' = File(v) /\ v # w
      BY <1>3 DEF Owner, File
    <2>2. \A v \in Workers : Owner(v) /\ v # w =>
             File(v) \in Files /\ File(v) # F
      BY FileType DEF OnceInv, RowIsLock, Owner
    <2>3. \A f \in Files : f # F /\ Unwritten(f) => Unwritten(f)'
      BY <1>4 DEF Unwritten
    <2>. QED  BY <1>2, <2>1, <2>2, <2>3 DEF OnceInv, RowIsLock
  <1>6. OneCopy'
    <2>1. \A f \in Files : \A p, q \in Places :
             ach'[p][f] = "whole" /\ ach'[q][f] = "whole" => p = q
      <3>. SUFFICES ASSUME NEW f \in Files, NEW p \in Places,
                           NEW q \in Places,
                           ach'[p][f] = "whole", ach'[q][f] = "whole"
                    PROVE  p = q
        OBVIOUS
      <3>1. CASE f = F
        BY <1>2, <1>4, <3>1
      <3>2. CASE f # F
        BY <1>4, <3>2 DEF OnceInv, OneCopy
      <3>. QED  BY <3>1, <3>2
    <2>2. \A d \in Dirs : d > cutoffs => \A f \in Files : ach'[d][f] = "none"
      BY <1>4, StorageAssumption DEF OnceInv, OneCopy
    <2>. QED  BY <2>1, <2>2 DEF OneCopy
  <1>7. UnsentIsUnsent'
    <2>1. \A p \in Places : \A f \in Files :
             /\ ach[p][f] = "whole" => uploads[f] = 0
             => (ach'[p][f] = "whole" => uploads[f] = 0)
      BY <1>2, <1>4
    <2>2. cutDir \in Places /\ Mergable \in Places
      BY StorageAssumption DEF TypeInv, TypeOK, MergingTypeOK
    <2>3. \A m \in files : m \subseteq Files
      BY DEF TypeInv, TypeOK, MergingTypeOK
    <2>4. todo \subseteq files
      BY DEF TypeInv, Bookkeeping, LocalsInOrder
    <2>. QED
      BY <1>4, <2>1, <2>2, <2>3, <2>4 DEF OnceInv, UnsentIsUnsent
  <1>8. UploadedOnce'
    BY DEF OnceInv, UploadedOnce
  <1>. QED  BY <1>5, <1>6, <1>7, <1>8 DEF OnceInv

(* Every call of processMessage.                                           *)
LEMMA OnceWorkerStep ==
    ASSUME TypeInv, OnceInv, OnceAssumption, NEW w \in Workers, WorkerStep(w)
    PROVE  OnceInv'
  <1>1. pc[w] # "idle" => File(w) \in Files
    BY FileType
  <1>2. \A s \in Steps : Goto(w, s) =>
           /\ pc'[w] = s
           /\ s # "idle" => msg'[w] = msg[w]
           /\ \A v \in Workers : v # w => pc'[v] = pc[v] /\ msg'[v] = msg[v]
    BY GotoEffect
  <1>3. \A s \in Steps :
           /\ Goto(w, s)
           /\ s \in {"open", "fill", "undo"} => Owner(w)
           => \A v \in Workers : Owner(v)' => Owner(v) /\ msg'[v] = msg[v]
    BY <1>2 DEF Owner
  <1>4. /\ "idle" \in Steps /\ "open" \in Steps /\ "fill" \in Steps
        /\ "opts" \in Steps /\ "undo" \in Steps /\ "ack" \in Steps
        /\ "look" \in Steps /\ "replace" \in Steps
        /\ "cancelRespond" \in Steps
    BY DEF Steps
  <1>5. Mergable \notin Dirs /\ Dirs \subseteq Places
    BY StorageAssumption
  <1>6. CASE Ack(w)
    BY <1>3, <1>4, <1>6, OnceHarmless DEF Ack
  <1>7. CASE RecordFails(w)
    <2>1. CASE UNCHANGED db
      BY <1>3, <1>4, <1>7, <2>1, OnceHarmless DEF RecordFails
    <2>2. CASE /\ db[File(w)] = "none"
               /\ db' = [db EXCEPT ![File(w)] = "accepted"]
      BY <1>7, <2>2, OnceRecord DEF RecordFails
    <2>. QED  BY <1>7, <2>1, <2>2 DEF RecordFails
  <1>8. CASE Record(w)
    <2>1. CASE db[File(w)] = "none"
      BY <1>8, <2>1, OnceRecord DEF Record, OnceAssumption
    <2>2. CASE db[File(w)] # "none"
      BY <1>3, <1>4, <1>8, <2>2, OnceHarmless DEF Record
    <2>. QED  BY <2>1, <2>2
  <1>9. CASE OpenACHFile(w)
    <2>1. Owner(w)
      BY <1>9 DEF OpenACHFile, Owner
    <2>2. CASE CreateFile(File(w)) /\ Goto(w, "fill")
      <3>1. /\ \A p \in Places : \A f \in Files :
                  ach'[p][f] = "whole" => ach[p][f] = "whole"
            /\ \A d \in Dirs : ach'[d] = ach[d]
        BY <1>1, <1>5, <1>9, <2>2
        DEF CreateFile, OpenACHFile, TypeInv, TypeOK, StorageTypeOK
      <3>. QED
        BY <1>3, <1>4, <1>9, <2>1, <2>2, <3>1, OnceHarmless DEF OpenACHFile
    <2>3. CASE Goto(w, "undo") /\ UNCHANGED storageVars
      BY <1>3, <1>4, <1>9, <2>1, <2>3, OnceHarmless DEF OpenACHFile
    <2>. QED  BY <1>9, <2>2, <2>3 DEF OpenACHFile
  <1>10. CASE FillACHFile(w)
    <2>1. Owner(w)
      BY <1>10 DEF FillACHFile, Owner
    <2>2. CASE FillFile(fd[w], File(w)) /\ Goto(w, "opts")
      BY <1>10, <2>2, OnceFill DEF FillACHFile
    <2>3. CASE Goto(w, "undo") /\ UNCHANGED storageVars
      BY <1>3, <1>4, <1>10, <2>1, <2>3, OnceHarmless DEF FillACHFile
    <2>. QED
      BY <1>10, <2>2, <2>3 DEF FillACHFile, Happens, OnceAssumption
  <1>11. CASE WriteValidateOpts(w)
    BY <1>3, <1>4, <1>11, OnceHarmless DEF WriteValidateOpts, WriteOpts
  <1>12. CASE CleanupRecord(w)
    <2>1. CASE UNCHANGED db
      BY <1>3, <1>4, <1>12, <2>1, OnceHarmless DEF CleanupRecord
    <2>2. CASE db' = [db EXCEPT ![File(w)] = "none"]
      BY <1>12, <2>2, OnceCleanup DEF CleanupRecord
    <2>. QED  BY <1>12, <2>1, <2>2 DEF CleanupRecord
  <1>13. CASE CancelRecord(w)
    <2>1. CASE UNCHANGED db
      <3>1. Goto(w, "idle") \/ Goto(w, "look")
        BY <1>13 DEF CancelRecord
      <3>. QED
        BY <1>3, <1>4, <1>13, <2>1, <3>1, OnceHarmless DEF CancelRecord
    <2>2. CASE /\ db[File(w)] # "none" /\ Goto(w, "look")
               /\ db' = [db EXCEPT ![File(w)] = "canceled"]
      BY <1>13, <2>2, OnceCancel DEF CancelRecord
    <2>. QED  BY <1>13, <2>1, <2>2 DEF CancelRecord
  <1>14. CASE CancelWithoutShard(w)
    BY <1>3, <1>4, <1>14, OnceHarmless DEF CancelWithoutShard
  <1>15. CASE LookForFile(w)
    BY <1>3, <1>4, <1>15, OnceHarmless DEF LookForFile
  <1>16. CASE ReplaceACHFile(w)
    <2>1. /\ \A p \in Places : \A f \in Files :
                ach'[p][f] = "whole" => ach[p][f] = "whole"
          /\ \A d \in Dirs : ach'[d] = ach[d]
      <3>1. UNCHANGED ach \/ ReplaceFile(File(w))
        BY <1>16 DEF ReplaceACHFile
      <3>2. File(w) \in Files /\ Mergable \in Places
        BY <1>1, <1>16, StorageAssumption DEF ReplaceACHFile
      <3>3. CASE ReplaceFile(File(w))
        BY <1>5, <3>2, <3>3
        DEF ReplaceFile, TypeInv, TypeOK, StorageTypeOK
      <3>. QED  BY <3>1, <3>3
    <2>. QED
      BY <1>3, <1>4, <1>16, <2>1, OnceHarmless DEF ReplaceACHFile
  <1>17. CASE RespondCancel(w)
    BY <1>3, <1>4, <1>17, OnceHarmless DEF RespondCancel
  <1>. QED
    BY <1>6, <1>7, <1>8, <1>9, <1>10, <1>11, <1>12, <1>13, <1>14, <1>15,
       <1>16, <1>17
    DEF WorkerStep

(* Handing out a message makes nobody an owner.                            *)
LEMMA OnceReceive ==
    ASSUME TypeInv, OnceInv, NEW w \in Workers, NEW m \in Messages,
           Receive(w, m)
    PROVE  OnceInv'
  <1>1. FirstStep(m) \notin {"open", "fill", "undo"}
    BY PipelineAssumption DEF FirstStep, Kinds
  <1>2. \A v \in Workers : Owner(v)' => Owner(v) /\ msg'[v] = msg[v]
    BY <1>1 DEF Receive, Handle, Owner, TypeInv, TypeOK
  <1>. QED  BY <1>2, OnceHarmless DEF Receive

(* Isolating the pending directory: its copies move to a directory that    *)
(* had none.                                                               *)
LEMMA OnceIsolate ==
    ASSUME TypeInv, OnceInv, OnceAssumption, NEW d \in Dirs, StartCutoff(d)
    PROVE  OnceInv'
  <1>1. d = cutoffs + 1 /\ cut = "idle" /\ files = {}
    BY DEF StartCutoff, IsolateMergableDir, Timestamp, Happens,
           OnceAssumption, TypeInv, Bookkeeping, LocalsInOrder
  <1>2. /\ d \in Places /\ d # Mergable /\ Mergable \in Places
        /\ cutoffs \in Nat /\ d > cutoffs
    BY <1>1, StorageAssumption DEF TypeInv, TypeOK, MergingTypeOK
  <1>3. \A f \in Files : ach[d][f] = "none"
    BY <1>2 DEF OnceInv, OneCopy
  <1>4. UNCHANGED <<pc, msg, db, uploads>>
    BY DEF StartCutoff, IsolateMergableDir
  <1>5. CASE ReplaceDirFails(d)
    BY <1>5, OnceHarmless
    DEF StartCutoff, IsolateMergableDir, Owner
  <1>6. CASE ~ReplaceDirFails(d)
    <2>1. /\ ReplaceDir(d)
          /\ cut' = "list" /\ cutDir' = d /\ cutoffs' = d
          /\ UNCHANGED <<files, todo>>
      BY <1>6 DEF StartCutoff, IsolateMergableDir
    <2>2. \/ UNCHANGED ach
          \/ /\ ach'[d] = ach[Mergable]
             /\ \A f \in Files : ach'[Mergable][f] = "none"
             /\ \A p \in Places : p # d /\ p # Mergable => ach'[p] = ach[p]
      <3>1. \/ UNCHANGED ach
            \/ ach' = [ach EXCEPT ![d] = ach[Mergable],
                                  ![Mergable] = [f \in Files |-> "none"]]
        BY <2>1 DEF ReplaceDir
      <3>2. ach \in [Places -> [Files -> Content]]
        BY DEF TypeInv, TypeOK, StorageTypeOK
      <3>. QED  BY <1>2, <3>1, <3>2
    <2>3. \A f \in Files : Unwritten(f) => Unwritten(f)'
      BY <1>2, <1>4, <2>2 DEF Unwritten
    <2>4. RowIsLock'
      <3>1. \A v \in Workers : Owner(v)' = Owner(v) /\ File(v)' = File(v)
        BY <1>4 DEF Owner, File
      <3>2. \A v \in Workers : Owner(v) => File(v) \in Files
        BY FileType DEF Owner
      <3>. QED
        BY <1>4, <2>3, <3>1, <3>2 DEF OnceInv, RowIsLock
    <2>5. OneCopy'
      <3>1. \A f \in Files : \A p, q \in Places :
               ach'[p][f] = "whole" /\ ach'[q][f] = "whole" => p = q
        BY <1>2, <1>3, <2>2 DEF OnceInv, OneCopy
      <3>2. \A e \in Dirs : e > cutoffs' =>
               \A f \in Files : ach'[e][f] = "none"
        <4>. SUFFICES ASSUME NEW e \in Dirs, e > d
                      PROVE  \A f \in Files : ach'[e][f] = "none"
          BY <2>1
        <4>1. e # d /\ e # Mergable /\ e > cutoffs /\ e \in Places
          BY <1>2, StorageAssumption
        <4>2. \A f \in Files : ach[e][f] = "none"
          BY <4>1 DEF OnceInv, OneCopy
        <4>. QED  BY <2>2, <4>1, <4>2
      <3>. QED  BY <3>1, <3>2 DEF OneCopy
    <2>6. UnsentIsUnsent'
      <3>1. \A f \in Files : ach'[Mergable][f] = "whole" => uploads[f] = 0
        BY <2>2 DEF OnceInv, UnsentIsUnsent
      <3>2. \A f \in Files : ach'[d][f] = "whole" => uploads[f] = 0
        BY <1>3, <2>2 DEF OnceInv, UnsentIsUnsent
      <3>. QED
        BY <1>1, <1>4, <2>1, <3>1, <3>2 DEF UnsentIsUnsent
    <2>7. UploadedOnce'
      BY <1>4 DEF OnceInv, UploadedOnce
    <2>. QED  BY <2>4, <2>5, <2>6, <2>7 DEF OnceInv
  <1>. QED  BY <1>5, <1>6

(* A step of the cutoff that leaves the .ach files and the uploads alone   *)
(* keeps all but what the locals say.                                      *)
LEMMA OnceLocals ==
    ASSUME OnceInv, UNCHANGED <<ach, pc, msg, db, uploads, cutoffs>>,
           UnsentIsUnsent'
    PROVE  OnceInv'
  BY DEF OnceInv, RowIsLock, OneCopy, UploadedOnce, Owner, File, Unwritten

(* A cutoff that ended has nothing left to send.                           *)
LEMMA UnsentReturns ==
    ASSUME OnceInv, CutoffReturns, UNCHANGED <<ach, uploads>>
    PROVE  UnsentIsUnsent'
  BY DEF CutoffReturns, OnceInv, UnsentIsUnsent

(* Removing the directory of a cutoff that merged nothing.                 *)
LEMMA OnceEmptyDir ==
    ASSUME TypeInv, OnceInv, cutDir \in Dirs, files = {}, EmptyDir(cutDir),
           UNCHANGED <<pc, msg, db, uploads, cutoffs>>,
           \/ CutoffReturns
           \/ cut' = "save" /\ UNCHANGED <<cutDir, files>>
    PROVE  OnceInv'
  <1>1. \A p \in Places : \A f \in Files :
           ach'[p][f] = ach[p][f] \/ ach'[p][f] = "none"
    BY DEF EmptyDir, TypeInv, TypeOK, StorageTypeOK
  <1>2. \A f \in Files : Unwritten(f) => Unwritten(f)'
    BY <1>1 DEF Unwritten
  <1>3. \A v \in Workers : Owner(v) => File(v) \in Files
    BY FileType DEF Owner
  <1>4. \A v \in Workers : Owner(v)' = Owner(v) /\ File(v)' = File(v)
    BY DEF Owner, File
  <1>5. RowIsLock'
    BY <1>2, <1>3, <1>4 DEF OnceInv, RowIsLock
  <1>6. OneCopy'
    BY <1>1, StorageAssumption DEF OnceInv, OneCopy
  <1>7. UnsentIsUnsent'
    BY <1>1, StorageAssumption DEF OnceInv, UnsentIsUnsent, CutoffReturns
  <1>. QED
    BY <1>5, <1>6, <1>7 DEF OnceInv, UploadedOnce

(* Uploading a merged file: its inputs were whole and unsent, no pending   *)
(* copy and no owner of them exists, and no other merged file has them.    *)
LEMMA OnceUpload ==
    ASSUME TypeInv, OnceInv, NEW m \in todo, UploadFile(m),
           UNCHANGED receiverVars
    PROVE  OnceInv'
  <1>1. /\ cut = "upload" /\ cut' = "upload" /\ todo' = todo \ {m}
        /\ UNCHANGED <<ach, cutDir, files, cutoffs, pc, msg, db>>
    BY DEF UploadFile
  <1>2. cutDir \in Dirs /\ todo \subseteq files /\ m \subseteq Files
    BY <1>1
    DEF TypeInv, TypeOK, MergingTypeOK, Bookkeeping, LocalsInOrder
  <1>3. \A f \in m : ach[cutDir][f] = "whole" /\ uploads[f] = 0
    BY <1>1 DEF OnceInv, UnsentIsUnsent
  <1>4. \A f \in Files : /\ uploads'[f] <= 1
                         /\ f \notin m => uploads'[f] = uploads[f]
    <2>1. CASE UNCHANGED uploads
      BY <2>1 DEF OnceInv, UploadedOnce
    <2>2. CASE ReachesRemote(m)
      BY <1>3, <2>2
      DEF ReachesRemote, OnceInv, UploadedOnce, TypeInv, TypeOK,
          MergingTypeOK
    <2>. QED  BY <2>1, <2>2 DEF UploadFile
  <1>5. \A f \in Files : Unwritten(f) => f \notin m /\ Unwritten(f)'
    BY <1>1, <1>2, <1>3, <1>4, StorageAssumption DEF Unwritten
  <1>6. RowIsLock'
    <2>1. \A v \in Workers : Owner(v) => File(v) \in Files
      BY FileType DEF Owner
    <2>2. \A v \in Workers : Owner(v)' = Owner(v) /\ File(v)' = File(v)
      BY <1>1 DEF Owner, File
    <2>. QED  BY <1>1, <1>5, <2>1, <2>2 DEF OnceInv, RowIsLock
  <1>7. OneCopy'
    BY <1>1 DEF OnceInv, OneCopy
  <1>8. UnsentIsUnsent'
    <2>1. \A f \in Files : ach[Mergable][f] = "whole" => f \notin m
      BY <1>2, <1>3, StorageAssumption DEF OnceInv, OneCopy
    <2>2. \A f \in Files : ach[Mergable][f] = "whole" => uploads'[f] = 0
      BY <1>4, <2>1 DEF OnceInv, UnsentIsUnsent
    <2>3. \A n \in todo \ {m} : n \cap m = {}
      BY <1>2 DEF OnceInv, UnsentIsUnsent
    <2>4. \A n \in todo \ {m} : \A f \in n :
             ach[cutDir][f] = "whole" /\ uploads'[f] = 0
      <3>. SUFFICES ASSUME NEW n \in todo \ {m}, NEW f \in n
                    PROVE  ach[cutDir][f] = "whole" /\ uploads'[f] = 0
        OBVIOUS
      <3>1. f \in Files /\ f \notin m
        BY <2>3 DEF TypeInv, TypeOK, MergingTypeOK
      <3>2. ach[cutDir][f] = "whole" /\ uploads[f] = 0
        BY <1>1 DEF OnceInv, UnsentIsUnsent
      <3>. QED  BY <1>4, <3>1, <3>2
    <2>5. \A n, k \in files : n # k => n \cap k = {}
      BY DEF OnceInv, UnsentIsUnsent
    <2>. QED  BY <1>1, <2>2, <2>4, <2>5 DEF UnsentIsUnsent
  <1>9. UploadedOnce'
    BY <1>4 DEF UploadedOnce
  <1>. QED  BY <1>6, <1>7, <1>8, <1>9 DEF OnceInv

(* Every step of the cutoff.                                               *)
LEMMA OnceCutoff ==
    ASSUME TypeInv, OnceInv, Cutoff
    PROVE  OnceInv'
  <1>. USE DEF Cutoff
  <1>1. CASE GetCanceledFiles
    <2>1. UnsentIsUnsent'
      BY <1>1, UnsentReturns DEF GetCanceledFiles, OnceInv, UnsentIsUnsent
    <2>. QED  BY <1>1, <2>1, OnceLocals DEF GetCanceledFiles
  <1>2. CASE MergeDir
    <2>1. UnsentIsUnsent'
      <3>1. /\ cut = "merge" /\ cut' = "prepare"
            /\ UNCHANGED <<ach, cutDir, todo, uploads>>
        BY <1>2 DEF MergeDir
      <3>2. CASE files' = {}
        BY <3>1, <3>2 DEF OnceInv, UnsentIsUnsent
      <3>3. CASE /\ \A f \in AcceptedFiles : Readable(f)
                 /\ files' \in Groupings(AcceptedFiles)
        <4>1. \A n, k \in files' : n # k => n \cap k = {}
          BY <3>3 DEF Groupings
        <4>2. \A n \in files' : \A f \in n : f \in AcceptedFiles
          BY <3>3 DEF Groupings
        <4>3. \A f \in AcceptedFiles :
                 ach[cutDir][f] = "whole" /\ uploads[f] = 0
          BY <3>1, <3>3
          DEF AcceptedFiles, Readable, OnceInv, UnsentIsUnsent
        <4>. QED
          BY <3>1, <4>1, <4>2, <4>3 DEF OnceInv, UnsentIsUnsent
      <3>. QED  BY <1>2, <3>2, <3>3 DEF MergeDir
    <2>. QED  BY <1>2, <2>1, OnceLocals DEF MergeDir
  <1>3. CASE PrepareUploadedDir
    <2>1. cutDir \in Dirs
      BY <1>3 DEF PrepareUploadedDir, TypeInv, Bookkeeping, LocalsInOrder
    <2>2. CASE files = {}
      BY <1>3, <2>1, <2>2, OnceEmptyDir DEF PrepareUploadedDir
    <2>3. CASE files # {}
      <3>1. UnsentIsUnsent'
        BY <1>3, <2>3, UnsentReturns
        DEF PrepareUploadedDir, OnceInv, UnsentIsUnsent
      <3>. QED  BY <1>3, <2>3, <3>1, OnceLocals DEF PrepareUploadedDir
    <2>. QED  BY <2>2, <2>3
  <1>4. ASSUME NEW m \in todo, SaveMergedFile(m) PROVE OnceInv'
    <2>1. UNCHANGED ach /\ UnsentIsUnsent'
      BY <1>4 DEF SaveMergedFile, SaveUploaded, OnceInv, UnsentIsUnsent
    <2>. QED  BY <1>4, <2>1, OnceLocals DEF SaveMergedFile
  <1>5. CASE BeginUploads
    <2>1. UnsentIsUnsent'
      BY <1>5 DEF BeginUploads, OnceInv, UnsentIsUnsent
    <2>. QED  BY <1>5, <2>1, OnceLocals DEF BeginUploads
  <1>6. ASSUME NEW m \in todo, UploadFile(m) PROVE OnceInv'
    BY <1>6, OnceUpload
  <1>7. CASE FindInputFilepaths
    <2>1. UnsentIsUnsent'
      BY <1>7, UnsentReturns DEF FindInputFilepaths, OnceInv, UnsentIsUnsent
    <2>. QED  BY <1>7, <2>1, OnceLocals DEF FindInputFilepaths
  <1>8. ASSUME NEW f \in inputs, EmitFileUploaded(f) PROVE OnceInv'
    <2>1. UnsentIsUnsent'
      BY <1>8 DEF EmitFileUploaded, OnceInv, UnsentIsUnsent
    <2>. QED  BY <1>8, <2>1, OnceLocals DEF EmitFileUploaded
  <1>9. CASE EndCutoff
    <2>1. UnsentIsUnsent'
      BY <1>9, UnsentReturns DEF EndCutoff
    <2>. QED  BY <1>9, <2>1, OnceLocals DEF EndCutoff
  <1>10. CASE RmdirAllFails
    <2>1. UnsentIsUnsent'
      BY <1>10 DEF RmdirAllFails, OnceInv, UnsentIsUnsent
    <2>. QED  BY <1>10, <2>1, OnceLocals DEF RmdirAllFails
  <1>. QED
    BY <1>1, <1>2, <1>3, <1>4, <1>5, <1>6, <1>7, <1>8, <1>9, <1>10
    DEF CutoffStep

(* The process dies: owners are gone, rows and copies stay.                *)
LEMMA OnceDies ==
    ASSUME TypeInv, OnceInv, ProcessDies, CutoffReturns,
           UNCHANGED <<ach, uploads, cutoffs>>
    PROVE  OnceInv'
  <1>1. \A v \in Workers : ~Owner(v)'
    BY DEF ProcessDies, Owner
  <1>2. RowIsLock'
    BY <1>1 DEF ProcessDies, OnceInv, RowIsLock, Unwritten
  <1>3. UnsentIsUnsent'
    BY UnsentReturns
  <1>. QED  BY <1>2, <1>3 DEF OnceInv, OneCopy, UploadedOnce

(* Every step.                                                             *)
LEMMA OnceNext ==
    ASSUME OnceAssumption, TypeInv, OnceInv, [Next]_vars
    PROVE  OnceInv'
  <1>1. ASSUME NEW w \in Workers, NEW m \in Messages, Receive(w, m)
        PROVE  OnceInv'
    BY <1>1, OnceReceive
  <1>2. ASSUME NEW w \in Workers, WorkerStep(w) PROVE OnceInv'
    BY <1>2, OnceWorkerStep
  <1>3. ASSUME NEW d \in Dirs, StartCutoff(d) PROVE OnceInv'
    BY <1>3, OnceIsolate
  <1>4. CASE Cutoff
    BY <1>4, OnceCutoff
  <1>5. CASE MapFails
    <2>1. CutoffReturns /\ UNCHANGED <<ach, uploads, cutoffs>>
      BY <1>5 DEF MapFails, BuildDirMappingFails
    <2>2. CASE ProcessDies
      BY <2>1, <2>2, OnceDies
    <2>3. CASE UNCHANGED receiverVars
      BY <2>1, <2>3, UnsentReturns, OnceLocals
    <2>. QED  BY <1>5, <2>2, <2>3 DEF MapFails
  <1>6. CASE Crash
    BY <1>6, OnceDies DEF Crash
  <1>7. CASE UNCHANGED vars
    BY <1>7 DEF OnceInv, RowIsLock, OneCopy, UnsentIsUnsent, UploadedOnce,
                Owner, File, Unwritten
  <1>8. ASSUME NEW m \in Messages, AckArrives(m) PROVE OnceInv'
    BY <1>8
    DEF AckArrives, OnceInv, RowIsLock, OneCopy, UnsentIsUnsent, UploadedOnce,
        Owner, File, Unwritten
  <1>. QED
    BY <1>1, <1>2, <1>3, <1>4, <1>5, <1>6, <1>7, <1>8 DEF Next, Quiet

(* The lock, the single copy and what is still to be sent, always.         *)
THEOREM OnceInvariant ==
    ASSUME OnceAssumption
    PROVE  Spec => []OnceInv
  <1>1. TypeInv /\ OnceInv /\ [Next]_vars => OnceInv'
    BY OnceNext
  <1>. QED  BY OnceInit, <1>1, TypeCorrect, PTL DEF Spec

(* No file reaches the remote server twice, whatever is redelivered, fails *)
(* or crashes.                                                             *)
THEOREM UploadedOnceAlways ==
    ASSUME OnceAssumption
    PROVE  Spec => []UploadedOnce
  <1>1. OnceInv => UploadedOnce
    BY DEF OnceInv
  <1>. QED  BY OnceInvariant, <1>1, PTL

(***************************************************************************)
(* FilePipeline implements FileLedger: every initial state maps to one of  *)
(* the ledger's, and every step to a step of the ledger or a stutter.      *)
(***************************************************************************)

(* The first state of the pipeline is one of the ledger.                   *)
LEMMA LedgerInit == Init => Ledger!Init
  BY DEF Init, MergingInit, Ledger!Init

(* A call of processMessage changes the ledger's rows only: Record         *)
(* accepts, Cleanup withdraws a file nobody has sent, Cancel cancels.      *)
LEMMA LedgerWorkerStep ==
    ASSUME TypeInv, OnceInv, OnceAssumption, NEW w \in Workers, WorkerStep(w)
    PROVE  \/ UNCHANGED <<db, uploads, announced>>
           \/ \E f \in Files : \/ Ledger!Accept(f) \/ Ledger!Withdraw(f)
                               \/ Ledger!Cancel(f)
  <1>1. pc[w] # "idle" => File(w) \in Files
    BY FileType
  <1>2. UNCHANGED <<uploads, announced>>
    BY WorkerStepCancels
  <1>3. CASE RecordFails(w)
    BY <1>1, <1>2, <1>3 DEF RecordFails, Ledger!Accept
  <1>4. CASE Record(w)
    BY <1>1, <1>2, <1>4 DEF Record, Ledger!Accept
  <1>5. CASE CleanupRecord(w)
    <2>1. File(w) \in Files /\ db[File(w)] # "none" /\ uploads[File(w)] = 0
      BY <1>1, <1>5
      DEF CleanupRecord, OnceInv, RowIsLock, Owner, Unwritten
    <2>. QED  BY <1>2, <1>5, <2>1 DEF CleanupRecord, Ledger!Withdraw
  <1>6. CASE CancelRecord(w)
    <2>1. CASE UNCHANGED db
      BY <1>2, <2>1
    <2>2. CASE /\ db[File(w)] # "none"
               /\ db' = [db EXCEPT ![File(w)] = "canceled"]
      <3>1. File(w) \in Files /\ db \in [Files -> Rows]
        BY <1>1, <1>6 DEF CancelRecord, TypeInv, TypeOK
      <3>2. CASE db[File(w)] = "accepted"
        BY <1>2, <2>2, <3>1, <3>2 DEF Ledger!Cancel
      <3>3. CASE db[File(w)] = "canceled"
        <4>1. db' = db
          BY <2>2, <3>1, <3>3
        <4>. QED  BY <1>2, <4>1
      <3>. QED  BY <2>2, <3>1, <3>2, <3>3 DEF Rows
    <2>. QED  BY <1>6, <2>1, <2>2 DEF CancelRecord
  <1>7. CASE ~(RecordFails(w) \/ Record(w) \/ CleanupRecord(w)
               \/ CancelRecord(w))
    <2>1. UNCHANGED db
      BY <1>7
      DEF WorkerStep, Ack, OpenACHFile, FillACHFile, WriteValidateOpts,
          CancelWithoutShard, LookForFile, ReplaceACHFile, RespondCancel
    <2>. QED  BY <1>2, <2>1
  <1>. QED  BY <1>3, <1>4, <1>5, <1>6, <1>7

(* A step of the cutoff sends the inputs of one merged file, none of which *)
(* was sent, or announces a file that was sent once.                       *)
LEMMA LedgerCutoff ==
    ASSUME TypeInv, OnceInv, Truthful, Cutoff
    PROVE  \/ UNCHANGED <<db, uploads, announced>>
           \/ \E S \in SUBSET Files : Ledger!Send(S)
           \/ \E f \in Files : Ledger!Announce(f)
  <1>1. UNCHANGED db
    BY DEF Cutoff
  <1>2. ASSUME NEW m \in todo, UploadFile(m), ReachesRemote(m)
        PROVE  \E S \in SUBSET Files : Ledger!Send(S)
    <2>1. m \in SUBSET Files /\ cutDir \in Places /\ cut = "upload"
      BY <1>2 DEF UploadFile, TypeInv, TypeOK, MergingTypeOK
    <2>2. \A f \in m : ach[cutDir][f] = "whole" /\ uploads[f] = 0
      BY <2>1 DEF OnceInv, UnsentIsUnsent
    <2>3. \A f \in m : db[f] # "none"
      BY <2>1, <2>2 DEF OnceInv, RowIsLock, Unwritten
    <2>4. uploads' = [f \in Files |-> IF f \in m THEN 1 ELSE uploads[f]]
      BY <1>2, <2>2 DEF ReachesRemote, TypeInv, TypeOK, MergingTypeOK
    <2>5. Ledger!Send(m)
      BY <1>1, <1>2, <2>2, <2>3, <2>4 DEF Ledger!Send, UploadFile
    <2>. QED  BY <2>1, <2>5
  <1>3. ASSUME NEW f \in inputs, EmitFileUploaded(f),
               announced' = announced \cup {f}
        PROVE  \E g \in Files : Ledger!Announce(g)
    <2>1. f \in Files
      BY DEF TypeInv, TypeOK, MergingTypeOK
    <2>2. uploads[f] \in Nat /\ uploads[f] > 0 /\ uploads[f] <= 1
      BY <2>1
      DEF OnceInv, UploadedOnce, Truthful, OnlyUploadedAnnounced, TypeInv,
          TypeOK, MergingTypeOK
    <2>3. uploads[f] = 1
      BY <2>2
    <2>. QED
      BY <1>1, <1>3, <2>1, <2>3 DEF EmitFileUploaded, Ledger!Announce
  <1>4. CASE /\ ~\E m \in todo : UploadFile(m) /\ ReachesRemote(m)
             /\ ~\E f \in inputs : /\ EmitFileUploaded(f)
                                   /\ announced' = announced \cup {f}
    <2>1. UNCHANGED <<uploads, announced>>
      BY <1>4
      DEF Cutoff, CutoffStep, GetCanceledFiles, MergeDir,
          PrepareUploadedDir, RmdirAllFails, SaveMergedFile, BeginUploads,
          UploadFile,
          FindInputFilepaths, EmitFileUploaded, EndCutoff
    <2>. QED  BY <1>1, <2>1
  <1>. QED  BY <1>2, <1>3, <1>4

(* Every step is a step of the ledger or changes nothing it sees.          *)
LEMMA LedgerNext ==
    ASSUME OnceAssumption, TypeInv, OnceInv, Truthful, [Next]_vars
    PROVE  [Ledger!Next]_(Ledger!ledgerVars)
  <1>. USE DEF Ledger!Next, Ledger!ledgerVars
  <1>1. ASSUME NEW w \in Workers, WorkerStep(w)
        PROVE  [Ledger!Next]_(Ledger!ledgerVars)
    BY <1>1, LedgerWorkerStep
  <1>2. CASE Cutoff
    BY <1>2, LedgerCutoff
  <1>3. CASE \/ \E w \in Workers, m \in Messages : Receive(w, m)
             \/ \E m \in Messages : AckArrives(m)
             \/ \E d \in Dirs : StartCutoff(d)
             \/ MapFails \/ Crash \/ UNCHANGED vars
    <2>1. UNCHANGED <<db, uploads, announced>>
      BY <1>3
      DEF Receive, AckArrives, StartCutoff, IsolateMergableDir, MapFails,
          BuildDirMappingFails, ProcessDies, Crash
    <2>. QED  BY <2>1
  <1>. QED  BY <1>1, <1>2, <1>3 DEF Next, Quiet

(* The pipeline keeps the ledger's promises: accepted before sent, sent at *)
(* most once, withdrawn only while never sent, announced only after.       *)
THEOREM ImplementsLedger ==
    ASSUME OnceAssumption
    PROVE  Spec => LedgerSpec
  <1>1. Spec => []Truthful
    BY TruthfulInit, TruthfulNext, TypeCorrect, PTL DEF Spec
  <1>2. TypeInv /\ OnceInv /\ Truthful /\ [Next]_vars
        => [Ledger!Next]_(Ledger!ledgerVars)
    BY LedgerNext
  <1>. QED
    BY LedgerInit, <1>1, <1>2, TypeCorrect, OnceInvariant, PTL
    DEF Spec, LedgerSpec, Ledger!Spec
=============================================================================
