---------------------------- MODULE FilePipeline ----------------------------
(***************************************************************************)
(* From a message on the queue to a file on the remote server.             *)
(*                                                                         *)
(* FileReceiver (internal/pipeline/file_receiver.go) handles messages in   *)
(* goroutines, here workers: the HTTP and the stream subscription each     *)
(* have one, and a slow one keeps running when the next read iteration     *)
(* starts.  A worker's calls to the files table (internal/files), to the   *)
(* pending directory (Storage) and to the event stream are separate steps, *)
(* interleaved with each other and with the cutoff of the shard's          *)
(* aggregator (Merging).  The process may crash between any two steps; the *)
(* database, the disk and the uncommitted messages survive.                *)
(***************************************************************************)
EXTENDS Merging

CONSTANTS
    Workers,      \* goroutines running processMessage
    Messages,     \* the messages on the subscriptions
    NoMessage,    \* what an idle worker handles
    Kind,         \* Kind[m]: what processMessage makes of m
    FileOf,       \* FileOf[m]: the file m is about
    AutoCommit,   \* Inbound.Kafka.AutoCommit
    Repository    \* the files.Repository: "mock" without a database

Kinds ==
    {"queue",     \* a QueueACHFile
     "cancel",    \* a CancelACHFile
     "badFile",   \* a QueueACHFile that models.Read or the ID check rejects
     "noFile",    \* a QueueACHFile whose Validate fails
     "unknown"}   \* cannot be revealed or read, or is no event we handle

ASSUME PipelineAssumption ==
    /\ NoMessage \notin Messages
    /\ Kind \in [Messages -> Kinds]
    /\ FileOf \in [Messages -> Files]
    /\ AutoCommit \in BOOLEAN
    /\ Repository \in {"mock", "sql", "spanner"}

VARIABLES
    pc,          \* pc[w]: the next call of worker w
    msg,         \* msg[w]: the message it handles
    fd,          \* fd[w]: the place of the .ach file it has open
    found,       \* found[w]: whether HandleCancel found a file
    acking,      \* messages whose Ack is on its way to the broker
    acked,       \* messages committed
    db,          \* db[f]: the row of the files table
    responses    \* <<file, successful>> of each FileCancellationResponse

workerVars   == <<pc, msg, fd, found>>
receiverVars == <<workerVars, acking, acked, db, responses>>
vars == <<adverse, storageVars, mergingVars, receiverVars>>

Steps == {"idle", "record", "open", "fill", "opts", "undo", "ack",
          "cancel", "look", "replace", "cancelRespond"}

Rows == {"none", "accepted", "canceled"}

TypeOK ==
    /\ StorageTypeOK
    /\ MergingTypeOK
    /\ pc \in [Workers -> Steps]
    /\ msg \in [Workers -> Messages \cup {NoMessage}]
    /\ fd \in [Workers -> Places]
    /\ found \in [Workers -> BOOLEAN]
    /\ acking \subseteq Messages
    /\ acked \subseteq Messages
    /\ db \in [Files -> Rows]
    /\ responses \subseteq Files \X BOOLEAN

Init ==
    /\ StorageInit
    /\ MergingInit
    /\ pc = [w \in Workers |-> "idle"]
    /\ msg = [w \in Workers |-> NoMessage]
    /\ fd = [w \in Workers |-> Mergable]
    /\ found = [w \in Workers |-> FALSE]
    /\ acking = {} /\ acked = {}
    /\ db = [f \in Files |-> "none"]
    /\ responses = {}

File(w) == FileOf[msg[w]]

(* Worker w, handling message m, goes on to a step, or returns.            *)
Handle(w, m, step) ==
    /\ pc' = [pc EXCEPT ![w] = step]
    /\ msg' = [msg EXCEPT ![w] = IF step = "idle" THEN NoMessage ELSE m]

Goto(w, step) == Handle(w, msg[w], step)

(***************************************************************************)
(* processMessage                                                          *)
(***************************************************************************)

(* Where processMessage and the checks at the head of processACHFile send  *)
(* a message.  Where they return an error the message stays uncommitted;   *)
(* an InvalidQueueFile event that goes with it is not part of the state.   *)
FirstStep(m) ==
    CASE Kind[m] = "queue"   -> "record"
      [] Kind[m] = "cancel"  -> "cancel"
      [] Kind[m] = "noFile"  -> "ack"
      [] Kind[m] \in {"badFile", "unknown"} -> "idle"

(* msg.Ack, which does not wait for the broker: the message is committed   *)
(* some time later, and comes again if the process dies before.            *)
SendAck(m) == acking' = acking \cup ({m} \ acked)

(* The subscription hands an uncommitted message to worker w.  It may do   *)
(* so while another worker still handles it, or its Ack is on the way      *)
(* ("redeliver").  With AutoCommit processMessage calls Ack before         *)
(* anything else.                                                          *)
Receive(w, m) ==
    /\ pc[w] = "idle"
    /\ m \notin acked
    /\ \/ "redeliver" \in Adverse
       \/ m \notin acking /\ \A v \in Workers : msg[v] # m
    /\ Handle(w, m, FirstStep(m))
    /\ IF AutoCommit THEN SendAck(m) ELSE UNCHANGED acking
    /\ UNCHANGED <<adverse, storageVars, mergingVars, fd, found, acked, db,
                   responses>>

(* processMessage calls Ack, if it has not yet, and returns.  (The         *)
(* response of an accepted file has been handed to the HTTP handlers just  *)
(* before.)                                                                *)
Ack(w) ==
    /\ pc[w] = "ack"
    /\ Goto(w, "idle")
    /\ IF AutoCommit THEN UNCHANGED acking ELSE SendAck(msg[w])
    /\ UNCHANGED <<adverse, storageVars, mergingVars, fd, found, acked, db,
                   responses>>

AckArrives(m) ==
    /\ m \in acking
    /\ acking' = acking \ {m}
    /\ acked' = acked \cup {m}
    /\ UNCHANGED <<adverse, storageVars, mergingVars, workerVars, db, responses>>

(***************************************************************************)
(* processACHFile                                                          *)
(***************************************************************************)

(* getAggregator finds no shard, or Record fails with or without having    *)
(* inserted the row.                                                       *)
RecordFails(w) ==
    /\ pc[w] = "record"
    /\ Goto(w, "idle")
    /\ \/ (Happens("lookup") \/ Happens("record")) /\ UNCHANGED db
       \/ /\ Happens("recordLost")
          /\ Repository # "mock" /\ db[File(w)] = "none"
          /\ db' = [db EXCEPT ![File(w)] = "accepted"]
    /\ UNCHANGED <<storageVars, mergingVars, fd, found, acking, acked,
                   responses>>

(* Mutants of DuplicateStep: the unique violation is ignored; it is an     *)
(* error like any other.                                                   *)
DuplicateGoesOn == "open"
DuplicateIsAnError == "idle"

(* Where a unique violation sends processACHFile: the file counts as       *)
(* handled and processMessage commits the message.                         *)
DuplicateStep == "ack"

(* Record: the worker that inserts the row goes on.  The mock repository   *)
(* keeps no rows, so everyone does.                                        *)
Record(w) ==
    /\ pc[w] = "record"
    /\ IF db[File(w)] = "none"
       THEN /\ Goto(w, "open")
            /\ db' = IF Repository = "mock" THEN db
                     ELSE [db EXCEPT ![File(w)] = "accepted"]
       ELSE Goto(w, DuplicateStep) /\ UNCHANGED db
    /\ UNCHANGED <<adverse, storageVars, mergingVars, fd, found, acking, acked,
                   responses>>

(* Mutants of NotAccepted and OptsError: the error of acceptFile is        *)
(* swallowed; the error of the second write counts.                        *)
ErrorSwallowed == "ack"
OptsErrorCounts == "undo"

(* Where an error of the .ach and of the .json file send the worker.       *)
NotAccepted == "undo"
OptsError   == "ack"

(* acceptFile: writeACHFile creates <id>.ach ...                           *)
OpenACHFile(w) ==
    /\ pc[w] = "open"
    /\ \/ /\ CreateFile(File(w))
          /\ fd' = [fd EXCEPT ![w] = Mergable]
          /\ Goto(w, "fill")
          /\ UNCHANGED adverse
       \/ /\ Happens("open") /\ Goto(w, NotAccepted)
          /\ UNCHANGED <<storageVars, fd>>
    /\ UNCHANGED <<mergingVars, found, acking, acked, db, responses>>

(* ... writes its bytes and syncs.  A failed write leaves the file as it   *)
(* is; a failed Sync leaves all the bytes there.                           *)
FillACHFile(w) ==
    /\ pc[w] = "fill"
    /\ \/ /\ FillFile(fd[w], File(w)) /\ Goto(w, "opts")
          /\ UNCHANGED adverse
       \/ Happens("write") /\ Goto(w, NotAccepted) /\ UNCHANGED storageVars
       \/ Happens("sync") /\ FillFile(fd[w], File(w)) /\ Goto(w, NotAccepted)
    /\ fd' = [fd EXCEPT ![w] = Mergable]
    /\ UNCHANGED <<mergingVars, found, acking, acked, db, responses>>

(* ... and writes <id>.json, whose errors are only logged.                 *)
WriteValidateOpts(w) ==
    /\ pc[w] = "opts"
    /\ \/ /\ IF File(w) \in NeedsOpts THEN WriteOpts(File(w))
             ELSE UNCHANGED storageVars
          /\ Goto(w, "ack")
          /\ UNCHANGED adverse
       \/ Happens("opts") /\ Goto(w, OptsError) /\ UNCHANGED storageVars
    /\ UNCHANGED <<mergingVars, fd, found, acking, acked, db, responses>>

(* The file was not accepted: Cleanup deletes the row, or fails to.        *)
CleanupRecord(w) ==
    /\ pc[w] = "undo"
    /\ Goto(w, "idle")
    /\ \/ db' = [db EXCEPT ![File(w)] = "none"] /\ UNCHANGED adverse
       \/ Happens("cleanup") /\ UNCHANGED db
    /\ UNCHANGED <<storageVars, mergingVars, fd, found, acking, acked,
                   responses>>

(***************************************************************************)
(* cancelACHFile                                                           *)
(***************************************************************************)

(* Cancel of the repository: SQL updates the row if there is one, Spanner  *)
(* fails when there is none.                                               *)
CancelRecord(w) ==
    /\ pc[w] = "cancel"
    /\ \/ /\ UNCHANGED adverse
          /\ IF db[File(w)] = "none"
             THEN /\ Goto(w, IF Repository = "spanner" THEN "idle" ELSE "look")
                  /\ UNCHANGED db
             ELSE /\ Goto(w, "look")
                  /\ db' = [db EXCEPT ![File(w)] = "canceled"]
       \/ Happens("cancel") /\ Goto(w, "idle") /\ UNCHANGED db
    /\ UNCHANGED <<storageVars, mergingVars, fd, found, acking, acked,
                   responses>>

(* getAggregator finds no shard: the cancellation is committed unhandled.  *)
CancelWithoutShard(w) ==
    /\ pc[w] = "cancel"
    /\ Happens("lookup")
    /\ Goto(w, "ack")
    /\ UNCHANGED <<storageVars, mergingVars, fd, found, acking, acked, db,
                   responses>>

(* HandleCancel opens the file, then the canceled file ...                 *)
LookForFile(w) ==
    /\ pc[w] = "look"
    /\ found' = [found EXCEPT ![w] = \/ ach[Mergable][File(w)] # "none"
                                     \/ File(w) \in canceled[Mergable]]
    /\ Goto(w, "replace")
    /\ UNCHANGED <<adverse, storageVars, mergingVars, fd, acking, acked, db,
                   responses>>

(* ... and replaces one by the other.                                      *)
ReplaceACHFile(w) ==
    /\ pc[w] = "replace"
    /\ \/ /\ ReplaceFile(File(w)) /\ Goto(w, "cancelRespond")
          /\ UNCHANGED <<adverse, found>>
       \/ /\ Happens("replace") /\ Goto(w, "idle")
          /\ found' = [found EXCEPT ![w] = FALSE]
          /\ UNCHANGED storageVars
    /\ UNCHANGED <<mergingVars, fd, acking, acked, db, responses>>

(* cancelFile emits the response; only then is the message committed.      *)
RespondCancel(w) ==
    /\ pc[w] = "cancelRespond"
    /\ found' = [found EXCEPT ![w] = FALSE]
    /\ \/ /\ responses' = responses \cup {<<File(w), found[w]>>}
          /\ Goto(w, "ack")
          /\ UNCHANGED adverse
       \/ Happens("send") /\ Goto(w, "idle") /\ UNCHANGED responses
    /\ UNCHANGED <<storageVars, mergingVars, fd, acking, acked, db>>

(***************************************************************************)
(* The cutoff beside the workers, and the process as a whole               *)
(***************************************************************************)

(* A worker is between creating <id>.ach and having written <id>.json.     *)
Writing(w) == pc[w] \in {"fill", "opts"}

(* The directory a worker has a file open in may be renamed under it.      *)
StartCutoff(d) ==
    /\ "midWrite" \in Adverse \/ \A w \in Workers : ~Writing(w)
    /\ IsolateMergableDir(d)
    /\ fd' = [w \in Workers |->
                IF pc[w] = "fill" /\ fd[w] = Mergable /\ ~ReplaceDirFails(d)
                THEN d ELSE fd[w]]
    /\ UNCHANGED <<pc, msg, found, acking, acked, db, responses>>

(* All goroutines are gone.                                                *)
ProcessDies ==
    /\ pc' = [w \in Workers |-> "idle"]
    /\ fd' = [w \in Workers |-> Mergable]
    /\ found' = [w \in Workers |-> FALSE]
    /\ msg' = [w \in Workers |-> NoMessage]
    /\ acking' = {}
    /\ UNCHANGED <<acked, db, responses>>

Crash ==
    /\ Happens("crash")
    /\ ProcessDies
    /\ CutoffReturns
    /\ UNCHANGED <<storageVars, cutoffs, uploads, eventVars>>

MapFails ==
    /\ BuildDirMappingFails
    /\ IF merged = {} THEN UNCHANGED receiverVars ELSE ProcessDies

WorkerStep(w) ==
    \/ Ack(w) \/ RecordFails(w) \/ Record(w)
    \/ OpenACHFile(w) \/ FillACHFile(w) \/ WriteValidateOpts(w)
    \/ CleanupRecord(w)
    \/ CancelRecord(w) \/ CancelWithoutShard(w)
    \/ LookForFile(w) \/ ReplaceACHFile(w) \/ RespondCancel(w)

Cutoff == CutoffStep /\ UNCHANGED receiverVars

(* Nothing is left to do until the next message or cutoff.                 *)
Quiet ==
    /\ acked = Messages
    /\ \A w \in Workers : pc[w] = "idle"
    /\ cut = "idle" /\ cutoffs = MaxCutoffs
    /\ UNCHANGED vars

Next ==
    \/ \E w \in Workers, m \in Messages : Receive(w, m)
    \/ \E w \in Workers : WorkerStep(w)
    \/ \E m \in Messages : AckArrives(m)
    \/ \E d \in Dirs : StartCutoff(d)
    \/ Cutoff
    \/ MapFails
    \/ Crash
    \/ Quiet

Spec == Init /\ [][Next]_vars

(* The Go scheduler runs every goroutine that can run; the subscription    *)
(* hands out an uncommitted message again and again, and an Ack arrives    *)
(* unless the process dies; cutoffs keep coming.                           *)
Fairness ==
    /\ \A w \in Workers : WF_vars(WorkerStep(w))
    /\ \A m \in Messages : SF_vars(\E w \in Workers : Receive(w, m))
    /\ \A m \in Messages : WF_vars(AckArrives(m))
    /\ WF_vars(\E d \in Dirs : StartCutoff(d))
    /\ WF_vars(Cutoff)

FairSpec == Spec /\ Fairness

(***************************************************************************)
(* Properties                                                              *)
(***************************************************************************)

(* No file reaches the remote server twice, however its message is         *)
(* redelivered, whatever fails and whenever the process crashes: Record    *)
(* makes one worker the winner, and a directory is merged by one cutoff.   *)
UploadedOnce == \A f \in Files : uploads[f] <= 1

(* A file canceled before its directory was isolated is not uploaded from  *)
(* that directory: getCanceledFiles runs after isolateMergableDir.         *)
CanceledStaysBehind == \A m \in files : m \cap canceled[cutDir] = {}

(* FileUploaded is emitted only for files that reached the remote server:  *)
(* merged holds the files whose upload succeeded.                          *)
AnnouncedWasUploaded == \A f \in announced : uploads[f] > 0

(* Every step of the pipeline is a step of the FileLedger, or changes      *)
(* nothing the ledger sees: in particular a row of the files table is      *)
(* deleted only while its file has never been sent.                        *)
Ledger == INSTANCE FileLedger WITH row <- db, times <- uploads
LedgerSpec == Ledger!Spec

(* Nobody asks for f to be canceled.                                       *)
Wanted(f) == \A m \in Messages : FileOf[m] = f => Kind[m] # "cancel"

(* The messages Ack was called for, unless the call died with the process. *)
Acknowledged == acking \cup acked

(* A file whose message was acknowledged, and which nobody cancels, has    *)
(* been uploaded, is whole on disk, or is being written by the worker that *)
(* won it: nothing accepted is lost.                                       *)
AcceptedFileKept ==
    \A m \in Acknowledged :
        Kind[m] = "queue" /\ Wanted(FileOf[m]) =>
            \/ uploads[FileOf[m]] > 0
            \/ \E p \in Places : ach[p][FileOf[m]] = "whole"
            \/ \E w \in Workers : /\ pc[w] \in {"open", "fill"}
                                  /\ File(w) = FileOf[m]

(* File f reached the remote server, and each of its entries is in a file  *)
(* of A.                                                                   *)
Accounted(f, A) ==
    uploads[f] > 0 /\ \A k \in KeysOf[f] : \E g \in A : k \in KeysOf[g]

(* A cutoff that returns no error has uploaded every file of its directory *)
(* that was not canceled, and has tried to announce every entry of theirs, *)
(* whatever failed, was redelivered or written beside it.  The event may   *)
(* be about another file with the same entry, which took its place in the  *)
(* mapping (merging.go:505), and its loss is only logged                   *)
(* (aggregate.go:243, 297).                                                *)
SucceededIsComplete ==
    \A d \in succeeded, f \in Files :
        ach[d][f] # "none" /\ f \notin canceled[d]
        => Accounted(f, announced \cup unsent)

(* A cutoff that removes its directory with files in it that nobody        *)
(* canceled, because one of them could not be read or the merge failed,    *)
(* has an error to report for it (merging.go:293-306).                     *)
LossIsReported ==
    [][\A d \in Dirs, f \in Files :
          ach[d][f] # "none" /\ ach'[d][f] = "none" /\ f \notin canceled[d]
          => el]_vars

(* Every message that can be handled is committed in the end, after any    *)
(* number of failed attempts.                                              *)
EventuallyCommitted ==
    \A m \in Messages :
        Kind[m] \in {"queue", "cancel", "noFile"} => <>(m \in acked)

(* A file on disk when cutoffs are still to come is taken by one of them.  *)
PendingIsTaken ==
    \A f \in Files :
        ach[Mergable][f] = "whole" /\ cutoffs < MaxCutoffs
        ~> ach[Mergable][f] = "none"

(* A cutoff ends, whatever fails in it.                                    *)
CutoffEnds == cut # "idle" ~> cut = "idle"

(***************************************************************************)
(* The inductive invariants behind the theorems of FilePipelineProofs,     *)
(* OnceProofs and KeptProofs                                               *)
(***************************************************************************)

(* The locals of WithEachMerged are set in their order, and the loops run  *)
(* over files.                                                             *)
LocalsInOrder ==
    /\ cut # "idle" => cutDir \in Dirs
    /\ cut \in {"idle", "list", "merge"} => files = {}
    /\ cut \notin {"save", "upload"} => todo = {}
    /\ cut \notin {"upload", "emit"} => merged = {}
    /\ cut # "emit" => inputs = {}
    /\ todo \subseteq files
    /\ merged \subseteq files

(* A busy worker handles a message.                                        *)
BusyHasMessage == \A w \in Workers : pc[w] # "idle" => msg[w] \in Messages

Bookkeeping == BusyHasMessage /\ LocalsInOrder

(* canceledFiles names the markers of the isolated directory, as long as   *)
(* that is there, and no file it names is merged.                          *)
CanceledFilesListed ==
    /\ cut \notin {"idle", "list"} =>
          /\ canceled[cutDir] \subseteq canceledFiles
          /\ \A f \in canceledFiles :
                f \in canceled[cutDir] \/ ach[cutDir][f] = "none"
    /\ \A m \in files : m \cap canceledFiles = {}

(* What is about to be announced, and what has been, was uploaded.         *)
OnlyUploadedAnnounced ==
    \A f \in Files :
        f \in announced \/ f \in inputs \/ f \in UNION merged => uploads[f] > 0

(* Without an error, every accepted file was merged, and every merged file *)
(* is uploaded or still to be.                                             *)
NothingLeftOut ==
    /\ cut = "emit" => ~el
    /\ ~el /\ cut \in {"prepare", "save", "upload", "emit"} =>
          UNION files = AcceptedFiles
    /\ ~el /\ cut = "upload" => files = merged \cup todo
    /\ cut = "emit" => files = merged

CutoffInv ==
    /\ TypeOK /\ Bookkeeping /\ CanceledFilesListed /\ OnlyUploadedAnnounced
    /\ NothingLeftOut

(* What does not exist is empty.                                           *)
AbsentIsEmpty ==
    \A p \in Places \ exists : \A f \in Files : ach[p][f] = "none"

(* The present cutoff is about to announce what it uploaded; the ones that *)
(* returned no error have.                                                 *)
CompleteInv ==
    /\ SucceededIsComplete
    /\ cut # "idle" => cutDir \notin succeeded
    /\ cut = "emit" =>
          \A f \in Files :
             ach[cutDir][f] # "none" /\ f \notin canceled[cutDir]
             => Accounted(f, inputs \cup announced \cup unsent)

(* The environment UploadedOnce needs: a database, no Sync that fails with *)
(* the bytes written, no two cutoffs in one second.                        *)
OnceAssumption ==
    /\ Repository # "mock"
    /\ "sync" \notin Adverse
    /\ "sameSecond" \notin Adverse

(* Worker w won its file and has not written it.                           *)
Owner(w) == pc[w] \in {"open", "fill", "undo"}

Unwritten(f) == uploads[f] = 0 /\ \A p \in Places : ach[p][f] # "whole"

(* The row of the files table is a lock: its holder is the only worker     *)
(* that can still produce a whole copy, and without it there is none.      *)
RowIsLock ==
    /\ \A w \in Workers :
          Owner(w) => db[File(w)] # "none" /\ Unwritten(File(w))
    /\ \A v, w \in Workers :
          Owner(v) /\ Owner(w) /\ File(v) = File(w) => v = w
    /\ \A f \in Files : db[f] = "none" => Unwritten(f)

(* There is one whole copy at most, and no directory a later cutoff will   *)
(* use has any.                                                            *)
OneCopy ==
    /\ \A f \in Files : \A p, q \in Places :
          ach[p][f] = "whole" /\ ach[q][f] = "whole" => p = q
    /\ \A d \in Dirs : d > cutoffs => \A f \in Files : ach[d][f] = "none"

(* Files still to be sent, pending or in the running cutoff, have not been *)
(* sent.                                                                   *)
UnsentIsUnsent ==
    /\ \A f \in Files : ach[Mergable][f] = "whole" => uploads[f] = 0
    /\ cut \in {"list", "merge"} =>
          \A f \in Files : ach[cutDir][f] = "whole" => uploads[f] = 0
    /\ \A m \in (IF cut = "upload" THEN todo ELSE
                 IF cut \in {"prepare", "save"} THEN files ELSE {}) :
          \A f \in m : ach[cutDir][f] = "whole" /\ uploads[f] = 0
    /\ \A m, n \in files : m # n => m \cap n = {}

OnceInv == RowIsLock /\ OneCopy /\ UnsentIsUnsent /\ UploadedOnce

(* The environment in which a cutoff can read what it finds: no process    *)
(* dies, and no cutoff starts, between creating <id>.ach and writing       *)
(* <id>.json, and none of these writes fails.                              *)
ReadableAssumption ==
    Adverse \cap {"crash", "map", "midWrite", "write", "sync", "opts",
                  "merge"} = {}

Readied(p, f) == ach[p][f] = "whole" /\ (f \in NeedsOpts => f \in opts[p])

(* What is in a place can be read from it, or a worker is about to make it *)
(* so in the pending directory.                                            *)
ReadableOrWriting ==
    /\ \A w \in Workers : fd[w] = Mergable
    /\ \A p \in Places, f \in Files :
          \/ ach[p][f] = "none"
          \/ Readied(p, f)
          \/ /\ p = Mergable
             /\ \E w \in Workers :
                   /\ pc[w] = "fill" \/ (pc[w] = "opts" /\ ach[p][f] = "whole")
                   /\ File(w) = f

(* A merged file has every accepted input.                                 *)
AllMerged ==
    cut = "prepare" => UNION files = AcceptedFiles

ReadableInv == ReadableOrWriting /\ AllMerged

(* The environment AcceptedFileKept needs besides: Cleanup undoes every    *)
(* Record that is undone, for nobody else took the row for a sign that the *)
(* file was handled.                                                       *)
KeptAssumption ==
    /\ ReadableAssumption
    /\ ~AutoCommit
    /\ "recordLost" \notin Adverse
    /\ "open" \in Adverse =>
          /\ Adverse \cap {"cleanup", "redeliver"} = {}
          /\ \A m, n \in Messages :
                Kind[m] = "queue" /\ Kind[n] = "queue" /\ FileOf[m] = FileOf[n]
                => m = n

Kept(f) == uploads[f] > 0 \/ \E p \in Places : ach[p][f] = "whole"

KeptOrWriting(f) ==
    Kept(f) \/ \E w \in Workers : pc[w] \in {"open", "fill"} /\ File(w) = f

(* Each step of processMessage handles the kind of message it is for.      *)
StepsOfKind ==
    \A w \in Workers :
        /\ pc[w] \in {"record", "open", "fill", "opts", "undo"} =>
              Kind[msg[w]] = "queue"
        /\ pc[w] \in {"cancel", "look", "replace", "cancelRespond"} =>
              Kind[msg[w]] = "cancel"

(* Where the .ach file cannot always be created, whoever handles a file is *)
(* the only one who does, and before its message is committed.             *)
SoleHandler ==
    /\ \A w \in Workers : pc[w] = "undo" => "open" \in Adverse
    /\ "open" \in Adverse =>
          /\ \A w \in Workers : pc[w] # "idle" => msg[w] \notin Acknowledged
          /\ \A v, w \in Workers :
                pc[v] # "idle" /\ pc[w] # "idle" /\ msg[v] = msg[w] => v = w

(* Nobody cancels f, and no sign on disk says so.                          *)
WantedIsNotCanceled ==
    \A f \in Files : Wanted(f) =>
        f \notin canceledFiles /\ \A p \in Places : f \notin canceled[p]

(* A file being filled is there.                                           *)
FilesOnDisk ==
    /\ \A w \in Workers : pc[w] = "fill" /\ Wanted(File(w)) =>
          ach[Mergable][File(w)] # "none"
    /\ AbsentIsEmpty

(* A row stands for a file that is kept, unless its worker is about to     *)
(* delete it, ...                                                          *)
RowsKept ==
    \A f \in Files : Wanted(f) /\ db[f] # "none" =>
        \/ KeptOrWriting(f)
        \/ \E w \in Workers : pc[w] = "undo" /\ File(w) = f

(* ... and so does a worker that has written its file, or found the row of *)
(* another one.                                                            *)
HandledKept ==
    \A w \in Workers :
        /\ pc[w] \in {"opts", "ack"} /\ Kind[msg[w]] = "queue"
        /\ Wanted(File(w))
        => KeptOrWriting(File(w))

KeptInv ==
    /\ StepsOfKind /\ SoleHandler /\ WantedIsNotCanceled /\ FilesOnDisk
    /\ RowsKept /\ HandledKept /\ AcceptedFileKept
=============================================================================
