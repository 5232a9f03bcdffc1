------------------------------ MODULE Merging ------------------------------
(***************************************************************************)
(* One shard's aggregator (internal/pipeline/aggregate.go) running a       *)
(* cutoff over its pending files (internal/pipeline/merging.go): isolate   *)
(* the pending directory, list what was canceled, merge the rest, save     *)
(* each merged file, upload each, find the input files of the uploaded     *)
(* ones and emit FileUploaded for them.  The aggregator runs one cutoff at *)
(* a time, so its local variables exist once; between any two of its       *)
(* storage, network or event calls the receiver's goroutines may run.      *)
(*                                                                         *)
(* A merged file is the set of its inputs.  Of what they contain, only the *)
(* keys matter by which entries are traced back to their input files.      *)
(***************************************************************************)
EXTENDS Storage

CONSTANTS
    NeedsOpts,   \* the files that only parse with their ValidateOpts
    KeysOf,      \* KeysOf[f]: makeKey of the entries in f's batches
    Rank         \* Rank[f]: the place of f's name in the order of ReadDir

(* IAT and ADV entries have no key, and different files may share some.    *)
(* Of any files in a directory one is listed last.                         *)
ASSUME MergingAssumption ==
    /\ NeedsOpts \subseteq Files
    /\ DOMAIN KeysOf = Files
    /\ Rank \in [Files -> Nat]
    /\ \A S \in SUBSET Files : S # {} =>
          \E f \in S : \A g \in S : Rank[g] <= Rank[f]

VARIABLES
    cut,            \* which part of the cutoff runs next, or "idle"
    cutoffs,        \* the last timestamp a cutoff used
    cutDir,         \* local dir of WithEachMerged
    canceledFiles,  \* local of the same name
    files,          \* local of the same name: the merged files
    todo,           \* what the running loop over files has left
    merged,         \* local of the same name: the files uploaded
    el,             \* whether the error list has an error
    inputs,         \* files that emitFilesUploaded has left
    uploads,        \* uploads[f]: how often f has reached the remote server
    announced,      \* files a FileUploaded event was emitted for
    unsent,         \* files whose FileUploaded event could not be sent
    succeeded       \* directories whose cutoff returned no error

localVars  == <<cut, cutDir, canceledFiles, files, todo, merged, el, inputs>>
eventVars  == <<announced, unsent, succeeded>>
mergingVars == <<localVars, cutoffs, uploads, eventVars>>

CutoffSteps == {"idle", "list", "merge", "prepare", "save", "upload", "emit"}

MergingTypeOK ==
    /\ cut \in CutoffSteps
    /\ cutoffs \in 0 .. MaxCutoffs
    /\ cutDir \in Places
    /\ canceledFiles \subseteq Files
    /\ files \subseteq SUBSET Files
    /\ todo \subseteq SUBSET Files
    /\ merged \subseteq SUBSET Files
    /\ el \in BOOLEAN
    /\ inputs \subseteq Files
    /\ uploads \in [Files -> Nat]
    /\ announced \subseteq Files
    /\ unsent \subseteq Files
    /\ succeeded \subseteq Dirs

MergingInit ==
    /\ cut = "idle" /\ cutoffs = 0 /\ cutDir = 0
    /\ canceledFiles = {} /\ files = {} /\ todo = {} /\ merged = {}
    /\ el = FALSE /\ inputs = {}
    /\ uploads = [f \in Files |-> 0]
    /\ announced = {} /\ unsent = {} /\ succeeded = {}

(* WithEachMerged and its caller return (or the process dies): the locals  *)
(* are gone and the aggregator waits for its next cutoff.                  *)
CutoffReturns ==
    /\ cut' = "idle" /\ cutDir' = 0
    /\ canceledFiles' = {} /\ files' = {} /\ todo' = {} /\ merged' = {}
    /\ el' = FALSE /\ inputs' = {}

(* The timestamp of time.Now(): a new one, or, in the same second, the one *)
(* the last cutoff used.                                                   *)
Timestamp(d) ==
    \/ d = cutoffs + 1 /\ UNCHANGED adverse
    \/ d = cutoffs /\ Happens("sameSecond")

(* A scheduled or a manual cutoff starts: isolateMergableDir.              *)
IsolateMergableDir(d) ==
    /\ cut = "idle"
    /\ Timestamp(d)
    /\ IF ReplaceDirFails(d)
       THEN UNCHANGED <<storageVars, mergingVars>>
       ELSE /\ ReplaceDir(d)
            /\ cut' = "list" /\ cutDir' = d /\ cutoffs' = d
            /\ succeeded' = succeeded \ {d}
            /\ UNCHANGED <<canceledFiles, files, todo, merged, el, inputs,
                           uploads, announced, unsent>>

(* Mutant: the pending directory is listed instead of the isolated one.    *)
CanceledStillPending(d) == canceled[Mergable]

(* The names, without ".canceled", of the files canceled in directory d.   *)
CanceledIn(d) == canceled[d]

(* getCanceledFiles, whose error ends the cutoff.                          *)
GetCanceledFiles ==
    /\ cut = "list"
    /\ \/ /\ cut' = "merge" /\ canceledFiles' = CanceledIn(cutDir)
          /\ UNCHANGED <<adverse, cutDir, files, todo, merged, el, inputs>>
       \/ Happens("list") /\ CutoffReturns
    /\ UNCHANGED <<storageVars, cutoffs, uploads, eventVars>>

(* fileAcceptor over the isolated directory.                               *)
AcceptedFiles ==
    {f \in Files : ach[cutDir][f] # "none"} \ canceledFiles

(* Whether ach.Reader can read the file, given the opts beside it.         *)
Readable(f) ==
    /\ ach[cutDir][f] = "whole"
    /\ f \in NeedsOpts => f \in opts[cutDir]

(* The ways ach.MergeDir may group the inputs: it drops and repeats none.  *)
Groupings(S) ==
    {G \in SUBSET (SUBSET S \ {{}}) :
        /\ UNION G = S
        /\ \A A, B \in G : A # B => A \cap B = {}}

(* Mutant: the error of a merge that fails is not kept.                    *)
MergeDirForgetsError ==
    /\ cut = "merge"
    /\ cut' = "prepare"
    /\ \/ /\ \A f \in AcceptedFiles : Readable(f)
          /\ files' \in Groupings(AcceptedFiles)
          /\ UNCHANGED adverse
       \/ /\ Happens("merge") \/ UNCHANGED adverse
          /\ files' = {}
    /\ UNCHANGED <<storageVars, cutDir, canceledFiles, todo, merged, el, inputs,
                   cutoffs, uploads, eventVars>>

(* ach.MergeDir returns every accepted file in some grouping, or, when one *)
(* of them cannot be read, an error and no file.                           *)
MergeDir ==
    /\ cut = "merge"
    /\ cut' = "prepare"
    /\ \/ /\ \A f \in AcceptedFiles : Readable(f)
          /\ files' \in Groupings(AcceptedFiles)
          /\ UNCHANGED <<adverse, el>>
       \/ /\ \/ Happens("merge")
             \/ (\E f \in AcceptedFiles : ~Readable(f)) /\ UNCHANGED adverse
          /\ files' = {} /\ el' = TRUE
    /\ UNCHANGED <<storageVars, cutDir, canceledFiles, todo, merged, inputs,
                   cutoffs, uploads, eventVars>>

(* Mutant: with nothing merged the cutoff looks again instead of going on. *)
PrepareUploadedDirRetries ==
    /\ cut = "prepare"
    /\ IF files = {}
       THEN EmptyDir(cutDir) /\ cut' = "list" /\ todo' = {}
       ELSE UNCHANGED storageVars /\ cut' = "save" /\ todo' = files
    /\ UNCHANGED <<adverse, cutDir, canceledFiles, files, merged, el, inputs,
                   cutoffs, uploads, eventVars>>

(* The directory is removed when there are no merged files; uploaded/ is   *)
(* made; the upload agent is set up, or WithEachMerged returns.            *)
PrepareUploadedDir ==
    /\ cut = "prepare"
    /\ IF files = {} THEN EmptyDir(cutDir) ELSE UNCHANGED storageVars
    /\ \/ /\ cut' = "save" /\ todo' = files
          /\ UNCHANGED <<adverse, cutDir, canceledFiles, files, merged, el,
                         inputs>>
       \/ Happens("agent") /\ CutoffReturns
    /\ UNCHANGED <<cutoffs, uploads, eventVars>>

(* The same when the removal fails: one more error, and on it goes.        *)
RmdirAllFails ==
    /\ cut = "prepare" /\ files = {}
    /\ Happens("rmdir")
    /\ cut' = "save" /\ el' = TRUE
    /\ UNCHANGED <<storageVars, cutDir, canceledFiles, files, todo, merged,
                   inputs, cutoffs, uploads, eventVars>>

(* One iteration of the loop that writes each file to uploaded/.  A file   *)
(* that cannot be flattened is an error and is written as it was.          *)
SaveMergedFile(m) ==
    /\ cut = "save" /\ m \in todo
    /\ todo' = todo \ {m}
    /\ \/ SaveUploaded(cutDir, m) /\ UNCHANGED <<adverse, el>>
       \/ SaveUploaded(cutDir, m) /\ Happens("flatten") /\ el' = TRUE
       \/ Happens("save") /\ el' = TRUE /\ UNCHANGED storageVars
    /\ UNCHANGED <<cut, cutDir, canceledFiles, files, merged, inputs,
                   cutoffs, uploads, eventVars>>

(* The first loop ends and the second, over the same files, begins.        *)
BeginUploads ==
    /\ cut = "save" /\ todo = {}
    /\ cut' = "upload" /\ todo' = files
    /\ UNCHANGED <<adverse, storageVars, cutDir, canceledFiles, files, merged,
                   el, inputs, cutoffs, uploads, eventVars>>

ReachesRemote(m) ==
    uploads' = [f \in Files |-> uploads[f] + IF f \in m THEN 1 ELSE 0]

(* One iteration of the loop that uploads: runTransformers, uploadFile.    *)
(* An error may come before the file reaches the server (rendering,        *)
(* formatting, the audit record, the connection) or after.                 *)
UploadFile(m) ==
    /\ cut = "upload" /\ m \in todo
    /\ todo' = todo \ {m}
    /\ \/ /\ ReachesRemote(m)
          /\ merged' = merged \cup {m}
          /\ UNCHANGED <<adverse, el>>
       \/ /\ Happens("upload")
          /\ el' = TRUE /\ UNCHANGED <<uploads, merged>>
       \/ /\ Happens("uploadLost")
          /\ el' = TRUE /\ ReachesRemote(m) /\ UNCHANGED merged
    /\ UNCHANGED <<storageVars, cut, cutDir, canceledFiles, files, inputs,
                   cutoffs, eventVars>>

(* Mutants of InputsOf: the search stops at the first input of each merged *)
(* file; the merged files are taken for their own inputs.                  *)
FirstInputOf(M) == {CHOOSE f \in m : TRUE : m \in M}
MergedThemselves(M) == M

EntryKeys(M) == UNION {KeysOf[f] : f \in UNION M}

(* The input files of the merged files M.  buildDirMapping maps the keys   *)
(* of every accepted file to its name, a later file replacing an earlier   *)
(* one; findInputFilepaths looks up the keys of M.                         *)
InputsOf(M) ==
    {f \in AcceptedFiles :
        \E k \in KeysOf[f] \cap EntryKeys(M) :
           \A g \in AcceptedFiles : k \in KeysOf[g] => Rank[g] <= Rank[f]}

(* Mutant: the errors of the cutoff are forgotten.                         *)
FindAllInputFilepaths ==
    /\ cut = "upload" /\ todo = {}
    /\ cut' = "emit" /\ inputs' = UNION files
    /\ UNCHANGED <<adverse, storageVars, cutDir, canceledFiles, files, todo,
                   merged, el, cutoffs, uploads, eventVars>>

(* buildDirMapping and findInputFilepaths.  After any error WithEachMerged *)
(* fails as a whole and its caller emits nothing.                          *)
FindInputFilepaths ==
    /\ cut = "upload" /\ todo = {}
    /\ IF el
       THEN CutoffReturns
       ELSE /\ cut' = "emit" /\ inputs' = InputsOf(merged)
            /\ UNCHANGED <<cutDir, canceledFiles, files, todo, merged, el>>
    /\ UNCHANGED <<adverse, storageVars, cutoffs, uploads, eventVars>>

(* buildDirMapping fails.  With nothing uploaded this is one more error    *)
(* for the list; otherwise findInputFilepaths uses a nil map and panics.   *)
BuildDirMappingFails ==
    /\ cut = "upload" /\ todo = {}
    /\ Happens("map")
    /\ CutoffReturns
    /\ UNCHANGED <<storageVars, cutoffs, uploads, eventVars>>

(* emitFilesUploaded: one event; an error is logged and the loop goes on.  *)
EmitFileUploaded(f) ==
    /\ cut = "emit" /\ f \in inputs
    /\ inputs' = inputs \ {f}
    /\ \/ announced' = announced \cup {f} /\ UNCHANGED <<adverse, unsent>>
       \/ Happens("send") /\ unsent' = unsent \cup {f} /\ UNCHANGED announced
    /\ UNCHANGED <<storageVars, cut, cutDir, canceledFiles, files, todo,
                   merged, el, cutoffs, uploads, succeeded>>

(* No error is alerted, or given to whoever triggered the cutoff.          *)
EndCutoff ==
    /\ cut = "emit" /\ inputs = {}
    /\ CutoffReturns
    /\ succeeded' = succeeded \cup {cutDir}
    /\ UNCHANGED <<adverse, storageVars, cutoffs, uploads, announced, unsent>>

(* What the aggregator does once a cutoff has started.                     *)
CutoffStep ==
    \/ GetCanceledFiles
    \/ MergeDir
    \/ PrepareUploadedDir
    \/ RmdirAllFails
    \/ \E m \in todo : SaveMergedFile(m)
    \/ BeginUploads
    \/ \E m \in todo : UploadFile(m)
    \/ FindInputFilepaths
    \/ \E f \in inputs : EmitFileUploaded(f)
    \/ EndCutoff
=============================================================================
