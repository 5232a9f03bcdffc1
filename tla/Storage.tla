------------------------------ MODULE Storage ------------------------------
(***************************************************************************)
(* The directory tree one shard keeps on disk (internal/storage/           *)
(* filesystem.go, with the paths internal/pipeline/merging.go uses):       *)
(*                                                                         *)
(*   mergable/<shard>/<id>.ach            a pending file                   *)
(*   mergable/<shard>/<id>.json           its ValidateOpts                 *)
(*   mergable/<shard>/<id>.ach.canceled   the file, or a marker, canceled  *)
(*   <shard>-<timestamp>/...              the directory of one cutoff      *)
(*   <shard>-<timestamp>/uploaded/*.ach   what that cutoff merged          *)
(*                                                                         *)
(* A directory is a place: 0 is mergable/<shard>, and 1, 2, ... are the    *)
(* timestamps, to the second, that cutoffs have used, in order.  A file's  *)
(* bytes are abstracted to whether they are all there: write() creates an  *)
(* empty file before it fills it, so "partial" is a state others can see.  *)
(***************************************************************************)
EXTENDS Naturals

CONSTANTS
    Files,        \* file identifiers
    MaxCutoffs,   \* bound: how many timestamps cutoffs may use
    Adverse,      \* the unlucky events the environment may produce
    MaxAdverse    \* bound: how many of the counted ones happen

AdverseEvents ==
    {"crash", "sameSecond", "midWrite", "redeliver",
     "lookup", "record", "recordLost", "open", "write", "sync", "opts",
     "cleanup", "cancel", "replace", "send",
     "list", "merge", "rmdir", "agent", "flatten", "save",
     "upload", "uploadLost", "map"}

ASSUME StorageAssumption ==
    /\ MaxCutoffs \in Nat
    /\ MaxAdverse \in Nat
    /\ Adverse \subseteq AdverseEvents

Mergable == 0
Dirs     == 1 .. MaxCutoffs
Places   == 0 .. MaxCutoffs
Content  == {"none", "partial", "whole"}

VARIABLES
    adverse,    \* how many unlucky events have happened
    exists,     \* the places that exist on disk
    ach,        \* ach[p][f]: the state of <f>.ach in place p
    opts,       \* opts[p]: the files with a .json in place p
    canceled,   \* canceled[p]: the files with an .ach.canceled in place p
    uploaded    \* uploaded[p]: the merged files saved in p/uploaded

storageVars == <<exists, ach, opts, canceled, uploaded>>

StorageTypeOK ==
    /\ adverse \in 0 .. MaxAdverse
    /\ exists \subseteq Places
    /\ ach \in [Places -> [Files -> Content]]
    /\ opts \in [Places -> SUBSET Files]
    /\ canceled \in [Places -> SUBSET Files]
    /\ uploaded \in [Places -> SUBSET SUBSET Files]

StorageInit ==
    /\ adverse = 0
    /\ exists = {}
    /\ ach = [p \in Places |-> [f \in Files |-> "none"]]
    /\ opts = [p \in Places |-> {}]
    /\ canceled = [p \in Places |-> {}]
    /\ uploaded = [p \in Places |-> {}]

(* Event k happens now: an I/O error, a lost answer, a crash.              *)
Happens(k) ==
    /\ k \in Adverse
    /\ adverse < MaxAdverse
    /\ adverse' = adverse + 1

(***************************************************************************)
(* The operations of storage.Chest that change the tree.                   *)
(***************************************************************************)

(* write(), first half: MkdirAll of the parent, then O_CREATE|O_TRUNC.     *)
CreateFile(f) ==
    /\ exists' = exists \cup {Mergable}
    /\ ach' = [ach EXCEPT ![Mergable][f] = "partial"]
    /\ UNCHANGED <<opts, canceled, uploaded>>

(* write(), second half, through the descriptor opened in place p.  The    *)
(* file may have been renamed or removed since; then nobody sees the bytes.*)
FillFile(p, f) ==
    /\ ach' = [ach EXCEPT ![p][f] = IF @ = "partial" THEN "whole" ELSE @]
    /\ UNCHANGED <<exists, opts, canceled, uploaded>>

(* WriteFile of <f>.json.                                                  *)
WriteOpts(f) ==
    /\ exists' = exists \cup {Mergable}
    /\ opts' = [opts EXCEPT ![Mergable] = @ \cup {f}]
    /\ UNCHANGED <<ach, canceled, uploaded>>

(* ReplaceFile(<f>.ach, <f>.ach.canceled): an existing file is renamed, a  *)
(* missing one gets an empty marker; either way only the marker is left.   *)
ReplaceFile(f) ==
    /\ exists' = exists \cup {Mergable}
    /\ ach' = [ach EXCEPT ![Mergable][f] = "none"]
    /\ canceled' = [canceled EXCEPT ![Mergable] = @ \cup {f}]
    /\ UNCHANGED <<opts, uploaded>>

(* Mutant: the target is created before the rename, which then always      *)
(* fails.                                                                  *)
ReplaceDirMakesTarget(d) == Mergable \in exists

(* ReplaceDir(mergable/<shard>, d) fails when both exist: os.Rename does   *)
(* not replace a directory.                                                *)
ReplaceDirFails(d) == Mergable \in exists /\ d \in exists

(* ReplaceDir that succeeds: a rename, or MkdirAll of d (which leaves a d  *)
(* that already exists as it is) when nothing is pending.                  *)
ReplaceDir(d) ==
    \/ /\ Mergable \in exists
       /\ d \notin exists
       /\ exists' = (exists \ {Mergable}) \cup {d}
       /\ ach' = [ach EXCEPT ![d] = ach[Mergable],
                             ![Mergable] = [f \in Files |-> "none"]]
       /\ opts' = [opts EXCEPT ![d] = opts[Mergable], ![Mergable] = {}]
       /\ canceled' = [canceled EXCEPT ![d] = canceled[Mergable],
                                       ![Mergable] = {}]
       /\ UNCHANGED uploaded
    \/ /\ Mergable \notin exists
       /\ exists' = exists \cup {d}
       /\ UNCHANGED <<ach, opts, canceled, uploaded>>

(* RmdirAll(d) followed by MkdirAll(d/uploaded).                           *)
EmptyDir(d) ==
    /\ ach' = [ach EXCEPT ![d] = [f \in Files |-> "none"]]
    /\ opts' = [opts EXCEPT ![d] = {}]
    /\ canceled' = [canceled EXCEPT ![d] = {}]
    /\ uploaded' = [uploaded EXCEPT ![d] = {}]
    /\ UNCHANGED exists

(* WriteFile of a merged file into d/uploaded.                             *)
SaveUploaded(d, merged) ==
    /\ uploaded' = [uploaded EXCEPT ![d] = @ \cup {merged}]
    /\ UNCHANGED <<exists, ach, opts, canceled>>
=============================================================================
