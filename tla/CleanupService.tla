--------------------------- MODULE CleanupService ---------------------------
(***************************************************************************)
(* The pipeline beside the optional cleanup service                        *)
(* (internal/pipeline/cleanup.go), which looks at the directories of past  *)
(* cutoffs from time to time and removes the ones that are old and have    *)
(* something in uploaded/.  It shares nothing with the aggregator but the  *)
(* disk, and looks and removes in two steps.                               *)
(*                                                                         *)
(* Ages are abstracted to whether a directory is older than the retention  *)
(* duration.  The directory of a running cutoff is not.                    *)
(***************************************************************************)
EXTENDS FilePipeline

VARIABLES
    old,        \* the directories older than the retention duration
    checked     \* the directory runCleanup is about to delete, or Mergable

cleanupVars == <<old, checked>>
allVars == <<vars, cleanupVars>>

CleanupInit ==
    /\ Init
    /\ old = {}
    /\ checked = Mergable

(* Time passes.  Nobody works on a directory for as long as the retention  *)
(* duration.                                                               *)
GetsOld(d) ==
    /\ d \in exists \ old
    /\ cut = "idle" \/ d # cutDir
    /\ \A w \in Workers : fd[w] # d
    /\ old' = old \cup {d}
    /\ UNCHANGED <<vars, checked>>

(* Mutant: the uploaded/ directory need not have a file in it.             *)
shouldDeleteAnyOld(d) == d \in old

(* Mutant: uploaded/ is looked for in the pending directory.               *)
shouldDeletePending(d) == d \in old /\ uploaded[Mergable] # {}

shouldDeleteDirectory(d) == d \in old /\ uploaded[d] # {}

(* One directory of runCleanup's loop, first the checks ...                *)
CheckDirectory(d) ==
    /\ checked = Mergable
    /\ d \in exists
    /\ shouldDeleteDirectory(d)
    /\ checked' = d
    /\ UNCHANGED <<vars, old>>

(* ... then RmdirAll, whose error is counted and the loop goes on.         *)
DeleteDirectory ==
    /\ checked # Mergable
    /\ checked' = Mergable
    /\ \/ /\ exists' = exists \ {checked}
          /\ ach' = [ach EXCEPT ![checked] = [f \in Files |-> "none"]]
          /\ opts' = [opts EXCEPT ![checked] = {}]
          /\ canceled' = [canceled EXCEPT ![checked] = {}]
          /\ uploaded' = [uploaded EXCEPT ![checked] = {}]
          /\ old' = old \ {checked}
          /\ UNCHANGED adverse
       \/ Happens("rmdir") /\ UNCHANGED <<storageVars, old>>
    /\ UNCHANGED <<mergingVars, receiverVars>>

(* The process dies, and the cleanup's goroutine with it.                  *)
Dies == Crash \/ (MapFails /\ merged # {})

PipelineStep ==
    /\ Next
    /\ checked' = IF Dies THEN Mergable ELSE checked
    /\ UNCHANGED old

CleanupNext ==
    \/ PipelineStep
    \/ \E d \in Dirs : GetsOld(d)
    \/ \E d \in Dirs : CheckDirectory(d)
    \/ DeleteDirectory

CleanupSpec == CleanupInit /\ [][CleanupNext]_allVars

(* Every directory gets old once the goroutines that use it have moved on, *)
(* and the ticker makes runCleanup look at it again and again.             *)
FairCleanupSpec ==
    /\ CleanupSpec
    /\ WF_allVars(Cutoff /\ UNCHANGED cleanupVars)
    /\ \A w \in Workers : WF_allVars(WorkerStep(w) /\ UNCHANGED cleanupVars)
    /\ \A d \in Dirs : WF_allVars(GetsOld(d))
    /\ \A d \in Dirs : SF_allVars(CheckDirectory(d))
    /\ WF_allVars(DeleteDirectory)

(* The directory of a cutoff that saved anything in uploaded/ is removed   *)
(* from the disk in the end, whatever fails: shouldDeleteDirectory asks    *)
(* for no more than age and one file in uploaded/.                         *)
EventuallyCleaned ==
    \A d \in Dirs : uploaded[d] # {} ~> d \notin exists

(***************************************************************************)
(* The inductive invariant behind KeptDespiteCleanup of KeptProofs         *)
(***************************************************************************)

(* The environment AcceptedFileKept needs beside a cleanup service, which  *)
(* takes one file in uploaded/ for a sign that all were uploaded: no       *)
(* upload fails, and no cutoff finds the directory of another.             *)
CleanupAssumption ==
    KeptAssumption /\ Adverse \cap {"upload", "sameSecond"} = {}

Running(d) == cut # "idle" /\ d = cutDir

(* What is about to be removed is the directory of a past cutoff, and no   *)
(* later cutoff will use it.                                               *)
OldIsPast ==
    /\ checked # Mergable => checked \in old /\ uploaded[checked] # {}
    /\ old \subseteq Dirs \cap exists
    /\ \A d \in old : ~Running(d)
    /\ cut # "idle" => cutDir <= cutoffs
    /\ \A d \in Dirs : d > cutoffs => d \notin exists /\ uploaded[d] = {}

(* The running cutoff saves nothing before it has merged every file that   *)
(* it accepted, and then uploads them all.                                 *)
MergedIsUploaded ==
    /\ cut \in {"list", "merge", "prepare"} => uploaded[cutDir] = {}
    /\ cut \in {"save", "upload", "emit"} => UNION files = AcceptedFiles
    /\ cut = "upload" => \A m \in files \ todo : \A f \in m : uploads[f] > 0
    /\ cut = "emit" => \A m \in files : \A f \in m : uploads[f] > 0

(* Where a past cutoff has saved a file, every wanted one was uploaded.    *)
SavedMeansUploaded ==
    \A d \in Dirs : uploaded[d] # {} /\ ~Running(d) =>
       \A f \in Files : Wanted(f) /\ ach[d][f] = "whole" => uploads[f] > 0

CleanupInv == OldIsPast /\ MergedIsUploaded /\ SavedMeansUploaded
=============================================================================
