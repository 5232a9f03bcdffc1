-------------------------- MODULE MCCleanupService --------------------------
(* Instances of CleanupService for TLC.                                    *)
EXTENDS CleanupService, TLC

CONSTANTS a, b, w1

TwoFiles  == {a, b}
OneWorker == {w1}

(* Two files are queued, nobody cancels them.                              *)
QueueTwo == {"queueA", "queueB"}
KindOfQueueTwo == [m \in QueueTwo |-> "queue"]
FileOfQueueTwo == [m \in QueueTwo |-> IF m = "queueA" THEN a ELSE b]

(* Their entries have nothing in common.                                   *)
KeysOfFiles == [f \in TwoFiles |-> {f}]
RankOfFiles == [f \in TwoFiles |-> IF f = a THEN 1 ELSE 2]

(* What the cutoff and the cleanup survive without losing a file.          *)
Survivable ==
    {"record", "open", "sync", "list", "rmdir", "agent", "flatten", "save",
     "uploadLost"}
=============================================================================
