--------------------------- MODULE MCFilePipeline ---------------------------
(* Instances of FilePipeline for TLC.                                      *)
EXTENDS FilePipeline, TLC

CONSTANTS a, b, w1, w2

TwoFiles   == {a, b}
TwoWorkers == {w1, w2}
WorkersAreAlike == Permutations(TwoWorkers)

(* Two files are queued ...                                                *)
QueueTwo == {"queueA", "queueB"}

(* ... and a third message comes without a file, ...                       *)
AndNoFile == QueueTwo \cup {"nofileB"}
KindOfAndNoFile ==
    [m \in AndNoFile |-> IF m = "nofileB" THEN "noFile" ELSE "queue"]
FileOfAndNoFile == [m \in AndNoFile |-> IF m = "queueA" THEN a ELSE b]

(* ... or one of them is canceled, ...                                      *)
QueueAndCancel == QueueTwo \cup {"cancelA"}
KindOfQueueAndCancel ==
    [m \in QueueAndCancel |-> IF m = "cancelA" THEN "cancel" ELSE "queue"]
FileOfQueueAndCancel ==
    [m \in QueueAndCancel |-> IF m = "queueB" THEN b ELSE a]

(* beside two messages that are never committed.                           *)
AndUnreadable == QueueAndCancel \cup {"badB", "unknownB"}
KindOfAndUnreadable ==
    [m \in AndUnreadable |->
        CASE m \in QueueAndCancel -> KindOfQueueAndCancel[m]
          [] m = "badB" -> "badFile" [] m = "unknownB" -> "unknown"]
FileOfAndUnreadable ==
    [m \in AndUnreadable |->
        IF m \in QueueAndCancel THEN FileOfQueueAndCancel[m] ELSE b]

(* The one entry of a is also in b, which is listed last.                  *)
KeysOfFiles == [f \in TwoFiles |-> IF f = a THEN {"shared"} ELSE {"shared", "own"}]
RankOfFiles == [f \in TwoFiles |-> IF f = a THEN 1 ELSE 2]

(* One file is queued and canceled.                                        *)
OneFile == {a}
AboutOneFile == {"queueA", "cancelA"}
KindOfAboutOneFile == [m \in AboutOneFile |-> KindOfQueueAndCancel[m]]
FileOfAboutOneFile == [m \in AboutOneFile |-> a]
KeysOfOneFile == [f \in OneFile |-> {"own"}]
RankOfOneFile == [f \in OneFile |-> 1]

(* Everything can go wrong but a failing Sync and two cutoffs in a second. *)
AnyFault == AdverseEvents \ {"sync", "sameSecond"}

(* What a worker and a cutoff survive without losing an accepted file.     *)
Survivable ==
    {"sameSecond", "lookup", "record", "open", "cancel", "replace", "send",
     "list", "rmdir", "agent", "flatten", "save", "upload", "uploadLost"}
=============================================================================
