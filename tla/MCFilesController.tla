------------------------- MODULE MCFilesController -------------------------
(* Instances of FilesController for TLC.                                   *)
EXTENDS FilesController

(* A file is posted twice, arrives over the stream under its name with     *)
(* .ach, and is canceled by that name.                                     *)
Traffic == {"post", "again", "delete", "streamed"}
SourceOfTraffic ==
    [m \in Traffic |-> IF m = "streamed" THEN "stream" ELSE "http"]
KindOfTraffic ==
    [m \in Traffic |-> IF m = "delete" THEN "cancel" ELSE "queue"]
FileOfTraffic ==
    [m \in Traffic |-> IF m \in {"post", "again"} THEN "a" ELSE "a.ach"]

Names == {"a", "a.ach"}
TrimOfNames == [id \in Names |-> "a"]
=============================================================================
