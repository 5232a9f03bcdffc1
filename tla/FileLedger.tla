----------------------------- MODULE FileLedger -----------------------------
(***************************************************************************)
(* What the pipeline promises for each file, without workers, messages,    *)
(* directories or crashes: a file is accepted before it is sent, it is     *)
(* sent at most once, its row is withdrawn only while it was never sent,   *)
(* and its upload is announced only after it happened.  FilePipeline       *)
(* implements this (LedgerSpec there).                                     *)
(***************************************************************************)
EXTENDS Naturals

CONSTANT Files

VARIABLES
    row,        \* row[f]: what the files table says of f
    times,      \* times[f]: how often f was sent to the remote server
    announced   \* the files FileUploaded was emitted for

ledgerVars == <<row, times, announced>>

Init ==
    /\ row = [f \in Files |-> "none"]
    /\ times = [f \in Files |-> 0]
    /\ announced = {}

Accept(f) ==
    /\ row[f] = "none"
    /\ row' = [row EXCEPT ![f] = "accepted"]
    /\ UNCHANGED <<times, announced>>

Withdraw(f) ==
    /\ row[f] # "none"
    /\ times[f] = 0
    /\ row' = [row EXCEPT ![f] = "none"]
    /\ UNCHANGED <<times, announced>>

Cancel(f) ==
    /\ row[f] = "accepted"
    /\ row' = [row EXCEPT ![f] = "canceled"]
    /\ UNCHANGED <<times, announced>>

(* The files of one merged file reach the server together.                 *)
Send(S) ==
    /\ \A f \in S : row[f] # "none" /\ times[f] = 0
    /\ times' = [f \in Files |-> IF f \in S THEN 1 ELSE times[f]]
    /\ UNCHANGED <<row, announced>>

Announce(f) ==
    /\ times[f] = 1
    /\ announced' = announced \cup {f}
    /\ UNCHANGED <<row, times>>

Next ==
    \/ \E f \in Files : Accept(f) \/ Withdraw(f) \/ Cancel(f) \/ Announce(f)
    \/ \E S \in SUBSET Files : Send(S)

Spec == Init /\ [][Next]_ledgerVars
=============================================================================
