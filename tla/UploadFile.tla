----------------------------- MODULE UploadFile -----------------------------
(***************************************************************************)
(* One call of aggregator.uploadFile (internal/pipeline/aggregate.go): the *)
(* audit copy, the upload with its retries (internal/upload/retry.go), the *)
(* notifications with theirs (internal/notify/multi.go), and the alert     *)
(* when they fail (internal/alerting).  Merging and FilePipeline know the  *)
(* call by its outcomes; this is how they come about.                      *)
(*                                                                         *)
(* The contents are a buffer that reading consumes, in chunks.  A retry    *)
(* hands the same buffer to the agent again.  Nothing bounds the failures  *)
(* but the retries.                                                        *)
(***************************************************************************)
EXTENDS Integers, Sequences

CONSTANTS
    Size,               \* bound: the chunks of the file
    MaxRetries,         \* UploadRetry.MaxRetries
    Senders,            \* the senders of the MultiSender, in order
    MaxNotifyRetries,   \* NotificationRetries.MaxRetries
    Alerters            \* the Alerters, in order

ASSUME UploadAssumption ==
    /\ Size \in Nat \ {0}
    /\ {MaxRetries, MaxNotifyRetries} \subseteq Nat
    /\ Senders \in Seq(STRING)
    /\ Alerters \in Seq(STRING)

VARIABLES
    retrying,     \* is Upload.Retry configured?
    notifyAgain,  \* is Notifications.Retry configured?
    pc,           \* where the call is
    audited,      \* is the file in the audit trail?
    unread,       \* the chunks left in the buffer
    server,       \* the chunks of the file on the server, -1 when there is none
    attempts,     \* calls of the underlying agent
    begun,        \* did one of them fail after it had read something?
    err,          \* what the last call returned
    reported,     \* what UploadFile returned
    noSender,     \* could the senders not be set up?
    sender,       \* the sender at work, an index into Senders
    tries,        \* calls of that sender
    outcome,      \* outcome[i]: what came of sender i
    alerter,      \* the alerter at work, an index into Alerters
    alerted       \* the alerters that raised an alert

config == <<retrying, notifyAgain>>
uploadVars == <<audited, unread, server, attempts, begun, err, reported>>
notifyVars == <<noSender, sender, tries, outcome>>
alertVars == <<alerter, alerted>>
vars == <<config, pc, uploadVars, notifyVars, alertVars>>

Results == {"none", "nil", "error"}

TypeOK ==
    /\ {retrying, notifyAgain, audited, begun, noSender} \subseteq BOOLEAN
    /\ pc \in {"prepare", "dial", "transfer", "returned", "notify", "alert",
               "done"}
    /\ unread \in 0..Size
    /\ server \in -1..Size
    /\ attempts \in 0..(MaxRetries + 1)
    /\ err \in {"none", "timeout", "other"}
    /\ reported \in Results
    /\ sender \in 1..(Len(Senders) + 1)
    /\ tries \in 0..MaxNotifyRetries
    /\ outcome \in [1..Len(Senders) ->
                     {"none", "info", "critical", "error", "ignored"}]
    /\ alerter \in 1..(Len(Alerters) + 1)
    /\ alerted \subseteq 1..Len(Alerters)

Init ==
    /\ retrying \in BOOLEAN /\ notifyAgain \in BOOLEAN
    /\ pc = "prepare"
    /\ audited = FALSE
    /\ unread = Size
    /\ server = -1
    /\ attempts = 0 /\ begun = FALSE
    /\ err = "none"
    /\ reported = "none"
    /\ noSender = FALSE
    /\ sender = 1 /\ tries = 0
    /\ outcome = [i \in 1..Len(Senders) |-> "none"]
    /\ alerter = 1 /\ alerted = {}

(***************************************************************************)
(* Before the upload.                                                      *)
(***************************************************************************)

(* The filename, the format or the audit trail fails and the call returns, *)
(* or the file is audited.                                                 *)
Prepare ==
    /\ pc = "prepare"
    /\ \/ pc' = "dial" /\ audited' = TRUE /\ UNCHANGED reported
       \/ pc' = "done" /\ reported' = "error" /\ UNCHANGED audited
    /\ UNCHANGED <<config, unread, server, attempts, begun, err, notifyVars,
                   alertVars>>

(***************************************************************************)
(* RetryAgent.UploadFile around the FTP or SFTP agent's.                   *)
(***************************************************************************)

(* A connection is made and the remote file created, or not.               *)
Dial ==
    /\ pc = "dial"
    /\ attempts' = attempts + 1
    /\ \/ pc' = "transfer" /\ server' = 0 /\ err' = "none"
       \/ /\ pc' = "returned" /\ err' \in {"timeout", "other"}
          /\ UNCHANGED server
    /\ UNCHANGED <<config, audited, unread, begun, reported, notifyVars,
                   alertVars>>

(* The agent reads what is left in the buffer and writes it, until the     *)
(* buffer is empty or something fails.                                     *)
Transfer ==
    /\ pc = "transfer"
    /\ \/ /\ unread > 0
          /\ unread' = unread - 1
          /\ server' = server + 1
          /\ UNCHANGED <<pc, begun, err>>
       \/ /\ unread = 0
          /\ pc' = "returned"
          /\ UNCHANGED <<unread, server, begun, err>>
       \/ /\ unread > 0
          /\ unread' = unread - 1
          /\ pc' = "returned" /\ err' \in {"timeout", "other"}
          /\ begun' = TRUE
          /\ UNCHANGED server
    /\ UNCHANGED <<config, audited, attempts, reported, notifyVars,
                   alertVars>>

(* Mutant: one retry less.                                                 *)
RetriesOneLess == err = "timeout" /\ attempts < MaxRetries

(* Is the attempt repeated?  Only a timeout (or an unknown host) is        *)
(* retryable, and only so often.                                           *)
Retries == err = "timeout" /\ attempts <= MaxRetries

(* Mutant: the last timeout is no error.                                   *)
ReturnForgetsTimeout ==
    /\ pc = "returned"
    /\ IF retrying /\ Retries
         THEN pc' = "dial" /\ UNCHANGED reported
         ELSE pc' = "notify" /\ reported' = "nil"
    /\ UNCHANGED <<config, audited, unread, server, attempts, begun, err,
                   notifyVars, alertVars>>

(* isRetryableError turns every other error into success.  Without the     *)
(* retry wrapper the agent's error is returned as it is.                   *)
Return ==
    /\ pc = "returned"
    /\ IF retrying /\ Retries
         THEN pc' = "dial" /\ UNCHANGED reported
         ELSE /\ pc' = "notify"
              /\ reported' = IF err = "timeout" \/ (err = "other" /\ ~retrying)
                               THEN "error" ELSE "nil"
    /\ UNCHANGED <<config, audited, unread, server, attempts, begun, err,
                   notifyVars, alertVars>>

(***************************************************************************)
(* notifyAfterUpload, MultiSender.Info and MultiSender.Critical.           *)
(***************************************************************************)

kind == IF reported = "error" THEN "critical" ELSE "info"

(* The agent is unknown or one of the senders cannot be set up: none of    *)
(* them is tried, and the error is alerted.                                *)
NoSender ==
    /\ pc = "notify"
    /\ sender = 1 /\ tries = 0
    /\ pc' = "alert"
    /\ noSender' = TRUE
    /\ UNCHANGED <<config, uploadVars, sender, tries, outcome, alertVars>>

(* The present sender comes to the end o, and the next one's turn comes.   *)
NextSender(o) ==
    /\ UNCHANGED noSender
    /\ outcome' = [outcome EXCEPT ![sender] = o]
    /\ sender' = sender + 1
    /\ tries' = 0

Send ==
    /\ pc = "notify"
    /\ sender <= Len(Senders)
    /\ NextSender(kind)
    /\ UNCHANGED <<config, pc, uploadVars, alertVars>>

(* Mutant: the loop ends at the first error.                               *)
SendFailsForAll ==
    /\ pc = "notify"
    /\ sender <= Len(Senders)
    /\ outcome' = [outcome EXCEPT ![sender] = "error"]
    /\ sender' = Len(Senders) + 1
    /\ UNCHANGED <<config, pc, uploadVars, noSender, tries, alertVars>>

(* Mutant: a sender is retried without limit.                              *)
SendFailsAgain ==
    /\ pc = "notify"
    /\ sender <= Len(Senders)
    /\ \/ notifyAgain /\ tries' = 1 - tries /\ UNCHANGED <<noSender, sender, outcome>>
       \/ ~notifyAgain /\ NextSender("error")
    /\ UNCHANGED <<config, pc, uploadVars, alertVars>>

(* A sender fails.  With retries a timeout makes it try again, so often,   *)
(* and any other error counts as sent; without them every error counts.    *)
SendFails ==
    /\ pc = "notify"
    /\ sender <= Len(Senders)
    /\ \/ /\ notifyAgain /\ tries < MaxNotifyRetries
          /\ tries' = tries + 1
          /\ UNCHANGED <<noSender, sender, outcome>>
       \/ /\ notifyAgain => tries = MaxNotifyRetries
          /\ NextSender("error")
       \/ notifyAgain /\ NextSender("ignored")
    /\ UNCHANGED <<config, pc, uploadVars, alertVars>>

(* The first error, if any, is alerted.                                    *)
Notified ==
    /\ pc = "notify"
    /\ sender > Len(Senders)
    /\ pc' = IF \E i \in 1..Len(Senders) : outcome[i] = "error"
               THEN "alert" ELSE "done"
    /\ UNCHANGED <<config, uploadVars, notifyVars, alertVars>>

(* Alerters.AlertError stops at the first alerter that fails.              *)
AlertError ==
    /\ pc = "alert"
    /\ IF alerter > Len(Alerters)
         THEN pc' = "done" /\ UNCHANGED alertVars
         ELSE \/ /\ alerted' = alerted \cup {alerter}
                 /\ alerter' = alerter + 1
                 /\ UNCHANGED pc
              \/ pc' = "done" /\ UNCHANGED alertVars
    /\ UNCHANGED <<config, uploadVars, notifyVars>>

Next ==
    \/ Prepare \/ Dial \/ Transfer \/ Return
    \/ NoSender \/ Send \/ SendFails \/ Notified
    \/ AlertError

Spec == Init /\ [][Next]_vars

(* The call runs until it returns: every call it makes has a timeout.      *)
FairSpec == Spec /\ WF_vars(Next)

(***************************************************************************)
(* Properties.                                                             *)
(***************************************************************************)

(* A success reported for a file that is not whole on the server comes     *)
(* from the retry wrapper alone, in two ways: the last error was no        *)
(* timeout, or an attempt that failed had begun to consume the contents.   *)
(* Hosts that cannot be reached in time do no harm (retry.go:43-51, 92-100;*)
(* aggregate.go:355).                                                      *)
SuccessMeansWhole ==
    reported = "nil" /\ server # Size => retrying /\ (err = "other" \/ begun)

(* An upload that was tried is given up only after every retry, with       *)
(* retries, and at once without (retry.go:53-60, 92-100).                  *)
ErrorMeansExhausted ==
    reported = "error" /\ audited =>
       attempts = IF retrying THEN MaxRetries + 1 ELSE 1

(* When the call is over every sender has been tried, whichever failed     *)
(* before it, and those that delivered told what was reported.  Only when  *)
(* the senders could not all be set up has none of them been tried: it     *)
(* never happens that some are told and others are not because one is      *)
(* broken or misconfigured (multi.go:39-64, 98-132, aggregate.go:381-421). *)
EverySenderTried ==
    pc = "done" /\ audited =>
       \A i \in 1..Len(Senders) :
          IF noSender THEN outcome[i] = "none"
                      ELSE outcome[i] \in {kind, "error", "ignored"}

(* The call returns, whatever fails (retry.go:53-60, multi.go:68-75).      *)
EventuallyReturns == <>(pc = "done")
=============================================================================
