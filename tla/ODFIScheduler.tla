--------------------------- MODULE ODFIScheduler ---------------------------
(* The other direction of the gateway: PeriodicScheduler fetches the files *)
(* an ODFI has published on its server, keeps a copy in the audit trail,   *)
(* turns them into events and deletes them from the server.                *)
(*                                                                         *)
(* One pass (tickAll) visits the shards in order.  For each shard, tick    *)
(* lists and downloads three remote directories into a new local           *)
(* directory, processes every local file, and only when all of that        *)
(* succeeded deletes the remote files.  The server is shared with the      *)
(* ODFI, which publishes files whenever it likes, also during a pass.      *)
(*                                                                         *)
(* A document is one content under a file name: ODFIs reuse names, and the *)
(* gateway lists, deletes and audits by name.                              *)
EXTENDS Integers, Sequences

CONSTANTS
    Files,              \* names on the ODFI's server, each of one shard
    ShardOf, PathOf,    \* the shard and the remote directory of a name
    MaxVersions,        \* bound: contents the ODFI publishes under a name
    ShardNames,         \* the configured sequence of shards
    Shards,             \* the shards Sharding.Find knows
    Content,            \* the kinds of record a file contains
    Unparsable,         \* files the ACH reader rejects
    ZeroByte,           \* files of no bytes
    Enabled,            \* the processors that are configured
    Matches,            \* for a processor, the files its PathMatcher accepts
    Excludes,           \* the kinds of file the incoming processor leaves out
    Produce,            \* the reconciliation events that are configured
    Audit,              \* is there an audit trail for ODFI files?
    Retry,              \* are upload agents wrapped in a RetryAgent?
    KeepRemoteFiles, RemoveZeroByteFiles, CleanupLocalDirectory,
    Requests,           \* calls of PUT /trigger-inbound
    Adverse,            \* the failures that can happen
    MaxAdverse,         \* bound: how many of them
    Nothing

Processors == {"correction", "prenote", "reconciliation", "return", "incoming"}
Paths == <<"inbound", "reconciliation", "return">>
Records == {"batches", "corrections", "prenotes", "returns"}
Failures == {"agent", "list", "read", "open", "audit", "event", "delete",
             "remove", "withdraw", "republish", "crash"}
Documents == [name : Files, version : 1..MaxVersions]

ASSUME ODFIAssumption ==
    /\ MaxVersions \in Nat \ {0}
    /\ ShardNames \in Seq(STRING)
    /\ ShardOf \in [Files -> STRING]
    /\ PathOf \in [Files -> {"inbound", "reconciliation", "return"}]
    /\ Content \in [Files -> SUBSET Records]
    /\ Enabled \subseteq Processors
    /\ Matches \in [Processors -> SUBSET Files]
    /\ {Audit, Retry, KeepRemoteFiles, RemoveZeroByteFiles,
        CleanupLocalDirectory} \subseteq BOOLEAN
    /\ Adverse \subseteq Failures
    /\ MaxAdverse \in Nat
    /\ Nothing \notin Documents

VARIABLES
    remote,     \* the documents on the ODFI's server
    published,  \* the documents the ODFI has ever published
    deleted,    \* the documents the gateway removed from the server
    withdrawn,  \* the documents the ODFI removed or replaced itself
    audited,    \* the documents in the audit trail
    emitted,    \* the events sent, each with its document
    local,      \* the documents in the local directory of this tick
    leftover,   \* the documents in local directories of earlier ticks
    pc,         \* where the scheduler is
    next,       \* the shard it visits, an index into ShardNames
    path,       \* the remote directory it downloads, an index into Paths
    work,       \* what its present loop has still to do
    current,    \* the document being processed
    handlers,   \* the processors that have still to handle it
    failed,     \* has a step of this tick reported an error?
    alerted,    \* the shards whose tick failed in this pass
    request,    \* the progress of each request to trigger a pass
    shutdown,   \* has Shutdown been called?
    adverse     \* the failures so far

server == <<remote, published, deleted, withdrawn>>
outputs == <<audited, emitted>>
tickVars == <<local, leftover, pc, next, path, work, current, handlers,
              failed>>
control == <<alerted, request, shutdown>>
vars == <<server, outputs, tickVars, control, adverse>>

Init ==
    /\ remote = {} /\ published = {} /\ deleted = {} /\ withdrawn = {}
    /\ audited = {} /\ emitted = {}
    /\ local = {} /\ leftover = {}
    /\ pc = "idle" /\ next = 1 /\ path = 1
    /\ work = {} /\ current = Nothing /\ handlers = {} /\ failed = FALSE
    /\ alerted = {}
    /\ request = [r \in Requests |-> "none"]
    /\ shutdown = FALSE
    /\ adverse = 0

Named(documents, name) == {d \in documents : d.name = name}

(* A failure of kind e happens, within the bound.                          *)
Fails(e) ==
    /\ e \in Adverse
    /\ adverse < MaxAdverse
    /\ adverse' = adverse + 1

(***************************************************************************)
(* The ODFI's side.                                                        *)
(***************************************************************************)

(* The ODFI publishes a file under a name it has not used before.          *)
Publish(name) ==
    /\ Named(published, name) = {}
    /\ LET d == [name |-> name, version |-> 1]
       IN  /\ remote' = remote \cup {d}
           /\ published' = published \cup {d}
    /\ UNCHANGED <<deleted, withdrawn, outputs, tickVars, control, adverse>>

(* It uses a name again, with a new content.                               *)
Republish(name) ==
    /\ Named(published, name) # {}
    /\ Fails("republish")
    /\ \E d \in Named(Documents, name) \ published :
          /\ remote' = (remote \ Named(remote, name)) \cup {d}
          /\ published' = published \cup {d}
    /\ withdrawn' = withdrawn \cup Named(remote, name)
    /\ UNCHANGED <<deleted, outputs, tickVars, control>>

(* It removes a file itself.                                               *)
Withdraw(d) ==
    /\ d \in remote
    /\ Fails("withdraw")
    /\ remote' = remote \ {d}
    /\ withdrawn' = withdrawn \cup {d}
    /\ UNCHANGED <<published, deleted, outputs, tickVars, control>>

(***************************************************************************)
(* Start: the loop selects a tick of the clock, a request, or shutdown.    *)
(***************************************************************************)

StartPass ==
    /\ pc = "idle"
    /\ pc' = "shard"
    /\ next' = 1
    /\ alerted' = {}
    /\ UNCHANGED <<server, outputs, local, leftover, path, work, current,
                   handlers, failed, shutdown, adverse>>

ClockTick == StartPass /\ UNCHANGED request

TakeTrigger(r) ==
    /\ request[r] = "queued"
    /\ request' = [request EXCEPT ![r] = "served"]
    /\ StartPass

Stop ==
    /\ pc = "idle" /\ shutdown
    /\ pc' = "stopped"
    /\ UNCHANGED <<server, outputs, local, leftover, next, path, work,
                   current, handlers, failed, control, adverse>>

(* PUT /trigger-inbound: the handler puts a waiter into a channel with     *)
(* room for one, and then waits for the end of the pass.                   *)
Trigger(r) ==
    /\ request[r] = "none"
    /\ request' = [request EXCEPT ![r] = "sending"]
    /\ UNCHANGED <<server, outputs, tickVars, alerted, shutdown, adverse>>

Enqueue(r) ==
    /\ request[r] = "sending"
    /\ \A s \in Requests : request[s] # "queued"
    /\ request' = [request EXCEPT ![r] = "queued"]
    /\ UNCHANGED <<server, outputs, tickVars, alerted, shutdown, adverse>>

Shutdown ==
    /\ ~shutdown
    /\ shutdown' = TRUE
    /\ UNCHANGED <<server, outputs, tickVars, alerted, request, adverse>>

(***************************************************************************)
(* tickAll: every shard in turn, whatever happened to the ones before.     *)
(***************************************************************************)

Shard == ShardNames[next]

UnknownShard ==
    /\ pc = "shard" /\ next <= Len(ShardNames)
    /\ Shard \notin Shards
    /\ next' = next + 1
    /\ UNCHANGED <<server, outputs, local, leftover, pc, path, work, current,
                   handlers, failed, control, adverse>>

StartTick ==
    /\ pc = "shard" /\ next <= Len(ShardNames)
    /\ Shard \in Shards
    /\ pc' = "list"
    /\ path' = 1
    /\ failed' = FALSE
    /\ UNCHANGED <<server, outputs, local, leftover, next, work, current,
                   handlers, control, adverse>>

NextShard == next + 1

(* tick returns an error.  The local directory stays where it is.          *)
TickFails ==
    /\ pc' = "shard"
    /\ next' = NextShard
    /\ alerted' = alerted \cup {Shard}
    /\ work' = {}
    /\ local' = {}
    /\ leftover' = leftover \cup local
    /\ UNCHANGED <<server, outputs, path, current, handlers, failed, request,
                   shutdown>>

(* No upload agent, no local directory, or no audit storage.               *)
SetupFails ==
    /\ \/ pc = "list" /\ path = 1
       \/ pc = "process" /\ work = local /\ current = Nothing /\ Audit
    /\ Fails("agent")
    /\ TickFails

(* Mutant: a pass that met errors does not answer its waiter.              *)
AnswersSuccessOnly(r) == IF alerted = {} THEN "ok" ELSE "served"

(* tickAll returns nil, also when a shard failed.                          *)
Answer(r) == "ok"

FinishPass ==
    /\ pc = "shard" /\ next > Len(ShardNames)
    /\ pc' = "idle"
    /\ request' = [r \in Requests |->
                     IF request[r] = "served" THEN Answer(r) ELSE request[r]]
    /\ UNCHANGED <<server, outputs, local, leftover, next, path, work,
                   current, handlers, failed, alerted, shutdown, adverse>>

(***************************************************************************)
(* CopyFilesFromRemote.                                                    *)
(***************************************************************************)

(* Is a failed call of the agent reported as an error?  RetryAgent returns *)
(* only the errors it retries; any other becomes a success.                *)
Reported == IF Retry THEN BOOLEAN ELSE {TRUE}

Listed == {name \in Files : /\ Named(remote, name) # {}
                            /\ ShardOf[name] = Shard
                            /\ PathOf[name] = Paths[path]}

List ==
    /\ pc = "list"
    /\ pc' = "save"
    /\ work' = Listed
    /\ UNCHANGED <<server, outputs, local, leftover, next, path, current,
                   handlers, failed, control, adverse>>

ListFails ==
    /\ pc = "list"
    /\ Fails("list")
    /\ \/ TickFails
       \/ /\ FALSE \in Reported
          /\ pc' = "save"
          /\ work' = {}
          /\ UNCHANGED <<server, outputs, local, leftover, next, path,
                         current, handlers, failed, control>>

(* saveFilepaths goes on with the other files when one cannot be read,     *)
(* and reports the failure at the end.                                     *)
Save(name) ==
    /\ pc = "save" /\ name \in work
    /\ work' = work \ {name}
    /\ \/ /\ Named(remote, name) # {}
          /\ local' = local \cup Named(remote, name)
          /\ UNCHANGED <<failed, adverse>>
       \/ /\ \/ Named(remote, name) = {} /\ UNCHANGED adverse
             \/ Fails("read")
          /\ failed' = TRUE
          /\ UNCHANGED local
    /\ UNCHANGED <<server, outputs, leftover, pc, next, path, current,
                   handlers, control>>

SavedAll ==
    /\ pc = "save" /\ work = {}
    /\ UNCHANGED adverse
    /\ \/ failed /\ TickFails
       \/ /\ ~failed
          /\ IF path < Len(Paths)
             THEN pc' = "list" /\ path' = path + 1 /\ UNCHANGED work
             ELSE pc' = "process" /\ work' = local /\ UNCHANGED path
          /\ UNCHANGED <<server, outputs, local, leftover, next, current,
                         handlers, failed, control>>

(***************************************************************************)
(* ProcessFiles: parse, audit, and hand each file to every processor.  An  *)
(* error is kept for the end and stops neither the other processors nor    *)
(* the other files.                                                        *)
(***************************************************************************)

(* The lengths tested are always >= 0.                                     *)
isCorrectionFile(name) == TRUE
isReturnFile(name) == TRUE

isPrenoteFile(name) == "prenotes" \in Content[name]
isReconciliationFile(name) ==
    "reconciliation" \in Enabled /\ name \in Matches["reconciliation"]

(* Is the file one the incoming processor is told to leave out?            *)
Excluded(name) ==
    \/ "corrections" \in Excludes /\ isCorrectionFile(name)
    \/ "prenotes" \in Excludes /\ isPrenoteFile(name)
    \/ "returns" \in Excludes /\ isReturnFile(name)
    \/ "reconciliations" \in Excludes /\ isReconciliationFile(name)

(* The events processor p sends for a file, in order.  The prenote         *)
(* processor collects entries but never a batch, so it sends none.         *)
Handled(p, name) ==
    CASE p = "correction" -> <<"CorrectionFile">>
      [] p = "return" -> <<"ReturnFile">>
      [] p = "prenote" -> <<>>
      [] p = "incoming" -> IF Excluded(name) THEN <<>> ELSE <<"IncomingFile">>
      [] p = "reconciliation" ->
            SelectSeq(<<"ReconciliationFile", "ReconciliationEntry">>,
                      LAMBDA k : k \in Produce /\ "batches" \in Content[name])

EventsOf(p, name) ==
    IF name \in Matches[p] THEN Handled(p, name) ELSE <<>>

(* The first n events of processor p for document d.                       *)
Sent(p, d, n) == {<<EventsOf(p, d.name)[i], d>> : i \in 1..n}

(* Mutant: a failed save goes unnoticed.                                   *)
AuditErrorIgnored(d) == {audited, audited \cup {d}}

(* The audit trail keeps the file of the day it already has under a name.  *)
AuditOf(d) ==
    IF ~Audit \/ d.name \in ZeroByte THEN {audited}
    ELSE IF Named(audited, d.name) = {} THEN {audited \cup {d}}
    ELSE {audited, audited \cup {d}}

(* Mutant: the first error ends the loop.                                  *)
StopsAtError(d) == {}

AfterError(d) == work \ {d}

(* Read, parse and audit one file.                                         *)
Open(d) ==
    /\ pc = "process" /\ current = Nothing /\ d \in work
    /\ \/ /\ d.name \notin Unparsable
          /\ work' = work \ {d}
          /\ audited' \in AuditOf(d)
          /\ current' = d
          /\ handlers' = Enabled
          /\ UNCHANGED <<failed, adverse>>
       \/ /\ \/ d.name \in Unparsable /\ UNCHANGED adverse
             \/ Fails("open")
             \/ d.name \notin ZeroByte /\ Audit /\ Fails("audit")
          /\ work' = AfterError(d)
          /\ failed' = TRUE
          /\ UNCHANGED <<audited, current, handlers>>
    /\ UNCHANGED <<server, emitted, local, leftover, pc, next, path, control>>

(* One processor handles the current document.  Its events may fail; the   *)
(* ones before the failed one are sent.                                    *)
Handle(p) ==
    /\ current # Nothing /\ p \in handlers
    /\ handlers' = handlers \ {p}
    /\ \/ /\ emitted' = emitted \cup
                         Sent(p, current, Len(EventsOf(p, current.name)))
          /\ UNCHANGED <<failed, adverse>>
       \/ /\ Fails("event")
          /\ \E n \in 1..Len(EventsOf(p, current.name)) :
                emitted' = emitted \cup Sent(p, current, n - 1)
          /\ failed' = TRUE
    /\ UNCHANGED <<server, audited, local, leftover, pc, next, path, work,
                   current, control>>

HandledAll ==
    /\ current # Nothing /\ handlers = {}
    /\ current' = Nothing
    /\ UNCHANGED <<server, outputs, local, leftover, pc, next, path, work,
                   handlers, failed, control, adverse>>

(* Mutant: the files are cleaned up although processing reported errors.   *)
IgnoresErrors == FALSE

(* Does an error of ProcessFiles or of a cleanup end the tick?             *)
Errors == failed

(* Mutant: the option is taken the other way round.                        *)
KeepsInverted == IF KeepRemoteFiles THEN local ELSE {}

FilesToDelete == IF KeepRemoteFiles THEN {} ELSE local

ProcessedAll ==
    /\ pc = "process" /\ current = Nothing /\ work = {}
    /\ UNCHANGED adverse
    /\ \/ Errors /\ TickFails
       \/ /\ ~Errors
          /\ pc' = "cleanup"
          /\ work' = FilesToDelete
          /\ UNCHANGED <<server, outputs, local, leftover, next, path,
                         current, handlers, failed, control>>

(***************************************************************************)
(* Cleanup, CleanupEmptyFiles and the local directory.                     *)
(***************************************************************************)

(* Delete a remote file, by name.  What the agent says of a file that is   *)
(* no longer there depends on the server.                                  *)
DeleteRemote(d) ==
    /\ work' = work \ {d}
    /\ \/ /\ remote' = remote \ Named(remote, d.name)
          /\ deleted' = deleted \cup Named(remote, d.name)
          /\ IF Named(remote, d.name) # {} THEN UNCHANGED failed
             ELSE failed' \in {failed, TRUE}
          /\ UNCHANGED adverse
       \/ /\ Fails("delete")
          /\ \E reported \in Reported : failed' = (failed \/ reported)
          /\ UNCHANGED <<remote, deleted>>
    /\ UNCHANGED <<published, withdrawn, outputs, local, leftover, pc, next,
                   path, current, handlers, control>>

Cleanup(d) == pc = "cleanup" /\ d \in work /\ DeleteRemote(d)

CleanedAll ==
    /\ pc = "cleanup" /\ work = {}
    /\ UNCHANGED adverse
    /\ \/ failed /\ TickFails
       \/ /\ ~failed
          /\ pc' = "empty"
          /\ work' = IF RemoveZeroByteFiles
                     THEN {d \in local : d.name \in ZeroByte} ELSE {}
          /\ UNCHANGED <<server, outputs, local, leftover, next, path,
                         current, handlers, failed, control>>

CleanupEmptyFiles(d) == pc = "empty" /\ d \in work /\ DeleteRemote(d)

FinishTick ==
    /\ pc = "empty" /\ work = {}
    /\ \/ ((failed /\ UNCHANGED adverse) \/ Fails("remove")) /\ TickFails
       \/ /\ ~failed /\ UNCHANGED adverse
          /\ pc' = "shard"
          /\ next' = next + 1
          /\ local' = {}
          /\ leftover' = IF CleanupLocalDirectory THEN leftover
                         ELSE leftover \cup local
          /\ UNCHANGED <<server, outputs, path, work, current, handlers,
                         failed, control>>

(* The process dies and is started again.  Requests break off.             *)
Crash ==
    /\ Fails("crash")
    /\ pc' = "idle"
    /\ next' = 1 /\ path' = 1
    /\ work' = {} /\ current' = Nothing /\ handlers' = {} /\ failed' = FALSE
    /\ local' = {}
    /\ leftover' = leftover \cup local
    /\ alerted' = {}
    /\ request' = [r \in Requests |->
                     IF request[r] = "none" THEN "none" ELSE "broken"]
    /\ shutdown' = FALSE
    /\ UNCHANGED <<server, outputs>>

Pass ==
    \/ UnknownShard \/ StartTick \/ SetupFails \/ FinishPass
    \/ List \/ ListFails \/ (\E name \in Files : Save(name)) \/ SavedAll
    \/ (\E d \in Documents : Open(d))
    \/ (\E p \in Processors : Handle(p)) \/ HandledAll \/ ProcessedAll
    \/ (\E d \in Documents : Cleanup(d)) \/ CleanedAll
    \/ (\E d \in Documents : CleanupEmptyFiles(d)) \/ FinishTick

ODFI ==
    \/ \E name \in Files : Publish(name) \/ Republish(name)
    \/ \E d \in Documents : Withdraw(d)

Next ==
    \/ ODFI
    \/ Pass
    \/ ClockTick \/ Stop \/ Shutdown \/ Crash
    \/ \E r \in Requests : Trigger(r) \/ Enqueue(r) \/ TakeTrigger(r)

(* The loop keeps running, the clock keeps ticking, and select picks a     *)
(* ready case at random: a request that is ready again and again is taken, *)
(* and so is a sender blocked on the full channel.                         *)
Fairness ==
    /\ WF_vars(Pass)
    /\ WF_vars(ClockTick)
    /\ \A r \in Requests : SF_vars(Enqueue(r)) /\ SF_vars(TakeTrigger(r))

Spec == Init /\ [][Next]_vars
FairSpec == Spec /\ Fairness

-----------------------------------------------------------------------------

TypeOK ==
    /\ remote \subseteq published
    /\ published \subseteq Documents
    /\ deleted \cup withdrawn \cup audited \cup local \cup leftover
          \subseteq published
    /\ \A e \in emitted : e[2] \in published
    /\ pc \in {"idle", "shard", "list", "save", "process", "cleanup",
               "empty", "stopped"}
    /\ next \in 1..(Len(ShardNames) + 1)
    /\ path \in 1..3
    /\ IF pc = "save" THEN work \subseteq Files ELSE work \subseteq local
    /\ current \in local \cup {Nothing}
    /\ handlers \subseteq Enabled
    /\ failed \in BOOLEAN /\ shutdown \in BOOLEAN
    /\ request \in [Requests -> {"none", "sending", "queued", "served", "ok",
                                 "broken"}]
    /\ adverse \in 0..MaxAdverse

(* Every processor has sent all it has to say of document d.               *)
SentAll(p, d) == Sent(p, d, Len(EventsOf(p, d.name))) \subseteq emitted

Announced(d) == \A p \in Enabled : SentAll(p, d)

(* The names the ODFI has used again.                                      *)
Reused == {d.name : d \in {e \in published : e.version # 1}}

InAuditTrail(d) ==
    Audit /\ d.name \notin ZeroByte \cup Reused => d \in audited

(* The scheduler's locals within a tick: which shard and which document.   *)
TickLocals ==
    /\ pc \in {"list", "save", "process", "cleanup", "empty"}
          => next <= Len(ShardNames)
    /\ current # Nothing => pc = "process" /\ current \in local \ work

(* What processing has achieved between two of its steps.  A document that *)
(* is no longer to be processed is in the audit trail, and its events are  *)
(* sent but for those of the processors still to come; before anything is  *)
(* deleted this is so of all the documents of the tick.                    *)
ProcessedSoFar ==
    /\ current # Nothing => InAuditTrail(current)
    /\ pc = "process" /\ ~failed =>
          \A d \in local \ work :
              /\ InAuditTrail(d)
              /\ \A p \in Enabled : \/ d = current /\ p \in handlers
                                    \/ SentAll(p, d)
    /\ pc \in {"cleanup", "empty"} =>
          \A d \in local : Announced(d) /\ InAuditTrail(d)

(* tick: a document leaves the ODFI's server by the gateway's hand only    *)
(* after it was audited and every event about it was sent, whatever failed *)
(* or crashed before: no inbound file is lost.  (Files are deleted by name *)
(* and not by content, so this needs a name the ODFI does not use again.)  *)
DeletedWasAnnounced ==
    \A d \in deleted :
        d.name \notin Reused => Announced(d) /\ InAuditTrail(d)

(* processFile: nobody hears of a document that is not in the audit trail, *)
(* unless its name was used again.                                         *)
EmittedWasAudited == \A e \in emitted : InAuditTrail(e[2])

(* processDir: a file that parses is announced in the end (or withdrawn by *)
(* the ODFI), even though other files of its pass cannot be parsed, other  *)
(* processors fail, or another shard is not known.                         *)
EventuallyAnnounced ==
    \A d \in Documents :
        d \in remote /\ d.name \notin Unparsable
          ~> Announced(d) \/ d \in withdrawn \/ shutdown

(* Start: PUT /trigger-inbound is answered, unless the gateway stops.      *)
TriggerAnswered ==
    \A r \in Requests :
        request[r] = "sending" ~> request[r] \in {"ok", "broken"} \/ shutdown

(* Cleanup: a file leaves the ODFI's server in the end, unless its shard   *)
(* has one that cannot be parsed.                                          *)
EventuallyDeleted ==
    \A d \in Documents :
        /\ d \in remote
        /\ \A name \in Unparsable : ShardOf[name] # ShardOf[d.name]
        ~> d \notin remote \/ shutdown
=============================================================================
