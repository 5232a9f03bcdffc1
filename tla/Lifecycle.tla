----------------------------- MODULE Lifecycle -----------------------------
(***************************************************************************)
(* The process from NewEnvironment (internal/environment.go) to its end,   *)
(* with the aggregators and the admin API that triggers their cutoffs      *)
(* (internal/pipeline/manual_cutoff_times.go).                             *)
(*                                                                         *)
(* main connects to the database, starts the pipeline and the servers, and *)
(* waits for a signal or a server's error.  Its deferred calls stop the    *)
(* servers, which wait for the handlers they run, and then shut the        *)
(* environment down, which cancels the context of the pipeline, but only   *)
(* where there is a database.                                              *)
(***************************************************************************)
EXTENDS Aggregator

CONSTANTS
    MaxConnects,  \* how often initializeDatabase tries, 23 in the code
    Targets       \* Targets[r]: the shard names in the body of r

ASSUME LifecycleAssumption ==
    /\ MaxConnects \in Nat \ {0}
    /\ Targets \in [Requests -> Seq(STRING)]

VARIABLES
    main,       \* where main is
    database,   \* is a database configured?
    connects,   \* the attempts to connect to it
    request,    \* request[r]: where the handler of r is
    next,       \* next[r]: the shard it is at, an index into Targets[r]
    failed,     \* failed[r]: the names its response reports an error for
    done        \* done[r]: the shards whose last cutoff for r succeeded

mainVars == <<main, database, connects>>
requestVars == <<request, next, failed, done>>
vars == <<aggVars, mainVars, requestVars>>

TypeOK ==
    /\ AggregatorTypeOK
    /\ main \in {"connect", "boot", "servers", "serving", "hung",
                 "stopServers", "shutdown", "exit", "exited"}
    /\ database \in BOOLEAN
    /\ connects \in 0..MaxConnects
    /\ request \in [Requests -> {"none", "next", "waiting", "rejected",
                                 "ok", "badRequest"}]
    /\ next \in [Requests -> Nat]
    /\ \A r \in Requests : next[r] \in 1..(Len(Targets[r]) + 1)
    /\ failed \in [Requests -> SUBSET STRING]
    /\ done \in [Requests -> SUBSET Shards]

Init ==
    /\ AggregatorInit
    /\ database \in BOOLEAN
    /\ main = IF database THEN "connect" ELSE "boot"
    /\ connects = 0
    /\ request = [r \in Requests |-> "none"]
    /\ next = [r \in Requests |-> 1]
    /\ failed = [r \in Requests |-> {}]
    /\ done = [r \in Requests |-> {}]

(***************************************************************************)
(* main.                                                                   *)
(***************************************************************************)

(* One of the attempts of initializeDatabase.  After the last one main     *)
(* exits.                                                                  *)
Connect ==
    /\ main = "connect"
    /\ connects' = connects + 1
    /\ \/ /\ main' = "boot"
          /\ UNCHANGED <<up, adverse>>
       \/ /\ Fails("connect")
          /\ IF connects' < MaxConnects
               THEN UNCHANGED <<main, up>>
               ELSE main' = "exited" /\ up' = FALSE
    /\ UNCHANGED <<cronVars, loopVars, cleanerVars, ctxDone, panicked,
                   database, requestVars>>

(* pipeline.Start creates an aggregator for each shard and starts it.      *)
StartPipeline == agg' = [s \in Shards |-> "starting"]

(* The rest of NewEnvironment.  An error makes main exit.                  *)
NewEnvironment ==
    /\ main = "boot"
    /\ \/ /\ main' = "servers"
          /\ StartPipeline
          /\ UNCHANGED <<up, adverse>>
       \/ /\ Fails("environment")
          /\ main' = "exited" /\ up' = FALSE
          /\ UNCHANGED agg
    /\ UNCHANGED <<cronVars, trigger, job, answer, served, notices,
                   cleanerVars, ctxDone, panicked, database, connects,
                   requestVars>>

(* RunServers.  bootAdminServer reports an error on a channel that nobody  *)
(* reads before RunServers has returned.                                   *)
RunServers ==
    /\ up
    /\ main = "servers"
    /\ \/ main' = "serving" /\ UNCHANGED adverse
       \/ main' = "hung" /\ Fails("adminBind")
    /\ UNCHANGED <<cronVars, loopVars, cleanerVars, processVars, database,
                   connects, requestVars>>

(* AwaitTermination returns: a signal, or a server that could not start.   *)
Terminate ==
    /\ up
    /\ main = "serving"
    /\ main' = "stopServers"
    /\ UNCHANGED <<aggVars, database, connects, requestVars>>

Active == {r \in Requests : request[r] \in {"next", "waiting"}}

(* Mutant: the servers are not stopped first.                              *)
StopServersAtOnce ==
    /\ up
    /\ main = "stopServers"
    /\ main' = "shutdown"
    /\ UNCHANGED <<aggVars, database, connects, requestVars>>

(* Each server stops when its handlers have returned.                      *)
StopServers ==
    /\ up
    /\ main = "stopServers"
    /\ Active = {}
    /\ main' = "shutdown"
    /\ UNCHANGED <<aggVars, database, connects, requestVars>>

(* env.Shutdown: the calls added for a database cancel the context.        *)
EnvShutdown ==
    /\ up
    /\ main = "shutdown"
    /\ main' = "exit"
    /\ ctxDone' = database
    /\ UNCHANGED <<cronVars, loopVars, cleanerVars, up, panicked, adverse,
                   database, connects, requestVars>>

(* main returns, and with it every goroutine ends where it is.             *)
Exit ==
    /\ up
    /\ main = "exit"
    /\ main' = "exited"
    /\ up' = FALSE
    /\ UNCHANGED <<cronVars, loopVars, cleanerVars, ctxDone, panicked,
                   adverse, database, connects, requestVars>>

(***************************************************************************)
(* triggerManualCutoff.                                                    *)
(***************************************************************************)

(* A server that stops takes no new requests.  One without a shard name,   *)
(* or that is no PUT, is rejected.                                         *)
Begin(r) ==
    /\ up
    /\ main = "serving"
    /\ request[r] = "none"
    /\ request' = [request EXCEPT
                     ![r] = IF Targets[r] = <<>> THEN "rejected" ELSE "next"]
    /\ UNCHANGED <<aggVars, mainVars, next, failed, done>>

Shard(r) == Targets[r][next[r]]

(* The loop over the names: an unknown one is an error.                    *)
UnknownShard(r) ==
    /\ up
    /\ request[r] = "next" /\ next[r] <= Len(Targets[r])
    /\ Shard(r) \notin Shards
    /\ failed' = [failed EXCEPT ![r] = @ \cup {Shard(r)}]
    /\ next' = [next EXCEPT ![r] = @ + 1]
    /\ UNCHANGED <<aggVars, mainVars, request, done>>

(* processManualCutoff waits for the slot of cutoffTrigger.                *)
SendTrigger(r) ==
    /\ up
    /\ request[r] = "next" /\ next[r] <= Len(Targets[r])
    /\ Shard(r) \in Shards
    /\ trigger[Shard(r)] = None
    /\ trigger' = [trigger EXCEPT ![Shard(r)] = r]
    /\ request' = [request EXCEPT ![r] = "waiting"]
    /\ UNCHANGED <<cronVars, agg, job, answer, served, notices, cleanerVars,
                   processVars, adverse, mainVars, next, failed, done>>

(* Mutant: a client that waits too long is told so, and its trigger stays. *)
ReceiveOrGiveUp(r) ==
    /\ up
    /\ request[r] = "waiting"
    /\ answer' = [answer EXCEPT ![r] = "none"]
    /\ failed' = [failed EXCEPT ![r] = IF answer[r] = "nil"
                                         THEN @ \ {Shard(r)}
                                         ELSE @ \cup {Shard(r)}]
    /\ done' = [done EXCEPT ![r] = IF answer[r] = "nil" THEN @ \cup {Shard(r)}
                                                        ELSE @ \ {Shard(r)}]
    /\ next' = [next EXCEPT ![r] = @ + 1]
    /\ request' = [request EXCEPT ![r] = "next"]
    /\ UNCHANGED <<cronVars, agg, trigger, job, served, notices, cleanerVars,
                   processVars, adverse, mainVars>>

(* Mutant: the answer is waited for, and not looked at.                    *)
ReceiveAnything(r) ==
    /\ up
    /\ request[r] = "waiting"
    /\ answer[r] # "none"
    /\ answer' = [answer EXCEPT ![r] = "none"]
    /\ failed' = [failed EXCEPT ![r] = @ \ {Shard(r)}]
    /\ done' = [done EXCEPT ![r] = IF answer[r] = "nil" THEN @ \cup {Shard(r)}
                                                        ELSE @ \ {Shard(r)}]
    /\ next' = [next EXCEPT ![r] = @ + 1]
    /\ request' = [request EXCEPT ![r] = "next"]
    /\ UNCHANGED <<cronVars, agg, trigger, job, served, notices, cleanerVars,
                   processVars, adverse, mainVars>>

(* The answer arrives.  The response keeps the last one of each shard.     *)
ReceiveAnswer(r) ==
    /\ up
    /\ request[r] = "waiting"
    /\ answer[r] # "none"
    /\ answer' = [answer EXCEPT ![r] = "none"]
    /\ failed' = [failed EXCEPT ![r] = IF answer[r] = "error"
                                         THEN @ \cup {Shard(r)}
                                         ELSE @ \ {Shard(r)}]
    /\ done' = [done EXCEPT ![r] = IF answer[r] = "nil" THEN @ \cup {Shard(r)}
                                                        ELSE @ \ {Shard(r)}]
    /\ next' = [next EXCEPT ![r] = @ + 1]
    /\ request' = [request EXCEPT ![r] = "next"]
    /\ UNCHANGED <<cronVars, agg, trigger, job, served, notices, cleanerVars,
                   processVars, adverse, mainVars>>

(* 400 when hasErrors, 200 otherwise.                                      *)
WriteResponse(r) ==
    /\ up
    /\ request[r] = "next"
    /\ next[r] > Len(Targets[r])
    /\ request' = [request EXCEPT
                     ![r] = IF failed[r] # {} THEN "badRequest" ELSE "ok"]
    /\ UNCHANGED <<aggVars, mainVars, next, failed, done>>

Handler(r) ==
    \/ UnknownShard(r) \/ SendTrigger(r) \/ ReceiveAnswer(r) \/ WriteResponse(r)

MainStep ==
    \/ Connect \/ NewEnvironment \/ RunServers
    \/ StopServers \/ EnvShutdown \/ Exit

Next ==
    \/ AggregatorNext /\ UNCHANGED <<mainVars, requestVars>>
    \/ MainStep \/ Terminate
    \/ \E r \in Requests : Begin(r) \/ Handler(r)

Spec == Init /\ [][Next]_vars

Inside(A) == A /\ UNCHANGED <<mainVars, requestVars>>

(* The goroutines run.  A select does not pass over a channel that stays   *)
(* ready.  Cron jobs, clients and signals come as they please.             *)
FairSpec ==
    /\ Spec
    /\ WF_vars(MainStep)
    /\ \A r \in Requests : WF_vars(Handler(r))
    /\ \A s \in Shards :
          /\ WF_vars(Inside(LoopStep(s)))
          /\ WF_vars(Inside(TakeTrigger(s)))
          /\ \A t \in Ticks : WF_vars(Inside(TakeDay(s, t)))

(***************************************************************************)
(* Properties.                                                             *)
(***************************************************************************)

(* The channels of a shutdown that panic when they are used again are only *)
(* reached when no client is left: whatever a cron job, the cleanup's      *)
(* goroutine and the aggregator do to each other, no manual cutoff waits   *)
(* for an aggregator that has begun to stop, or loses its answer to a      *)
(* closed channel (main.go:47-52, cutoff.go:61, cleanup.go:126).           *)
NoClientAtShutdown ==
    panicked = "channel"
       \/ (\E s \in Shards : agg[s] \in {"closing", "stopping", "stopped"})
    => Active = {}

(* A 200 means that the cutoff of every shard the client named has run for *)
(* this request and, the last time if it was named twice, succeeded        *)
(* (manual_cutoff_times.go:82-127, aggregate.go:252-277).                  *)
OkMeansCutOff ==
    \A r \in Requests : request[r] = "ok" =>
       \A i \in 1..Len(Targets[r]) : Targets[r][i] \in done[r]

(* Where a request's trigger is: the slots that hold it, the aggregators   *)
(* that run its cutoff.                                                    *)
Slots(r) == {s \in Shards : trigger[s] = r}
Jobs(r) == {s \in Shards : job[s] = r}

(* A waiting client has exactly one trigger, at the shard it waits for: in *)
(* the slot, at work, or answered.  One that does not wait has none        *)
(* anywhere, so that no cutoff runs for a client that has gone on, no slot *)
(* stays taken, and no client takes the answer to an earlier trigger for   *)
(* that to its present one (manual_cutoff_times.go:91-127,                 *)
(* aggregate.go:164, 252-277).                                             *)
OneCutoffPerTrigger ==
    \A r \in Requests :
       IF request[r] = "waiting"
         THEN \/ Slots(r) = {Shard(r)} /\ Jobs(r) = {} /\ answer[r] = "none"
              \/ Slots(r) = {} /\ Jobs(r) = {Shard(r)} /\ answer[r] = "none"
              \/ Slots(r) = {} /\ Jobs(r) = {} /\ answer[r] # "none"
         ELSE Slots(r) = {} /\ Jobs(r) = {} /\ answer[r] = "none"

(* Every manual cutoff is answered, also when the process is told to stop  *)
(* while it waits.  The one way to lose an answer is a cutoff that panics  *)
(* on a mapping it could not build and takes the process with it           *)
(* (manual_cutoff_times.go:106-127, merging.go:364-370).                   *)
EventuallyAnswered ==
    \A r \in Requests : r \in Active ~> r \notin Active \/ panicked = "cutoff"

(* Every window of a banking day gets its cutoff, however many others are  *)
(* blocked with it, unless the process stops (aggregate.go:150-158).       *)
EventuallyServed ==
    \A s \in Shards : \A t \in Ticks :
       t \in sending[s] /\ Days[t[2]] = "banking"
          ~> t \in served[s] \/ ctxDone \/ ~up

(* Told to stop, the process ends (main.go:47-58).                         *)
EventuallyExits == main = "stopServers" ~> ~up
=============================================================================
