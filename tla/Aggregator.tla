----------------------------- MODULE Aggregator -----------------------------
(***************************************************************************)
(* The goroutines around one shard's aggregator and the channels between   *)
(* them: the cron jobs of its cutoff windows (internal/schedule/cutoff.go) *)
(* that send on the unbuffered cutoffs.C, the select loop of Start         *)
(* (internal/pipeline/aggregate.go), cutoffTrigger with its one slot, and  *)
(* the cleanup service's goroutine.  What a cutoff does is the subject of  *)
(* Merging and FilePipeline; here it succeeds, fails or panics.            *)
(*                                                                         *)
(* A send on a closed channel and a second close of a channel panic too.   *)
(* Nothing recovers: a panic ends the process.                             *)
(***************************************************************************)
EXTENDS Integers, Sequences, FiniteSets

CONSTANTS
    Shards,       \* the configured shards
    Windows,      \* the cutoff windows of a shard
    FirstWindow,  \* the earliest of them
    Days,         \* bound: the days that pass, a sequence of their kinds
    AllDays,      \* Cutoffs.On = "all-days"
    Cleanup,      \* the shards with a cleanup service
    Requests,     \* calls of PUT /trigger-cutoff
    Adverse,      \* the failures that can happen
    MaxAdverse,   \* bound: how many of them
    None

Failures == {"merge", "map", "connect", "environment", "adminBind"}

ASSUME AggregatorAssumption ==
    /\ FirstWindow \in Windows
    /\ Days \in Seq({"banking", "holiday", "weekend"}) /\ Days # <<>>
    /\ AllDays \in BOOLEAN
    /\ Cleanup \subseteq Shards
    /\ Adverse \subseteq Failures
    /\ MaxAdverse \in Nat
    /\ None \notin Requests

VARIABLES
    today,      \* an index into Days
    fired,      \* fired[s]: the <<window, day>> the scheduler has started
    sending,    \* sending[s]: those whose job is blocked on cutoffs.C
    closed,     \* the shards whose cutoffs.C is closed
    noCron,     \* the shards whose scheduler has stopped
    agg,        \* agg[s]: where Start of s is
    trigger,    \* trigger[s]: the slot of cutoffTrigger
    job,        \* job[s]: the request whose manual cutoff runs
    answer,     \* answer[r]: what is in the channel r waits on
    served,     \* served[s]: the <<window, day>> a cutoff ran for
    notices,    \* notices[s]: those for which a holiday notice was sent
    cleaner,    \* cleaner[s]: the cleanup service's goroutine
    stopped,    \* the cleanup services whose done channel is closed
    ctxDone,    \* has the environment's context been cancelled?
    up,         \* is the process running?
    panicked,   \* did it end with a panic, and of what?
    adverse     \* the failures so far

cronVars == <<today, fired, sending, closed, noCron>>
loopVars == <<agg, trigger, job, answer, served, notices>>
cleanerVars == <<cleaner, stopped>>
processVars == <<ctxDone, up, panicked>>
aggVars == <<cronVars, loopVars, cleanerVars, processVars, adverse>>

Ticks == Windows \X (1..Len(Days))

(* What may have ended the process: the use of a closed channel, or a      *)
(* cutoff.                                                                 *)
Panics == {"no", "channel", "cutoff"}

AggregatorTypeOK ==
    /\ today \in 1..Len(Days)
    /\ fired \in [Shards -> SUBSET Ticks]
    /\ sending \in [Shards -> SUBSET Ticks]
    /\ {closed, noCron, stopped} \subseteq SUBSET Shards
    /\ agg \in [Shards -> {"none", "starting", "select", "auto", "manual",
                           "closing", "stopping", "stopped"}]
    /\ trigger \in [Shards -> Requests \cup {None}]
    /\ job \in [Shards -> Requests \cup {None}]
    /\ answer \in [Requests -> {"none", "nil", "error"}]
    /\ served \in [Shards -> SUBSET Ticks]
    /\ notices \in [Shards -> SUBSET Ticks]
    /\ cleaner \in [Shards -> {"none", "running", "ended"}]
    /\ {ctxDone, up} \subseteq BOOLEAN
    /\ panicked \in Panics
    /\ adverse \in 0..MaxAdverse

AggregatorInit ==
    /\ today = 1
    /\ fired = [s \in Shards |-> {}]
    /\ sending = [s \in Shards |-> {}]
    /\ closed = {} /\ noCron = {}
    /\ agg = [s \in Shards |-> "none"]
    /\ trigger = [s \in Shards |-> None]
    /\ job = [s \in Shards |-> None]
    /\ answer = [r \in Requests |-> "none"]
    /\ served = [s \in Shards |-> {}]
    /\ notices = [s \in Shards |-> {}]
    /\ cleaner = [s \in Shards |-> "none"]
    /\ stopped = {}
    /\ ctxDone = FALSE /\ up = TRUE /\ panicked = "no"
    /\ adverse = 0

(* A failure of kind e happens, within the bound.                          *)
Fails(e) ==
    /\ e \in Adverse
    /\ adverse < MaxAdverse
    /\ adverse' = adverse + 1

(* The process ends with the panic of a channel when p holds.              *)
PanicsIf(p) ==
    /\ panicked' = IF p THEN "channel" ELSE panicked
    /\ up' = ~p
    /\ UNCHANGED ctxDone

(* The mapping of a cutoff's directory could not be built: WithEachMerged  *)
(* goes on with a nil tree and panics.                                     *)
CutoffPanics ==
    /\ Fails("map")
    /\ panicked' = "cutoff"
    /\ up' = FALSE
    /\ UNCHANGED ctxDone

(***************************************************************************)
(* CutoffTimes.                                                            *)
(***************************************************************************)

(* Midnight passes, whatever is still running.                             *)
NextDay ==
    /\ up
    /\ today < Len(Days)
    /\ today' = today + 1
    /\ UNCHANGED <<fired, sending, closed, noCron, loopVars, cleanerVars,
                   processVars, adverse>>

(* The scheduler starts the job of window w, which runs maybeTick: on a    *)
(* weekend it does nothing, on another day it sends on cutoffs.C.          *)
maybeTick(s, w) ==
    /\ up
    /\ agg[s] # "none" /\ s \notin noCron
    /\ <<w, today>> \notin fired[s]
    /\ fired' = [fired EXCEPT ![s] = @ \cup {<<w, today>>}]
    /\ IF Days[today] = "weekend"
         THEN UNCHANGED <<sending, processVars>>
         ELSE /\ sending' = [sending EXCEPT ![s] = @ \cup {<<w, today>>}]
              /\ PanicsIf(s \in closed)
    /\ UNCHANGED <<today, closed, noCron, loopVars, cleanerVars, adverse>>

(***************************************************************************)
(* aggregator.Start.                                                       *)
(***************************************************************************)

(* The first cleanup runs before the loop, the others in a goroutine.      *)
StartLoop(s) ==
    /\ up
    /\ agg[s] = "starting"
    /\ agg' = [agg EXCEPT ![s] = "select"]
    /\ cleaner' = IF s \in Cleanup THEN [cleaner EXCEPT ![s] = "running"]
                                   ELSE cleaner
    /\ UNCHANGED <<cronVars, trigger, job, answer, served, notices, stopped,
                   processVars, adverse>>

(* Mutant: a Day that was blocked past midnight is dropped.                *)
TakeDayOfToday(s, t) ==
    /\ up
    /\ agg[s] = "select"
    /\ t \in sending[s]
    /\ sending' = [sending EXCEPT ![s] = @ \ {t}]
    /\ IF Days[t[2]] = "banking" /\ t[2] = today
         THEN /\ agg' = [agg EXCEPT ![s] = "auto"]
              /\ served' = [served EXCEPT ![s] = @ \cup {t}]
         ELSE UNCHANGED <<agg, served>>
    /\ UNCHANGED <<today, fired, closed, noCron, trigger, job, answer,
                   notices, cleanerVars, processVars, adverse>>

(* notifyAboutHoliday only does so for the first window.                   *)
Notice(t) == {t} \cap ({FirstWindow} \X {t[2]})

(* The loop takes a Day from a job.  A cutoff runs on a banking day, or on *)
(* any day a job sends; on a holiday the first window sends a notice.      *)
TakeDay(s, t) ==
    /\ up
    /\ agg[s] = "select"
    /\ t \in sending[s]
    /\ sending' = [sending EXCEPT ![s] = @ \ {t}]
    /\ IF Days[t[2]] = "banking" \/ AllDays
         THEN /\ agg' = [agg EXCEPT ![s] = "auto"]
              /\ served' = [served EXCEPT ![s] = @ \cup {t}]
              /\ UNCHANGED notices
         ELSE /\ notices' = [notices EXCEPT ![s] = @ \cup Notice(t)]
              /\ UNCHANGED <<agg, served>>
    /\ UNCHANGED <<today, fired, closed, noCron, trigger, job, answer,
                   cleanerVars, processVars, adverse>>

(* withEachFile returns, and its error is logged and alerted; or it        *)
(* panics.                                                                 *)
AutoEnds(s) ==
    /\ up
    /\ agg[s] = "auto"
    /\ \/ /\ agg' = [agg EXCEPT ![s] = "select"]
          /\ UNCHANGED adverse \/ Fails("merge")
          /\ UNCHANGED processVars
       \/ CutoffPanics /\ UNCHANGED agg
    /\ UNCHANGED <<cronVars, trigger, job, answer, served, notices,
                   cleanerVars>>

TakeTrigger(s) ==
    /\ up
    /\ agg[s] = "select"
    /\ trigger[s] # None
    /\ agg' = [agg EXCEPT ![s] = "manual"]
    /\ job' = [job EXCEPT ![s] = trigger[s]]
    /\ trigger' = [trigger EXCEPT ![s] = None]
    /\ UNCHANGED <<cronVars, answer, served, notices, cleanerVars,
                   processVars, adverse>>

(* Mutant: an error is logged, and the waiter is told nothing.             *)
ManualEndsSilently(s) ==
    /\ up
    /\ agg[s] = "manual"
    /\ agg' = [agg EXCEPT ![s] = "select"]
    /\ \/ /\ answer' = [answer EXCEPT ![job[s]] = "nil"]
          /\ UNCHANGED adverse
       \/ Fails("merge") /\ UNCHANGED answer
    /\ job' = [job EXCEPT ![s] = None]
    /\ UNCHANGED <<cronVars, trigger, served, notices, cleanerVars,
                   processVars>>

(* The waiter is answered, and the loop goes on.                           *)
Answered(s, a) ==
    /\ agg' = [agg EXCEPT ![s] = "select"]
    /\ answer' = [answer EXCEPT ![job[s]] = a]
    /\ job' = [job EXCEPT ![s] = None]
    /\ UNCHANGED processVars

(* manualCutoff answers the waiter, with the error of the merge if any,    *)
(* unless the merge panics.                                                *)
ManualEnds(s) ==
    /\ up
    /\ agg[s] = "manual"
    /\ \/ Answered(s, "nil") /\ UNCHANGED adverse
       \/ Answered(s, "error") /\ Fails("merge")
       \/ CutoffPanics /\ UNCHANGED <<agg, answer, job>>
    /\ UNCHANGED <<cronVars, trigger, served, notices, cleanerVars>>

(* The context has ended.  cutoffs.Stop closes the channel first: a job    *)
(* blocked on it panics ...                                                *)
CloseCutoffs(s) ==
    /\ up
    /\ agg[s] = "select"
    /\ ctxDone
    /\ agg' = [agg EXCEPT ![s] = "closing"]
    /\ closed' = closed \cup {s}
    /\ PanicsIf(sending[s] # {})
    /\ UNCHANGED <<today, fired, sending, noCron, trigger, job, answer,
                   served, notices, cleanerVars, adverse>>

(* ... and only then stops the scheduler.                                  *)
StopScheduler(s) ==
    /\ up
    /\ agg[s] = "closing"
    /\ agg' = [agg EXCEPT ![s] = "stopping"]
    /\ noCron' = noCron \cup {s}
    /\ UNCHANGED <<today, fired, sending, closed, trigger, job, answer,
                   served, notices, cleanerVars, processVars, adverse>>

(* CleanupService.Stop closes done, whoever calls it.                      *)
StopCleanup(s) ==
    /\ stopped' = stopped \cup {s}
    /\ PanicsIf(s \in stopped)

(* Shutdown stops the cleanup service and closes the audit storage.        *)
Shutdown(s) ==
    /\ up
    /\ agg[s] = "stopping"
    /\ agg' = [agg EXCEPT ![s] = "stopped"]
    /\ IF s \in Cleanup THEN StopCleanup(s) ELSE UNCHANGED <<stopped, processVars>>
    /\ UNCHANGED <<cronVars, trigger, job, answer, served, notices, cleaner,
                   adverse>>

(***************************************************************************)
(* The goroutine of CleanupService.Start.                                  *)
(***************************************************************************)

(* Between two runs, which are CleanupService's subject, the select finds  *)
(* the context ended, or done closed.                                      *)
CleanupEnds(s) ==
    /\ up
    /\ cleaner[s] = "running"
    /\ \/ ctxDone /\ StopCleanup(s)
       \/ s \in stopped /\ UNCHANGED <<stopped, processVars>>
    /\ cleaner' = [cleaner EXCEPT ![s] = "ended"]
    /\ UNCHANGED <<cronVars, loopVars, adverse>>

LoopStep(s) ==
    \/ StartLoop(s) \/ AutoEnds(s) \/ ManualEnds(s)
    \/ CloseCutoffs(s) \/ StopScheduler(s) \/ Shutdown(s)

ShardStep(s) ==
    \/ LoopStep(s)
    \/ \E t \in Ticks : TakeDay(s, t)
    \/ TakeTrigger(s)
    \/ \E w \in Windows : maybeTick(s, w)
    \/ CleanupEnds(s)

AggregatorNext == NextDay \/ \E s \in Shards : ShardStep(s)
=============================================================================
