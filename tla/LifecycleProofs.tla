-------------------------- MODULE LifecycleProofs --------------------------
(***************************************************************************)
(* Theorems about Lifecycle for every set of shards, windows and requests, *)
(* every sequence of days and whatever fails.                              *)
(***************************************************************************)
EXTENDS Lifecycle, TLAPS

USE DEF cronVars, loopVars, cleanerVars, processVars, aggVars, mainVars,
        requestVars, vars

(* The only channels that are closed, and the only panics, come after the  *)
(* context has ended, ...                                                  *)
EndsAfterContext ==
    /\ closed \cup stopped # {} => ctxDone
    /\ panicked = "channel" => ctxDone
    /\ \A s \in Shards : agg[s] \in {"closing", "stopping", "stopped"} => ctxDone

(* ... which main ends last of all, when every handler has returned.       *)
HandlersFirst ==
    /\ ctxDone => main \in {"exit", "exited"}
    /\ main \in {"connect", "boot", "servers"} =>
          \A r \in Requests : request[r] = "none"
    /\ main \in {"shutdown", "exit", "exited"} => Active = {}

(* The names a handler is done with have succeeded or failed.              *)
NamesDone ==
    \A r \in Requests :
       /\ \A i \in 1..Len(Targets[r]) :
             i < next[r] => Targets[r][i] \in done[r] \cup failed[r]
       /\ request[r] = "waiting" =>
             next[r] <= Len(Targets[r]) /\ Shard(r) \in Shards
       /\ request[r] = "ok" => next[r] > Len(Targets[r]) /\ failed[r] = {}

(* An aggregator runs a manual cutoff for someone, and only then.          *)
JobsAtWork ==
    \A s \in Shards : job[s] # None <=> agg[s] = "manual"

(* An attempt to connect is left as long as main connects.                 *)
Connecting == main = "connect" => connects < MaxConnects

LifecycleInv ==
    /\ TypeOK /\ Connecting
    /\ EndsAfterContext /\ HandlersFirst /\ NamesDone
    /\ JobsAtWork /\ OneCutoffPerTrigger

(* The first day is a day, and names are strings.                          *)
LEMMA Lengths ==
    /\ Len(Days) \in Nat /\ Len(Days) >= 1
    /\ \A r \in Requests : /\ Len(Targets[r]) \in Nat
                           /\ \A i \in 1..Len(Targets[r]) : Targets[r][i] \in STRING
    /\ MaxAdverse \in Nat /\ MaxConnects \in Nat /\ MaxConnects >= 1
  <1>1. Len(Days) \in Nat /\ Len(Days) >= 1
    BY AggregatorAssumption
  <1>2. \A r \in Requests : Targets[r] \in Seq(STRING)
    BY LifecycleAssumption
  <1>. QED
    BY <1>1, <1>2, AggregatorAssumption, LifecycleAssumption

(* The process starts well typed.                                          *)
LEMMA LifecycleInit == Init => LifecycleInv
  <1>. SUFFICES ASSUME Init PROVE LifecycleInv
    OBVIOUS
  <1>1. /\ {ctxDone, up} \subseteq BOOLEAN /\ panicked \in Panics
        /\ database \in BOOLEAN
    BY Zenon DEF Init, AggregatorInit, Panics
  <1>2. AggregatorTypeOK
    BY <1>1, Lengths DEF Init, AggregatorInit, AggregatorTypeOK, Panics
  <1>3. TypeOK
    BY <1>1, <1>2, Lengths DEF Init, TypeOK
  <1>4. EndsAfterContext /\ JobsAtWork /\ OneCutoffPerTrigger
    BY AggregatorAssumption
    DEF Init, AggregatorInit, EndsAfterContext, JobsAtWork,
        OneCutoffPerTrigger, Slots, Jobs
  <1>5. HandlersFirst
    BY DEF Init, AggregatorInit, HandlersFirst
  <1>6. NamesDone /\ Connecting
    BY Lengths DEF Init, NamesDone, Connecting
  <1>. QED  BY <1>3, <1>4, <1>5, <1>6 DEF LifecycleInv

(* Failures stay within their bound.                                       *)
LEMMA FailsType ==
    ASSUME AggregatorTypeOK, NEW e, Fails(e)
    PROVE  adverse' \in 0..MaxAdverse
  BY AggregatorAssumption DEF AggregatorTypeOK, Fails

(* A panic, or none, is a truth value.                                     *)
LEMMA PanicType ==
    ASSUME AggregatorTypeOK, NEW p \in BOOLEAN, PanicsIf(p)
    PROVE  ({ctxDone, up} \subseteq BOOLEAN /\ panicked \in Panics)'
  BY Zenon DEF AggregatorTypeOK, PanicsIf, Panics

(* So is the panic of a cutoff.                                            *)
LEMMA CutoffPanicType ==
    ASSUME AggregatorTypeOK, CutoffPanics
    PROVE  /\ ({ctxDone, up} \subseteq BOOLEAN /\ panicked \in Panics)'
           /\ adverse' \in 0..MaxAdverse
  <1>1. ({ctxDone, up} \subseteq BOOLEAN /\ panicked \in Panics)'
    BY Zenon DEF AggregatorTypeOK, CutoffPanics, Panics
  <1>. QED  BY <1>1, FailsType DEF CutoffPanics

(* The scheduler's jobs.                                                   *)
LEMMA CronType ==
    ASSUME AggregatorTypeOK,
           NextDay \/ \E s \in Shards, w \in Windows : maybeTick(s, w)
    PROVE  AggregatorTypeOK'
  <1>1. CASE NextDay
    <2>1. today' \in 1..Len(Days)
      BY <1>1, Lengths DEF AggregatorTypeOK, NextDay
    <2>. QED  BY <1>1, <2>1 DEF AggregatorTypeOK, NextDay
  <1>2. ASSUME NEW s \in Shards, NEW w \in Windows, maybeTick(s, w)
        PROVE  AggregatorTypeOK'
    <2>1. <<w, today>> \in Ticks
      BY DEF AggregatorTypeOK, Ticks
    <2>2. ({ctxDone, up} \subseteq BOOLEAN /\ panicked \in Panics)'
      <3>1. CASE UNCHANGED processVars
        BY <3>1, Zenon DEF AggregatorTypeOK
      <3>2. CASE PanicsIf(s \in closed)
        <4>1. (s \in closed) \in BOOLEAN
          OBVIOUS
        <4>. QED  BY <3>2, <4>1, PanicType, Zenon
      <3>. QED  BY <1>2, <3>1, <3>2 DEF maybeTick
    <2>3. fired' \in [Shards -> SUBSET Ticks]
      BY <1>2, <2>1 DEF AggregatorTypeOK, maybeTick
    <2>4. \/ UNCHANGED sending
          \/ sending' = [sending EXCEPT ![s] = sending[s] \cup {<<w, today>>}]
      BY <1>2 DEF maybeTick
    <2>5. sending' \in [Shards -> SUBSET Ticks]
      BY <2>1, <2>4 DEF AggregatorTypeOK
    <2>. QED  BY <1>2, <2>2, <2>3, <2>5 DEF AggregatorTypeOK, maybeTick
  <1>. QED  BY <1>1, <1>2

(* Stopping the cleanup service closes its channel, once or twice.         *)
LEMMA StopCleanupType ==
    ASSUME AggregatorTypeOK, NEW s \in Shards, StopCleanup(s)
    PROVE  /\ ({ctxDone, up} \subseteq BOOLEAN /\ panicked \in Panics)'
           /\ stopped' \in SUBSET Shards
           /\ UNCHANGED ctxDone
  <1>1. (s \in stopped) \in BOOLEAN
    OBVIOUS
  <1>2. ({ctxDone, up} \subseteq BOOLEAN /\ panicked \in Panics)'
    BY <1>1, PanicType, Zenon DEF StopCleanup
  <1>. QED  BY <1>2 DEF AggregatorTypeOK, StopCleanup, PanicsIf

(* A holiday notice is for the tick it is sent for.                        *)
LEMMA NoticeType ==
    ASSUME NEW t \in Ticks
    PROVE  Notice(t) \in SUBSET Ticks
  BY DEF Notice, Ticks

(* The aggregator's loop and the goroutine beside it.                      *)
LEMMA LoopType ==
    ASSUME AggregatorTypeOK, NEW s \in Shards,
           \/ LoopStep(s) \/ TakeTrigger(s) \/ CleanupEnds(s)
           \/ \E t \in Ticks : TakeDay(s, t)
    PROVE  AggregatorTypeOK'
  <1>1. CASE StartLoop(s)
    BY <1>1 DEF AggregatorTypeOK, StartLoop
  <1>2. CASE AutoEnds(s)
    <2>1. CASE CutoffPanics
      BY <1>2, <2>1, CutoffPanicType DEF AggregatorTypeOK, AutoEnds, Panics
    <2>2. CASE ~CutoffPanics
      BY <1>2, <2>2, FailsType DEF AggregatorTypeOK, AutoEnds
    <2>. QED  BY <2>1, <2>2
  <1>3. CASE ManualEnds(s)
    <2>1. CASE CutoffPanics /\ UNCHANGED <<agg, answer, job>>
      BY <1>3, <2>1, CutoffPanicType DEF AggregatorTypeOK, ManualEnds, Panics
    <2>2. ASSUME NEW a \in {"nil", "error"}, Answered(s, a),
                 UNCHANGED adverse \/ Fails("merge")
          PROVE  AggregatorTypeOK'
      <3>1. answer' \in [Requests -> {"none", "nil", "error"}]
        BY <2>2 DEF AggregatorTypeOK, Answered
      <3>2. adverse' \in 0..MaxAdverse
        BY <2>2, FailsType DEF AggregatorTypeOK
      <3>. QED
        BY <1>3, <2>2, <3>1, <3>2 DEF AggregatorTypeOK, ManualEnds, Answered
    <2>. QED  BY <1>3, <2>1, <2>2 DEF ManualEnds
  <1>4. CASE CloseCutoffs(s)
    <2>1. (sending[s] # {}) \in BOOLEAN
      OBVIOUS
    <2>2. ({ctxDone, up} \subseteq BOOLEAN /\ panicked \in Panics)'
      BY <1>4, <2>1, PanicType, Zenon DEF CloseCutoffs
    <2>. QED  BY <1>4, <2>2 DEF AggregatorTypeOK, CloseCutoffs
  <1>5. CASE StopScheduler(s)
    BY <1>5 DEF AggregatorTypeOK, StopScheduler
  <1>6. CASE Shutdown(s)
    <2>1. CASE StopCleanup(s)
      BY <1>6, <2>1, StopCleanupType DEF AggregatorTypeOK, Shutdown
    <2>2. CASE UNCHANGED <<stopped, processVars>>
      BY <1>6, <2>2 DEF AggregatorTypeOK, Shutdown
    <2>. QED  BY <1>6, <2>1, <2>2 DEF Shutdown
  <1>7. CASE TakeTrigger(s)
    BY <1>7 DEF AggregatorTypeOK, TakeTrigger
  <1>8. CASE CleanupEnds(s)
    <2>1. CASE StopCleanup(s)
      BY <1>8, <2>1, StopCleanupType DEF AggregatorTypeOK, CleanupEnds
    <2>2. CASE UNCHANGED <<stopped, processVars>>
      BY <1>8, <2>2 DEF AggregatorTypeOK, CleanupEnds
    <2>. QED  BY <1>8, <2>1, <2>2 DEF CleanupEnds
  <1>9. ASSUME NEW t \in Ticks, TakeDay(s, t) PROVE AggregatorTypeOK'
    <2>1. sending' \in [Shards -> SUBSET Ticks]
      BY <1>9 DEF AggregatorTypeOK, TakeDay
    <2>2. CASE /\ agg' = [agg EXCEPT ![s] = "auto"]
               /\ served' = [served EXCEPT ![s] = served[s] \cup {t}]
               /\ UNCHANGED notices
      BY <1>9, <2>1, <2>2 DEF AggregatorTypeOK, TakeDay
    <2>3. CASE /\ notices' = [notices EXCEPT ![s] = notices[s] \cup Notice(t)]
               /\ UNCHANGED <<agg, served>>
      BY <1>9, <2>1, <2>3, NoticeType DEF AggregatorTypeOK, TakeDay
    <2>. QED  BY <1>9, <2>2, <2>3 DEF TakeDay
  <1>. QED
    BY <1>1, <1>2, <1>3, <1>4, <1>5, <1>6, <1>7, <1>8, <1>9 DEF LoopStep

(* The aggregators leave main and the handlers alone.                      *)
LEMMA AggregatorType ==
    ASSUME TypeOK, AggregatorNext, UNCHANGED <<mainVars, requestVars>>
    PROVE  TypeOK'
  <1>1. AggregatorTypeOK'
    BY CronType, LoopType DEF TypeOK, AggregatorNext, ShardStep
  <1>. QED  BY <1>1 DEF TypeOK

(* main.                                                                   *)
LEMMA MainType ==
    ASSUME TypeOK, Connecting, MainStep \/ Terminate
    PROVE  TypeOK' /\ Connecting'
  <1>. USE DEF TypeOK, AggregatorTypeOK, Connecting
  <1>1. CASE Connect
    <2>1. adverse' \in 0..MaxAdverse
      BY <1>1, FailsType DEF Connect
    <2>2. ({ctxDone, up} \subseteq BOOLEAN /\ panicked \in Panics)'
      BY <1>1, Zenon DEF Connect
    <2>3. /\ connects' \in 0..MaxConnects
          /\ main' \in {"boot", "connect", "exited"}
          /\ main' = "connect" => connects' < MaxConnects
      BY <1>1, Lengths DEF Connect
    <2>. QED  BY <1>1, <2>1, <2>2, <2>3 DEF Connect
  <1>2. CASE NewEnvironment
    <2>1. adverse' \in 0..MaxAdverse
      BY <1>2, FailsType DEF NewEnvironment
    <2>2. ({ctxDone, up} \subseteq BOOLEAN /\ panicked \in Panics)'
      BY <1>2, Zenon DEF NewEnvironment
    <2>3. agg' = agg \/ agg' = [s \in Shards |-> "starting"]
      BY <1>2 DEF NewEnvironment, StartPipeline
    <2>. QED  BY <1>2, <2>1, <2>2, <2>3 DEF NewEnvironment
  <1>3. CASE RunServers
    BY <1>3, FailsType DEF RunServers
  <1>4. CASE StopServers \/ Terminate
    BY <1>4 DEF StopServers, Terminate
  <1>5. CASE EnvShutdown
    <2>1. ({ctxDone, up} \subseteq BOOLEAN /\ panicked \in Panics)'
      BY <1>5, Zenon DEF EnvShutdown
    <2>. QED  BY <1>5, <2>1 DEF EnvShutdown
  <1>6. CASE Exit
    <2>1. ({ctxDone, up} \subseteq BOOLEAN /\ panicked \in Panics)'
      BY <1>6, Zenon DEF Exit
    <2>. QED  BY <1>6, <2>1 DEF Exit
  <1>. QED  BY <1>1, <1>2, <1>3, <1>4, <1>5, <1>6 DEF MainStep

(***************************************************************************)
(* The aggregators.                                                        *)
(***************************************************************************)

(* A job panics on a closed channel only.                                  *)
LEMMA CronSafe ==
    ASSUME LifecycleInv,
           NextDay \/ \E s \in Shards, w \in Windows : maybeTick(s, w)
    PROVE  EndsAfterContext' /\ UNCHANGED <<ctxDone, agg, trigger, job, answer>>
  <1>. USE DEF LifecycleInv, EndsAfterContext
  <1>1. CASE NextDay
    BY <1>1 DEF NextDay
  <1>2. ASSUME NEW s \in Shards, NEW w \in Windows, maybeTick(s, w)
        PROVE  EndsAfterContext' /\ UNCHANGED <<ctxDone, agg, trigger, job, answer>>
    <2>1. UNCHANGED <<ctxDone, closed, stopped, agg, trigger, job, answer>>
      BY <1>2 DEF maybeTick, PanicsIf
    <2>2. panicked' = "channel" => panicked = "channel" \/ s \in closed
      BY <1>2 DEF maybeTick, PanicsIf
    <2>. QED  BY <2>1, <2>2
  <1>. QED  BY <1>1, <1>2

(* The loop stops, and the cleanup service with it, only when the context  *)
(* has ended.                                                              *)
LEMMA LoopSafe ==
    ASSUME LifecycleInv, NEW s \in Shards,
           \/ LoopStep(s) \/ TakeTrigger(s) \/ CleanupEnds(s)
           \/ \E t \in Ticks : TakeDay(s, t)
    PROVE  EndsAfterContext' /\ UNCHANGED ctxDone
  <1>. USE DEF LifecycleInv, EndsAfterContext, TypeOK, AggregatorTypeOK
  <1>1. CASE StartLoop(s) \/ AutoEnds(s) \/ ManualEnds(s) \/ TakeTrigger(s)
    BY <1>1 DEF StartLoop, AutoEnds, ManualEnds, Answered, CutoffPanics,
                TakeTrigger
  <1>2. CASE CloseCutoffs(s)
    BY <1>2 DEF CloseCutoffs, PanicsIf
  <1>3. CASE StopScheduler(s)
    BY <1>3 DEF StopScheduler
  <1>4. CASE Shutdown(s)
    <2>1. ctxDone /\ UNCHANGED ctxDone
      BY <1>4 DEF Shutdown, StopCleanup, PanicsIf
    <2>. QED  BY <2>1
  <1>5. CASE CleanupEnds(s)
    <2>1. ctxDone /\ UNCHANGED ctxDone
      BY <1>5 DEF CleanupEnds, StopCleanup, PanicsIf
    <2>. QED  BY <2>1
  <1>6. ASSUME NEW t \in Ticks, TakeDay(s, t)
        PROVE  EndsAfterContext' /\ UNCHANGED ctxDone
    BY <1>6 DEF TakeDay
  <1>. QED  BY <1>1, <1>2, <1>3, <1>4, <1>5, <1>6 DEF LoopStep

(* A trigger moves from the slot to the aggregator, and from there to the  *)
(* answer; a panic leaves it where it is.                                  *)
LEMMA TriggerSafe ==
    ASSUME LifecycleInv, NEW s \in Shards, UNCHANGED <<mainVars, requestVars>>,
           \/ LoopStep(s) \/ TakeTrigger(s) \/ CleanupEnds(s)
           \/ \E t \in Ticks : TakeDay(s, t)
    PROVE  (JobsAtWork /\ OneCutoffPerTrigger)'
  <1>. USE AggregatorAssumption
       DEF LifecycleInv, TypeOK, AggregatorTypeOK, JobsAtWork
  <1>0. UNCHANGED <<request, next>> /\ \A r \in Requests : Shard(r)' = Shard(r)
    BY DEF Shard
  <1>1. CASE UNCHANGED <<trigger, job, answer>>
    <2>1. JobsAtWork'
      BY <1>1
      DEF LoopStep, StartLoop, AutoEnds, ManualEnds, Answered, CutoffPanics,
          CloseCutoffs, StopScheduler, Shutdown, TakeTrigger, CleanupEnds,
          TakeDay
    <2>2. \A r \in Requests : Slots(r)' = Slots(r) /\ Jobs(r)' = Jobs(r)
      BY <1>1 DEF Slots, Jobs
    <2>. QED  BY <1>0, <1>1, <2>1, <2>2 DEF OneCutoffPerTrigger
  <1>2. CASE TakeTrigger(s)
    <2>1. JobsAtWork'
      BY <1>2 DEF TakeTrigger
    <2>2. PICK r \in Requests :
             r = trigger[s] /\ s \in Slots(r) /\ job[s] = None
      BY <1>2 DEF TakeTrigger, Slots
    <2>3. /\ Slots(r)' = Slots(r) \ {s} /\ Jobs(r)' = Jobs(r) \cup {s}
          /\ \A q \in Requests \ {r} : Slots(q)' = Slots(q) /\ Jobs(q)' = Jobs(q)
      BY <1>2, <2>2 DEF TakeTrigger, Slots, Jobs
    <2>4. Slots(r) = {s} /\ Jobs(r) = {} /\ request[r] = "waiting"
          /\ Shard(r) = s /\ answer[r] = "none"
      BY <2>2 DEF OneCutoffPerTrigger
    <2>5. UNCHANGED answer
      BY <1>2 DEF TakeTrigger
    <2>6. ASSUME NEW q \in Requests, q # r
          PROVE  IF request[q] = "waiting"
                   THEN \/ Slots(q) = {Shard(q)} /\ Jobs(q) = {} /\ answer[q] = "none"
                        \/ Slots(q) = {} /\ Jobs(q) = {Shard(q)} /\ answer[q] = "none"
                        \/ Slots(q) = {} /\ Jobs(q) = {} /\ answer[q] # "none"
                   ELSE Slots(q) = {} /\ Jobs(q) = {} /\ answer[q] = "none"
      BY <2>6 DEF OneCutoffPerTrigger
    <2>. QED
      BY <1>0, <2>1, <2>2, <2>3, <2>4, <2>5, <2>6 DEF OneCutoffPerTrigger
  <1>3. ASSUME NEW a \in {"nil", "error"}, Answered(s, a), agg[s] = "manual",
               UNCHANGED trigger
        PROVE  (JobsAtWork /\ OneCutoffPerTrigger)'
    <2>1. JobsAtWork'
      BY <1>3 DEF Answered
    <2>2. PICK r \in Requests : r = job[s] /\ s \in Jobs(r)
      BY <1>3 DEF Jobs
    <2>3. /\ Jobs(r)' = Jobs(r) \ {s} /\ Slots(r)' = Slots(r)
          /\ \A q \in Requests \ {r} : Slots(q)' = Slots(q) /\ Jobs(q)' = Jobs(q)
      BY <1>3, <2>2 DEF Answered, Slots, Jobs
    <2>4. Slots(r) = {} /\ Jobs(r) = {s} /\ request[r] = "waiting"
      BY <2>2 DEF OneCutoffPerTrigger
    <2>5. answer'[r] = a /\ \A q \in Requests \ {r} : answer'[q] = answer[q]
      BY <1>3, <2>2 DEF Answered
    <2>. QED
      BY <1>0, <2>1, <2>2, <2>3, <2>4, <2>5 DEF OneCutoffPerTrigger
  <1>. QED
    BY <1>1, <1>2, <1>3
    DEF LoopStep, StartLoop, AutoEnds, ManualEnds, CloseCutoffs,
        StopScheduler, Shutdown, CleanupEnds, TakeDay

(* Whatever the aggregators do, main and the handlers are where they were. *)
LEMMA AggregatorSafe ==
    ASSUME LifecycleInv, AggregatorNext, UNCHANGED <<mainVars, requestVars>>
    PROVE  LifecycleInv'
  <1>1. EndsAfterContext' /\ UNCHANGED ctxDone /\ (JobsAtWork /\ OneCutoffPerTrigger)'
    <2>1. CASE NextDay \/ \E s \in Shards, w \in Windows : maybeTick(s, w)
      BY <2>1, CronSafe
      DEF LifecycleInv, JobsAtWork, OneCutoffPerTrigger, Slots, Jobs, Shard
    <2>2. ASSUME NEW s \in Shards,
                 \/ LoopStep(s) \/ TakeTrigger(s) \/ CleanupEnds(s)
                 \/ \E t \in Ticks : TakeDay(s, t)
          PROVE  /\ EndsAfterContext' /\ UNCHANGED ctxDone
                 /\ (JobsAtWork /\ OneCutoffPerTrigger)'
      BY <2>2, LoopSafe, TriggerSafe
    <2>. QED  BY <2>1, <2>2 DEF AggregatorNext, ShardStep
  <1>2. TypeOK' /\ Connecting'
    BY AggregatorType DEF LifecycleInv, Connecting
  <1>3. (HandlersFirst /\ NamesDone)'
    BY <1>1 DEF LifecycleInv, HandlersFirst, NamesDone, Active, Shard
  <1>. QED  BY <1>1, <1>2, <1>3 DEF LifecycleInv

(***************************************************************************)
(* main.                                                                   *)
(***************************************************************************)

(* main ends the context last.                                             *)
LEMMA MainSafe ==
    ASSUME LifecycleInv, MainStep \/ Terminate
    PROVE  LifecycleInv'
  <1>1. TypeOK' /\ Connecting'
    BY MainType DEF LifecycleInv
  <1>2. /\ UNCHANGED <<requestVars, closed, stopped, trigger, job, answer, panicked>>
        /\ UNCHANGED agg \/ agg' = [s \in Shards |-> "starting"]
        /\ ctxDone' => ctxDone \/ main = "shutdown"
    BY DEF MainStep, Terminate, Connect, NewEnvironment, StartPipeline,
           RunServers, StopServers, EnvShutdown, Exit
  <1>3. (NamesDone /\ OneCutoffPerTrigger)'
    BY <1>2 DEF LifecycleInv, NamesDone, OneCutoffPerTrigger, Slots, Jobs, Shard
  <1>4. EndsAfterContext'
    <2>1. ctxDone => ctxDone'
      BY DEF LifecycleInv, HandlersFirst, MainStep, Terminate, Connect,
             NewEnvironment, RunServers, StopServers, EnvShutdown, Exit
    <2>. QED  BY <1>2, <2>1 DEF LifecycleInv, EndsAfterContext
  <1>5. HandlersFirst'
    BY DEF LifecycleInv, TypeOK, HandlersFirst, Active, MainStep, Terminate,
           Connect, NewEnvironment, RunServers, StopServers, EnvShutdown,
           Exit
  <1>6. JobsAtWork'
    <2>1. CASE UNCHANGED agg
      BY <1>2, <2>1 DEF LifecycleInv, JobsAtWork
    <2>2. CASE main = "boot" /\ agg' = [s \in Shards |-> "starting"]
      <3>1. \A r \in Requests : Jobs(r) = {}
        BY <2>2 DEF LifecycleInv, HandlersFirst, OneCutoffPerTrigger
      <3>2. \A s \in Shards : job[s] = None
        BY <3>1 DEF LifecycleInv, TypeOK, AggregatorTypeOK, Jobs
      <3>. QED  BY <1>2, <2>2, <3>2 DEF JobsAtWork
    <2>3. UNCHANGED agg \/ main = "boot"
      BY DEF MainStep, Terminate, Connect, NewEnvironment, RunServers,
             StopServers, EnvShutdown, Exit
    <2>. QED  BY <1>2, <2>1, <2>2, <2>3
  <1>. QED  BY <1>1, <1>3, <1>4, <1>5, <1>6 DEF LifecycleInv

(***************************************************************************)
(* triggerManualCutoff.                                                    *)
(***************************************************************************)

(* The name a handler is at is one of its names.                           *)
LEMMA ShardType ==
    ASSUME TypeOK, NEW r \in Requests, next[r] <= Len(Targets[r])
    PROVE  /\ next[r] \in 1..Len(Targets[r]) /\ Shard(r) \in STRING
           /\ next[r] + 1 \in 1..(Len(Targets[r]) + 1)
  BY Lengths DEF TypeOK, Shard

(* A handler works only while main still waits for it.                     *)
LEMMA MainWaits ==
    ASSUME LifecycleInv, NEW r \in Requests,
           (main = "serving" /\ request[r] = "none") \/ r \in Active
    PROVE  main \in {"serving", "hung", "stopServers"} /\ ~ctxDone
  BY DEF LifecycleInv, TypeOK, HandlersFirst, Active

(* Where only handlers move, nothing else changes.                         *)
LEMMA OthersKept ==
    ASSUME LifecycleInv, UNCHANGED <<cronVars, agg, job, cleanerVars,
                                     processVars, mainVars>>,
           NEW r \in Requests,
           (main = "serving" /\ request[r] = "none") \/ r \in Active
    PROVE  (EndsAfterContext /\ HandlersFirst /\ JobsAtWork /\ Connecting)'
  <1>1. main \in {"serving", "hung", "stopServers"} /\ ~ctxDone
    BY MainWaits
  <1>. QED
    BY <1>1
    DEF LifecycleInv, EndsAfterContext, HandlersFirst, JobsAtWork, Connecting

(* Begin, SendTrigger and WriteResponse leave the answers alone.           *)
LEMMA StatusSafe ==
    ASSUME LifecycleInv, NEW r \in Requests,
           Begin(r) \/ SendTrigger(r) \/ WriteResponse(r)
    PROVE  LifecycleInv'
  <1>1. /\ UNCHANGED <<cronVars, agg, job, cleanerVars, processVars,
                       mainVars, next, failed, done>>
        /\ (main = "serving" /\ request[r] = "none") \/ r \in Active
    BY DEF Begin, SendTrigger, WriteResponse, Active
  <1>0. UNCHANGED answer
    BY DEF Begin, SendTrigger, WriteResponse
  <1>2. TypeOK'
    <2>. USE DEF LifecycleInv, TypeOK, AggregatorTypeOK
    <2>1. CASE Begin(r)
      BY <2>1 DEF Begin
    <2>2. CASE SendTrigger(r)
      <3>1. trigger' \in [Shards -> Requests \cup {None}]
        BY <2>2 DEF SendTrigger
      <3>. QED  BY <2>2, <3>1 DEF SendTrigger
    <2>3. CASE WriteResponse(r)
      BY <2>3 DEF WriteResponse
    <2>. QED  BY <2>1, <2>2, <2>3
  <1>3. \A q \in Requests \ {r} : request'[q] = request[q]
    BY DEF LifecycleInv, TypeOK, Begin, SendTrigger, WriteResponse
  <1>4. /\ request'[r] = "waiting" =>
              next[r] <= Len(Targets[r]) /\ Shard(r) \in Shards
        /\ request'[r] = "ok" => next[r] > Len(Targets[r]) /\ failed[r] = {}
    BY DEF LifecycleInv, TypeOK, Begin, SendTrigger, WriteResponse
  <1>5. NamesDone'
    BY <1>1, <1>3, <1>4 DEF LifecycleInv, NamesDone, Shard
  <1>6. OneCutoffPerTrigger'
    <2>1. CASE UNCHANGED trigger /\ request[r] # "waiting" /\ request'[r] # "waiting"
      BY <1>0, <1>1, <1>3, <2>1
      DEF LifecycleInv, OneCutoffPerTrigger, Slots, Jobs, Shard
    <2>2. CASE SendTrigger(r)
      <3>1. /\ request[r] = "next" /\ request'[r] = "waiting"
            /\ Shard(r) \in Shards /\ UNCHANGED answer
        BY <2>2 DEF LifecycleInv, TypeOK, SendTrigger
      <3>2. Slots(r) = {} /\ Jobs(r) = {} /\ answer[r] = "none"
        BY <3>1 DEF LifecycleInv, OneCutoffPerTrigger
      <3>3. /\ Slots(r)' = {Shard(r)} /\ Jobs(r)' = {}
            /\ \A q \in Requests \ {r} : Slots(q)' = Slots(q) /\ Jobs(q)' = Jobs(q)
        BY <1>1, <2>2, <3>1, <3>2, AggregatorAssumption
        DEF LifecycleInv, TypeOK, AggregatorTypeOK, SendTrigger, Slots, Jobs
      <3>4. \A q \in Requests : Shard(q)' = Shard(q)
        BY <1>1 DEF Shard
      <3>. QED
        BY <1>3, <3>1, <3>2, <3>3, <3>4 DEF LifecycleInv, OneCutoffPerTrigger
    <2>. QED
      BY <2>1, <2>2 DEF LifecycleInv, TypeOK, Begin, WriteResponse
  <1>. QED  BY <1>1, <1>2, <1>5, <1>6, OthersKept DEF LifecycleInv

(* A name that is done with is recorded before the next one is looked at.  *)
LEMMA NameSafe ==
    ASSUME LifecycleInv, NEW r \in Requests, UnknownShard(r) \/ ReceiveAnswer(r)
    PROVE  LifecycleInv'
  <1>1. /\ UNCHANGED <<cronVars, agg, job, cleanerVars, processVars,
                       mainVars>>
        /\ r \in Active
    BY DEF UnknownShard, ReceiveAnswer, Active
  <1>2. next[r] <= Len(Targets[r])
    BY DEF LifecycleInv, NamesDone, UnknownShard, ReceiveAnswer
  <1>3. /\ request'[r] = "next" /\ next'[r] = next[r] + 1
        /\ \A q \in Requests \ {r} :
              /\ request'[q] = request[q] /\ next'[q] = next[q]
              /\ failed'[q] = failed[q] /\ done'[q] = done[q]
    BY DEF LifecycleInv, TypeOK, UnknownShard, ReceiveAnswer
  <1>4. /\ Shard(r) \in done'[r] \cup failed'[r]
        /\ done[r] \cup failed[r] \subseteq done'[r] \cup failed'[r]
    BY DEF LifecycleInv, TypeOK, AggregatorTypeOK, UnknownShard,
           ReceiveAnswer
  <1>5. TypeOK'
    <2>1. failed' \in [Requests -> SUBSET STRING]
      <3>1. \/ failed' = [failed EXCEPT ![r] = failed[r] \cup {Shard(r)}]
            \/ failed' = [failed EXCEPT ![r] = failed[r] \ {Shard(r)}]
        BY DEF UnknownShard, ReceiveAnswer
      <3>. QED  BY <1>2, <3>1, ShardType DEF LifecycleInv, TypeOK
    <2>2. done' \in [Requests -> SUBSET Shards]
      <3>1. CASE UnknownShard(r)
        BY <3>1 DEF LifecycleInv, TypeOK, UnknownShard
      <3>2. CASE ReceiveAnswer(r)
        <4>1. Shard(r) \in Shards
          BY <3>2 DEF LifecycleInv, NamesDone, ReceiveAnswer
        <4>2. \/ done' = [done EXCEPT ![r] = done[r] \cup {Shard(r)}]
              \/ done' = [done EXCEPT ![r] = done[r] \ {Shard(r)}]
          BY <3>2 DEF ReceiveAnswer
        <4>. QED  BY <4>1, <4>2 DEF LifecycleInv, TypeOK
      <3>. QED  BY <3>1, <3>2
    <2>3. /\ next' \in [Requests -> Nat]
          /\ \A q \in Requests : next'[q] \in 1..(Len(Targets[q]) + 1)
      <3>1. next' = [next EXCEPT ![r] = next[r] + 1]
        BY DEF UnknownShard, ReceiveAnswer
      <3>2. next'[r] \in 1..(Len(Targets[r]) + 1)
        BY <1>2, <1>3, ShardType DEF LifecycleInv
      <3>. QED  BY <1>3, <3>1, <3>2 DEF LifecycleInv, TypeOK
    <2>4. /\ request' \in [Requests -> {"none", "next", "waiting", "rejected",
                                        "ok", "badRequest"}]
          /\ AggregatorTypeOK'
      BY DEF LifecycleInv, TypeOK, AggregatorTypeOK, UnknownShard,
             ReceiveAnswer
    <2>. QED  BY <1>1, <2>1, <2>2, <2>3, <2>4 DEF LifecycleInv, TypeOK
  <1>6. NamesDone'
    <2>1. ASSUME NEW i \in 1..Len(Targets[r]), i < next'[r]
          PROVE  Targets[r][i] \in done'[r] \cup failed'[r]
      <3>1. i < next[r] \/ i = next[r]
        BY <1>2, <1>3, <2>1, ShardType, Lengths DEF LifecycleInv
      <3>. QED  BY <1>4, <3>1 DEF LifecycleInv, NamesDone, Shard
    <2>. QED  BY <1>3, <2>1 DEF LifecycleInv, NamesDone, Shard
  <1>7. OneCutoffPerTrigger'
    <2>1. UNCHANGED <<trigger, job>> /\ \A q \in Requests :
             Slots(q)' = Slots(q) /\ Jobs(q)' = Jobs(q)
      BY DEF UnknownShard, ReceiveAnswer, Slots, Jobs
    <2>2. \A q \in Requests \ {r} : answer'[q] = answer[q] /\ Shard(q)' = Shard(q)
      BY <1>3
      DEF LifecycleInv, TypeOK, AggregatorTypeOK, UnknownShard, ReceiveAnswer, Shard
    <2>3. Slots(r) = {} /\ Jobs(r) = {} /\ answer'[r] = "none"
      <3>1. CASE UnknownShard(r)
        BY <3>1 DEF LifecycleInv, OneCutoffPerTrigger, UnknownShard
      <3>2. CASE ReceiveAnswer(r)
        BY <3>2
        DEF LifecycleInv, TypeOK, AggregatorTypeOK, OneCutoffPerTrigger,
            ReceiveAnswer
      <3>. QED  BY <3>1, <3>2
    <2>. QED
      BY <1>3, <2>1, <2>2, <2>3 DEF LifecycleInv, OneCutoffPerTrigger
  <1>. QED  BY <1>1, <1>5, <1>6, <1>7, OthersKept DEF LifecycleInv

(* A step that changes nothing.                                            *)
LEMMA LifecycleStutters ==
    ASSUME LifecycleInv, UNCHANGED vars
    PROVE  LifecycleInv'
  <1>1. TypeOK'
    BY DEF LifecycleInv, TypeOK, AggregatorTypeOK
  <1>. QED
    BY <1>1
    DEF LifecycleInv, Connecting, EndsAfterContext, HandlersFirst, NamesDone,
        JobsAtWork, OneCutoffPerTrigger, Slots, Jobs, Active, Shard

(***************************************************************************)
(* Theorems.                                                               *)
(***************************************************************************)

(* The order in which the process ends, and what handlers and aggregators  *)
(* have done, for all shards, windows, days, requests and failures         *)
(* (main.go:38-58, environment.go, aggregate.go:142-190).                  *)
THEOREM LifecycleInvariant == Spec => []LifecycleInv
  <1>1. LifecycleInv /\ [Next]_vars => LifecycleInv'
    BY AggregatorSafe, MainSafe, StatusSafe, NameSafe, LifecycleStutters
    DEF Next, Handler
  <1>. QED  BY <1>1, LifecycleInit, PTL DEF Spec

(* Every variable keeps its type (aggregate.go, main.go).                  *)
THEOREM LifecycleTypeCorrect == Spec => []TypeOK
  <1>1. LifecycleInv => TypeOK
    BY DEF LifecycleInv
  <1>. QED  BY <1>1, LifecycleInvariant, PTL

(* No client is left when an aggregator stops or a channel that is used    *)
(* again panics (main.go:44-49, cutoff.go:61, cleanup.go:126).             *)
THEOREM NoClientAtShutdownAlways == Spec => []NoClientAtShutdown
  <1>1. LifecycleInv => NoClientAtShutdown
    BY DEF LifecycleInv, EndsAfterContext, HandlersFirst, NoClientAtShutdown
  <1>. QED  BY <1>1, LifecycleInvariant, PTL

(* A 200 means that the last cutoff of every named shard succeeded         *)
(* (manual_cutoff_times.go:82-127).                                        *)
THEOREM OkMeansCutOffAlways == Spec => []OkMeansCutOff
  <1>1. LifecycleInv => OkMeansCutOff
    <2>. SUFFICES ASSUME LifecycleInv, NEW r \in Requests, request[r] = "ok",
                         NEW i \in 1..Len(Targets[r])
                  PROVE  Targets[r][i] \in done[r]
      BY DEF OkMeansCutOff
    <2>1. next[r] > Len(Targets[r]) /\ failed[r] = {}
      BY DEF LifecycleInv, NamesDone
    <2>2. i < next[r]
      BY <2>1, Lengths DEF LifecycleInv, TypeOK
    <2>3. Targets[r][i] \in done[r] \cup failed[r]
      BY <2>2 DEF LifecycleInv, NamesDone
    <2>. QED  BY <2>1, <2>3
  <1>. QED  BY <1>1, LifecycleInvariant, PTL

(* A waiting client has exactly one trigger, another client none, with any *)
(* number of shards, clients, repeated names, failures and panics          *)
(* (manual_cutoff_times.go:91-127, aggregate.go:252-277).                  *)
THEOREM OneCutoffPerTriggerAlways == Spec => []OneCutoffPerTrigger
  <1>1. LifecycleInv => OneCutoffPerTrigger
    BY DEF LifecycleInv
  <1>. QED  BY <1>1, LifecycleInvariant, PTL
=============================================================================
