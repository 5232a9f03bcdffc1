----------------------------- MODULE ODFIProofs -----------------------------
(***************************************************************************)
(* Theorems about ODFIScheduler for every set of files, every              *)
(* configuration of shards and processors and every bound.                 *)
(***************************************************************************)
EXTENDS ODFIScheduler, TLAPS

USE DEF server, outputs, tickVars, control, vars

TypeInv == TypeOK /\ TickLocals

(* Shards and failures are counted with natural numbers.                   *)
LEMMA ShardCount == Len(ShardNames) \in Nat /\ MaxAdverse \in Nat
  BY ODFIAssumption

(* There are three remote directories.                                     *)
LEMMA PathCount == Len(Paths) = 3
  BY DEF Paths

(* Failures stay within their bound.                                       *)
LEMMA FailsType ==
    ASSUME TypeOK, NEW e, Fails(e)
    PROVE  adverse' \in 0..MaxAdverse
  BY ODFIAssumption DEF TypeOK, Fails

(* The scheduler starts well typed.                                        *)
LEMMA TypeInit == Init => TypeInv
  <1>. SUFFICES ASSUME Init PROVE TypeInv
    OBVIOUS
  <1>1. request \in [Requests -> {"none", "sending", "queued", "served", "ok",
                                 "broken"}]
    BY DEF Init
  <1>2. /\ next \in 1..(Len(ShardNames) + 1)
        /\ path \in 1..3
        /\ adverse \in 0..MaxAdverse
    BY ShardCount DEF Init
  <1>3. TypeOK
    BY <1>1, <1>2 DEF Init, TypeOK
  <1>4. TickLocals
    BY DEF Init, TickLocals
  <1>. QED  BY <1>3, <1>4 DEF TypeInv

(* No document is Nothing.                                                 *)
LEMMA NothingLocal ==
    ASSUME TypeOK
    PROVE  Nothing \notin local
  BY ODFIAssumption DEF TypeOK

(* A tick that fails moves to the next shard and leaves its locals.        *)
LEMMA TickFailsType ==
    ASSUME TypeInv, TickFails, current = Nothing, next <= Len(ShardNames),
           adverse' \in 0..MaxAdverse
    PROVE  TypeInv'
  BY ShardCount DEF TypeInv, TypeOK, TickLocals, TickFails, NextShard, Paths

(* The ODFI adds documents to the server, and the ones it takes away were  *)
(* published.                                                              *)
LEMMA ODFIType ==
    ASSUME TypeInv, ODFI
    PROVE  TypeInv'
  <1>1. ASSUME NEW name \in Files, Publish(name) PROVE TypeInv'
    <2>1. [name |-> name, version |-> 1] \in Documents
      BY ODFIAssumption DEF Documents
    <2>. QED  BY <1>1, <2>1 DEF Publish, TypeInv, TypeOK, TickLocals
  <1>2. ASSUME NEW name \in Files, Republish(name) PROVE TypeInv'
    <2>1. adverse' \in 0..MaxAdverse
      BY <1>2, FailsType DEF Republish, TypeInv
    <2>. QED  BY <1>2, <2>1 DEF Republish, TypeInv, TypeOK, TickLocals, Named
  <1>3. ASSUME NEW d \in Documents, Withdraw(d) PROVE TypeInv'
    BY <1>3, FailsType DEF Withdraw, TypeInv, TypeOK, TickLocals
  <1>. QED  BY <1>1, <1>2, <1>3 DEF ODFI

(* So do the steps between two passes and the ones that start a pass.      *)
LEMMA LoopType ==
    ASSUME TypeInv,
           \/ ClockTick \/ Stop \/ Shutdown \/ Crash
           \/ \E r \in Requests : Trigger(r) \/ Enqueue(r) \/ TakeTrigger(r)
    PROVE  TypeInv'
  <1>. USE ShardCount
  <1>1. CASE ClockTick
    BY <1>1 DEF ClockTick, StartPass, TypeInv, TypeOK, TickLocals
  <1>2. CASE Stop
    BY <1>2 DEF Stop, TypeInv, TypeOK, TickLocals
  <1>3. CASE Shutdown
    BY <1>3 DEF Shutdown, TypeInv, TypeOK, TickLocals
  <1>4. CASE Crash
    <2>1. /\ next' \in 1..(Len(ShardNames) + 1)
          /\ path' \in 1..3
          /\ adverse' \in 0..MaxAdverse
      BY <1>4, FailsType DEF Crash, TypeInv
    <2>2. request' \in [Requests -> {"none", "sending", "queued", "served",
                                    "ok", "broken"}]
      BY <1>4 DEF Crash
    <2>3. leftover' \subseteq published
      BY <1>4 DEF Crash, TypeInv, TypeOK
    <2>4. TypeOK'
      BY <1>4, <2>1, <2>2, <2>3 DEF Crash, TypeInv, TypeOK
    <2>5. TickLocals'
      BY <1>4 DEF Crash, TickLocals
    <2>. QED  BY <2>4, <2>5 DEF TypeInv
  <1>5. ASSUME NEW r \in Requests, Trigger(r) PROVE TypeInv'
    BY <1>5 DEF Trigger, TypeInv, TypeOK, TickLocals
  <1>6. ASSUME NEW r \in Requests, Enqueue(r) PROVE TypeInv'
    BY <1>6 DEF Enqueue, TypeInv, TypeOK, TickLocals
  <1>7. ASSUME NEW r \in Requests, TakeTrigger(r) PROVE TypeInv'
    BY <1>7 DEF TakeTrigger, StartPass, TypeInv, TypeOK, TickLocals
  <1>. QED  BY <1>1, <1>2, <1>3, <1>4, <1>5, <1>6, <1>7

(* Every step of a pass.                                                   *)
LEMMA PassType ==
    ASSUME TypeInv, Pass
    PROVE  TypeInv'
  <1>. USE ShardCount
  <1>1. CASE UnknownShard
    <2>1. next' \in 1..(Len(ShardNames) + 1)
      BY <1>1 DEF UnknownShard, TypeInv, TypeOK
    <2>. QED  BY <1>1, <2>1 DEF UnknownShard, TypeInv, TypeOK, TickLocals
  <1>2. CASE StartTick
    <2>1. TypeOK'
      <3>1. path' \in 1..3
        BY <1>2 DEF StartTick
      <3>. QED  BY <1>2, <3>1 DEF StartTick, TypeInv, TypeOK
    <2>2. TickLocals'
      BY <1>2 DEF StartTick, TypeInv, TickLocals
    <2>. QED  BY <2>1, <2>2 DEF TypeInv
  <1>3. CASE SetupFails
    <2>1. current = Nothing /\ next <= Len(ShardNames)
      BY <1>3 DEF SetupFails, TypeInv, TickLocals
    <2>. QED  BY <1>3, <2>1, TickFailsType, FailsType DEF SetupFails, TypeInv
  <1>4. CASE FinishPass
    BY <1>4 DEF FinishPass, Answer, TypeInv, TypeOK, TickLocals
  <1>5. CASE List
    BY <1>5 DEF List, Listed, TypeInv, TypeOK, TickLocals
  <1>6. CASE ListFails
    <2>1. adverse' \in 0..MaxAdverse
      BY <1>6, FailsType DEF ListFails, TypeInv
    <2>2. CASE TickFails
      <3>1. current = Nothing /\ next <= Len(ShardNames)
        BY <1>6 DEF ListFails, TypeInv, TickLocals
      <3>. QED  BY <2>1, <2>2, <3>1, TickFailsType
    <2>. QED  BY <1>6, <2>1, <2>2 DEF ListFails, TypeInv, TypeOK, TickLocals
  <1>7. ASSUME NEW name \in Files, Save(name) PROVE TypeInv'
    <2>1. adverse' \in 0..MaxAdverse
      BY <1>7, FailsType DEF Save, TypeInv, TypeOK
    <2>. QED  BY <1>7, <2>1 DEF Save, Named, TypeInv, TypeOK, TickLocals
  <1>8. CASE SavedAll
    <2>1. CASE TickFails
      <3>1. current = Nothing /\ next <= Len(ShardNames)
        BY <1>8 DEF SavedAll, TypeInv, TickLocals
      <3>2. adverse' \in 0..MaxAdverse
        BY <1>8 DEF SavedAll, TypeInv, TypeOK
      <3>. QED  BY <2>1, <3>1, <3>2, TickFailsType
    <2>. QED
      BY <1>8, <2>1, PathCount DEF SavedAll, TypeInv, TypeOK, TickLocals
  <1>9. ASSUME NEW d \in Documents, Open(d) PROVE TypeInv'
    <2>1. adverse' \in 0..MaxAdverse
      BY <1>9, FailsType DEF Open, TypeInv, TypeOK
    <2>2. audited' \subseteq published
      BY <1>9 DEF Open, AuditOf, TypeInv, TypeOK
    <2>. QED
      BY <1>9, <2>1, <2>2 DEF Open, AfterError, TypeInv, TypeOK, TickLocals
  <1>10. ASSUME NEW p \in Processors, Handle(p) PROVE TypeInv'
    <2>1. adverse' \in 0..MaxAdverse
      BY <1>10, FailsType DEF Handle, TypeInv, TypeOK
    <2>2. \A e \in emitted' : e \in emitted \/ e[2] = current
      BY <1>10 DEF Handle, Sent
    <2>. QED
      BY <1>10, <2>1, <2>2 DEF Handle, TypeInv, TypeOK, TickLocals
  <1>11. CASE HandledAll
    BY <1>11 DEF HandledAll, TypeInv, TypeOK, TickLocals
  <1>12. CASE ProcessedAll
    <2>1. CASE TickFails
      <3>1. current = Nothing /\ next <= Len(ShardNames)
        BY <1>12 DEF ProcessedAll, TypeInv, TickLocals
      <3>2. adverse' \in 0..MaxAdverse
        BY <1>12 DEF ProcessedAll, TypeInv, TypeOK
      <3>. QED  BY <2>1, <3>1, <3>2, TickFailsType
    <2>. QED  BY <1>12, <2>1 DEF ProcessedAll, FilesToDelete, TypeInv, TypeOK,
                                 TickLocals
  <1>13. ASSUME NEW d \in Documents, DeleteRemote(d), d \in work,
                pc \in {"cleanup", "empty"}
         PROVE  TypeInv'
    <2>1. adverse' \in 0..MaxAdverse
      BY <1>13, FailsType DEF DeleteRemote, TypeInv, TypeOK
    <2>2. failed' \in BOOLEAN
      BY <1>13, ODFIAssumption DEF DeleteRemote, Reported, TypeInv, TypeOK
    <2>. QED  BY <1>13, <2>1, <2>2 DEF DeleteRemote, Named, TypeInv, TypeOK,
                                      TickLocals
  <1>14. CASE CleanedAll
    <2>1. CASE TickFails
      <3>1. current = Nothing /\ next <= Len(ShardNames)
        BY <1>14 DEF CleanedAll, TypeInv, TickLocals
      <3>2. adverse' \in 0..MaxAdverse
        BY <1>14 DEF CleanedAll, TypeInv, TypeOK
      <3>. QED  BY <2>1, <3>1, <3>2, TickFailsType
    <2>. QED  BY <1>14, <2>1 DEF CleanedAll, TypeInv, TypeOK, TickLocals
  <1>15. CASE FinishTick
    <2>1. CASE TickFails
      <3>1. current = Nothing /\ next <= Len(ShardNames)
        BY <1>15 DEF FinishTick, TypeInv, TickLocals
      <3>2. adverse' \in 0..MaxAdverse
        BY <1>15, FailsType DEF FinishTick, TypeInv, TypeOK
      <3>. QED  BY <2>1, <3>1, <3>2, TickFailsType
    <2>. QED  BY <1>15, <2>1 DEF FinishTick, TypeInv, TypeOK, TickLocals
  <1>. QED
    BY <1>1, <1>2, <1>3, <1>4, <1>5, <1>6, <1>7, <1>8, <1>9, <1>10, <1>11,
       <1>12, <1>13, <1>14, <1>15 DEF Pass, Cleanup, CleanupEmptyFiles

(* Types and tick locals are right in every reachable state, whatever is   *)
(* configured and whatever fails.                                          *)
THEOREM ODFITypeCorrect == Spec => [](TypeOK /\ TickLocals)
  <1>1. TypeInv /\ [Next]_vars => TypeInv'
    <2>1. TypeInv /\ UNCHANGED vars => TypeInv'
      BY DEF TypeInv, TypeOK, TickLocals
    <2>. QED  BY <2>1, ODFIType, LoopType, PassType DEF Next
  <1>2. TypeInv => TypeOK /\ TickLocals
    BY DEF TypeInv
  <1>. QED  BY TypeInit, <1>1, <1>2, PTL DEF Spec

(***************************************************************************)
(* Nothing is lost.                                                        *)
(***************************************************************************)

(* The inductive invariant beyond the types.                               *)
Safe ==
    /\ ProcessedSoFar
    /\ DeletedWasAnnounced
    /\ EmittedWasAudited

(* At first there are no documents.                                        *)
LEMMA SafeInit == Init => Safe
  BY DEF Init, Safe, ProcessedSoFar, DeletedWasAnnounced,
         EmittedWasAudited

(* A name that was not used again stands for one document.                 *)
LEMMA OneDocument ==
    ASSUME TypeInv, NEW d \in published, NEW e \in published,
           d.name = e.name, d.name \notin Reused
    PROVE  d = e
  BY DEF TypeInv, TypeOK, Documents, Reused

(* Events and audited documents are never taken back.                      *)
LEMMA OutputsGrow ==
    ASSUME NEW d, NEW p, emitted \subseteq emitted',
           audited \subseteq audited', published \subseteq published'
    PROVE  /\ SentAll(p, d) => SentAll(p, d)'
           /\ InAuditTrail(d) => InAuditTrail(d)'
  BY DEF SentAll, InAuditTrail, Reused

(* A step that is not within the processing or the cleanup of a tick.      *)
LEMMA SafeOutside ==
    ASSUME Safe, UNCHANGED <<published, deleted, emitted, audited>>,
           pc' \notin {"process", "cleanup", "empty"}, current' = Nothing
    PROVE  Safe'
  BY DEF Safe, ProcessedSoFar, DeletedWasAnnounced,
         EmittedWasAudited, Announced, SentAll, InAuditTrail, Reused

(* A step that leaves the tick and its outputs alone.                      *)
LEMMA SafeBeside ==
    ASSUME Safe, UNCHANGED <<deleted, emitted, audited, pc, current, local,
                             work, handlers, failed>>,
           published \subseteq published'
    PROVE  Safe'
  BY DEF Safe, ProcessedSoFar, DeletedWasAnnounced, EmittedWasAudited,
         Announced, SentAll, InAuditTrail, Reused

(* The ODFI only adds to what it has published.                            *)
LEMMA SafeODFI ==
    ASSUME TypeInv, Safe, ODFI
    PROVE  Safe'
  <1>1. ASSUME NEW name \in Files, Publish(name) PROVE Safe'
    BY <1>1, SafeBeside DEF Publish
  <1>2. ASSUME NEW name \in Files, Republish(name) PROVE Safe'
    BY <1>2, SafeBeside DEF Republish
  <1>3. ASSUME NEW d \in Documents, Withdraw(d) PROVE Safe'
    BY <1>3, SafeBeside DEF Withdraw
  <1>. QED  BY <1>1, <1>2, <1>3 DEF ODFI

(* Between two passes.                                                     *)
LEMMA SafeLoop ==
    ASSUME TypeInv, Safe,
           \/ ClockTick \/ Stop \/ Shutdown \/ Crash
           \/ \E r \in Requests : Trigger(r) \/ Enqueue(r) \/ TakeTrigger(r)
    PROVE  Safe'
  <1>1. CASE ClockTick
    BY <1>1, SafeOutside DEF ClockTick, StartPass, TypeInv, TickLocals
  <1>2. CASE Stop
    BY <1>2, SafeOutside DEF Stop, TypeInv, TickLocals
  <1>3. CASE Shutdown
    BY <1>3, SafeBeside DEF Shutdown
  <1>4. CASE Crash
    BY <1>4, SafeOutside DEF Crash
  <1>5. ASSUME NEW r \in Requests, Trigger(r) \/ Enqueue(r) PROVE Safe'
    BY <1>5, SafeBeside DEF Trigger, Enqueue
  <1>6. ASSUME NEW r \in Requests, TakeTrigger(r) PROVE Safe'
    BY <1>6, SafeOutside DEF TakeTrigger, StartPass, TypeInv, TickLocals
  <1>. QED  BY <1>1, <1>2, <1>3, <1>4, <1>5, <1>6

(* A tick that fails emits and deletes nothing.                            *)
LEMMA SafeTickFails ==
    ASSUME Safe, TickFails, current = Nothing
    PROVE  Safe'
  BY SafeOutside DEF TickFails

(* The download, and the steps between two ticks.                          *)
LEMMA SafeDownload ==
    ASSUME TypeInv, Safe,
           \/ UnknownShard \/ StartTick \/ SetupFails \/ FinishPass
           \/ List \/ ListFails \/ SavedAll \/ \E name \in Files : Save(name)
    PROVE  Safe'
  <1>1. CASE UnknownShard \/ StartTick \/ FinishPass
    BY <1>1, SafeOutside
    DEF UnknownShard, StartTick, FinishPass, TypeInv, TickLocals
  <1>2. CASE SetupFails
    BY <1>2, SafeTickFails DEF SetupFails, TypeInv, TickLocals
  <1>3. CASE List
    BY <1>3, SafeOutside DEF List, TypeInv, TickLocals
  <1>4. CASE ListFails
    BY <1>4, SafeOutside, SafeTickFails DEF ListFails, TypeInv, TickLocals
  <1>5. CASE SavedAll
    <2>1. current = Nothing
      BY <1>5 DEF SavedAll, TypeInv, TickLocals
    <2>2. CASE failed
      BY <1>5, <2>1, <2>2, SafeTickFails DEF SavedAll
    <2>3. CASE ~failed /\ path < Len(Paths)
      BY <1>5, <2>1, <2>3, SafeOutside DEF SavedAll
    <2>4. CASE ~failed /\ ~(path < Len(Paths))
      BY <1>5, <2>1, <2>4
      DEF SavedAll, Safe, ProcessedSoFar,
          DeletedWasAnnounced, EmittedWasAudited, Announced, SentAll,
          InAuditTrail, Reused
    <2>. QED  BY <2>2, <2>3, <2>4
  <1>6. ASSUME NEW name \in Files, Save(name) PROVE Safe'
    BY <1>6, SafeOutside DEF Save, TypeInv, TickLocals
  <1>. QED  BY <1>1, <1>2, <1>3, <1>4, <1>5, <1>6

(* The document that is opened is in the audit trail: a document found     *)
(* there under its name is the document itself.                            *)
LEMMA SafeOpen ==
    ASSUME TypeInv, Safe, NEW d \in Documents, Open(d)
    PROVE  Safe'
  <1>1. d \in published /\ audited \subseteq published
    BY DEF Open, TypeInv, TypeOK
  <1>2. audited \subseteq audited'
    BY DEF Open, AuditOf
  <1>3. \A e : InAuditTrail(e) => InAuditTrail(e)'
    BY <1>2, OutputsGrow DEF Open
  <1>4. DeletedWasAnnounced' /\ EmittedWasAudited'
    <2>1. Reused' = Reused
      BY DEF Open, Reused
    <2>. QED  BY <1>3, <2>1 DEF Open, Safe, DeletedWasAnnounced,
                                EmittedWasAudited, Announced, SentAll
  <1>5. CASE failed'
    <2>1. \/ current' = Nothing
          \/ current' = d /\ UNCHANGED failed
      BY DEF Open
    <2>2. InAuditTrail(d)' \/ current' = Nothing
      BY <2>1, <1>1, OneDocument
      DEF Open, AuditOf, InAuditTrail, Reused, Named
    <2>. QED  BY <1>4, <1>5, <2>1, <2>2 DEF Open, Safe, ProcessedSoFar
  <1>6. CASE ~failed'
    <2>1. /\ ~failed
          /\ current' = d
          /\ handlers' = Enabled
          /\ work' = work \ {d}
          /\ audited' \in AuditOf(d)
      BY <1>6 DEF Open
    <2>2. InAuditTrail(d)'
      BY <1>1, <2>1, OneDocument
      DEF Open, AuditOf, InAuditTrail, Reused, Named
    <2>3. \A e \in local \ work : \A p \in Enabled : SentAll(p, e)
      BY <2>1, NothingLocal
      DEF Open, Safe, ProcessedSoFar, SentAll, TypeInv
    <2>. QED  BY <1>3, <1>4, <2>1, <2>2, <2>3
              DEF Open, Safe, ProcessedSoFar, SentAll
  <1>. QED  BY <1>5, <1>6

(* A processor handles the current document, which is in the audit trail.  *)
LEMMA SafeHandle ==
    ASSUME TypeInv, Safe, NEW p \in Processors, Handle(p)
    PROVE  Safe'
  <1>1. /\ emitted \subseteq emitted'
        /\ audited' = audited /\ published' = published
    BY DEF Handle
  <1>2. \A e : InAuditTrail(e) => InAuditTrail(e)'
    BY <1>1, OutputsGrow
  <1>3. \A q, e : SentAll(q, e) => SentAll(q, e)'
    BY <1>1, OutputsGrow
  <1>4. DeletedWasAnnounced'
    <2>1. Reused' = Reused
      BY DEF Handle, Reused
    <2>. QED  BY <1>2, <1>3, <2>1 DEF Handle, Safe, DeletedWasAnnounced,
                                      Announced
  <1>5. EmittedWasAudited'
    <2>1. \A e \in emitted' : e \in emitted \/ e[2] = current
      BY DEF Handle, Sent
    <2>2. InAuditTrail(current)
      BY DEF Handle, Safe, ProcessedSoFar
    <2>. QED  BY <1>2, <2>1, <2>2 DEF Safe, EmittedWasAudited
  <1>6. ProcessedSoFar'
    <2>1. pc = "process"
      BY DEF Handle, TypeInv, TickLocals
    <2>2. ~failed' => ~failed /\ SentAll(p, current)'
      BY DEF Handle, SentAll, TypeInv, TypeOK
    <2>3. ~failed' => \A e \in local \ work : \A q \in Enabled :
                         (e = current /\ q \in handlers') \/ SentAll(q, e)'
      BY <1>3, <2>1, <2>2 DEF Handle, Safe, ProcessedSoFar
    <2>. QED  BY <1>2, <2>1, <2>2, <2>3 DEF Handle, Safe, ProcessedSoFar
  <1>. QED  BY <1>4, <1>5, <1>6 DEF Safe

(* All processors are through with the current document.                   *)
LEMMA SafeHandledAll ==
    ASSUME TypeInv, Safe, HandledAll
    PROVE  Safe'
  <1>1. pc = "process"
    BY DEF HandledAll, TypeInv, TickLocals
  <1>. QED
    BY <1>1 DEF HandledAll, Safe, ProcessedSoFar,
                DeletedWasAnnounced, EmittedWasAudited, Announced, SentAll,
                InAuditTrail, Reused

(* All documents are processed: cleanup follows only without an error.     *)
LEMMA SafeProcessedAll ==
    ASSUME TypeInv, Safe, ProcessedAll
    PROVE  Safe'
  <1>1. CASE failed
    BY <1>1, SafeTickFails DEF ProcessedAll, Errors
  <1>2. CASE ~failed
    <2>1. \A d \in local : Announced(d) /\ InAuditTrail(d)
      BY <1>2, NothingLocal
      DEF ProcessedAll, Safe, ProcessedSoFar, Announced, TypeInv
    <2>. QED
      BY <1>2, <2>1
      DEF ProcessedAll, Errors, Safe, ProcessedSoFar,
          DeletedWasAnnounced, EmittedWasAudited, Announced, SentAll,
          InAuditTrail, Reused
  <1>. QED  BY <1>1, <1>2

(* What a deletion by name takes from the server is the very document that *)
(* was processed.                                                          *)
LEMMA SafeDelete ==
    ASSUME TypeInv, Safe, NEW d \in Documents, d \in work, DeleteRemote(d),
           pc \in {"cleanup", "empty"}
    PROVE  Safe'
  <1>1. d \in local /\ local \subseteq published /\ remote \subseteq published
    BY DEF TypeInv, TypeOK
  <1>2. d.name \notin Reused => Named(remote, d.name) \subseteq {d}
    BY <1>1, OneDocument DEF Named
  <1>3. Announced(d) /\ InAuditTrail(d)
    BY <1>1 DEF Safe, ProcessedSoFar
  <1>4. \A e \in deleted' :
           e \in deleted \/ (e.name = d.name /\ (e = d \/ e.name \in Reused))
    BY <1>2 DEF DeleteRemote, Named
  <1>. QED
    BY <1>3, <1>4
    DEF DeleteRemote, Safe, ProcessedSoFar,
        DeletedWasAnnounced, EmittedWasAudited, Announced, SentAll,
        InAuditTrail, Reused

(* The ends of the two cleanups.                                           *)
LEMMA SafeCleaned ==
    ASSUME TypeInv, Safe, CleanedAll \/ FinishTick
    PROVE  Safe'
  <1>1. current = Nothing
    BY DEF CleanedAll, FinishTick, TypeInv, TickLocals
  <1>2. CASE TickFails
    BY <1>1, <1>2, SafeTickFails
  <1>3. CASE CleanedAll /\ ~failed
    BY <1>1, <1>3
    DEF CleanedAll, Safe, ProcessedSoFar,
        DeletedWasAnnounced, EmittedWasAudited, Announced, SentAll,
        InAuditTrail, Reused
  <1>4. CASE FinishTick /\ ~TickFails
    BY <1>1, <1>4, SafeOutside DEF FinishTick
  <1>. QED  BY <1>2, <1>3, <1>4 DEF CleanedAll, FinishTick

(* What processing has achieved between two of its steps, with the two     *)
(* properties that follow, is an inductive invariant.                      *)
THEOREM ODFIInvariant == Spec => []Safe
  <1>1. TypeInv /\ Safe /\ [Next]_vars => Safe'
    <2>. SUFFICES ASSUME TypeInv, Safe, [Next]_vars PROVE Safe'
      OBVIOUS
    <2>1. CASE UNCHANGED vars
      BY <2>1, SafeBeside
    <2>2. CASE Pass
      BY <2>2, SafeDownload, SafeOpen, SafeHandle, SafeHandledAll,
         SafeProcessedAll, SafeDelete, SafeCleaned
      DEF Pass, Cleanup, CleanupEmptyFiles
    <2>. QED  BY <2>1, <2>2, SafeODFI, SafeLoop DEF Next
  <1>2. TypeInv <=> TypeOK /\ TickLocals
    BY DEF TypeInv
  <1>. QED  BY SafeInit, ODFITypeCorrect, <1>1, <1>2, PTL DEF Spec

(* A document leaves the ODFI's server only after its audit and all of its *)
(* events, for any configuration and any failures and crashes, if its name *)
(* is not used again.                                                      *)
THEOREM DeletedWasAnnouncedAlways == Spec => []DeletedWasAnnounced
  <1>1. Safe => DeletedWasAnnounced
    BY DEF Safe
  <1>. QED  BY <1>1, ODFIInvariant, PTL

(* Nobody hears of a document that is not in the audit trail, if its name  *)
(* is not used again.                                                      *)
THEOREM EmittedWasAuditedAlways == Spec => []EmittedWasAudited
  <1>1. Safe => EmittedWasAudited
    BY DEF Safe
  <1>. QED  BY <1>1, ODFIInvariant, PTL
=============================================================================
