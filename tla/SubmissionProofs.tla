-------------------------- MODULE SubmissionProofs --------------------------
(***************************************************************************)
(* Theorems about FilesController for every set of messages, requests and  *)
(* file IDs, every capacity of the channels and whatever fails.            *)
(***************************************************************************)
EXTENDS FilesController, TLAPS

USE DEF loopVars, brokerVars, taskVars, receiverVars, controllerVars, vars,
        Sources, Kinds

(* A message answers of its kind when it has been processed, and a file it *)
(* queues is in the files table.                                           *)
Processed(m) == m \in handled /\ (Kind[m] = "queue" => FileOf[m] \in recorded)

(* A goroutine responds and commits only after it has processed.           *)
TasksProcessed ==
    \A m \in Messages : task[m] \in {"respond", "ack"} => Processed(m)

(* So do the responses nobody has taken, each in the channel of its kind.  *)
ResponsesProcessed ==
    \A k \in Kinds : \A i \in 1..Len(channel[k]) :
       Kind[channel[k][i]] = k /\ Processed(channel[k][i])

(* A waiter is registered under its own key and nowhere else, and has had  *)
(* no response.                                                            *)
Registered ==
    \A k \in Kinds, id \in FileIDs : active[k][id] # None =>
       LET r == active[k][id]
       IN  Kind[r] = k /\ Key(r) = id /\ request[r] # "none" /\ reply[r] = None

(* A response that was delivered is about the file of the request.         *)
Replied ==
    \A r \in Requests : reply[r] # None =>
       /\ request[r] # "none"
       /\ Processed(reply[r])
       /\ Kind[reply[r]] = Kind[r]
       /\ Trim[FileOf[reply[r]]] = Trim[FileOf[r]]

(* Only a waiter with a response answers.                                  *)
Answered == \A r \in Requests : request[r] = "answered" => reply[r] # None

SubmissionInv ==
    /\ TypeOK /\ CommittedIsHandled
    /\ TasksProcessed /\ ResponsesProcessed
    /\ Registered /\ Replied /\ Answered

(***************************************************************************)
(* Types.                                                                  *)
(***************************************************************************)

(* Everything starts well typed.                                           *)
LEMMA SubmissionInit == Init => SubmissionInv
  <1>. SUFFICES ASSUME Init PROVE SubmissionInv
    OBVIOUS
  <1>1. LoopTypeOK
    BY LoopAssumption DEF Init, LoopInit, LoopTypeOK
  <1>2. TypeOK
    BY <1>1 DEF Init, TypeOK
  <1>3. CommittedIsHandled /\ TasksProcessed /\ ResponsesProcessed
    BY DEF Init, LoopInit, CommittedIsHandled, TasksProcessed,
           ResponsesProcessed
  <1>4. Registered /\ Replied /\ Answered
    BY DEF Init, Registered, Replied, Answered
  <1>. QED  BY <1>2, <1>3, <1>4 DEF SubmissionInv

(* Failures stay within their bound.                                       *)
LEMMA FailsType ==
    ASSUME LoopTypeOK, NEW e, Fails(e)
    PROVE  adverse' \in 0..MaxAdverse
  BY LoopAssumption DEF LoopTypeOK, Fails

(* The next iteration starts with nothing in hand.                         *)
LEMMA IterateType ==
    ASSUME LoopTypeOK, Iterate
    PROVE  /\ loop' = "select"
           /\ inner' \in [Sources -> BOOLEAN]
           /\ mine' \in [Sources -> Messages \cup {None}]
           /\ result' \in [Sources -> {"none", "read", "network"}]
           /\ stale' \subseteq Sources
  <1>1. inner' \in [Sources -> BOOLEAN]
    BY Zenon DEF Iterate
  <1>2. stale' \subseteq Sources
    BY DEF LoopTypeOK, Iterate, cancelFunc
  <1>3. /\ mine' \in [Sources -> Messages \cup {None}]
        /\ result' \in [Sources -> {"none", "read", "network"}]
    BY DEF Iterate, cancelFunc
  <1>. QED  BY <1>1, <1>2, <1>3 DEF Iterate

(* The loop of Start and the goroutines inside Receive.                    *)
LEMMA LoopStepType ==
    ASSUME LoopTypeOK,
           \/ Breaks \/ Reconnect \/ Shutdown
           \/ \E s \in Sources : Select(s) \/ ReceiveStep(s) \/ ReceiveCanceled(s)
           \/ \E s \in Sources, m \in Messages : ReceiveLate(s, m)
    PROVE  LoopTypeOK'
  <1>1. CASE Breaks
    BY <1>1, FailsType DEF LoopTypeOK, Breaks
  <1>2. CASE Reconnect
    <2>1. conn' \in [Sources -> {"open", "broken", "shut"}]
      BY <1>2 DEF LoopTypeOK, Reconnect
    <2>2. adverse' \in 0..MaxAdverse
      BY <1>2, FailsType DEF LoopTypeOK, Reconnect
    <2>3. orphan' \subseteq Messages
      BY <1>2 DEF LoopTypeOK, Reconnect, InHand
    <2>. QED  BY <1>2, <2>1, <2>2, <2>3, IterateType DEF LoopTypeOK, Reconnect
  <1>3. CASE Shutdown
    BY <1>3, FailsType DEF LoopTypeOK, Shutdown, cancelFunc, InHand
  <1>4. ASSUME NEW s \in Sources, Select(s) PROVE LoopTypeOK'
    <2>1. CASE Iterate
      BY <1>4, <2>1, IterateType DEF LoopTypeOK, Select
    <2>2. CASE loop' = "reconnect" /\ UNCHANGED <<inner, mine, result, stale>>
      BY <1>4, <2>2 DEF LoopTypeOK, Select
    <2>. QED  BY <1>4, <2>1, <2>2 DEF Select
  <1>5. ASSUME NEW s \in Sources, ReceiveError(s) PROVE LoopTypeOK'
    BY <1>5, FailsType DEF LoopTypeOK, ReceiveError
  <1>6. ASSUME NEW s \in Sources, NEW m \in Messages, ReceiveMessage(s, m)
        PROVE  LoopTypeOK'
    BY <1>6 DEF LoopTypeOK, ReceiveMessage, Delivery
  <1>7. ASSUME NEW s \in Sources, ReceiveCanceled(s) PROVE LoopTypeOK'
    BY <1>7 DEF LoopTypeOK, ReceiveCanceled
  <1>8. ASSUME NEW s \in Sources, NEW m \in Messages, ReceiveLate(s, m)
        PROVE  LoopTypeOK'
    BY <1>8 DEF LoopTypeOK, ReceiveLate, Delivery
  <1>. QED
    BY <1>1, <1>2, <1>3, <1>4, <1>5, <1>6, <1>7, <1>8 DEF ReceiveStep

(* A goroutine that is done leaves a result or nothing.                    *)
LEMMA DoneType ==
    ASSUME LoopTypeOK, NEW m \in Messages, NEW o \in {"read", "network"},
           Done(m, o)
    PROVE  /\ task' \in [Messages -> {"none", "held", "process", "respond", "ack"}]
           /\ orphan' \subseteq Messages
           /\ result' \in [Sources -> {"none", "read", "network"}]
           /\ mine' \in [Sources -> Messages \cup {None}]
           /\ UNCHANGED <<conn, loop, inner, stale, recorded, channel>>
  BY LoopAssumption DEF LoopTypeOK, Done

(* The goroutines that process messages.                                   *)
LEMMA TaskStepType ==
    ASSUME LoopTypeOK, NEW m \in Messages, TaskStep(m)
    PROVE  LoopTypeOK'
  <1>1. CASE Drop(m)
    BY <1>1, DoneType DEF LoopTypeOK, Drop
  <1>2. CASE TakeMessage(m)
    BY <1>2 DEF LoopTypeOK, TakeMessage, Ack
  <1>3. CASE Process(m)
    <2>1. ASSUME Fails("process"), NEW o \in {"read", "network"}, Done(m, o),
                 UNCHANGED <<brokerVars, handled>>
          PROVE  LoopTypeOK'
      <3>1. /\ task' \in [Messages -> {"none", "held", "process", "respond", "ack"}]
            /\ orphan' \subseteq Messages
            /\ result' \in [Sources -> {"none", "read", "network"}]
            /\ mine' \in [Sources -> Messages \cup {None}]
            /\ UNCHANGED <<conn, loop, inner, stale, recorded, channel>>
        BY <2>1, DoneType
      <3>2. adverse' \in 0..MaxAdverse
        BY <2>1, FailsType
      <3>. QED  BY <2>1, <3>1, <3>2 DEF LoopTypeOK
    <2>2. CASE /\ task' \in {[task EXCEPT ![m] = "respond"],
                             [task EXCEPT ![m] = "ack"]}
               /\ recorded' \subseteq recorded \cup {FileOf[m]}
               /\ handled' = handled \cup {m}
               /\ UNCHANGED <<brokerVars, loopVars, orphan, channel, adverse>>
      <3>1. FileOf[m] \in FileIDs
        BY LoopAssumption
      <3>. QED  BY <2>2, <3>1 DEF LoopTypeOK
    <2>. QED  BY <1>3, <2>1, <2>2 DEF Process
  <1>4. CASE Respond(m)
    <2>1. Kind[m] \in Kinds /\ Capacity \in Nat
      BY LoopAssumption
    <2>2. /\ channel[Kind[m]] \in Seq(Messages)
          /\ Len(channel[Kind[m]]) < Capacity
      BY <1>4, <2>1 DEF LoopTypeOK, Respond
    <2>3. /\ Append(channel[Kind[m]], m) \in Seq(Messages)
          /\ Len(Append(channel[Kind[m]], m)) <= Capacity
      BY <2>1, <2>2
    <2>4. /\ channel' \in [Kinds -> Seq(Messages)]
          /\ \A k \in Kinds : Len(channel'[k]) <= Capacity
      BY <1>4, <2>1, <2>3 DEF LoopTypeOK, Respond
    <2>. QED  BY <1>4, <2>4 DEF LoopTypeOK, Respond
  <1>5. CASE Commit(m)
    BY <1>5, DoneType DEF LoopTypeOK, Commit, Ack
  <1>. QED  BY <1>1, <1>2, <1>3, <1>4, <1>5 DEF TaskStep

(* The handlers and the listeners.                                         *)
LEMMA ControllerType ==
    ASSUME TypeOK,
           \/ \E r \in Requests : Handler(r)
           \/ \E k \in Kinds : Listen(k)
           \/ \E m \in Messages : StreamSend(m)
    PROVE  TypeOK'
  <1>1. ASSUME NEW r \in Requests, Reject(r) PROVE TypeOK'
    BY <1>1, FailsType DEF TypeOK, LoopTypeOK, Reject
  <1>2. ASSUME NEW r \in Requests, Register(r) PROVE TypeOK'
    <2>1. Kind[r] \in Kinds /\ Key(r) \in FileIDs
      BY LoopAssumption, TrimAssumption DEF Requests, Key
    <2>. QED  BY <1>2, <2>1 DEF TypeOK, LoopTypeOK, Register
  <1>3. ASSUME NEW r \in Requests, Publish(r) PROVE TypeOK'
    BY <1>3, FailsType DEF TypeOK, LoopTypeOK, Publish, Queue
  <1>4. ASSUME NEW r \in Requests, Answer(r) \/ Timeout(r) PROVE TypeOK'
    BY <1>4 DEF TypeOK, LoopTypeOK, Answer, Timeout
  <1>5. ASSUME NEW k \in Kinds, Listen(k) PROVE TypeOK'
    <2>1. channel[k] \in Seq(Messages) /\ channel[k] # <<>>
      BY <1>5 DEF TypeOK, LoopTypeOK, Listen
    <2>2. Head(channel[k]) \in Messages /\ Tail(channel[k]) \in Seq(Messages)
      BY <2>1
    <2>3. Capacity \in Nat /\ Len(Tail(channel[k])) <= Capacity
      BY <2>1, LoopAssumption DEF TypeOK, LoopTypeOK
    <2>4. LoopTypeOK'
      BY <1>5, <2>2, <2>3 DEF TypeOK, LoopTypeOK, Listen
    <2>5. Trim[FileOf[Head(channel[k])]] \in FileIDs
      BY <2>2, LoopAssumption, TrimAssumption
    <2>6. /\ active' \in [Kinds -> [FileIDs -> Requests \cup {None}]]
          /\ reply' \in [Requests -> Messages \cup {None}]
      <3>. DEFINE id == Trim[FileOf[Head(channel[k])]]
                  r == active[k][id]
      <3>1. r \in Requests \cup {None}
        BY <2>5 DEF TypeOK
      <3>2. CASE r = None
        BY <1>5, <3>2 DEF TypeOK, Listen
      <3>3. CASE r # None
        <4>1. /\ reply' = [reply EXCEPT ![r] = Head(channel[k])]
              /\ active' = [active EXCEPT ![k][id] = None]
          BY <1>5, <3>3 DEF Listen
        <4>. HIDE DEF r, id
        <4>. QED  BY <2>2, <2>5, <3>1, <3>3, <4>1 DEF TypeOK
      <3>. QED  BY <3>2, <3>3
    <2>. QED  BY <1>5, <2>4, <2>6 DEF TypeOK, Listen
  <1>6. ASSUME NEW m \in Messages, StreamSend(m) PROVE TypeOK'
    BY <1>6 DEF TypeOK, LoopTypeOK, StreamSend, Queue
  <1>. QED  BY <1>1, <1>2, <1>3, <1>4, <1>5, <1>6 DEF Handler

(***************************************************************************)
(* The receiver.                                                           *)
(***************************************************************************)

(* Messages stay processed.                                                *)
LEMMA ProcessedStays ==
    ASSUME handled \subseteq handled', recorded \subseteq recorded',
           NEW m, Processed(m)
    PROVE  Processed(m)'
  BY DEF Processed

(* Whatever the loop does to goroutines, it commits nothing, processes     *)
(* nothing, and moves no task forward.                                     *)
LEMMA LoopStepSafe ==
    ASSUME SubmissionInv,
           \/ Breaks \/ Reconnect \/ Shutdown
           \/ \E s \in Sources : Select(s) \/ ReceiveStep(s) \/ ReceiveCanceled(s)
           \/ \E s \in Sources, m \in Messages : ReceiveLate(s, m)
    PROVE  (CommittedIsHandled /\ TasksProcessed /\ ResponsesProcessed)'
  <1>1. UNCHANGED <<broker, handled, recorded, channel>>
    BY DEF Breaks, Reconnect, Shutdown, Select, ReceiveStep, ReceiveMessage,
           ReceiveError, ReceiveCanceled, ReceiveLate, Delivery
  <1>2. \/ UNCHANGED task
        \/ \E m \in Messages : task' = [task EXCEPT ![m] = "held"]
    BY DEF Breaks, Reconnect, Shutdown, Select, ReceiveStep, ReceiveMessage,
           ReceiveError, ReceiveCanceled, ReceiveLate, Delivery
  <1>3. TasksProcessed'
    BY <1>1, <1>2
    DEF SubmissionInv, TypeOK, LoopTypeOK, TasksProcessed, Processed
  <1>. QED
    BY <1>1, <1>3
    DEF SubmissionInv, CommittedIsHandled, ResponsesProcessed, Processed

(* A task goes from processing to its response and to the commit.          *)
LEMMA TaskStepSafe ==
    ASSUME SubmissionInv, NEW m \in Messages, TaskStep(m)
    PROVE  /\ handled \subseteq handled' /\ recorded \subseteq recorded'
           /\ (CommittedIsHandled /\ TasksProcessed /\ ResponsesProcessed)'
  <1>. USE DEF SubmissionInv
  <1>1. CASE Drop(m)
    BY <1>1
    DEF TypeOK, LoopTypeOK, Drop, Done, CommittedIsHandled, TasksProcessed,
        ResponsesProcessed, Processed
  <1>2. CASE TakeMessage(m)
    BY <1>2
    DEF TypeOK, LoopTypeOK, TakeMessage, CommittedIsHandled, TasksProcessed,
        ResponsesProcessed, Processed
  <1>3. CASE Process(m)
    <2>1. /\ handled \subseteq handled' /\ recorded \subseteq recorded'
          /\ UNCHANGED <<broker, channel>>
      BY <1>3 DEF Process, Done
    <2>2. CommittedIsHandled'
      BY <2>1 DEF CommittedIsHandled
    <2>3. ResponsesProcessed'
      BY <2>1, ProcessedStays DEF ResponsesProcessed
    <2>4. task'[m] \in {"respond", "ack"} => Processed(m)'
      BY <1>3 DEF TypeOK, LoopTypeOK, Process, Done, Processed
    <2>5. \A n \in Messages \ {m} : task'[n] = task[n]
      BY <1>3 DEF TypeOK, LoopTypeOK, Process, Done
    <2>6. TasksProcessed'
      BY <2>1, <2>4, <2>5, ProcessedStays DEF TasksProcessed
    <2>. QED  BY <2>1, <2>2, <2>3, <2>6
  <1>4. CASE Respond(m)
    <2>1. UNCHANGED <<broker, handled, recorded>>
      BY <1>4 DEF Respond
    <2>2. Processed(m)
      BY <1>4 DEF TasksProcessed, Respond
    <2>3. TasksProcessed'
      BY <1>4, <2>1, <2>2
      DEF TypeOK, LoopTypeOK, TasksProcessed, Respond, Processed
    <2>4. Kind[m] \in Kinds /\ channel[Kind[m]] \in Seq(Messages)
      BY LoopAssumption DEF TypeOK, LoopTypeOK
    <2>5. channel' = [channel EXCEPT ![Kind[m]] = Append(channel[Kind[m]], m)]
      BY <1>4 DEF Respond
    <2>6. \A i \in 1..Len(Append(channel[Kind[m]], m)) :
             LET n == Append(channel[Kind[m]], m)[i]
             IN  Kind[n] = Kind[m] /\ Processed(n)
      BY <2>2, <2>4 DEF ResponsesProcessed
    <2>7. ASSUME NEW k \in Kinds, NEW i \in 1..Len(channel'[k])
          PROVE  Kind[channel'[k][i]] = k /\ Processed(channel'[k][i])
      <3>1. CASE k = Kind[m]
        BY <2>4, <2>5, <2>6, <2>7, <3>1 DEF TypeOK, LoopTypeOK
      <3>2. CASE k # Kind[m]
        BY <2>5, <2>7, <3>2 DEF TypeOK, LoopTypeOK, ResponsesProcessed
      <3>. QED  BY <3>1, <3>2
    <2>8. ResponsesProcessed'
      BY <2>1, <2>7 DEF ResponsesProcessed, Processed
    <2>. QED  BY <2>1, <2>3, <2>8 DEF CommittedIsHandled
  <1>5. CASE Commit(m)
    <2>1. UNCHANGED <<handled, recorded, channel>>
      BY <1>5 DEF Commit, Done
    <2>2. Processed(m)
      BY <1>5 DEF TasksProcessed, Commit
    <2>3. TasksProcessed'
      BY <1>5, <2>1
      DEF TypeOK, LoopTypeOK, TasksProcessed, Commit, Done, Processed
    <2>4. CommittedIsHandled'
      BY <1>5, <2>1, <2>2
      DEF TypeOK, LoopTypeOK, CommittedIsHandled, Commit, Ack, Processed
    <2>. QED  BY <2>1, <2>3, <2>4 DEF ResponsesProcessed, Processed
  <1>. QED  BY <1>1, <1>2, <1>3, <1>4, <1>5 DEF TaskStep

(* The receiver leaves the waiters and what they were told alone.          *)
LEMMA ReceiverSafe ==
    ASSUME SubmissionInv, ReceiverNext, UNCHANGED controllerVars
    PROVE  SubmissionInv'
  <1>1. /\ handled \subseteq handled' /\ recorded \subseteq recorded'
        /\ (CommittedIsHandled /\ TasksProcessed /\ ResponsesProcessed)'
    <2>1. CASE \E m \in Messages : TaskStep(m)
      BY <2>1, TaskStepSafe
    <2>2. CASE ~\E m \in Messages : TaskStep(m)
      <3>1. UNCHANGED <<handled, recorded>>
        BY <2>2
        DEF ReceiverNext, Breaks, Reconnect, Shutdown, Select, ReceiveStep,
            ReceiveMessage, ReceiveError, ReceiveCanceled, ReceiveLate,
            Delivery
      <3>. QED  BY <2>2, <3>1, LoopStepSafe DEF ReceiverNext
    <2>. QED  BY <2>1, <2>2
  <1>2. LoopTypeOK'
    BY LoopStepType, TaskStepType DEF SubmissionInv, TypeOK, ReceiverNext
  <1>3. TypeOK'
    BY <1>2 DEF SubmissionInv, TypeOK
  <1>4. (Registered /\ Answered)'
    BY DEF SubmissionInv, Registered, Answered, Key
  <1>5. Replied'
    BY <1>1, ProcessedStays DEF SubmissionInv, Replied
  <1>. QED  BY <1>1, <1>3, <1>4, <1>5 DEF SubmissionInv

(***************************************************************************)
(* The waiters.                                                            *)
(***************************************************************************)

(* A step that only publishes, or moves a handler on, keeps what the       *)
(* receiver has done.                                                      *)
LEMMA ReceiverKept ==
    ASSUME SubmissionInv, UNCHANGED <<task, handled, recorded, channel>>,
           \A m \in Messages : broker'[m] = "committed" => broker[m] = "committed"
    PROVE  (CommittedIsHandled /\ TasksProcessed /\ ResponsesProcessed)'
  BY DEF SubmissionInv, CommittedIsHandled, TasksProcessed,
         ResponsesProcessed, Processed

(* Requests are messages, and None is not.                                 *)
LEMMA NoRequest == None \notin Requests /\ Requests \subseteq Messages
  BY LoopAssumption DEF Requests

(* A handler registers with an empty channel, before it publishes.         *)
LEMMA HandlerSafe ==
    ASSUME SubmissionInv, NEW r \in Requests, Handler(r)
    PROVE  SubmissionInv'
  <1>. USE NoRequest
  <1>1. TypeOK'
    BY ControllerType DEF SubmissionInv
  <1>2. /\ UNCHANGED <<task, handled, recorded, channel, reply>>
        /\ \A m \in Messages : broker'[m] = "committed" => broker[m] = "committed"
    BY DEF SubmissionInv, TypeOK, LoopTypeOK, Handler, Reject, Register,
           Publish, Queue, Answer, Timeout
  <1>3. (CommittedIsHandled /\ TasksProcessed /\ ResponsesProcessed)'
    BY <1>2, ReceiverKept
  <1>4. /\ request'[r] # "none"
        /\ \A q \in Requests \ {r} : request'[q] = request[q]
        /\ request'[r] = "answered" => reply[r] # None
    BY DEF SubmissionInv, TypeOK, Handler, Reject, Register, Publish, Answer,
           Timeout
  <1>5. Replied'
    BY <1>2, <1>4 DEF SubmissionInv, Replied, Processed
  <1>6. Answered'
    BY <1>2, <1>4 DEF SubmissionInv, Answered
  <1>7. Registered'
    <2>1. CASE Register(r)
      <3>1. reply[r] = None
        BY <2>1 DEF SubmissionInv, TypeOK, Replied, Register
      <3>2. Kind[r] \in Kinds /\ Key(r) \in FileIDs
        BY LoopAssumption, TrimAssumption DEF Key
      <3>3. \A k \in Kinds, id \in FileIDs :
               active'[k][id] = IF k = Kind[r] /\ id = Key(r) THEN r
                                                            ELSE active[k][id]
        BY <2>1, <3>2 DEF SubmissionInv, TypeOK, Register
      <3>. QED
        BY <1>2, <1>4, <3>1, <3>3 DEF SubmissionInv, TypeOK, Registered, Key
    <2>2. CASE ~Register(r)
      <3>1. UNCHANGED active
        BY <2>2 DEF Handler, Reject, Publish, Answer, Timeout
      <3>. QED
        BY <1>2, <1>4, <3>1 DEF SubmissionInv, TypeOK, Registered, Key
    <2>. QED  BY <2>1, <2>2
  <1>. QED  BY <1>1, <1>3, <1>5, <1>6, <1>7 DEF SubmissionInv

(* A listener gives a response to the one waiter registered under its ID   *)
(* and takes the waiter out.                                               *)
LEMMA ListenSafe ==
    ASSUME SubmissionInv, NEW k \in Kinds, Listen(k)
    PROVE  SubmissionInv'
  <1>. USE NoRequest
  <1>. DEFINE m == Head(channel[k])
              id == Trim[FileOf[m]]
              r == active[k][id]
  <1>1. TypeOK'
    BY ControllerType DEF SubmissionInv
  <1>2. /\ UNCHANGED <<broker, task, handled, recorded, request>>
        /\ channel' = [channel EXCEPT ![k] = Tail(channel[k])]
    BY DEF Listen
  <1>3. channel[k] \in Seq(Messages) /\ channel[k] # <<>>
    BY DEF SubmissionInv, TypeOK, LoopTypeOK, Listen
  <1>4. m \in Messages /\ Kind[m] = k /\ Processed(m)
    BY <1>3 DEF SubmissionInv, ResponsesProcessed
  <1>5. id \in FileIDs /\ Trim[id] = id /\ r \in Requests \cup {None}
    BY <1>4, LoopAssumption, TrimAssumption DEF SubmissionInv, TypeOK
  <1>6. CommittedIsHandled' /\ TasksProcessed'
    BY <1>2
    DEF SubmissionInv, CommittedIsHandled, TasksProcessed, Processed
  <1>7. ResponsesProcessed'
    <2>1. ASSUME NEW j \in Kinds, NEW i \in 1..Len(channel'[j])
          PROVE  Kind[channel'[j][i]] = j /\ Processed(channel'[j][i])
      <3>1. CASE j = k
        <4>1. channel'[k] = Tail(channel[k])
          BY <1>2 DEF SubmissionInv, TypeOK, LoopTypeOK
        <4>2. /\ i + 1 \in 1..Len(channel[k])
              /\ channel'[k][i] = channel[k][i + 1]
          BY <1>3, <2>1, <3>1, <4>1
        <4>. QED  BY <3>1, <4>2 DEF SubmissionInv, ResponsesProcessed
      <3>2. CASE j # k
        BY <1>2, <2>1, <3>2
        DEF SubmissionInv, TypeOK, LoopTypeOK, ResponsesProcessed
      <3>. QED  BY <3>1, <3>2
    <2>. QED  BY <1>2, <2>1 DEF ResponsesProcessed, Processed
  <1>8. (Registered /\ Replied /\ Answered)'
    <2>1. CASE r = None
      <3>1. UNCHANGED <<reply, active>>
        BY <2>1 DEF Listen
      <3>. QED
        BY <1>2, <3>1
        DEF SubmissionInv, Registered, Replied, Answered, Processed, Key
    <2>2. CASE r # None
      <3>1. /\ reply' = [reply EXCEPT ![r] = m]
            /\ active' = [active EXCEPT ![k][id] = None]
        BY <2>2 DEF Listen
      <3>2. Kind[r] = k /\ Key(r) = id /\ request[r] # "none"
        BY <1>5, <2>2 DEF SubmissionInv, Registered
      <3>3. r \in Requests /\ m # None
        BY <1>4, <1>5, <2>2, LoopAssumption
      <3>4. Trim[FileOf[r]] = id
        BY <1>5, <3>2 DEF Key
      <3>. HIDE DEF r
      <3>5. \A q \in Requests : reply'[q] = IF q = r THEN m ELSE reply[q]
        BY <3>1, <3>3 DEF SubmissionInv, TypeOK
      <3>6. \A j \in Kinds, i \in FileIDs :
               active'[j][i] = IF j = k /\ i = id THEN None ELSE active[j][i]
        BY <1>5, <3>1 DEF SubmissionInv, TypeOK
      <3>7. Replied'
        BY <1>2, <1>4, <3>2, <3>4, <3>5 DEF SubmissionInv, Replied, Processed
      <3>8. Answered'
        BY <1>2, <3>3, <3>5 DEF SubmissionInv, Answered
      <3>9. Registered'
        BY <1>2, <3>2, <3>5, <3>6 DEF SubmissionInv, TypeOK, Registered, Key
      <3>. QED  BY <3>7, <3>8, <3>9
    <2>. QED  BY <2>1, <2>2
  <1>. QED  BY <1>1, <1>6, <1>7, <1>8 DEF SubmissionInv

(* Others only add messages.                                               *)
LEMMA StreamSendSafe ==
    ASSUME SubmissionInv, NEW m \in Messages, StreamSend(m)
    PROVE  SubmissionInv'
  <1>1. TypeOK'
    BY ControllerType DEF SubmissionInv
  <1>2. /\ UNCHANGED <<task, handled, recorded, channel, controllerVars>>
        /\ \A n \in Messages : broker'[n] = "committed" => broker[n] = "committed"
    BY DEF SubmissionInv, TypeOK, LoopTypeOK, StreamSend, Queue
  <1>3. (CommittedIsHandled /\ TasksProcessed /\ ResponsesProcessed)'
    BY <1>2, ReceiverKept
  <1>4. (Registered /\ Replied /\ Answered)'
    BY <1>2 DEF SubmissionInv, Registered, Replied, Answered, Processed, Key
  <1>. QED  BY <1>1, <1>3, <1>4 DEF SubmissionInv

(* A step that changes nothing.                                            *)
LEMMA SubmissionStutters ==
    ASSUME SubmissionInv, UNCHANGED vars
    PROVE  SubmissionInv'
  <1>1. TypeOK'
    BY DEF SubmissionInv, TypeOK, LoopTypeOK
  <1>. QED
    BY <1>1
    DEF SubmissionInv, CommittedIsHandled, TasksProcessed,
        ResponsesProcessed, Registered, Replied, Answered, Processed, Key

(***************************************************************************)
(* Theorems.                                                               *)
(***************************************************************************)

(* What has been processed, committed, registered and answered fits        *)
(* together, for all messages, requests, IDs, capacities and failures      *)
(* (file_receiver.go:124-254, 474-500, api_files.go:80-262).               *)
THEOREM SubmissionInvariant == Spec => []SubmissionInv
  <1>1. SubmissionInv /\ [Next]_vars => SubmissionInv'
    BY ReceiverSafe, HandlerSafe, ListenSafe, StreamSendSafe,
       SubmissionStutters
    DEF Next
  <1>. QED  BY <1>1, SubmissionInit, PTL DEF Spec

(* The type invariant the run checks (file_receiver.go, api_files.go).     *)
THEOREM SubmissionTypeCorrect == Spec => []TypeOK
  <1>1. SubmissionInv => TypeOK
    BY DEF SubmissionInv
  <1>. QED  BY <1>1, SubmissionInvariant, PTL

(* No message is committed that was not processed, whatever the loop of    *)
(* Start does to the goroutine that holds it (file_receiver.go:234-254).   *)
THEOREM CommittedIsHandledAlways == Spec => []CommittedIsHandled
  <1>1. SubmissionInv => CommittedIsHandled
    BY DEF SubmissionInv
  <1>. QED  BY <1>1, SubmissionInvariant, PTL

(* The listener never blocks on a waiter that timed out, was replaced or   *)
(* was answered (api_files.go:104-108, 130-134).                           *)
THEOREM ListenerNeverBlocksAlways == Spec => []ListenerNeverBlocks
  <1>1. SubmissionInv => ListenerNeverBlocks
    BY DEF SubmissionInv, Registered, ListenerNeverBlocks
  <1>. QED  BY <1>1, SubmissionInvariant, PTL

(* What a client is told has happened (api_files.go:101-108,               *)
(* file_receiver.go:493).                                                  *)
THEOREM AnswerIsTrueAlways == Spec => []AnswerIsTrue
  <1>1. SubmissionInv => AnswerIsTrue
    BY DEF SubmissionInv, Answered, Replied, Processed, AnswerIsTrue
  <1>. QED  BY <1>1, SubmissionInvariant, PTL
=============================================================================
