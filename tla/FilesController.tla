-------------------------- MODULE FilesController --------------------------
(***************************************************************************)
(* The HTTP side of file submission (internal/incoming/web/api_files.go)   *)
(* composed with the loop that processes what it publishes.                *)
(*                                                                         *)
(* POST and DELETE /shards/{shardKey}/files/{fileID} publish a message and *)
(* wait up to 10 seconds for the response, on a channel of capacity one    *)
(* they registered under the file ID.  One listener per kind takes the     *)
(* responses of the FileReceiver, those of stream messages too, and passes *)
(* each to whoever is registered under its file ID without ".ach".         *)
(***************************************************************************)
EXTENDS ReceiverLoop, FiniteSets

CONSTANTS
    Trim,         \* Trim[id]: the file ID without its .ach suffix
    MaxSent       \* bound: how many of the messages clients send

ASSUME TrimAssumption ==
    /\ Trim \in [FileIDs -> FileIDs]
    /\ \A id \in FileIDs : Trim[Trim[id]] = Trim[id]
    /\ MaxSent \in Nat

(* Every message of the HTTP subscription is a request's.                  *)
Requests == {m \in Messages : Source[m] = "http"}

VARIABLES
    request,    \* request[r]: where the handler of r is
    active,     \* active[k][id]: whose channel is registered
    reply       \* reply[r]: the response in r's channel, or read from it

controllerVars == <<request, active, reply>>
vars == <<receiverVars, controllerVars>>

TypeOK ==
    /\ LoopTypeOK
    /\ request \in [Requests -> {"none", "registered", "waiting", "answered",
                                 "timeout", "rejected", "error"}]
    /\ active \in [Kinds -> [FileIDs -> Requests \cup {None}]]
    /\ reply \in [Requests -> Messages \cup {None}]

Init ==
    /\ LoopInit
    /\ request = [r \in Requests |-> "none"]
    /\ active = [k \in Kinds |-> [id \in FileIDs |-> None]]
    /\ reply = [r \in Requests |-> None]

(***************************************************************************)
(* CreateFileHandler and CancelFileHandler.                                *)
(***************************************************************************)

(* The messages clients have begun to send.                                *)
Begun == {r \in Requests : request[r] # "none"}
           \cup {m \in Messages \ Requests : broker[m] # "unsent"}

(* The body cannot be read, revealed or parsed: 400.                       *)
Reject(r) ==
    /\ request[r] = "none" /\ Cardinality(Begun) < MaxSent
    /\ Kind[r] = "queue"
    /\ Fails("body")
    /\ request' = [request EXCEPT ![r] = "rejected"]
    /\ UNCHANGED <<brokerVars, loopVars, taskVars, active, reply>>

(* Only the cancellation's handler trims the ID.                           *)
Key(r) == IF Kind[r] = "cancel" THEN Trim[FileOf[r]] ELSE FileOf[r]

(* The waiter is registered before the message is sent, over any other.    *)
Register(r) ==
    /\ request[r] = "none" /\ Cardinality(Begun) < MaxSent
    /\ request' = [request EXCEPT ![r] = "registered"]
    /\ active' = [active EXCEPT ![Kind[r]][Key(r)] = r]
    /\ UNCHANGED <<receiverVars, reply>>

(* Protect or Send fails: 500, and the waiter stays registered.            *)
Publish(r) ==
    /\ request[r] = "registered"
    /\ \/ /\ Queue(r)
          /\ request' = [request EXCEPT ![r] = "waiting"]
          /\ UNCHANGED adverse
       \/ /\ Fails("publish")
          /\ request' = [request EXCEPT ![r] = "error"]
          /\ UNCHANGED broker
    /\ UNCHANGED <<conn, loopVars, taskVars, active, reply>>

Answer(r) ==
    /\ request[r] = "waiting"
    /\ reply[r] # None
    /\ request' = [request EXCEPT ![r] = "answered"]
    /\ UNCHANGED <<receiverVars, active, reply>>

(* The waiter stays registered.                                            *)
Timeout(r) ==
    /\ request[r] = "waiting"
    /\ request' = [request EXCEPT ![r] = "timeout"]
    /\ UNCHANGED <<receiverVars, active, reply>>

(***************************************************************************)
(* listenForQueueACHFileResponses and listenForCancellations.              *)
(***************************************************************************)

(* Mutant: the waiter is not deleted.                                      *)
ListenAndKeep(k) ==
    /\ channel[k] # <<>>
    /\ LET m == Head(channel[k])
           r == active[k][Trim[FileOf[m]]]
       IN  IF r = None
             THEN UNCHANGED reply
             ELSE reply[r] = None /\ reply' = [reply EXCEPT ![r] = m]
    /\ channel' = [channel EXCEPT ![k] = Tail(@)]
    /\ UNCHANGED <<brokerVars, loopVars, task, orphan, recorded, handled,
                   adverse, request, active>>

(* The listener takes a response and, under the lock, sends it to the      *)
(* waiter, which blocks when its channel is full, and deletes the waiter.  *)
(* A response nobody waits for is thrown away.                             *)
Listen(k) ==
    /\ channel[k] # <<>>
    /\ LET m == Head(channel[k])
           id == Trim[FileOf[m]]
           r == active[k][id]
       IN  IF r = None
             THEN UNCHANGED <<reply, active>>
             ELSE /\ reply[r] = None
                  /\ reply' = [reply EXCEPT ![r] = m]
                  /\ active' = [active EXCEPT ![k][id] = None]
    /\ channel' = [channel EXCEPT ![k] = Tail(@)]
    /\ UNCHANGED <<brokerVars, loopVars, task, orphan, recorded, handled,
                   adverse, request>>

(* Somebody else sends a message to the stream.                            *)
StreamSend(m) ==
    /\ Source[m] = "stream" /\ Cardinality(Begun) < MaxSent
    /\ Queue(m)
    /\ UNCHANGED <<conn, loopVars, taskVars, adverse, controllerVars>>

Handler(r) == Reject(r) \/ Register(r) \/ Publish(r) \/ Answer(r) \/ Timeout(r)

Next ==
    \/ ReceiverNext /\ UNCHANGED controllerVars
    \/ \E r \in Requests : Handler(r)
    \/ \E k \in Kinds : Listen(k)
    \/ \E m \in Messages : StreamSend(m)

Spec == Init /\ [][Next]_vars

(* The goroutines run, and Receive returns when there is something to      *)
(* return, a message nobody committed included.  Clients and failures come *)
(* as they please.                                                         *)
Beside(A) == A /\ UNCHANGED controllerVars

FairSpec ==
    /\ Spec
    /\ WF_vars(Beside(Reconnect))
    /\ \A s \in Sources : WF_vars(Beside(Select(s)))
    /\ \A s \in Sources : WF_vars(Beside(ReceiveStep(s)))
    /\ \A s \in Sources : WF_vars(Beside(ReceiveCanceled(s)))
    /\ \A m \in Messages : WF_vars(Beside(TaskStep(m)))
    /\ \A k \in Kinds : WF_vars(Listen(k))

(***************************************************************************)
(* Properties.                                                             *)
(***************************************************************************)

(* The listener never blocks while it holds the lock: a registered channel *)
(* is empty, whatever times out, is overwritten or answered late           *)
(* (api_files.go:104-108, 130-134, 234).                                   *)
ListenerNeverBlocks ==
    \A k \in Kinds, id \in FileIDs :
       active[k][id] # None => reply[active[k][id]] = None

(* A client that gets an answer before the timeout is told of something    *)
(* that happened: a message of its kind about its file, as far as ".ach"   *)
(* tells files apart, was processed without an error, and a file it queued *)
(* is in the files table (api_files.go:101-108, file_receiver.go:493).     *)
AnswerIsTrue ==
    \A r \in Requests : request[r] = "answered" =>
       LET m == reply[r]
       IN  /\ m \in handled
           /\ Kind[m] = Kind[r]
           /\ Trim[FileOf[m]] = Trim[FileOf[r]]
           /\ Kind[r] = "queue" => FileOf[m] \in recorded

(* Every message published is committed in the end, although iterations    *)
(* drop messages, connections break and the response channel is full,      *)
(* until the receiver stops or its subscription is shut down for good      *)
(* (file_receiver.go:120-165, 234-254, 493).                               *)
EventuallyCommitted ==
    \A m \in Messages :
       broker[m] = "queued" ~> \/ broker[m] = "committed"
                               \/ conn[Source[m]] = "shut"

(* The stream is read again and again: whatever breaks the connection,     *)
(* makes Start shut a healthy one or keeps the goroutines busy, there is a *)
(* next time that a goroutine is inside Receive on an open subscription.   *)
(* This is so until the subscription has been shut, by Shutdown or by a    *)
(* reconnect that fails: nobody tries again after that (file_receiver.go:  *)
(* 112-116, 136-150, 214).                                                 *)
StreamStaysRead ==
    []<>(\/ conn["stream"] = "open" /\ inner["stream"]
         \/ conn["stream"] = "shut")
=============================================================================
