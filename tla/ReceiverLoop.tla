---------------------------- MODULE ReceiverLoop ----------------------------
(***************************************************************************)
(* How FileReceiver (internal/pipeline/file_receiver.go) reads messages.   *)
(*                                                                         *)
(* Start runs in iterations.  Each one calls handleMessage for the HTTP    *)
(* and for the stream subscription, which starts two goroutines: one sits  *)
(* in Receive and hands what it gets to the other over an unbuffered       *)
(* channel, the other processes it.  The first result of the two ends the  *)
(* iteration: its context is cancelled and the next one starts, whatever   *)
(* the other subscription's goroutines are doing.  They may be inside      *)
(* Receive, hold a message nobody will take from them, or be processing    *)
(* one, which they finish beside the goroutines of later iterations.       *)
(*                                                                         *)
(* What processing does to the disk and the database is FilePipeline's     *)
(* subject.  Here it is reduced to the files table's verdict, the response *)
(* and the commit.  A message is processed by one goroutine at a time:     *)
(* the broker delivers it again only when the last holder let go of it.    *)
(***************************************************************************)
EXTENDS Integers, Sequences

CONSTANTS
    Messages,     \* the messages that may be sent to the subscriptions
    Source,       \* Source[m]: the subscription of m, "http" or "stream"
    Kind,         \* Kind[m]: a file to queue, or a cancellation
    FileIDs,      \* the IDs the messages carry
    FileOf,       \* FileOf[m]: the ID in m
    Capacity,     \* of each response channel, 1000 in the code
    AutoCommit,   \* Inbound.Kafka.AutoCommit
    Adverse,      \* the kinds of failure that can happen
    MaxAdverse,   \* bound: how many of them
    None

Sources == {"http", "stream"}
Kinds == {"queue", "cancel"}
Failures == {"receive", "network", "reconnect", "process", "shutdown",
             "body", "publish"}

ASSUME LoopAssumption ==
    /\ Source \in [Messages -> Sources]
    /\ Kind \in [Messages -> Kinds]
    /\ FileOf \in [Messages -> FileIDs]
    /\ Capacity \in Nat \ {0}
    /\ AutoCommit \in BOOLEAN
    /\ Adverse \subseteq Failures
    /\ MaxAdverse \in Nat
    /\ None \notin Messages

VARIABLES
    broker,     \* broker[m]: is m unsent, queued or committed?
    conn,       \* conn[s]: the state of the subscription
    loop,       \* where Start is
    inner,      \* inner[s]: is this iteration's goroutine inside Receive?
    mine,       \* mine[s]: the message this iteration's goroutines have
    result,     \* result[s]: what they wrote to the channel Start reads
    stale,      \* subscriptions with a goroutine of an ended iteration in Receive
    task,       \* task[m]: what the goroutine that has m does next
    orphan,     \* messages in hand whose subscription has been shut down
    recorded,   \* the files table
    handled,    \* messages processed without an error
    channel,    \* channel[k]: the responses of kind k nobody has taken
    adverse     \* the failures so far

loopVars == <<loop, inner, mine, result, stale>>
brokerVars == <<broker, conn>>
taskVars == <<task, orphan, recorded, handled, channel>>
receiverVars == <<brokerVars, loopVars, taskVars, adverse>>

LoopTypeOK ==
    /\ broker \in [Messages -> {"unsent", "queued", "committed"}]
    /\ conn \in [Sources -> {"open", "broken", "shut"}]
    /\ loop \in {"select", "reconnect", "stopped"}
    /\ inner \in [Sources -> BOOLEAN]
    /\ mine \in [Sources -> Messages \cup {None}]
    /\ result \in [Sources -> {"none", "read", "network"}]
    /\ stale \subseteq Sources
    /\ task \in [Messages -> {"none", "held", "process", "respond", "ack"}]
    /\ orphan \subseteq Messages
    /\ recorded \subseteq FileIDs
    /\ handled \subseteq Messages
    /\ channel \in [Kinds -> Seq(Messages)]
    /\ \A k \in Kinds : Len(channel[k]) <= Capacity
    /\ adverse \in 0..MaxAdverse

LoopInit ==
    /\ broker = [m \in Messages |-> "unsent"]
    /\ conn = [s \in Sources |-> "open"]
    /\ loop = "select"
    /\ inner = [s \in Sources |-> TRUE]
    /\ mine = [s \in Sources |-> None]
    /\ result = [s \in Sources |-> "none"]
    /\ stale = {}
    /\ task = [m \in Messages |-> "none"]
    /\ orphan = {}
    /\ recorded = {}
    /\ handled = {}
    /\ channel = [k \in Kinds |-> <<>>]
    /\ adverse = 0

(* A failure of kind e happens, within the bound.                          *)
Fails(e) ==
    /\ e \in Adverse
    /\ adverse < MaxAdverse
    /\ adverse' = adverse + 1

(***************************************************************************)
(* The broker.                                                             *)
(***************************************************************************)

(* A message is published.                                                 *)
Queue(m) ==
    /\ broker[m] = "unsent"
    /\ broker' = [broker EXCEPT ![m] = "queued"]

(* The connection to the stream breaks: every Receive reports it.          *)
Breaks ==
    /\ conn["stream"] = "open"
    /\ Fails("network")
    /\ conn' = [conn EXCEPT !["stream"] = "broken"]
    /\ UNCHANGED <<broker, loopVars, taskVars>>

(* msg.Ack reaches the broker unless the subscription it came on is gone.  *)
Ack(m) ==
    broker' = IF m \notin orphan /\ conn[Source[m]] = "open"
                THEN [broker EXCEPT ![m] = "committed"]
                ELSE broker

(***************************************************************************)
(* Start.                                                                  *)
(***************************************************************************)

(* The context of the iteration is cancelled.  Of its goroutines, those    *)
(* inside Receive may come back with a message all the same.               *)
cancelFunc ==
    /\ stale' = stale \cup {s \in Sources : inner[s]}
    /\ mine' = [s \in Sources |-> None]
    /\ result' = [s \in Sources |-> "none"]

(* The iteration ends and the next one calls handleMessage for both        *)
(* subscriptions.                                                          *)
Iterate ==
    /\ cancelFunc
    /\ inner' = [s \in Sources |-> TRUE]
    /\ loop' = "select"

(* Mutant: no error makes Start reconnect.                                 *)
SelectWithoutReconnect(s) ==
    /\ loop = "select"
    /\ result[s] # "none"
    /\ Iterate
    /\ UNCHANGED <<brokerVars, taskVars, adverse>>

(* Start reads a result.  For an error of the stream that isNetworkError   *)
(* takes for one of the network it reconnects first.                       *)
Select(s) ==
    /\ loop = "select"
    /\ result[s] # "none"
    /\ IF s = "stream" /\ result[s] = "network"
         THEN loop' = "reconnect" /\ UNCHANGED <<inner, mine, result, stale>>
         ELSE Iterate
    /\ UNCHANGED <<brokerVars, taskVars, adverse>>

InHand(s) == {m \in Messages : Source[m] = s /\ task[m] # "none"}

(* reconnect shuts the old subscription down first.  When it cannot open   *)
(* another, fr.streamFiles stays the one that is shut down.                *)
Reconnect ==
    /\ loop = "reconnect"
    /\ orphan' = orphan \cup InHand("stream")
    /\ \/ /\ conn' = [conn EXCEPT !["stream"] = "open"]
          /\ UNCHANGED adverse
       \/ /\ Fails("reconnect")
          /\ conn' = [conn EXCEPT !["stream"] = "shut"]
    /\ Iterate
    /\ UNCHANGED <<broker, task, recorded, handled, channel>>

(* The context of Start ends: both subscriptions are shut down.            *)
Shutdown ==
    /\ loop = "select"
    /\ Fails("shutdown")
    /\ cancelFunc
    /\ inner' = [s \in Sources |-> FALSE]
    /\ loop' = "stopped"
    /\ conn' = [s \in Sources |-> "shut"]
    /\ orphan' = orphan \cup InHand("http") \cup InHand("stream")
    /\ UNCHANGED <<broker, task, recorded, handled, channel>>

(***************************************************************************)
(* handleMessage: the goroutine inside Receive.                            *)
(***************************************************************************)

(* The broker delivers a message nobody has and nobody committed, for the  *)
(* first time or again.                                                    *)
Delivery(s, m) ==
    /\ conn[s] = "open"
    /\ Source[m] = s
    /\ broker[m] = "queued"
    /\ task[m] = "none"
    /\ task' = [task EXCEPT ![m] = "held"]
    /\ UNCHANGED <<brokerVars, orphan, recorded, handled, channel, adverse>>

ReceiveMessage(s, m) ==
    /\ inner[s]
    /\ Delivery(s, m)
    /\ inner' = [inner EXCEPT ![s] = FALSE]
    /\ mine' = [mine EXCEPT ![s] = m]
    /\ UNCHANGED <<loop, result, stale>>

(* Mutant: only a network error is passed on.                              *)
ReceiveErrorForgotten(s) ==
    /\ inner[s]
    /\ \/ conn[s] = "broken" /\ result' = [result EXCEPT ![s] = "network"]
                             /\ UNCHANGED adverse
       \/ Fails("receive") /\ UNCHANGED result
       \/ conn[s] = "shut" /\ UNCHANGED <<result, adverse>>
    /\ inner' = [inner EXCEPT ![s] = FALSE]
    /\ UNCHANGED <<brokerVars, loop, mine, stale, taskVars>>

(* A network error goes to Start, any other gives a nil message, and a     *)
(* subscription that has been shut down ends the goroutine without a word. *)
ReceiveError(s) ==
    /\ inner[s]
    /\ \/ conn[s] = "broken" /\ result' = [result EXCEPT ![s] = "network"]
                             /\ UNCHANGED adverse
       \/ Fails("receive") /\ result' = [result EXCEPT ![s] = "read"]
       \/ conn[s] = "shut" /\ UNCHANGED <<result, adverse>>
    /\ inner' = [inner EXCEPT ![s] = FALSE]
    /\ UNCHANGED <<brokerVars, loop, mine, stale, taskVars>>

(* In a cancelled context Receive may win the race and return a message.   *)
ReceiveLate(s, m) ==
    /\ s \in stale
    /\ Delivery(s, m)
    /\ stale' = stale \ {s}
    /\ UNCHANGED <<loop, inner, mine, result>>

ReceiveCanceled(s) ==
    /\ s \in stale
    /\ stale' = stale \ {s}
    /\ UNCHANGED <<brokerVars, loop, inner, mine, result, taskVars, adverse>>

(***************************************************************************)
(* handleMessage: the goroutine that processes.                            *)
(***************************************************************************)

(* The goroutine of m is done: Start sees its result unless the iteration  *)
(* has ended.                                                              *)
Done(m, outcome) ==
    LET s == Source[m]
    IN  /\ task' = [task EXCEPT ![m] = "none"]
        /\ orphan' = orphan \ {m}
        /\ result' = IF mine[s] = m THEN [result EXCEPT ![s] = outcome] ELSE result
        /\ mine' = IF mine[s] = m THEN [mine EXCEPT ![s] = None] ELSE mine
        /\ UNCHANGED <<conn, loop, inner, stale, recorded, channel>>

(* The context has ended and the select chose it: nobody takes the message *)
(* from the inner goroutine, which stays blocked for good.                 *)
Drop(m) ==
    /\ task[m] = "held"
    /\ mine[Source[m]] # m
    /\ Done(m, "read")
    /\ UNCHANGED <<broker, handled, adverse>>

(* Mutant: the message is committed when it is taken.                      *)
AckOnReceipt(m) ==
    /\ task[m] = "held"
    /\ task' = [task EXCEPT ![m] = "process"]
    /\ Ack(m)
    /\ UNCHANGED <<conn, loopVars, orphan, recorded, handled, channel,
                   adverse>>

(* The select chose the message, in a cancelled context too.               *)
TakeMessage(m) ==
    /\ task[m] = "held"
    /\ task' = [task EXCEPT ![m] = "process"]
    /\ IF AutoCommit THEN Ack(m) ELSE UNCHANGED broker
    /\ UNCHANGED <<conn, loopVars, orphan, recorded, handled, channel,
                   adverse>>

(* Mutant: a file that could not be accepted gets a response too, and its  *)
(* message stays uncommitted.                                              *)
ProcessAndRespond(m) ==
    /\ task[m] = "process"
    /\ \/ /\ recorded' = recorded \cup {FileOf[m]}
          /\ handled' = handled \cup {m}
          /\ task' = [task EXCEPT ![m] = "respond"]
          /\ UNCHANGED <<loopVars, orphan, channel, adverse>>
       \/ /\ Fails("process")
          /\ Len(channel[Kind[m]]) < Capacity
          /\ channel' = [channel EXCEPT ![Kind[m]] = Append(@, m)]
          /\ task' = [task EXCEPT ![m] = "none"]
          /\ UNCHANGED <<loopVars, orphan, recorded, handled>>
    /\ UNCHANGED brokerVars

(* processACHFile and cancelACHFile up to the response.  A file ID that is *)
(* in the files table has been dealt with: no response.  An error: none    *)
(* either, and no commit.  isNetworkError goes by the error's text, which  *)
(* may be that of a database, disk or producer error ("EOF", "write:").    *)
Process(m) ==
    /\ task[m] = "process"
    /\ \/ /\ Kind[m] = "queue" => FileOf[m] \notin recorded
          /\ recorded' = IF Kind[m] = "queue" THEN recorded \cup {FileOf[m]}
                                             ELSE recorded
          /\ handled' = handled \cup {m}
          /\ task' = [task EXCEPT ![m] = "respond"]
          /\ UNCHANGED <<loopVars, orphan, channel, adverse>>
       \/ /\ Kind[m] = "queue" /\ FileOf[m] \in recorded
          /\ handled' = handled \cup {m}
          /\ task' = [task EXCEPT ![m] = "ack"]
          /\ UNCHANGED <<loopVars, orphan, recorded, channel, adverse>>
       \/ /\ Fails("process")
          /\ \E outcome \in {"read", "network"} : Done(m, outcome)
          /\ UNCHANGED handled
    /\ UNCHANGED brokerVars

(* The send waits while the channel is full.                               *)
Respond(m) ==
    /\ task[m] = "respond"
    /\ Len(channel[Kind[m]]) < Capacity
    /\ channel' = [channel EXCEPT ![Kind[m]] = Append(@, m)]
    /\ task' = [task EXCEPT ![m] = "ack"]
    /\ UNCHANGED <<brokerVars, loopVars, orphan, recorded, handled, adverse>>

Commit(m) ==
    /\ task[m] = "ack"
    /\ IF AutoCommit THEN UNCHANGED broker ELSE Ack(m)
    /\ Done(m, "read")
    /\ UNCHANGED <<handled, adverse>>

TaskStep(m) ==
    Drop(m) \/ TakeMessage(m) \/ Process(m) \/ Respond(m) \/ Commit(m)

ReceiveStep(s) ==
    \/ \E m \in Messages : ReceiveMessage(s, m)
    \/ ReceiveError(s)

ReceiverNext ==
    \/ \E m \in Messages : TaskStep(m)
    \/ Breaks \/ Reconnect \/ Shutdown
    \/ \E s \in Sources : Select(s) \/ ReceiveStep(s) \/ ReceiveCanceled(s)
    \/ \E s \in Sources, m \in Messages : ReceiveLate(s, m)

(* The message survives everything the loop does to the goroutines that    *)
(* hold it: nothing is committed that was not processed, so a dropped      *)
(* message is still the broker's (file_receiver.go:234-254, 345).          *)
CommittedIsHandled ==
    AutoCommit \/ \A m \in Messages : broker[m] = "committed" => m \in handled
=============================================================================
