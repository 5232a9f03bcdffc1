--------------------------- MODULE MessageRouting ---------------------------
(***************************************************************************)
(* From a submitted file to the shard that queues it: the shard mappings   *)
(* (internal/shards), the protection of a message on its way through the   *)
(* in-memory topic (pkg/compliance) and the receiver's choice of an        *)
(* aggregator (getAggregator in internal/pipeline/file_receiver.go).       *)
(*                                                                         *)
(* FilesController protects what it publishes with Inbound.HTTP.Transform  *)
(* and the receiver reveals it with Inbound.Kafka.Transform.  A file and   *)
(* its cancellation find their shard by the same key, each with a lookup   *)
(* of its own, in whatever order they come, while clients create mappings. *)
(* A message is followed until it is committed; redelivery of what was     *)
(* committed is FilePipeline's subject.                                    *)
(***************************************************************************)
EXTENDS Integers, SequencesExt

CONSTANTS
    Files,        \* file IDs
    KeyOf,        \* KeyOf[f]: the shard key f is submitted and canceled under
    Creates,      \* the requests to create a mapping
    Mapping,      \* Mapping[c]: the shard key and shard name in c
    Configs,      \* the configurations to start from
    Default,      \* Sharding.Default
    Adverse,      \* the kinds of failure that can happen
    MaxAdverse,   \* bound: how many of them
    None

Keys == {KeyOf[f] : f \in Files} \cup {Mapping[c].key : c \in Creates}
Encodings == {"none", "gzip", "base64", "unknown"}
Failures == {"lookup", "add", "commit", "emit", "restart"}

(* A transform that is nil, or has neither part, is none of both.  An      *)
(* encoding with Compress set is gzip, whatever Base64 says.  One that     *)
(* names no method is unknown.  An encryption is named by its key.         *)
ASSUME RoutingAssumption ==
    /\ \A c \in Configs :
          /\ c.repo \in {"memory", "sql", "spanner"}
          /\ {c.http.encoding, c.kafka.encoding} \subseteq Encodings
          /\ {"gzip", "base64", "json", "unreadable"}
                \cap {c.http.encryption, c.kafka.encryption} = {}
          /\ c.autoCommit \in BOOLEAN
          /\ None \notin c.shards
    /\ Adverse \subseteq Failures
    /\ MaxAdverse \in Nat
    /\ None # "" /\ None \notin {Mapping[c].name : c \in Creates}

(* Two messages per file.                                                  *)
Messages == {"queue", "cancel"} \X Files
Kind(m) == m[1]
FileID(m) == m[2]
ShardKey(m) == KeyOf[FileID(m)]

VARIABLES
    cfg,        \* the configuration
    mappings,   \* the rows of shard_mappings, or InMemoryRepository.Shards
    creating,   \* creating[c]: how far the request c is
    seen,       \* seen[c]: the slice c appends to
    message,    \* message[m]: where m is
    wire,       \* wire[m]: the layers around its JSON, the outermost last
    saw,        \* saw[m]: what the last lookup for m came upon
    target,     \* target[m]: the shard found for m
    routed,     \* routed[m]: the shard that queued or canceled
    announced,  \* files for which InvalidQueueFile was emitted
    silenced,   \* files for which emitting it failed
    restarted,  \* has the process been restarted?
    adverse     \* the failures so far

mappingVars == <<mappings, creating, seen>>
messageVars == <<message, wire, saw, target, routed>>
eventVars == <<announced, silenced>>
vars == <<cfg, mappingVars, messageVars, eventVars, restarted, adverse>>

TypeOK ==
    /\ cfg \in Configs
    /\ mappings \in Seq({Mapping[c] : c \in Creates})
    /\ cfg.repo # "memory" =>
          \A i, j \in DOMAIN mappings : mappings[i].key = mappings[j].key => i = j
    /\ creating \in [Creates -> {"none", "adding", "created", "refused"}]
    /\ seen \in [Creates -> Seq({Mapping[c] : c \in Creates})]
    /\ message \in [Messages -> {"unsent", "error", "queued", "unread", "found",
                                 "committed", "dropped", "lost"}]
    /\ DOMAIN wire = Messages
    /\ saw \in [Messages -> {"nothing", "row", "no row", "error"}]
    /\ target \in [Messages -> cfg.shards \cup {None}]
    /\ routed \in [Messages -> cfg.shards \cup {None}]
    /\ announced \subseteq Files /\ silenced \subseteq Files
    /\ adverse \in 0..MaxAdverse

(* The rows of a database outlive the process, but here it starts empty.   *)
(* The in-memory repository is always created without Sharding.Mappings.   *)
Init ==
    /\ cfg \in Configs
    /\ mappings = <<>>
    /\ creating = [c \in Creates |-> "none"]
    /\ seen = [c \in Creates |-> <<>>]
    /\ message = [m \in Messages |-> "unsent"]
    /\ wire = [m \in Messages |-> <<>>]
    /\ saw = [m \in Messages |-> "nothing"]
    /\ target = [m \in Messages |-> None]
    /\ routed = [m \in Messages |-> None]
    /\ announced = {} /\ silenced = {}
    /\ restarted = FALSE
    /\ adverse = 0

(* A failure of kind e happens, within the bound.                          *)
Fails(e) ==
    /\ e \in Adverse
    /\ adverse < MaxAdverse
    /\ adverse' = adverse + 1

(***************************************************************************)
(* Shard mappings.                                                         *)
(***************************************************************************)

HasMapping(rows, key) == \E i \in DOMAIN rows : rows[i].key = key

(* The first row of the key counts.                                        *)
ShardName(rows, key) ==
    LET first == CHOOSE i \in DOMAIN rows :
                    /\ rows[i].key = key
                    /\ \A j \in 1..(i - 1) : rows[j].key # key
    IN  rows[first].name

(* A mapping without a key or a name is refused.  In memory, append reads  *)
(* the slice.                                                              *)
Create(c) ==
    /\ creating[c] = "none"
    /\ IF "" \in {Mapping[c].key, Mapping[c].name}
         THEN creating' = [creating EXCEPT ![c] = "refused"] /\ UNCHANGED seen
         ELSE /\ creating' = [creating EXCEPT ![c] = "adding"]
              /\ seen' = IF cfg.repo = "memory" THEN [seen EXCEPT ![c] = mappings]
                                                ELSE seen
    /\ UNCHANGED <<cfg, mappings, messageVars, eventVars, restarted, adverse>>

(* Mutant: the key of the table is not unique, and the newest row wins.    *)
AddReplaces(c) ==
    /\ creating[c] = "adding"
    /\ mappings' = <<Mapping[c]>> \o mappings
    /\ creating' = [creating EXCEPT ![c] = "created"]
    /\ UNCHANGED <<cfg, seen, messageVars, eventVars, restarted, adverse>>

(* Mutant: a row that is there already is reported as created.             *)
AddIgnoresDuplicate(c) ==
    /\ creating[c] = "adding"
    /\ mappings' = IF HasMapping(mappings, Mapping[c].key)
                     THEN mappings ELSE Append(mappings, Mapping[c])
    /\ creating' = [creating EXCEPT ![c] = "created"]
    /\ UNCHANGED <<cfg, seen, messageVars, eventVars, restarted, adverse>>

(* The slice is stored without a lock: what was stored since it was read   *)
(* is lost.                                                                *)
AppendInMemory(c) ==
    /\ mappings' = Append(seen[c], Mapping[c])
    /\ creating' = [creating EXCEPT ![c] = "created"]
    /\ UNCHANGED adverse

(* The key is unique.  A commit that reports an error may have happened.   *)
InsertRow(c) ==
    \/ /\ ~HasMapping(mappings, Mapping[c].key)
       /\ mappings' = Append(mappings, Mapping[c])
       /\ \/ creating' = [creating EXCEPT ![c] = "created"] /\ UNCHANGED adverse
          \/ creating' = [creating EXCEPT ![c] = "refused"] /\ Fails("commit")
    \/ /\ \/ HasMapping(mappings, Mapping[c].key) /\ UNCHANGED adverse
          \/ Fails("add")
       /\ creating' = [creating EXCEPT ![c] = "refused"]
       /\ UNCHANGED mappings

Add(c) ==
    /\ creating[c] = "adding"
    /\ IF cfg.repo = "memory" THEN AppendInMemory(c) ELSE InsertRow(c)
    /\ UNCHANGED <<cfg, seen, messageVars, eventVars, restarted>>

(***************************************************************************)
(* Protect and Reveal.                                                     *)
(***************************************************************************)

Layer(method) == IF method = "none" THEN <<>> ELSE <<method>>

(* Encrypted first, then encoded.                                          *)
Protect(t) == Layer(t.encryption) \o Layer(t.encoding)

Outermost(layers) == IF layers = <<>> THEN "json" ELSE Last(layers)

(* Stands for data that cannot be decoded.                                 *)
Unreadable == <<"unreadable">>

(* gzip's Decode returns what has no gzip header as it is; base64's fails. *)
Decode(encoding, layers) ==
    IF encoding # "none" /\ encoding = Outermost(layers)
      THEN Front(layers)
      ELSE IF encoding \in {"none", "gzip"} THEN layers ELSE Unreadable

(* GCM authenticates: another key, or data that is not encrypted, fails.   *)
Decrypt(key, layers) ==
    IF key # "none" /\ key = Outermost(layers)
      THEN Front(layers)
      ELSE IF key = "none" THEN layers ELSE Unreadable

(* Mutant: the layers are taken off in the order they were put on.         *)
RevealInOrder(t, layers) ==
    IF "unknown" \in {t.encoding, t.encryption}
      THEN Unreadable
      ELSE Decode(t.encoding, Decrypt(t.encryption, layers))

Reveal(t, layers) ==
    IF "unknown" \in {t.encoding, t.encryption}
      THEN Unreadable
      ELSE Decrypt(t.encryption, Decode(t.encoding, layers))

(***************************************************************************)
(* Publishing and receiving.                                               *)
(***************************************************************************)

(* publishFile and cancelFile, in either order: nobody looks for the file  *)
(* before it is canceled.                                                  *)
Publish(m) ==
    /\ message[m] = "unsent"
    /\ IF "unknown" \in {cfg.http.encoding, cfg.http.encryption}
         THEN message' = [message EXCEPT ![m] = "error"] /\ UNCHANGED wire
         ELSE /\ message' = [message EXCEPT ![m] = "queued"]
              /\ wire' = [wire EXCEPT ![m] = Protect(cfg.http)]
    /\ UNCHANGED <<cfg, mappingVars, saw, target, routed, eventVars, restarted,
                   adverse>>

(* What is not JSON after Reveal is an error each time it comes.           *)
ReadFails(m) ==
    /\ message[m] = "queued"
    /\ Reveal(cfg.kafka, wire[m]) # <<>>
    /\ message' = [message EXCEPT ![m] = "unread"]
    /\ UNCHANGED <<cfg, mappingVars, wire, saw, target, routed, eventVars,
                   restarted, adverse>>

(* The aggregator named so, or else the default shard's, or none.          *)
Aggregator(name) ==
    CASE name \in cfg.shards -> name
      [] name \notin cfg.shards /\ Default \in cfg.shards -> Default
      [] OTHER -> None

(* Spanner's NotFound is an error like any other, which None stands for.   *)
SpannerLookup(key) ==
    IF HasMapping(mappings, key) THEN ShardName(mappings, key) ELSE None

(* The other repositories know that there is no row: sql gives "", and in  *)
(* memory it is sql.ErrNoRows, which getAggregator looks for.              *)
Lookup(key) ==
    CASE cfg.repo = "spanner" -> SpannerLookup(key)
      [] cfg.repo # "spanner" /\ HasMapping(mappings, key) -> ShardName(mappings, key)
      [] OTHER -> ""

(* Mutant: an error is an error, sql.ErrNoRows among them.                 *)
getAggregatorOfMapped(key) ==
    LET name == Lookup(key)
    IN  CASE name = None -> None
          [] name = "" /\ cfg.repo = "memory" -> None
          [] name = "" /\ cfg.repo # "memory" -> Aggregator(key)
          [] OTHER -> Aggregator(name)

(* The key of no mapping is taken for a shard's name.                      *)
getAggregator(key) ==
    LET name == Lookup(key)
    IN  CASE name = None -> None
          [] name = "" -> Aggregator(key)
          [] OTHER -> Aggregator(name)

(* The lookup for m ends with a row, with none, or with an error.          *)
Found(m) ==
    /\ saw' = [saw EXCEPT ![m] = IF HasMapping(mappings, ShardKey(m))
                                  THEN "row" ELSE "no row"]
    /\ target' = [target EXCEPT ![m] = getAggregator(ShardKey(m))]
    /\ UNCHANGED adverse

(* Mutant: when the lookup fails the default shard is taken.               *)
LookUpOrDefault(m) ==
    /\ message[m] = "queued"
    /\ Reveal(cfg.kafka, wire[m]) = <<>>
    /\ \/ Found(m)
       \/ /\ Fails("lookup")
          /\ saw' = [saw EXCEPT ![m] = "error"]
          /\ target' = [target EXCEPT ![m] = Aggregator(Default)]
    /\ message' = [message EXCEPT ![m] = "found"]
    /\ UNCHANGED <<cfg, mappingVars, wire, routed, eventVars, restarted>>

(* A file's and a cancellation's lookup.  When it fails there is no shard. *)
LookUp(m) ==
    /\ message[m] = "queued"
    /\ Reveal(cfg.kafka, wire[m]) = <<>>
    /\ \/ Found(m)
       \/ /\ Fails("lookup")
          /\ saw' = [saw EXCEPT ![m] = "error"]
          /\ target' = [target EXCEPT ![m] = None]
    /\ message' = [message EXCEPT ![m] = "found"]
    /\ UNCHANGED <<cfg, mappingVars, wire, routed, eventVars, restarted>>

(* The shard queues the file or marks it canceled, and the message is      *)
(* committed.                                                              *)
Deliver(m) ==
    /\ message[m] = "found" /\ target[m] # None
    /\ routed' = [routed EXCEPT ![m] = target[m]]
    /\ message' = [message EXCEPT ![m] = "committed"]
    /\ UNCHANGED <<cfg, mappingVars, wire, saw, target, eventVars, restarted,
                   adverse>>

(* The emitter is told of an invalid file.                                 *)
Emit(f) ==
    \/ announced' = announced \cup {f} /\ UNCHANGED <<silenced, adverse>>
    \/ silenced' = silenced \cup {f} /\ Fails("emit") /\ UNCHANGED announced

(* A message that was not committed comes again.  With AutoCommit it was   *)
(* acknowledged before it was looked at: it is gone, or comes again if the *)
(* acknowledgement is late.                                                *)
AfterError == IF cfg.autoCommit THEN {"dropped", "queued"} ELSE {"queued"}

(* Mutant: the refused file is not announced.                              *)
RefuseQuietly(m) ==
    /\ message[m] = "found" /\ target[m] = None
    /\ \E state \in IF Kind(m) = "cancel" THEN {"committed"} ELSE AfterError :
          message' = [message EXCEPT ![m] = state]
    /\ UNCHANGED <<cfg, mappingVars, wire, saw, target, routed, eventVars,
                   restarted, adverse>>

(* Without an aggregator a file is announced as InvalidQueueFile, and the  *)
(* message is an error.  A cancellation is committed and forgotten.        *)
Refuse(m) ==
    /\ message[m] = "found" /\ target[m] = None
    /\ \/ /\ Kind(m) = "cancel"
          /\ message' = [message EXCEPT ![m] = "committed"]
          /\ UNCHANGED <<eventVars, adverse>>
       \/ /\ Kind(m) = "queue"
          /\ \E state \in AfterError : message' = [message EXCEPT ![m] = state]
          /\ Emit(FileID(m))
    /\ UNCHANGED <<cfg, mappingVars, wire, saw, target, routed, restarted>>

(* The in-memory topic and repository are gone, the databases are not.     *)
Restart ==
    /\ Fails("restart")
    /\ restarted' = TRUE
    /\ mappings' = IF cfg.repo = "memory" THEN <<>> ELSE mappings
    /\ creating' = [c \in Creates |->
                      IF creating[c] = "adding" THEN "refused" ELSE creating[c]]
    /\ message' = [m \in Messages |->
                     IF message[m] \in {"queued", "unread", "found"}
                       THEN "lost" ELSE message[m]]
    /\ UNCHANGED <<cfg, seen, wire, saw, target, routed, eventVars>>

Receive(m) == ReadFails(m) \/ LookUp(m) \/ Deliver(m) \/ Refuse(m)

Next ==
    \/ \E c \in Creates : Create(c) \/ Add(c)
    \/ \E m \in Messages : Publish(m) \/ Receive(m)
    \/ Restart

Spec == Init /\ [][Next]_vars

(* The receiver gets what was not acknowledged, and processes it.          *)
FairSpec == Spec /\ \A m \in Messages : WF_vars(Receive(m))

(***************************************************************************)
(* Properties.                                                             *)
(***************************************************************************)

(* What two configurations must have in common for one to reveal what the  *)
(* other protects.                                                         *)
Compatible(sender, receiver) ==
    /\ "unknown" \notin {receiver.encoding, receiver.encryption}
    /\ sender.encryption = receiver.encryption
    /\ \/ sender.encoding = receiver.encoding
       \/ sender.encoding = "none" /\ receiver.encoding = "gzip"

(* The receiver gets the event that was published, and not an error, just  *)
(* when the two transforms of the configuration fit together: the same     *)
(* encryption, and the same encoding or gzip on the receiver's side only   *)
(* (compliance.go:34-87, api_files.go:239, file_receiver.go:292).          *)
ReadIffCompatible ==
    \A m \in Messages :
       /\ message[m] = "unread" => ~Compatible(cfg.http, cfg.kafka)
       /\ message[m] \in {"found", "committed"} => Compatible(cfg.http, cfg.kafka)

(* With a database, a file and its cancellation are taken to the same      *)
(* shard, although each looks its key up at its own time and either may    *)
(* come first.  They part in two cases only: the key was mapped between    *)
(* the two lookups, or the cancellation's lookup failed, and then no shard *)
(* gets it (file_receiver.go:405-440, 452-463, 501-521).                   *)
CancelFollowsFile ==
    \A f \in Files :
       LET file == <<"queue", f>>
           cancel == <<"cancel", f>>
       IN  /\ cfg.repo # "memory"
           /\ message[file] = "committed" /\ message[cancel] = "committed"
           => \/ routed[cancel] = routed[file]
              \/ {saw[file], saw[cancel]} = {"row", "no row"}
              \/ saw[cancel] = "error" /\ routed[cancel] = None

(* A mapping answered with 201 is the one its key is looked up with.  In   *)
(* memory another request, or a restart, can undo that                     *)
(* (repository.go:89, inmemory_repository.go:52).                          *)
CreatedIsFound ==
    \A c \in Creates : creating[c] = "created" =>
       \/ /\ HasMapping(mappings, Mapping[c].key)
          /\ ShardName(mappings, Mapping[c].key) = Mapping[c].name
       \/ /\ cfg.repo = "memory"
          /\ restarted \/ \E d \in Creates \ {c} : creating[d] # "none"

(* The inductive invariant behind the theorems of RoutingProofs.           *)
(*                                                                         *)
(* What was published is what Protect made, and a message that was read,   *)
(* or could not be, still says so.                                         *)
WireInv ==
    \A m \in Messages :
       message[m] \notin {"unsent", "error"} =>
          /\ wire[m] = Protect(cfg.http)
          /\ "unknown" \notin {cfg.http.encoding, cfg.http.encryption}
          /\ message[m] = "unread" => Reveal(cfg.kafka, wire[m]) # <<>>
          /\ message[m] \in {"found", "committed"} =>
                Reveal(cfg.kafka, wire[m]) = <<>>

(* Where a key goes that has no mapping.                                   *)
UnmappedShard(key) == IF cfg.repo = "spanner" THEN None ELSE Aggregator(key)

(* What was found for a message is the answer its lookup gave, and with a  *)
(* database the answer for a key that has a row stays the answer.          *)
TargetInv ==
    cfg.repo # "memory" =>
       \A m \in Messages :
          /\ saw[m] = "row" => /\ HasMapping(mappings, ShardKey(m))
                               /\ target[m] = getAggregator(ShardKey(m))
          /\ saw[m] = "no row" => target[m] = UnmappedShard(ShardKey(m))
          /\ saw[m] = "error" => target[m] = None

(* A committed message went where it was found to belong, and a file that  *)
(* belongs nowhere is not committed.                                       *)
RoutedInv ==
    \A m \in Messages :
       /\ message[m] \in {"found", "committed"} => saw[m] # "nothing"
       /\ message[m] = "committed" => routed[m] = target[m]
       /\ message[m] # "committed" => routed[m] = None
       /\ message[m] = "committed" /\ Kind(m) = "queue" => target[m] # None

(* A created row is in the database; in memory it is the only one when the *)
(* request that made it was.                                               *)
CreateInv ==
    \A c \in Creates :
       /\ cfg.repo # "memory" /\ creating[c] = "created" =>
             \E i \in DOMAIN mappings : mappings[i] = Mapping[c]
       /\ cfg.repo = "memory" /\ ~restarted
             /\ (\A d \in Creates \ {c} : creating[d] = "none") =>
             IF creating[c] = "created"
               THEN mappings = <<Mapping[c]>>
               ELSE mappings = <<>> /\ seen[c] = <<>>

RoutingInv == TypeOK /\ WireInv /\ TargetInv /\ RoutedInv /\ CreateInv

(* Neither the default shard nor the key, or what it maps to, is a shard's *)
(* name.                                                                   *)
NoShard(key) ==
    LET name == IF HasMapping(mappings, key) THEN ShardName(mappings, key) ELSE key
    IN  {name, Default} \cap cfg.shards = {}

(* Spanner reports a missing row as an error, so that the key is not taken *)
(* for a shard's name.                                                     *)
SpannerHasNoRow(key) == cfg.repo = "spanner" /\ ~HasMapping(mappings, key)

(* The messages with a file that wait for the receiver.                    *)
QueuedFiles == {m \in Messages : Kind(m) = "queue" /\ message[m] = "queued"}

(* A published file is queued by a shard in the end, unless the process    *)
(* restarts, it cannot be read or there is no shard for it.  A failed      *)
(* lookup does no harm, except with AutoCommit, where it may lose the      *)
(* file; and with Spanner a key without a row has no shard, whatever it    *)
(* names (file_receiver.go:282-285, 405-440, 460-463, repository.go:188).  *)
EventuallyRouted ==
    \A m \in Messages :
       m \in QueuedFiles ~>
          \/ message[m] \in {"committed", "unread", "lost"}
          \/ NoShard(ShardKey(m)) \/ SpannerHasNoRow(ShardKey(m))
          \/ cfg.autoCommit /\ saw[m] = "error"

(* A published file that is not queued is announced as InvalidQueueFile in *)
(* the end, if it can be read and the process stays.  An event that could  *)
(* not be sent is made up for by the next delivery, which AutoCommit does  *)
(* not promise (file_receiver.go:282-285, 335-343).                        *)
EventuallyAnnounced ==
    \A m \in Messages :
       m \in QueuedFiles ~>
          \/ message[m] \in {"committed", "unread", "lost"}
          \/ FileID(m) \in announced
          \/ cfg.autoCommit /\ FileID(m) \in silenced

(* What the comment in getAggregator wants: a shard key that is a shard's  *)
(* name represents that shard, so that a file under such a key is queued   *)
(* although nobody maps the key (file_receiver.go:413-416).                *)
KeyMayNameShard ==
    \A m \in Messages :
       m \in QueuedFiles /\ ShardKey(m) \in cfg.shards ~>
          \/ message[m] \in {"committed", "unread", "lost"}
          \/ HasMapping(mappings, ShardKey(m))
=============================================================================
