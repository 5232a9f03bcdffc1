--------------------------- MODULE RoutingProofs ---------------------------
(***************************************************************************)
(* Theorems about MessageRouting for every set of files and requests,      *)
(* every configuration and whatever fails.                                 *)
(***************************************************************************)
EXTENDS MessageRouting, SequenceTheorems, TLAPS

USE DEF mappingVars, messageVars, eventVars, vars

Rows == {Mapping[c] : c \in Creates}

(***************************************************************************)
(* Protect and Reveal.                                                     *)
(***************************************************************************)

(* The last of one or two layers, and what is left without it.             *)
LEMMA OneLayer ==
    ASSUME NEW a PROVE Front(<<a>>) = <<>> /\ Last(<<a>>) = a /\ <<a>> # <<>>
  BY DEF Front, Last

LEMMA TwoLayers ==
    ASSUME NEW a, NEW b
    PROVE  Front(<<a, b>>) = <<a>> /\ Last(<<a, b>>) = b /\ <<a, b>> # <<>>
  <1>. DEFINE S == {a, b}
              front == SubSeq(<<a, b>>, 1, 1)
  <1>1. /\ front \in Seq(S) /\ Len(front) = 1 /\ front[1] = a
    <2>1. \A i \in 1..1 : <<a, b>>[i] \in S
      OBVIOUS
    <2>. QED
      BY <2>1, SubSeqProperties
  <1>2. <<a>> \in Seq(S) /\ Len(<<a>>) = 1 /\ <<a>>[1] = a
    OBVIOUS
  <1>3. front = <<a>>
    <2>. HIDE DEF front
    <2>. QED
      BY <1>1, <1>2, SeqEqual
  <1>. QED
    BY <1>3 DEF Front, Last

LEMMA OneByOne ==
    ASSUME NEW a, NEW b PROVE <<a>> \o <<b>> = <<a, b>>
  <1>. DEFINE S == {a, b}
              both == <<a>> \o <<b>>
  <1>1. <<a>> \in Seq(S) /\ <<b>> \in Seq(S) /\ <<a, b>> \in Seq(S)
    OBVIOUS
  <1>2. /\ both \in Seq(S) /\ Len(both) = Len(<<a>>) + Len(<<b>>)
        /\ \A i \in 1 .. Len(<<a>>) + Len(<<b>>) :
              both[i] = IF i <= Len(<<a>>) THEN <<a>>[i] ELSE <<b>>[i - Len(<<a>>)]
    BY <1>1, ConcatProperties
  <1>3. Len(both) = 2 /\ both[1] = a /\ both[2] = b
    BY <1>2
  <1>4. Len(<<a, b>>) = 2 /\ <<a, b>>[1] = a /\ <<a, b>>[2] = b
    OBVIOUS
  <1>5. \A i \in 1..2 : both[i] = <<a, b>>[i]
    BY <1>3, <1>4
  <1>6. Len(both) = Len(<<a, b>>) /\ \A i \in 1..Len(both) : both[i] = <<a, b>>[i]
    BY <1>3, <1>4, <1>5
  <1>7. ASSUME NEW s \in Seq(S), NEW t \in Seq(S), Len(s) = Len(t),
               \A i \in 1..Len(s) : s[i] = t[i]
        PROVE  s = t
    BY <1>7, SeqEqual
  <1>8. both = <<a, b>>
    <2>. HIDE DEF both, S
    <2>. QED
      BY <1>1, <1>2, <1>6, <1>7
  <1>. QED
    BY <1>8

(* The layers of a message, by what its transform has.                     *)
LEMMA ProtectLayers ==
    ASSUME NEW t
    PROVE  /\ t.encryption = "none" /\ t.encoding = "none" => Protect(t) = <<>>
           /\ t.encryption # "none" /\ t.encoding = "none" =>
                 Protect(t) = <<t.encryption>>
           /\ t.encryption = "none" /\ t.encoding # "none" =>
                 Protect(t) = <<t.encoding>>
           /\ t.encryption # "none" /\ t.encoding # "none" =>
                 Protect(t) = <<t.encryption, t.encoding>>
  <1>. DEFINE S == {t.encryption, t.encoding}
  <1>1. <<t.encryption>> \in Seq(S) /\ <<t.encoding>> \in Seq(S) /\ <<>> \in Seq(S)
    OBVIOUS
  <1>2. \A s \in Seq(S) : s \o <<>> = s /\ <<>> \o s = s
    BY ConcatEmptySeq
  <1>3. <<t.encryption>> \o <<t.encoding>> = <<t.encryption, t.encoding>>
    BY OneByOne
  <1>. QED
    BY <1>1, <1>2, <1>3 DEF Protect, Layer

(* Decrypt takes one layer off or leaves something unreadable.             *)
LEMMA DecryptedIsJSON ==
    ASSUME NEW key, key \notin {"json", "unreadable"}
    PROVE  /\ Decrypt(key, <<>>) = <<>> <=> key = "none"
           /\ \A a : Decrypt(key, <<a>>) = <<>> <=> key # "none" /\ key = a
           /\ \A a, b : Decrypt(key, <<a, b>>) # <<>>
  <1>1. Unreadable # <<>>
    BY DEF Unreadable
  <1>2. Decrypt(key, <<>>) = <<>> <=> key = "none"
    BY <1>1 DEF Decrypt, Outermost
  <1>3. ASSUME NEW a
        PROVE  Decrypt(key, <<a>>) = <<>> <=> key # "none" /\ key = a
    BY <1>1, OneLayer DEF Decrypt, Outermost
  <1>4. ASSUME NEW a, NEW b PROVE Decrypt(key, <<a, b>>) # <<>>
    BY <1>1, OneLayer, TwoLayers DEF Decrypt, Outermost
  <1>. QED
    BY <1>2, <1>3, <1>4

(* The receiver's transform reveals what the sender's protected just when  *)
(* the two are compatible (compliance.go:26-85).                           *)
THEOREM RevealIffCompatible ==
    ASSUME NEW sender, NEW receiver,
           {sender.encoding, receiver.encoding} \subseteq Encodings,
           "unknown" \notin {sender.encoding, sender.encryption},
           {"gzip", "base64", "json", "unreadable"}
             \cap {sender.encryption, receiver.encryption} = {}
    PROVE  Reveal(receiver, Protect(sender)) = <<>> <=> Compatible(sender, receiver)
  <1>. DEFINE layers == Protect(sender)
              decoded == Decode(receiver.encoding, layers)
  <1>1. CASE "unknown" \in {receiver.encoding, receiver.encryption}
    BY <1>1 DEF Reveal, Compatible, Unreadable
  <1>2. CASE "unknown" \notin {receiver.encoding, receiver.encryption}
    <2>1. /\ sender.encoding \in {"none", "gzip", "base64"}
          /\ receiver.encoding \in {"none", "gzip", "base64"}
          /\ receiver.encryption \notin {"json", "unreadable"}
      BY <1>2 DEF Encodings
    <2>2. Reveal(receiver, layers) = Decrypt(receiver.encryption, decoded)
      BY <1>2 DEF Reveal
    <2>3. \A a : Decrypt(receiver.encryption, <<a>>) = <<>>
                   <=> receiver.encryption # "none" /\ receiver.encryption = a
      BY <2>1, DecryptedIsJSON
    <2>4. Decrypt(receiver.encryption, <<>>) = <<>> <=> receiver.encryption = "none"
      BY <2>1, DecryptedIsJSON
    <2>5. \A a, b : Decrypt(receiver.encryption, <<a, b>>) # <<>>
      BY <2>1, DecryptedIsJSON
    <2>6. Decrypt(receiver.encryption, Unreadable) # <<>>
      BY <2>1, <2>3 DEF Unreadable
    <2>7. CASE sender.encryption = "none" /\ sender.encoding = "none"
      <3>1. layers = <<>>
        BY <2>7, ProtectLayers
      <3>2. decoded = IF receiver.encoding = "base64" THEN Unreadable ELSE <<>>
        BY <2>1, <3>1 DEF Decode, Outermost
      <3>. QED
        BY <1>2, <2>1, <2>2, <2>4, <2>6, <2>7, <3>2 DEF Compatible
    <2>8. CASE sender.encryption # "none" /\ sender.encoding = "none"
      <3>1. layers = <<sender.encryption>>
        BY <2>8, ProtectLayers
      <3>2. Outermost(layers) = sender.encryption
        BY <3>1, OneLayer DEF Outermost
      <3>3. decoded = IF receiver.encoding = "base64" THEN Unreadable
                      ELSE <<sender.encryption>>
        BY <2>1, <3>1, <3>2 DEF Decode
      <3>. QED
        BY <1>2, <2>1, <2>2, <2>3, <2>6, <2>8, <3>3 DEF Compatible
    <2>9. CASE sender.encryption = "none" /\ sender.encoding # "none"
      <3>1. layers = <<sender.encoding>>
        BY <2>9, ProtectLayers
      <3>2. Outermost(layers) = sender.encoding /\ Front(layers) = <<>>
        BY <3>1, OneLayer DEF Outermost
      <3>3. CASE receiver.encoding = sender.encoding
        <4>1. decoded = <<>>
          BY <2>9, <3>2, <3>3 DEF Decode
        <4>. QED
          BY <1>2, <2>2, <2>4, <2>9, <3>3, <4>1 DEF Compatible
      <3>4. CASE receiver.encoding # sender.encoding
        <4>1. decoded = Unreadable \/ decoded = <<sender.encoding>>
          BY <2>1, <3>1, <3>2, <3>4 DEF Decode
        <4>2. Reveal(receiver, layers) # <<>>
          BY <2>1, <2>2, <2>3, <2>6, <2>9, <4>1
        <4>. QED
          BY <2>9, <3>4, <4>2 DEF Compatible
      <3>. QED
        BY <3>3, <3>4
    <2>10. CASE sender.encryption # "none" /\ sender.encoding # "none"
      <3>1. layers = <<sender.encryption, sender.encoding>>
        BY <2>10, ProtectLayers
      <3>2. Outermost(layers) = sender.encoding /\ Front(layers) = <<sender.encryption>>
        BY <3>1, TwoLayers DEF Outermost
      <3>3. CASE receiver.encoding = sender.encoding
        <4>1. decoded = <<sender.encryption>>
          BY <2>10, <3>2, <3>3 DEF Decode
        <4>. QED
          BY <1>2, <2>2, <2>3, <2>10, <3>3, <4>1 DEF Compatible
      <3>4. CASE receiver.encoding # sender.encoding
        <4>1. \/ decoded = Unreadable
              \/ decoded = <<sender.encryption, sender.encoding>>
          BY <2>1, <3>1, <3>2, <3>4 DEF Decode
        <4>2. Reveal(receiver, layers) # <<>>
          BY <2>2, <2>5, <2>6, <4>1
        <4>. QED
          BY <2>10, <3>4, <4>2 DEF Compatible
      <3>. QED
        BY <3>3, <3>4
    <2>. QED
      BY <2>7, <2>8, <2>9, <2>10
  <1>. QED
    BY <1>1, <1>2

(***************************************************************************)
(* The rows.                                                               *)
(***************************************************************************)

UniqueKeys(rows) ==
    \A i, j \in DOMAIN rows : rows[i].key = rows[j].key => i = j

(* The one row of a key is the one it is looked up with.                   *)
LEMMA OnlyRow ==
    ASSUME NEW rows \in Seq(Rows), UniqueKeys(rows), NEW i \in DOMAIN rows
    PROVE  ShardName(rows, rows[i].key) = rows[i].name
  <1>. DEFINE First(n) == /\ rows[n].key = rows[i].key
                          /\ \A j \in 1..(n - 1) : rows[j].key # rows[i].key
  <1>1. DOMAIN rows = 1..Len(rows) /\ Len(rows) \in Nat
    OBVIOUS
  <1>2. First(i)
    BY <1>1 DEF UniqueKeys
  <1>3. \A n \in DOMAIN rows : First(n) => n = i
    BY DEF UniqueKeys
  <1>4. (CHOOSE n \in DOMAIN rows : First(n)) = i
    BY <1>2, <1>3
  <1>. QED
    BY <1>4 DEF ShardName

(* Rows that are only added to do not change the answer for a key that had *)
(* one (repository.go:57-83: the key is unique, and no row is updated).    *)
LEMMA AnswerStays ==
    ASSUME NEW rows \in Seq(Rows), UniqueKeys(rows),
           NEW more \in Seq(Rows), UniqueKeys(more),
           \A i \in DOMAIN rows : i \in DOMAIN more /\ more[i] = rows[i],
           NEW key, HasMapping(rows, key)
    PROVE  HasMapping(more, key) /\ ShardName(more, key) = ShardName(rows, key)
  <1>1. PICK i \in DOMAIN rows : rows[i].key = key
    BY DEF HasMapping
  <1>2. i \in DOMAIN more /\ more[i] = rows[i]
    OBVIOUS
  <1>3. ShardName(rows, rows[i].key) = rows[i].name
    BY OnlyRow
  <1>4. ShardName(more, more[i].key) = more[i].name
    BY <1>2, OnlyRow
  <1>. QED
    BY <1>1, <1>2, <1>3, <1>4 DEF HasMapping

(* A row that is appended for a new key leaves the others where they are.  *)
LEMMA AppendedRow ==
    ASSUME NEW rows \in Seq(Rows), NEW row \in Rows
    PROVE  /\ Append(rows, row) \in Seq(Rows)
           /\ DOMAIN Append(rows, row) = 1..(Len(rows) + 1)
           /\ DOMAIN rows = 1..Len(rows) /\ Len(rows) \in Nat
           /\ \A i \in DOMAIN rows : Append(rows, row)[i] = rows[i]
           /\ Append(rows, row)[Len(rows) + 1] = row
           /\ UniqueKeys(rows) /\ ~HasMapping(rows, row.key) =>
                 UniqueKeys(Append(rows, row))
  <1>1. /\ Append(rows, row) \in Seq(Rows)
        /\ DOMAIN Append(rows, row) = 1..(Len(rows) + 1)
        /\ DOMAIN rows = 1..Len(rows) /\ Len(rows) \in Nat
        /\ \A i \in DOMAIN rows : Append(rows, row)[i] = rows[i]
        /\ Append(rows, row)[Len(rows) + 1] = row
    OBVIOUS
  <1>2. ASSUME UniqueKeys(rows), ~HasMapping(rows, row.key)
        PROVE  UniqueKeys(Append(rows, row))
    <2>. DEFINE more == Append(rows, row)
    <2>1. \A i \in DOMAIN more : i \in DOMAIN rows \/ i = Len(rows) + 1
      BY <1>1
    <2>. HIDE DEF more
    <2>2. ASSUME NEW i \in DOMAIN more, NEW j \in DOMAIN more,
                 more[i].key = more[j].key
          PROVE  i = j
      <3>1. \A n \in DOMAIN rows : more[n] = rows[n] /\ rows[n].key # row.key
        BY <1>1, <1>2 DEF HasMapping, more
      <3>2. more[Len(rows) + 1] = row
        BY <1>1 DEF more
      <3>. QED
        BY <1>2, <2>1, <2>2, <3>1, <3>2 DEF UniqueKeys
    <2>. QED
      BY <2>2 DEF UniqueKeys, more
  <1>. QED
    BY <1>1, <1>2

(***************************************************************************)
(* The states are well typed.                                              *)
(***************************************************************************)

(* Kinds of messages and facts about the constants.                        *)
LEMMA Constants ==
    /\ MaxAdverse \in Nat
    /\ \A c \in Creates : Mapping[c] \in Rows
    /\ \A m \in Messages : FileID(m) \in Files /\ Kind(m) \in {"queue", "cancel"}
  <1>1. MaxAdverse \in Nat
    BY RoutingAssumption
  <1>2. \A m \in Messages : FileID(m) \in Files /\ Kind(m) \in {"queue", "cancel"}
    BY DEF Messages, FileID, Kind
  <1>. QED
    BY <1>1, <1>2 DEF Rows

(* getAggregator finds a shard of the configuration, or none.              *)
LEMMA AggregatorType ==
    ASSUME NEW key PROVE getAggregator(key) \in cfg.shards \cup {None}
  <1>1. \A name : Aggregator(name) \in cfg.shards \cup {None}
    BY DEF Aggregator
  <1>. QED
    BY <1>1 DEF getAggregator

LEMMA TypeInit == Init => TypeOK
  <1>. SUFFICES ASSUME Init PROVE TypeOK
    OBVIOUS
  <1>1. mappings = <<>> /\ mappings \in Seq(Rows) /\ DOMAIN mappings = {}
    BY DEF Init
  <1>2. 0 \in 0..MaxAdverse
    BY Constants
  <1>. QED
    BY <1>1, <1>2 DEF Init, TypeOK, Rows

(* The rows of a database are only added to, one for a new key at a time.  *)
LEMMA RowsOnlyAdded ==
    ASSUME [Next]_vars, cfg.repo # "memory"
    PROVE  \/ mappings' = mappings
           \/ \E c \in Creates : /\ ~HasMapping(mappings, Mapping[c].key)
                                 /\ mappings' = Append(mappings, Mapping[c])
  <1>1. CASE UNCHANGED vars
    BY <1>1
  <1>2. ASSUME NEW c \in Creates, Create(c) PROVE mappings' = mappings
    BY <1>2 DEF Create
  <1>3. ASSUME NEW c \in Creates, Add(c)
        PROVE  \/ mappings' = mappings
               \/ /\ ~HasMapping(mappings, Mapping[c].key)
                  /\ mappings' = Append(mappings, Mapping[c])
    BY <1>3 DEF Add, InsertRow
  <1>4. ASSUME NEW m \in Messages, Publish(m) \/ Receive(m)
        PROVE  mappings' = mappings
    BY <1>4 DEF Publish, Receive, ReadFails, LookUp, Found, Deliver, Refuse
  <1>5. CASE Restart
    BY <1>5 DEF Restart
  <1>. QED
    BY <1>1, <1>2, <1>3, <1>4, <1>5 DEF Next

(* The failures stay within their bound.                                   *)
LEMMA AdverseStep ==
    ASSUME adverse \in 0..MaxAdverse, [Next]_vars
    PROVE  adverse' \in 0..MaxAdverse
  <1>1. \A e : Fails(e) => adverse' \in 0..MaxAdverse
    BY Constants DEF Fails
  <1>2. CASE UNCHANGED vars
    BY <1>2
  <1>3. ASSUME NEW c \in Creates, Create(c) \/ Add(c) PROVE adverse' \in 0..MaxAdverse
    BY <1>1, <1>3 DEF Create, Add, AppendInMemory, InsertRow
  <1>4. ASSUME NEW m \in Messages, Publish(m) \/ Receive(m)
        PROVE  adverse' \in 0..MaxAdverse
    BY <1>1, <1>4 DEF Publish, Receive, ReadFails, LookUp, Found, Deliver, Refuse, Emit
  <1>5. CASE Restart
    BY <1>1, <1>5 DEF Restart
  <1>. QED
    BY <1>2, <1>3, <1>4, <1>5 DEF Next

(* Every step keeps the types.                                             *)
LEMMA TypeStep ==
    ASSUME TypeOK, [Next]_vars PROVE TypeOK'
  <1>. USE DEF TypeOK, Rows
  <1>1. adverse' \in 0..MaxAdverse
    BY AdverseStep
  <1>2. CASE UNCHANGED vars
    BY <1>2
  <1>3. ASSUME NEW c \in Creates, Create(c) PROVE TypeOK'
    BY <1>3 DEF Create
  <1>4. ASSUME NEW c \in Creates, Add(c) PROVE TypeOK'
    <2>1. /\ UNCHANGED <<cfg, seen, messageVars, eventVars>>
          /\ creating' \in [Creates -> {"none", "adding", "created", "refused"}]
      BY <1>4 DEF Add, AppendInMemory, InsertRow
    <2>2. CASE cfg.repo = "memory"
      <3>1. mappings' = Append(seen[c], Mapping[c]) /\ seen[c] \in Seq(Rows)
        BY <1>4, <2>2 DEF Add, AppendInMemory
      <3>2. mappings' \in Seq(Rows)
        BY <3>1, AppendedRow, Constants
      <3>. QED
        BY <1>1, <2>1, <2>2, <3>2
    <2>3. CASE cfg.repo # "memory"
      <3>1. UniqueKeys(mappings) /\ mappings \in Seq(Rows)
        BY <2>3 DEF UniqueKeys
      <3>2. \/ mappings' = mappings
            \/ /\ ~HasMapping(mappings, Mapping[c].key)
               /\ mappings' = Append(mappings, Mapping[c])
        BY <1>4, <2>3 DEF Add, InsertRow
      <3>3. mappings' \in Seq(Rows) /\ UniqueKeys(mappings')
        <4>1. CASE mappings' = mappings
          BY <3>1, <4>1
        <4>2. CASE /\ ~HasMapping(mappings, Mapping[c].key)
                   /\ mappings' = Append(mappings, Mapping[c])
          <5>. HIDE DEF Rows, TypeOK
          <5>1. Mapping[c] \in Rows
            BY Constants
          <5>2. /\ Append(mappings, Mapping[c]) \in Seq(Rows)
                /\ UniqueKeys(Append(mappings, Mapping[c]))
            BY <3>1, <4>2, <5>1, AppendedRow
          <5>. QED
            BY <4>2, <5>2
        <4>. QED
          BY <3>2, <4>1, <4>2
      <3>. QED
        BY <1>1, <2>1, <3>3 DEF UniqueKeys
    <2>. QED
      BY <2>2, <2>3
  <1>5. ASSUME NEW m \in Messages, Publish(m) PROVE TypeOK'
    BY <1>5 DEF Publish
  <1>6. ASSUME NEW m \in Messages, ReadFails(m) PROVE TypeOK'
    BY <1>6 DEF ReadFails
  <1>7. ASSUME NEW m \in Messages, LookUp(m) PROVE TypeOK'
    <2>1. \E shard \in cfg.shards \cup {None} : target' = [target EXCEPT ![m] = shard]
      BY <1>7, AggregatorType DEF LookUp, Found
    <2>2. target' \in [Messages -> cfg.shards \cup {None}]
      BY <2>1
    <2>3. \E what \in {"row", "no row", "error"} : saw' = [saw EXCEPT ![m] = what]
      BY <1>7 DEF LookUp, Found
    <2>4. saw' \in [Messages -> {"nothing", "row", "no row", "error"}]
      BY <2>3
    <2>5. /\ message' = [message EXCEPT ![m] = "found"]
          /\ UNCHANGED <<cfg, mappingVars, wire, routed, eventVars>>
      BY <1>7 DEF LookUp
    <2>. QED
      BY <1>1, <2>2, <2>4, <2>5
  <1>8. ASSUME NEW m \in Messages, Deliver(m) PROVE TypeOK'
    BY <1>8 DEF Deliver
  <1>9. ASSUME NEW m \in Messages, Refuse(m) PROVE TypeOK'
    <2>1. announced' \subseteq Files /\ silenced' \subseteq Files
      BY <1>9, Constants DEF Refuse, Emit
    <2>2. \E state \in {"committed", "dropped", "queued"} :
             message' = [message EXCEPT ![m] = state]
      BY <1>9 DEF Refuse, AfterError
    <2>3. message' \in [Messages -> {"unsent", "error", "queued", "unread", "found",
                                     "committed", "dropped", "lost"}]
      BY <2>2
    <2>4. UNCHANGED <<cfg, mappingVars, wire, saw, target, routed>>
      BY <1>9 DEF Refuse
    <2>. QED
      BY <1>1, <2>1, <2>3, <2>4
  <1>10. CASE Restart
    <2>1. <<>> \in Seq(Rows)
      <3>. HIDE DEF TypeOK, Rows
      <3>. QED  OBVIOUS
    <2>2. /\ mappings' \in Seq(Rows)
          /\ cfg.repo # "memory" => mappings' = mappings
      BY <1>10, <2>1 DEF Restart
    <2>. QED
      BY <1>1, <1>10, <2>2 DEF Restart
  <1>. QED
    BY <1>2, <1>3, <1>4, <1>5, <1>6, <1>7, <1>8, <1>9, <1>10 DEF Next, Receive

(* The configuration is read once.                                         *)
LEMMA ConfigStays == ASSUME [Next]_vars PROVE cfg' = cfg
  <1>1. ASSUME NEW c \in Creates, Create(c) \/ Add(c) PROVE cfg' = cfg
    BY <1>1 DEF Create, Add
  <1>2. ASSUME NEW m \in Messages, Publish(m) \/ Receive(m) PROVE cfg' = cfg
    BY <1>2 DEF Publish, Receive, ReadFails, LookUp, Found, Deliver, Refuse
  <1>3. CASE Restart
    BY <1>3 DEF Restart
  <1>. QED
    BY <1>1, <1>2, <1>3 DEF Next

(***************************************************************************)
(* What was published and what was read.                                   *)
(***************************************************************************)

(* A message is published once, and read as what Protect made of it.       *)
LEMMA WireStep ==
    ASSUME TypeOK, WireInv, [Next]_vars PROVE WireInv'
  <1>. USE DEF WireInv
  <1>1. cfg' = cfg
    BY ConfigStays
  <1>2. /\ message \in [Messages -> {"unsent", "error", "queued", "unread", "found",
                                     "committed", "dropped", "lost"}]
        /\ DOMAIN wire = Messages
    BY DEF TypeOK
  <1>3. CASE UNCHANGED <<message, wire>>
    BY <1>1, <1>3
  <1>4. ASSUME NEW m \in Messages, Publish(m) PROVE WireInv'
    BY <1>1, <1>2, <1>4 DEF Publish
  <1>5. ASSUME NEW m \in Messages, ReadFails(m) PROVE WireInv'
    BY <1>1, <1>2, <1>5 DEF ReadFails
  <1>6. ASSUME NEW m \in Messages, LookUp(m) PROVE WireInv'
    BY <1>1, <1>2, <1>6 DEF LookUp
  <1>7. ASSUME NEW m \in Messages, Deliver(m) PROVE WireInv'
    BY <1>1, <1>2, <1>7 DEF Deliver
  <1>8. ASSUME NEW m \in Messages, Refuse(m) PROVE WireInv'
    <2>1. /\ message[m] = "found" /\ wire' = wire
          /\ \E state \in {"committed", "dropped", "queued"} :
                message' = [message EXCEPT ![m] = state]
      BY <1>8 DEF Refuse, AfterError
    <2>. QED
      BY <1>1, <1>2, <2>1
  <1>9. CASE Restart
    BY <1>1, <1>2, <1>9 DEF Restart
  <1>10. ASSUME NEW c \in Creates, Create(c) \/ Add(c) PROVE UNCHANGED <<message, wire>>
    BY <1>10 DEF Create, Add
  <1>. QED
    BY <1>3, <1>4, <1>5, <1>6, <1>7, <1>8, <1>9, <1>10 DEF Next, Receive

(***************************************************************************)
(* Where messages go.                                                      *)
(***************************************************************************)

(* The answer of a database for a key with a row does not change.          *)
LEMMA DatabaseAnswer ==
    ASSUME TypeOK, [Next]_vars, cfg.repo # "memory"
    PROVE  \A key : HasMapping(mappings, key) =>
              /\ HasMapping(mappings', key)
              /\ ShardName(mappings', key) = ShardName(mappings, key)
  <1>1. TypeOK' /\ cfg' = cfg
    BY TypeStep, ConfigStays
  <1>2. /\ mappings \in Seq(Rows) /\ UniqueKeys(mappings)
        /\ mappings' \in Seq(Rows) /\ UniqueKeys(mappings')
    BY <1>1 DEF TypeOK, Rows, UniqueKeys
  <1>3. \A i \in DOMAIN mappings : i \in DOMAIN mappings' /\ mappings'[i] = mappings[i]
    <2>1. CASE mappings' = mappings
      BY <2>1
    <2>2. ASSUME NEW c \in Creates, mappings' = Append(mappings, Mapping[c])
          PROVE  \A i \in DOMAIN mappings :
                    i \in DOMAIN mappings' /\ mappings'[i] = mappings[i]
      <3>1. Mapping[c] \in Rows
        BY Constants
      <3>2. /\ DOMAIN mappings' = 1..(Len(mappings) + 1)
            /\ DOMAIN mappings = 1..Len(mappings) /\ Len(mappings) \in Nat
            /\ \A i \in DOMAIN mappings : mappings'[i] = mappings[i]
        BY <1>2, <2>2, <3>1, AppendedRow
      <3>. QED
        BY <3>2
    <2>. QED
      BY <2>1, <2>2, RowsOnlyAdded
  <1>. QED
    BY <1>2, <1>3, AnswerStays

(* Nor does the shard that is found for the key.                           *)
LEMMA AggregatorStays ==
    ASSUME TypeOK, [Next]_vars, cfg.repo # "memory"
    PROVE  \A key : /\ UnmappedShard(key)' = UnmappedShard(key)
                    /\ HasMapping(mappings, key) =>
                          /\ HasMapping(mappings, key)'
                          /\ getAggregator(key)' = getAggregator(key)
  <1>1. cfg' = cfg
    BY ConfigStays
  <1>2. \A name : Aggregator(name)' = Aggregator(name)
    BY <1>1 DEF Aggregator
  <1>3. ASSUME NEW key, HasMapping(mappings, key)
        PROVE  HasMapping(mappings, key)' /\ getAggregator(key)' = getAggregator(key)
    <2>1. HasMapping(mappings', key) /\ ShardName(mappings', key) = ShardName(mappings, key)
      BY <1>3, DatabaseAnswer
    <2>2. Lookup(key)' = Lookup(key)
      BY <1>1, <1>3, <2>1 DEF Lookup, SpannerLookup
    <2>. QED
      BY <1>2, <2>1, <2>2 DEF getAggregator, HasMapping
  <1>. QED
    BY <1>1, <1>2, <1>3 DEF UnmappedShard

(* Without a row the key is taken for a name, but not with Spanner.        *)
LEMMA NoRowFound ==
    ASSUME NEW key, ~HasMapping(mappings, key)
    PROVE  getAggregator(key) = UnmappedShard(key)
  <1>1. Lookup(key) = IF cfg.repo = "spanner" THEN None ELSE ""
    BY DEF Lookup, SpannerLookup
  <1>2. None # ""
    BY RoutingAssumption
  <1>. QED
    BY <1>1, <1>2 DEF getAggregator, UnmappedShard

(* Only a lookup changes what was seen and found for a message.            *)
LEMMA OnlyLookUp ==
    ASSUME [Next]_vars
    PROVE  UNCHANGED <<saw, target>> \/ \E n \in Messages : LookUp(n)
  <1>1. ASSUME NEW c \in Creates, Create(c) \/ Add(c) PROVE UNCHANGED <<saw, target>>
    BY <1>1 DEF Create, Add
  <1>2. ASSUME NEW n \in Messages,
               Publish(n) \/ ReadFails(n) \/ Deliver(n) \/ Refuse(n)
        PROVE  UNCHANGED <<saw, target>>
    BY <1>2 DEF Publish, ReadFails, Deliver, Refuse
  <1>3. CASE Restart \/ UNCHANGED vars
    BY <1>3 DEF Restart
  <1>. QED
    BY <1>1, <1>2, <1>3 DEF Next, Receive

(* What TargetInv says of one message.                                     *)
TargetOf(m) ==
    /\ saw[m] = "row" => /\ HasMapping(mappings, ShardKey(m))
                         /\ target[m] = getAggregator(ShardKey(m))
    /\ saw[m] = "no row" => target[m] = UnmappedShard(ShardKey(m))
    /\ saw[m] = "error" => target[m] = None

(* What a lookup found stays what the database would answer.               *)
LEMMA TargetStep ==
    ASSUME TypeOK, TargetInv, [Next]_vars PROVE TargetInv'
  <1>1. cfg' = cfg
    BY ConfigStays
  <1>. SUFFICES ASSUME cfg.repo # "memory", NEW m \in Messages PROVE TargetOf(m)'
    BY <1>1 DEF TargetInv, TargetOf
  <1>. DEFINE key == ShardKey(m)
  <1>2. TargetOf(m)
    BY DEF TargetInv, TargetOf
  <1>3. /\ UnmappedShard(key)' = UnmappedShard(key)
        /\ HasMapping(mappings, key) =>
              /\ HasMapping(mappings, key)'
              /\ getAggregator(key)' = getAggregator(key)
    BY AggregatorStays
  <1>4. CASE saw'[m] = saw[m] /\ target'[m] = target[m]
    BY <1>2, <1>3, <1>4 DEF TargetOf
  <1>5. CASE LookUp(m)
    <2>1. UNCHANGED mappings
      BY <1>5 DEF LookUp
    <2>2. CASE saw'[m] = "error" /\ target'[m] = None
      BY <2>2 DEF TargetOf
    <2>3. CASE /\ saw'[m] = IF HasMapping(mappings, key) THEN "row" ELSE "no row"
               /\ target'[m] = getAggregator(key)
      BY <1>3, <2>3, NoRowFound DEF TargetOf
    <2>. QED
      BY <1>5, <2>2, <2>3 DEF LookUp, Found, TypeOK
  <1>6. ASSUME NEW n \in Messages \ {m}, LookUp(n)
        PROVE  saw'[m] = saw[m] /\ target'[m] = target[m]
    BY <1>6 DEF LookUp, Found, TypeOK
  <1>. QED
    BY <1>4, <1>5, <1>6, OnlyLookUp

(* A message goes where it was found to belong, and is then committed.     *)
LEMMA RoutedStep ==
    ASSUME TypeOK, RoutedInv, [Next]_vars PROVE RoutedInv'
  <1>. USE DEF RoutedInv, TypeOK
  <1>1. CASE UNCHANGED messageVars
    BY <1>1
  <1>2. ASSUME NEW c \in Creates, Create(c) \/ Add(c) PROVE UNCHANGED messageVars
    BY <1>2 DEF Create, Add
  <1>3. ASSUME NEW n \in Messages, Publish(n) \/ ReadFails(n) PROVE RoutedInv'
    <2>1. /\ UNCHANGED <<saw, target, routed>> /\ message[n] # "committed"
          /\ \E state \in {"error", "queued", "unread"} :
                message' = [message EXCEPT ![n] = state]
      BY <1>3 DEF Publish, ReadFails
    <2>. QED
      BY <2>1
  <1>4. ASSUME NEW n \in Messages, LookUp(n) PROVE RoutedInv'
    <2>1. /\ UNCHANGED routed /\ message[n] = "queued"
          /\ message' = [message EXCEPT ![n] = "found"]
          /\ saw'[n] # "nothing"
          /\ \A m \in Messages \ {n} : saw'[m] = saw[m] /\ target'[m] = target[m]
      BY <1>4 DEF LookUp, Found
    <2>2. message'[n] = "found" /\ routed'[n] = None
      BY <2>1
    <2>3. ASSUME NEW m \in Messages \ {n}
          PROVE  /\ message'[m] = message[m] /\ routed'[m] = routed[m]
                 /\ saw'[m] = saw[m] /\ target'[m] = target[m]
      BY <2>1
    <2>4. ASSUME NEW m \in Messages
          PROVE  /\ message'[m] \in {"found", "committed"} => saw'[m] # "nothing"
                 /\ message'[m] = "committed" => routed'[m] = target'[m]
                 /\ message'[m] # "committed" => routed'[m] = None
                 /\ message'[m] = "committed" /\ Kind(m) = "queue" => target'[m] # None
      <3>1. CASE m = n
        BY <2>1, <2>2, <3>1
      <3>2. CASE m # n
        BY <2>3, <3>2
      <3>. QED  BY <3>1, <3>2
    <2>. QED
      BY <2>4
  <1>5. ASSUME NEW n \in Messages, Deliver(n) PROVE RoutedInv'
    BY <1>5 DEF Deliver
  <1>6. ASSUME NEW n \in Messages, Refuse(n) PROVE RoutedInv'
    <2>1. /\ UNCHANGED <<saw, target, routed>>
          /\ message[n] = "found" /\ target[n] = None
          /\ \/ /\ Kind(n) = "cancel"
                /\ message' = [message EXCEPT ![n] = "committed"]
             \/ \E state \in {"dropped", "queued"} :
                   message' = [message EXCEPT ![n] = state]
      BY <1>6 DEF Refuse, AfterError
    <2>. QED
      BY <2>1
  <1>7. CASE Restart
    BY <1>7 DEF Restart
  <1>8. CASE UNCHANGED vars
    BY <1>8
  <1>. QED
    BY <1>1, <1>2, <1>3, <1>4, <1>5, <1>6, <1>7, <1>8 DEF Next, Receive

(***************************************************************************)
(* What was created.                                                       *)
(***************************************************************************)

(* The row of a request that was answered with 201 is in the database.     *)
LEMMA CreatedRowStep ==
    ASSUME TypeOK, CreateInv, [Next]_vars, cfg.repo # "memory",
           NEW c \in Creates, creating'[c] = "created"
    PROVE  \E i \in DOMAIN mappings' : mappings'[i] = Mapping[c]
  <1>1. mappings \in Seq(Rows) /\ \A d \in Creates : Mapping[d] \in Rows
    BY Constants DEF TypeOK, Rows
  <1>2. CASE creating[c] = "created"
    <2>1. PICK i \in DOMAIN mappings : mappings[i] = Mapping[c]
      BY <1>2 DEF CreateInv
    <2>2. ASSUME NEW d \in Creates, mappings' = Append(mappings, Mapping[d])
          PROVE  i \in DOMAIN mappings' /\ mappings'[i] = mappings[i]
      BY <1>1, <2>2, AppendedRow
    <2>. QED
      BY <2>1, <2>2, RowsOnlyAdded
  <1>3. CASE creating[c] # "created"
    <2>1. ASSUME NEW d \in Creates, Create(d) PROVE FALSE
      BY <1>3, <2>1 DEF Create, TypeOK
    <2>2. ASSUME NEW d \in Creates, Add(d)
          PROVE  mappings' = Append(mappings, Mapping[c])
      BY <1>3, <2>2 DEF Add, InsertRow, TypeOK
    <2>3. ASSUME NEW m \in Messages, Publish(m) \/ Receive(m) PROVE FALSE
      BY <1>3, <2>3 DEF Publish, Receive, ReadFails, LookUp, Found, Deliver, Refuse
    <2>4. ~Restart
      BY <1>3 DEF Restart
    <2>5. mappings' = Append(mappings, Mapping[c])
      BY <1>3, <2>1, <2>2, <2>3, <2>4 DEF Next
    <2>6. /\ Len(mappings) + 1 \in DOMAIN mappings'
          /\ mappings'[Len(mappings) + 1] = Mapping[c]
      BY <1>1, <2>5, AppendedRow
    <2>. QED
      BY <2>6
  <1>. QED
    BY <1>2, <1>3

(* In memory, the only request finds the slice empty and stores its row.   *)
Alone(c) == \A d \in Creates \ {c} : creating[d] = "none"

OnlyMapping(c) ==
    IF creating[c] = "created"
      THEN mappings = <<Mapping[c]>>
      ELSE mappings = <<>> /\ seen[c] = <<>>

LEMMA AloneStep ==
    ASSUME TypeOK, CreateInv, [Next]_vars, cfg.repo = "memory", ~restarted',
           NEW c \in Creates, Alone(c)'
    PROVE  OnlyMapping(c)'
  <1>1. /\ creating \in [Creates -> {"none", "adding", "created", "refused"}]
        /\ DOMAIN seen = Creates
    BY DEF TypeOK
  <1>2. ASSUME ~restarted, Alone(c) PROVE OnlyMapping(c)
    BY <1>2 DEF CreateInv, Alone, OnlyMapping
  <1>3. CASE UNCHANGED <<creating, mappings, seen, restarted>>
    BY <1>2, <1>3 DEF Alone, OnlyMapping
  <1>4. ASSUME NEW d \in Creates, Create(d) PROVE OnlyMapping(c)'
    <2>1. d = c
      BY <1>1, <1>4 DEF Create, Alone
    <2>2. ~restarted /\ Alone(c)
      <3>1. ~restarted
        BY <1>4, Zenon DEF Create
      <3>2. \A e \in Creates \ {c} : creating'[e] = "none" /\ creating'[e] = creating[e]
        BY <1>1, <1>4, <2>1 DEF Create, Alone
      <3>. QED
        BY <3>1, <3>2, Zenon DEF Alone
    <2>3. mappings = <<>> /\ seen[c] = <<>>
      BY <1>2, <1>4, <2>1, <2>2 DEF Create, OnlyMapping
    <2>4. creating'[c] # "created" /\ mappings' = <<>>
      BY <1>1, <1>4, <2>1, <2>3 DEF Create
    <2>5. seen' = seen \/ seen' = [seen EXCEPT ![c] = mappings]
      BY <1>4, <2>1, Zenon DEF Create
    <2>6. seen'[c] = <<>>
      BY <1>1, <2>3, <2>5
    <2>. QED
      BY <2>4, <2>6 DEF OnlyMapping
  <1>5. ASSUME NEW d \in Creates, Add(d) PROVE OnlyMapping(c)'
    <2>1. /\ creating[d] = "adding" /\ restarted' = restarted
          /\ creating' = [creating EXCEPT ![d] = "created"]
          /\ mappings' = Append(seen[d], Mapping[d])
      BY <1>5 DEF Add, AppendInMemory
    <2>2. d = c
      BY <1>1, <2>1 DEF Alone
    <2>3. ~restarted /\ Alone(c)
      <3>1. ~restarted
        BY <2>1, Zenon
      <3>2. \A e \in Creates \ {c} : creating'[e] = "none" /\ creating'[e] = creating[e]
        BY <1>1, <2>1, <2>2 DEF Alone
      <3>. QED
        BY <3>1, <3>2, Zenon DEF Alone
    <2>4. seen[c] = <<>>
      BY <1>2, <2>1, <2>2, <2>3 DEF OnlyMapping
    <2>5. mappings' = <<Mapping[c]>>
      BY <2>1, <2>2, <2>4
    <2>. QED
      BY <1>1, <2>1, <2>2, <2>5 DEF OnlyMapping
  <1>6. ASSUME NEW m \in Messages, Publish(m) \/ Receive(m)
        PROVE  UNCHANGED <<creating, mappings, seen, restarted>>
    BY <1>6 DEF Publish, Receive, ReadFails, LookUp, Found, Deliver, Refuse
  <1>7. ~Restart
    BY DEF Restart
  <1>. QED
    BY <1>3, <1>4, <1>5, <1>6, <1>7 DEF Next

LEMMA CreateStep ==
    ASSUME TypeOK, CreateInv, [Next]_vars PROVE CreateInv'
  <1>1. cfg' = cfg
    BY ConfigStays
  <1>2. ASSUME NEW c \in Creates, cfg.repo # "memory", creating'[c] = "created"
        PROVE  \E i \in DOMAIN mappings' : mappings'[i] = Mapping[c]
    BY <1>2, CreatedRowStep
  <1>3. ASSUME NEW c \in Creates, cfg.repo = "memory", ~restarted', Alone(c)'
        PROVE  OnlyMapping(c)'
    BY <1>3, AloneStep
  <1>. QED
    BY <1>1, <1>2, <1>3 DEF CreateInv, Alone, OnlyMapping

(***************************************************************************)
(* The theorems.                                                           *)
(***************************************************************************)

LEMMA RoutingInit == Init => RoutingInv
  <1>. SUFFICES ASSUME Init PROVE RoutingInv
    OBVIOUS
  <1>1. TypeOK
    BY TypeInit
  <1>2. WireInv
    BY DEF Init, WireInv
  <1>3. TargetInv /\ RoutedInv
    BY DEF Init, TargetInv, RoutedInv
  <1>4. CreateInv
    BY DEF Init, CreateInv
  <1>. QED
    BY <1>1, <1>2, <1>3, <1>4 DEF RoutingInv

LEMMA RoutingStep == RoutingInv /\ [Next]_vars => RoutingInv'
  BY TypeStep, WireStep, TargetStep, RoutedStep, CreateStep DEF RoutingInv

(* The states of mappings, requests and messages, and what they say of     *)
(* what was published, found and created, for every configuration          *)
(* (internal/shards, pkg/compliance, file_receiver.go:287-463).            *)
THEOREM RoutingInvariant == Spec => []RoutingInv
  BY RoutingInit, RoutingStep, PTL DEF Spec

(* The mappings, requests and messages are well typed, and the key of a    *)
(* database's table is unique (repository.go:95-132).                      *)
THEOREM TypeCorrect == Spec => []TypeOK
  <1>1. RoutingInv => TypeOK
    BY DEF RoutingInv
  <1>. QED
    BY <1>1, RoutingInvariant, PTL

(* Every event that was read had compatible transforms around it, and none *)
(* that could not be read had (compliance.go:26-85).                       *)
THEOREM ReadIffCompatibleAlways == Spec => []ReadIffCompatible
  <1>1. RoutingInv => ReadIffCompatible
    <2>. SUFFICES ASSUME RoutingInv, NEW m \in Messages
                  PROVE  /\ message[m] = "unread" => ~Compatible(cfg.http, cfg.kafka)
                         /\ message[m] \in {"found", "committed"} =>
                               Compatible(cfg.http, cfg.kafka)
      BY DEF ReadIffCompatible
    <2>. SUFFICES ASSUME message[m] \in {"unread", "found", "committed"}
                  PROVE  Reveal(cfg.kafka, wire[m]) = <<>>
                           <=> Compatible(cfg.http, cfg.kafka)
      BY DEF RoutingInv, WireInv
    <2>1. /\ wire[m] = Protect(cfg.http)
          /\ "unknown" \notin {cfg.http.encoding, cfg.http.encryption}
      BY DEF RoutingInv, WireInv
    <2>2. /\ {cfg.http.encoding, cfg.kafka.encoding} \subseteq Encodings
          /\ {"gzip", "base64", "json", "unreadable"}
                \cap {cfg.http.encryption, cfg.kafka.encryption} = {}
      BY RoutingAssumption DEF RoutingInv, TypeOK
    <2>. QED
      BY <2>1, <2>2, RevealIffCompatible
  <1>. QED
    BY <1>1, RoutingInvariant, PTL

(* With a database a file and its cancellation end at the same shard,      *)
(* unless the key was mapped between their lookups, or the cancellation's  *)
(* lookup failed and no shard got it (file_receiver.go:405-440, 501-521).  *)
THEOREM CancelFollowsFileAlways == Spec => []CancelFollowsFile
  <1>1. RoutingInv => CancelFollowsFile
    <2>. SUFFICES ASSUME RoutingInv, cfg.repo # "memory", NEW f \in Files,
                         message[<<"queue", f>>] = "committed",
                         message[<<"cancel", f>>] = "committed"
                  PROVE  \/ routed[<<"cancel", f>>] = routed[<<"queue", f>>]
                         \/ {saw[<<"queue", f>>], saw[<<"cancel", f>>]} = {"row", "no row"}
                         \/ /\ saw[<<"cancel", f>>] = "error"
                            /\ routed[<<"cancel", f>>] = None
      BY DEF CancelFollowsFile
    <2>. DEFINE file == <<"queue", f>>
                cancel == <<"cancel", f>>
    <2>1. /\ file \in Messages /\ ShardKey(file) = KeyOf[f] /\ Kind(file) = "queue"
          /\ cancel \in Messages /\ ShardKey(cancel) = KeyOf[f]
      BY DEF Messages, ShardKey, FileID, Kind
    <2>2. /\ routed[file] = target[file] /\ routed[cancel] = target[cancel]
          /\ target[file] # None
          /\ saw[file] \in {"row", "no row", "error"}
          /\ saw[cancel] \in {"row", "no row", "error"}
      BY <2>1 DEF RoutingInv, RoutedInv, TypeOK
    <2>3. \A m \in {file, cancel} : TargetOf(m)
      BY <2>1 DEF RoutingInv, TargetInv, TargetOf
    <2>. QED
      BY <2>1, <2>2, <2>3 DEF TargetOf
  <1>. QED
    BY <1>1, RoutingInvariant, PTL

(* A mapping answered with 201 is the one its key is looked up with; in    *)
(* memory, unless there was another request or a restart                   *)
(* (repository.go:57-132, inmemory_repository.go:28-56).                   *)
THEOREM CreatedIsFoundAlways == Spec => []CreatedIsFound
  <1>1. RoutingInv => CreatedIsFound
    <2>. SUFFICES ASSUME RoutingInv, NEW c \in Creates, creating[c] = "created"
                  PROVE  \/ /\ HasMapping(mappings, Mapping[c].key)
                            /\ ShardName(mappings, Mapping[c].key) = Mapping[c].name
                         \/ /\ cfg.repo = "memory"
                            /\ restarted \/ \E d \in Creates \ {c} : creating[d] # "none"
      BY DEF CreatedIsFound
    <2>1. mappings \in Seq(Rows)
      BY DEF RoutingInv, TypeOK, Rows
    <2>2. ASSUME UniqueKeys(mappings), \E i \in DOMAIN mappings : mappings[i] = Mapping[c]
          PROVE  /\ HasMapping(mappings, Mapping[c].key)
                 /\ ShardName(mappings, Mapping[c].key) = Mapping[c].name
      BY <2>1, <2>2, OnlyRow DEF HasMapping
    <2>3. CASE cfg.repo # "memory"
      <3>1. UniqueKeys(mappings)
        BY <2>3 DEF RoutingInv, TypeOK, UniqueKeys
      <3>2. \E i \in DOMAIN mappings : mappings[i] = Mapping[c]
        BY <2>3 DEF RoutingInv, CreateInv
      <3>. QED
        BY <2>2, <3>1, <3>2
    <2>4. CASE cfg.repo = "memory" /\ ~restarted /\ Alone(c)
      <3>1. mappings = <<Mapping[c]>>
        BY <2>4 DEF RoutingInv, CreateInv, Alone
      <3>2. DOMAIN mappings = {1} /\ mappings[1] = Mapping[c]
        BY <3>1
      <3>. QED
        BY <2>2, <3>2 DEF UniqueKeys
    <2>. QED
      BY <2>3, <2>4 DEF Alone
  <1>. QED
    BY <1>1, RoutingInvariant, PTL

(* No step changes or removes the answer a database has for a key: a       *)
(* client that saw where its files go keeps seeing it, restarts included   *)
(* (repository.go:57-132: the key is unique and no row is updated).        *)
DatabaseAnswerStays ==
    [][cfg.repo # "memory" =>
          \A key \in Keys : HasMapping(mappings, key) =>
             /\ HasMapping(mappings', key)
             /\ ShardName(mappings', key) = ShardName(mappings, key)]_vars

(* The database's answers stay (repository.go:57-132).                     *)
THEOREM DatabaseAnswerStaysAlways == Spec => DatabaseAnswerStays
  <1>1. RoutingInv /\ [Next]_vars =>
           [cfg.repo # "memory" =>
              \A key \in Keys : HasMapping(mappings, key) =>
                 /\ HasMapping(mappings', key)
                 /\ ShardName(mappings', key) = ShardName(mappings, key)]_vars
    BY DatabaseAnswer DEF RoutingInv
  <1>. QED
    BY <1>1, RoutingInvariant, PTL DEF Spec, DatabaseAnswerStays

=============================================================================
