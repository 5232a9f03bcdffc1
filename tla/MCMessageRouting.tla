-------------------------- MODULE MCMessageRouting --------------------------
(* Instances of MessageRouting for TLC.                                    *)
EXTENDS MessageRouting

FileIDs == {"f"}
KeyOfFiles == [f \in FileIDs |-> "k"]

(* The key is mapped twice, and once to no name.                           *)
Requests == {"first", "second", "empty"}
MappingOfRequests ==
    [c \in Requests |->
       [key |-> "k",
        name |-> CASE c = "first" -> "A" [] c = "second" -> "B" [] OTHER -> ""]]

Plain == [encoding |-> "none", encryption |-> "none"]
UnknownCipher == [encoding |-> "none", encryption |-> "unknown"]
Senders == [encoding : Encodings, encryption : {"none", "key"}]
              \cup {UnknownCipher}
Receivers == [encoding : Encodings, encryption : {"none", "key", "other"}]
                \cup {UnknownCipher}

(* Every repository, with the default shard "D", with a shard of the key's *)
(* own name, and with neither, with AutoCommit too where lookups find a    *)
(* shard or none, and every pair of transforms once.                       *)
AllConfigs ==
    [repo : {"memory", "sql", "spanner"},
     shards : {{"A", "B", "D"}, {"A", "B", "k"}, {"A"}},
     http : {Plain}, kafka : {Plain}, autoCommit : {FALSE}]
    \cup
    [repo : {"sql", "spanner"}, shards : {{"A", "B", "k"}, {"A"}},
     http : {Plain}, kafka : {Plain}, autoCommit : {TRUE}]
    \cup
    [repo : {"sql"}, shards : {{"k"}}, http : Senders, kafka : Receivers,
     autoCommit : {FALSE}]

(* Spanner, with a shard of the key's own name.                            *)
SpannerConfigs ==
    [repo : {"spanner"}, shards : {{"A", "B", "k"}}, http : {Plain}, kafka : {Plain},
     autoCommit : {FALSE}]
=============================================================================
