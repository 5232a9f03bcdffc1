-------------------------- MODULE MCODFIScheduler --------------------------
(* Instances of ODFIScheduler for TLC.                                     *)
EXTENDS ODFIScheduler

(* A return, and a file of no bytes, in two remote directories.            *)
ReturnAndEmpty == {"ret", "zero"}

(* A correction beside a file that cannot be parsed, and a prenote in      *)
(* another shard.                                                          *)
Spoiled == {"noc", "bad", "pre"}

ContentOf == [noc  |-> {"batches", "corrections"},
              ret  |-> {"batches", "returns"},
              bad  |-> {},
              pre  |-> {"batches", "prenotes"},
              zero |-> {}]

ContentOfFiles == [f \in Files |-> ContentOf[f]]
ShardOfFiles == [f \in Files |-> IF f = "pre" THEN "second" ELSE "first"]
PathOfFiles == [f \in Files |-> CASE f = "ret" -> "return"
                                 [] f = "pre" -> "reconciliation"
                                 [] OTHER -> "inbound"]

(* A configured shard may not be known.                                    *)
BothShards == <<"first", "second">>
WithUnknown == <<"ghost", "first">>
KnownShards == {"first", "second"}

(* Only the reconciliation processor selects by path.                      *)
MatchesByPath ==
    [p \in Processors |->
       IF p = "reconciliation" THEN Files \cap {"pre", "ret"} ELSE Files]
BothEvents == {"ReconciliationFile", "ReconciliationEntry"}

AllProcessors == Processors
ExcludePrenotes == {"prenotes"}

(* Everything can go wrong, names used twice included.                     *)
AnyFailure == Failures
=============================================================================
