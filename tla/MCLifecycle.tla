---------------------------- MODULE MCLifecycle ----------------------------
(* Instances of Lifecycle for TLC.                                         *)
EXTENDS Lifecycle

OneShard == {"east"}
TwoWindows == {"morning", "evening"}
(* The banking day is the first: its windows may be served after midnight. *)
TwoDays == <<"banking", "holiday">>

(* One client names a shard twice, the other an unknown one before it.     *)
TwoRequests == {"twice", "ghost"}
TargetsOfTwo == [twice |-> <<"east", "east">>, ghost |-> <<"ghost", "east">>]
=============================================================================
