---------------------------- MODULE UploadProofs ----------------------------
(***************************************************************************)
(* Theorems about one call of uploadFile for every size of file, every     *)
(* number of retries and every list of senders and alerters.               *)
(***************************************************************************)
EXTENDS UploadFile, TLAPS

USE DEF config, uploadVars, notifyVars, alertVars, vars

(* The attempts so far: none but the first without the retry wrapper, and  *)
(* one is left where the agent is about to be called.                      *)
Counted ==
    /\ pc \in {"prepare", "dial"} => attempts <= MaxRetries
    /\ pc \in {"prepare", "dial"} /\ ~retrying => attempts = 0
    /\ pc \notin {"prepare", "dial"} /\ audited /\ ~retrying => attempts = 1
    /\ pc \notin {"prepare", "dial"} /\ audited => attempts > 0
    /\ pc = "prepare" => ~audited
    /\ pc \notin {"prepare", "done"} => audited

(* Until an attempt fails midway, the server and the buffer have the file  *)
(* between them.                                                           *)
Accounted ==
    /\ ~begun /\ pc \in {"prepare", "dial"} => unread = Size
    /\ pc = "transfer" => server >= 0 /\ server + unread <= Size
    /\ ~begun /\ pc = "transfer" => server + unread = Size
    /\ ~begun /\ pc = "returned" /\ err # "none" => unread = Size
    /\ ~begun /\ attempts > 0 /\ err = "none" /\ pc # "transfer" => server = Size
    /\ begun /\ ~retrying => /\ err # "none"
                            /\ pc \notin {"prepare", "dial", "transfer"}
    /\ pc = "transfer" => err = "none"

(* What UploadFile reports is what the last attempt returned, but for the  *)
(* errors that are not retried.                                            *)
Reported ==
    /\ pc \in {"prepare", "dial", "transfer", "returned"} => reported = "none"
    /\ reported = "nil" => attempts > 0 /\ (err = "none" \/ (retrying /\ err = "other"))
    /\ reported = "nil" => pc # "transfer"

(* The senders before the present one have had their turn, and the others  *)
(* have not.                                                               *)
Notifying ==
    /\ pc \in {"prepare", "dial", "transfer", "returned"} => sender = 1
    /\ pc \in {"prepare", "dial", "transfer", "returned", "notify"} =>
          /\ ~noSender
          /\ \A i \in 1..Len(Senders) :
                IF i < sender THEN outcome[i] \in {kind, "error", "ignored"}
                              ELSE outcome[i] = "none"
    /\ pc = "alert" =>
          \A i \in 1..Len(Senders) :
             IF noSender THEN outcome[i] = "none"
                         ELSE outcome[i] \in {kind, "error", "ignored"}

UploadInv ==
    /\ TypeOK
    /\ Counted /\ Accounted /\ Reported /\ Notifying
    /\ ErrorMeansExhausted /\ EverySenderTried

(* The bounds are natural numbers.                                         *)
LEMMA Bounds ==
    /\ Size \in Nat /\ Size > 0
    /\ MaxRetries \in Nat /\ MaxNotifyRetries \in Nat
    /\ Len(Senders) \in Nat /\ Len(Alerters) \in Nat
  BY UploadAssumption

(* The call starts with a full buffer.                                     *)
LEMMA UploadInit == Init => UploadInv
  <1>. SUFFICES ASSUME Init PROVE UploadInv
    OBVIOUS
  <1>1. {retrying, notifyAgain, audited, begun, noSender} \subseteq BOOLEAN
    BY Zenon DEF Init
  <1>2. TypeOK
    BY <1>1, Bounds DEF Init, TypeOK, Results
  <1>3. Counted /\ Accounted /\ Reported
    BY Bounds DEF Init, Counted, Accounted, Reported
  <1>4. Notifying /\ ErrorMeansExhausted /\ EverySenderTried
    BY DEF Init, Notifying, ErrorMeansExhausted, EverySenderTried
  <1>. QED  BY <1>2, <1>3, <1>4 DEF UploadInv

(* Preparing the upload leaves the buffer alone.                           *)
LEMMA UploadPrepare ==
    ASSUME UploadInv, Prepare
    PROVE  UploadInv'
  <1>1. {retrying, notifyAgain, audited, begun, noSender}' \subseteq BOOLEAN
    BY Zenon DEF UploadInv, TypeOK, Prepare
  <1>2. TypeOK'
    BY <1>1, Bounds DEF UploadInv, TypeOK, Results, Prepare
  <1>3. (Counted /\ Accounted /\ Reported)'
    BY Bounds DEF UploadInv, TypeOK, Counted, Accounted, Reported, Prepare
  <1>4. (Notifying /\ ErrorMeansExhausted /\ EverySenderTried)'
    BY DEF UploadInv, Counted, Reported, Notifying, ErrorMeansExhausted,
           EverySenderTried, Prepare
  <1>. QED  BY <1>2, <1>3, <1>4 DEF UploadInv

(* A connection is one more attempt.                                       *)
LEMMA UploadDial ==
    ASSUME UploadInv, Dial
    PROVE  UploadInv'
  <1>1. {retrying, notifyAgain, audited, begun, noSender}' \subseteq BOOLEAN
    BY Zenon DEF UploadInv, TypeOK, Dial
  <1>2. TypeOK'
    BY <1>1, Bounds DEF UploadInv, TypeOK, Counted, Results, Dial
  <1>3. Counted'
    BY Bounds DEF UploadInv, TypeOK, Counted, Dial
  <1>4. (Accounted /\ Reported)'
    BY Bounds DEF UploadInv, TypeOK, Counted, Accounted, Reported, Dial
  <1>5. (Notifying /\ ErrorMeansExhausted /\ EverySenderTried)'
    BY DEF UploadInv, Reported, Notifying, ErrorMeansExhausted,
           EverySenderTried, Dial
  <1>. QED  BY <1>2, <1>3, <1>4, <1>5 DEF UploadInv

(* Each chunk leaves the buffer for the server, or is lost with the        *)
(* attempt.                                                                *)
LEMMA UploadTransfer ==
    ASSUME UploadInv, Transfer
    PROVE  UploadInv'
  <1>1. {retrying, notifyAgain, audited, begun, noSender}' \subseteq BOOLEAN
    BY Zenon DEF UploadInv, TypeOK, Transfer
  <1>2. TypeOK'
    BY <1>1, Bounds
    DEF UploadInv, TypeOK, Counted, Accounted, Results, Transfer
  <1>3. Counted'
    BY Bounds DEF UploadInv, TypeOK, Counted, Transfer
  <1>4. (Accounted /\ Reported)'
    BY Bounds DEF UploadInv, TypeOK, Counted, Accounted, Reported, Transfer
  <1>5. (Notifying /\ ErrorMeansExhausted /\ EverySenderTried)'
    BY DEF UploadInv, Reported, Notifying, ErrorMeansExhausted,
           EverySenderTried, Transfer
  <1>. QED  BY <1>2, <1>3, <1>4, <1>5 DEF UploadInv

(* The wrapper dials again only while an attempt is left, and reports what *)
(* the last one returned.                                                  *)
LEMMA UploadReturn ==
    ASSUME UploadInv, Return
    PROVE  UploadInv'
  <1>1. {retrying, notifyAgain, audited, begun, noSender}' \subseteq BOOLEAN
    BY Zenon DEF UploadInv, TypeOK, Return
  <1>2. TypeOK'
    BY <1>1, Bounds DEF UploadInv, TypeOK, Results, Return
  <1>3. Counted'
    BY Bounds DEF UploadInv, TypeOK, Counted, Return, Retries
  <1>4. (Accounted /\ Reported)'
    BY Bounds
    DEF UploadInv, TypeOK, Counted, Accounted, Reported, Return, Retries
  <1>5. (Notifying /\ EverySenderTried)'
    BY Bounds
    DEF UploadInv, TypeOK, Reported, Notifying, EverySenderTried, Return
  <1>6. ErrorMeansExhausted'
    BY Bounds
    DEF UploadInv, TypeOK, Counted, Reported, ErrorMeansExhausted, Return,
        Retries
  <1>. QED  BY <1>2, <1>3, <1>4, <1>5, <1>6 DEF UploadInv

(* The rest of the call does not touch the upload.                         *)
LEMMA UploadKept ==
    ASSUME UploadInv, UNCHANGED <<config, uploadVars>>,
           UNCHANGED noSender \/ noSender' = TRUE,
           pc \in {"notify", "alert"}, pc' \in {"notify", "alert", "done"}
    PROVE  /\ {retrying, notifyAgain, audited, begun, noSender}' \subseteq BOOLEAN
           /\ (Counted /\ Accounted /\ Reported /\ ErrorMeansExhausted)'
           /\ kind' = kind
  <1>1. {retrying, notifyAgain, audited, begun, noSender}' \subseteq BOOLEAN
    BY Zenon DEF UploadInv, TypeOK
  <1>2. (Counted /\ Accounted /\ Reported /\ ErrorMeansExhausted)'
    BY DEF UploadInv, Counted, Accounted, Reported, ErrorMeansExhausted
  <1>3. kind' = kind
    BY DEF kind
  <1>. QED  BY <1>1, <1>2, <1>3

(* A sender has its turn and those before it keep their outcome.           *)
LEMMA UploadNextSender ==
    ASSUME UploadInv, NEW o \in {kind, "error", "ignored"}, NextSender(o),
           pc = "notify", sender <= Len(Senders),
           UNCHANGED <<config, pc, uploadVars, alertVars>>
    PROVE  UploadInv'
  <1>. USE UploadKept
  <1>1. o \in {"info", "critical", "error", "ignored"}
    BY DEF kind
  <1>2. TypeOK'
    BY <1>1, Bounds DEF UploadInv, TypeOK, Results, NextSender
  <1>3. Notifying'
    BY Bounds DEF UploadInv, TypeOK, Notifying, NextSender
  <1>4. EverySenderTried'
    BY DEF EverySenderTried
  <1>. QED  BY <1>2, <1>3, <1>4 DEF UploadInv, NextSender

(* The steps of MultiSender.                                               *)
LEMMA UploadNotify ==
    ASSUME UploadInv, NoSender \/ Send \/ SendFails \/ Notified
    PROVE  UploadInv'
  <1>1. CASE NoSender
    <2>1. TypeOK'
      BY <1>1, UploadKept, Bounds DEF UploadInv, TypeOK, Results, NoSender
    <2>2. (Notifying /\ EverySenderTried)'
      BY <1>1, Bounds
      DEF UploadInv, TypeOK, Notifying, EverySenderTried, NoSender
    <2>. QED  BY <1>1, <2>1, <2>2, UploadKept DEF UploadInv, NoSender
  <1>2. CASE Send
    BY <1>2, UploadNextSender DEF Send
  <1>3. CASE SendFails
    <2>1. CASE NextSender("error") \/ NextSender("ignored")
      BY <1>3, <2>1, UploadNextSender DEF SendFails
    <2>2. CASE /\ tries < MaxNotifyRetries
               /\ tries' = tries + 1
               /\ UNCHANGED <<noSender, sender, outcome>>
      <3>1. TypeOK'
        BY <1>3, <2>2, UploadKept, Bounds
        DEF UploadInv, TypeOK, Results, SendFails
      <3>2. (Notifying /\ EverySenderTried)'
        BY <1>3, <2>2, UploadKept
        DEF UploadInv, Notifying, EverySenderTried, SendFails
      <3>. QED  BY <1>3, <2>2, <3>1, <3>2, UploadKept DEF UploadInv, SendFails
    <2>. QED  BY <1>3, <2>1, <2>2 DEF SendFails
  <1>4. CASE Notified
    <2>1. TypeOK'
      BY <1>4, UploadKept, Bounds DEF UploadInv, TypeOK, Results, Notified
    <2>2. (Notifying /\ EverySenderTried)'
      BY <1>4, UploadKept, Bounds
      DEF UploadInv, TypeOK, Notifying, EverySenderTried, Notified
    <2>. QED  BY <1>4, <2>1, <2>2, UploadKept DEF UploadInv, Notified
  <1>. QED  BY <1>1, <1>2, <1>3, <1>4

(* The alerters leave the notifications alone.                             *)
LEMMA UploadAlert ==
    ASSUME UploadInv, AlertError
    PROVE  UploadInv'
  <1>1. /\ UNCHANGED <<config, uploadVars, notifyVars>>
        /\ pc = "alert" /\ pc' \in {"alert", "done"}
    BY DEF AlertError
  <1>2. alerter' \in 1..(Len(Alerters) + 1) /\ alerted' \subseteq 1..Len(Alerters)
    <2>1. alerter \in 1..(Len(Alerters) + 1) /\ alerted \subseteq 1..Len(Alerters)
      BY DEF UploadInv, TypeOK
    <2>2. \/ UNCHANGED alertVars
          \/ /\ ~(alerter > Len(Alerters))
             /\ alerter' = alerter + 1
             /\ alerted' = alerted \cup {alerter}
      BY DEF AlertError
    <2>3. CASE UNCHANGED alertVars
      BY <2>1, <2>3
    <2>4. CASE /\ ~(alerter > Len(Alerters))
               /\ alerter' = alerter + 1
               /\ alerted' = alerted \cup {alerter}
      <3>1. alerter \in 1..Len(Alerters) /\ alerter' \in 1..(Len(Alerters) + 1)
        BY <2>1, <2>4, Bounds
      <3>. QED  BY <2>1, <2>4, <3>1, Zenon
    <2>. QED  BY <2>2, <2>3, <2>4
  <1>3. TypeOK'
    BY <1>1, <1>2, UploadKept, Bounds DEF UploadInv, TypeOK, Results
  <1>4. (Notifying /\ EverySenderTried)'
    BY <1>1, UploadKept DEF UploadInv, Notifying, EverySenderTried
  <1>. QED  BY <1>1, <1>3, <1>4, UploadKept DEF UploadInv

(* A call that stutters changes nothing.                                   *)
LEMMA UploadStutters ==
    ASSUME UploadInv, UNCHANGED vars
    PROVE  UploadInv'
  BY Zenon
  DEF UploadInv, TypeOK, Counted, Accounted, Reported, Notifying,
      ErrorMeansExhausted, EverySenderTried, kind

(* What the parts of the call have done between two of its steps, for all  *)
(* sizes, retries, senders and alerters (aggregate.go:330-421).            *)
THEOREM UploadInvariant == Spec => []UploadInv
  <1>1. UploadInv /\ [Next]_vars => UploadInv'
    BY UploadPrepare, UploadDial, UploadTransfer, UploadReturn, UploadNotify,
       UploadAlert, UploadStutters
    DEF Next
  <1>. QED  BY <1>1, UploadInit, PTL DEF Spec

(* Every variable keeps its type (aggregate.go, retry.go, multi.go).        *)
THEOREM UploadTypeCorrect == Spec => []TypeOK
  <1>1. UploadInv => TypeOK
    BY DEF UploadInv
  <1>. QED  BY <1>1, UploadInvariant, PTL

(* A reported success is a whole file but for errors that are not retried  *)
(* and retries of a consumed buffer (retry.go:43-51, 92-100).              *)
THEOREM SuccessMeansWholeAlways == Spec => []SuccessMeansWhole
  <1>1. UploadInv => SuccessMeansWhole
    BY Bounds
    DEF UploadInv, TypeOK, Counted, Accounted, Reported, SuccessMeansWhole
  <1>. QED  BY <1>1, UploadInvariant, PTL

(* An upload is given up only after every configured retry                 *)
(* (retry.go:53-60, 92-100).                                               *)
THEOREM ErrorMeansExhaustedAlways == Spec => []ErrorMeansExhausted
  <1>1. UploadInv => ErrorMeansExhausted
    BY DEF UploadInv
  <1>. QED  BY <1>1, UploadInvariant, PTL

(* Every sender is tried, whichever fails, unless they cannot all be set   *)
(* up; then none is (multi.go:39-64, 98-132).                              *)
THEOREM EverySenderTriedAlways == Spec => []EverySenderTried
  <1>1. UploadInv => EverySenderTried
    BY DEF UploadInv
  <1>. QED  BY <1>1, UploadInvariant, PTL
=============================================================================
