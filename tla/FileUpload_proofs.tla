--------------------------- MODULE FileUpload_proofs ---------------------------
(*****************************************************************************)
(* Proofs about mfs_store_file_or_bytes, for every max_retries and every     *)
(* behaviour of the trackers and file servers.                               *)
(*****************************************************************************)
EXTENDS FileUpload, TLAPS

USE RetriesAssumption, NoReplyAssumption DEF Replies, Field

Safe == TypeOK /\ Counted /\ ConnectionsAccounted

LEMMA SafeInit == Init => Safe
  BY DEF Init, Sources, Safe, TypeOK, Counted, ConnectionsAccounted

LEMMA SafeStep == Safe /\ [Next]_vars => Safe'
<1> SUFFICES ASSUME Safe, [Next]_vars PROVE Safe'
  OBVIOUS
<1> USE DEF Safe, TypeOK, Sources, Counted, ConnectionsAccounted, EndAttempt, Content,
        requestVars, putVars
<1>1. CASE create_open
  <2>1. replies' = replies + 1 /\ replies' \in Replies /\ pc = "open" /\ call_tracker
    BY <1>1 DEF create_open
  <2>2. result' \in [Field -> Replies \cup {None}]
    <3>1. PICK sent : result' = [f \in Field |->
                                    IF f \in sent THEN replies' ELSE result[f]]
      BY <1>1 DEF create_open
    <3> QED BY <2>1, <3>1
  <2>3. given' \in [Field -> Replies \cup {None}]
    BY <1>1, <2>2 DEF create_open
  <2>4. CASE \E f \in Field : result'[f] = None
    <3>1. EndAttempt("error") /\ UNCHANGED call_tracker
      BY <1>1, <2>4 DEF create_open
    <3> QED BY <1>1, <2>1, <2>2, <2>3, <3>1 DEF create_open
  <2>5. CASE ~(\E f \in Field : result'[f] = None)
    <3>1. call_tracker' = FALSE /\ pc' = "put" /\ rv' = "success" /\ UNCHANGED attempt_count
      BY <1>1, <2>5 DEF create_open
    <3>2. \A f \in Field : given'[f] = result'[f] /\ given'[f] # None
      BY <1>1, <2>5 DEF create_open
    <3>3. UNCHANGED <<source, putVars, committed>>
      BY <1>1 DEF create_open
    <3>4. TypeOK'
      <4>1. call_tracker' \in BOOLEAN
        BY <3>1
      <4>2. replies' \in 0 .. max_retries
        BY <2>1
      <4> QED BY <2>2, <2>3, <3>1, <3>3, <4>1, <4>2, Zenon
    <3>5. Counted'
      BY <2>1, <3>1, <3>2, <3>3
    <3>6. ConnectionsAccounted'
      BY <2>1, <3>1, <3>3
    <3> QED BY <3>4, <3>5, <3>6
  <2> QED BY <2>4, <2>5
<1>2. CASE create_open_fails
  <2>1. PICK parsed \in SUBSET Field :
            /\ replies' = IF parsed = {} THEN replies ELSE replies + 1
            /\ result' = [f \in Field |-> IF f \in parsed THEN replies' ELSE result[f]]
    BY <1>2 DEF create_open_fails
  <2>2. pc = "open" /\ attempt_count < max_retries /\ replies <= attempt_count
    BY <1>2 DEF create_open_fails
  <2>3. replies' \in 0 .. max_retries /\ replies' <= attempt_count + 1
    BY <2>1, <2>2
  <2>4. result' \in [Field -> Replies \cup {None}]
    <3>1. CASE parsed # {}
      <4>1. replies' = replies + 1
        BY <2>1, <3>1
      <4>2. replies' \in Replies
        BY <2>3, <4>1
      <4> QED BY <2>1, <4>2, Zenon
    <3>2. CASE parsed = {}
      BY <2>1, <3>2, Zenon
    <3> QED BY <3>1, <3>2
  <2>5. replies' = 0 => \A f \in Field : result'[f] = None
    <3>1. replies' = 0 => parsed = {} /\ replies = 0
      BY <2>1
    <3> QED BY <2>1, <3>1, Zenon
  <2>6. /\ UNCHANGED <<given, call_tracker, source, putVars, committed>>
        /\ EndAttempt("error")
    BY <1>2 DEF create_open_fails
  <2>7. TypeOK'
    BY <2>2, <2>3, <2>4, <2>6
  <2>8. Counted'
    <3>1. replies' = 0 => replies = 0
      BY <2>1
    <3>2. replies' = 0 => \A f \in Field : result'[f] = None /\ given'[f] = None
      BY <2>5, <2>6, <3>1
    <3> QED BY <2>2, <2>3, <2>6, <3>2
  <2>9. ConnectionsAccounted'
    BY <2>2, <2>6
  <2> QED BY <2>7, <2>8, <2>9
<1>3. CASE reuse_reply
  BY <1>3 DEF reuse_reply
<1>4. CASE bad_url
  BY <1>4 DEF bad_url
<1>5. CASE seek_fails
  BY <1>5 DEF seek_fails
<1>6. CASE no_connection
  BY <1>6 DEF no_connection
<1>7. CASE begin_put
  BY <1>7 DEF begin_put
<1>8. CASE stat_fails
  BY <1>8 DEF stat_fails
<1>9. CASE put_ok
  <2>1. given["path"] \in Replies /\ pc = "perform" /\ pc' = "close" /\ rv' = "success"
    BY <1>9 DEF put_ok
  <2>2. storage' \in [Replies -> {"nothing", "partial", "whole"}]
    BY <1>9, <2>1 DEF put_ok
  <2>3. refused' \subseteq Replies
    BY <1>9, <2>1 DEF put_ok
  <2>4. /\ total_bytes' = "known" /\ at_start' \in BOOLEAN /\ out' = out - 1
        /\ UNCHANGED <<attempt_count, requestVars, source, puts, lost, committed>>
    BY <1>9 DEF put_ok
  <2>5. out' \in Nat
    BY <2>1, <2>4
  <2>6. TypeOK'
    BY <2>1, <2>2, <2>3, <2>4, <2>5
  <2> QED BY <2>1, <2>4, <2>6
<1>10. CASE put_error
  <2>1. given["path"] \in Replies /\ pc = "perform" /\ EndAttempt("error")
    BY <1>10 DEF put_error
  <2>2. storage' \in [Replies -> {"nothing", "partial", "whole"}]
    BY <1>10, <2>1 DEF put_error
  <2>3. /\ total_bytes' = "known" /\ at_start' \in BOOLEAN /\ out' = out - 1
        /\ UNCHANGED <<requestVars, source, refused, puts, lost, committed>>
    BY <1>10 DEF put_error
  <2>4. TypeOK'
    BY <2>1, <2>2, <2>3
  <2> QED BY <2>1, <2>3, <2>4
<1>11. CASE create_close
  BY <1>11 DEF create_close
<1>12. CASE create_close_fails
  BY <1>12 DEF create_close_fails
<1>13. CASE Returned \/ UNCHANGED vars
  <2>1. UNCHANGED vars
    BY <1>13 DEF Returned
  <2>2. TypeOK'
    BY <2>1 DEF vars
  <2>3. Counted' /\ ConnectionsAccounted'
    BY <2>1 DEF vars
  <2> QED BY <2>2, <2>3
<1> QED BY <1>1, <1>2, <1>3, <1>4, <1>5, <1>6, <1>7, <1>8, <1>9, <1>10, <1>11, <1>12, <1>13 DEF Next

LEMMA AlwaysSafe == Spec => []Safe
  BY SafeInit, SafeStep, PTL DEF Spec

\* Every variable keeps its type; in particular nothing unassigned is ever sent
\* to a file server or reported to a tracker (file_upload.c:257).
THEOREM UploadTypeCorrect == Spec => []TypeOK
<1>1. Safe => TypeOK
  BY DEF Safe
<1> QED BY <1>1, AlwaysSafe, PTL

\* A file server connection is given back after every PUT, on success and on
\* error; only a failing apr_file_info_get loses one.
THEOREM ConnectionsCorrect == Spec => []ConnectionsAccounted
<1>1. Safe => ConnectionsAccounted
  BY DEF Safe
<1> QED BY <1>1, AlwaysSafe, PTL
-------------------------------------------------------------------------------
(* The tracker is asked again after two PUTs.                                *)

LEMMA ParityInit == Init => Parity
  BY DEF Init, Sources, Parity

LEMMA ParityStep == Safe /\ Parity /\ [Next]_vars => Parity'
<1> SUFFICES ASSUME Safe, Parity, [Next]_vars PROVE Parity'
  OBVIOUS
<1> USE DEF Safe, TypeOK, Sources, Counted, Parity, EndAttempt, requestVars, putVars
<1>1. CASE create_open
  BY <1>1 DEF create_open
<1>2. CASE create_open_fails
  BY <1>2 DEF create_open_fails
<1>3. CASE reuse_reply
  BY <1>3 DEF reuse_reply
<1>4. CASE bad_url
  BY <1>4 DEF bad_url
<1>5. CASE seek_fails
  BY <1>5 DEF seek_fails
<1>6. CASE no_connection
  BY <1>6 DEF no_connection
<1>7. CASE begin_put
  BY <1>7 DEF begin_put
<1>8. CASE stat_fails
  BY <1>8 DEF stat_fails
<1>9. CASE put_ok
  BY <1>9 DEF put_ok
<1>10. CASE put_error
  BY <1>10 DEF put_error
<1>11. CASE create_close
  BY <1>11 DEF create_close
<1>12. CASE create_close_fails
  BY <1>12 DEF create_close_fails
<1>13. CASE Returned \/ UNCHANGED vars
  BY <1>13 DEF Returned, vars
<1> QED BY <1>1, <1>2, <1>3, <1>4, <1>5, <1>6, <1>7, <1>8, <1>9, <1>10, <1>11, <1>12, <1>13 DEF Next

\* No reply to create_open is used for a third PUT, for every number of retries,
\* whatever fails and whatever the replies lack (file_upload.c:256, 260, 280, 292).
THEOREM TriedTwiceCorrect == Spec => []TriedTwice
<1>1. Parity => TriedTwice
  BY DEF Parity, TriedTwice
<1> QED BY <1>1, ParityInit, ParityStep, AlwaysSafe, PTL DEF Spec
-------------------------------------------------------------------------------
(* What success means.                                                       *)

LEMMA DeliveredInit == Init => Delivered /\ SuccessMeansSent
  BY DEF Init, Sources, Delivered, SuccessMeansSent

LEMMA DeliveredStep ==
    ASSUME Safe, Delivered, SuccessMeansSent, [Next]_vars
    PROVE  Delivered' /\ SuccessMeansSent'
<1> USE DEF Safe, TypeOK, Sources, Counted, Delivered, SuccessMeansSent, EndAttempt, Content,
        requestVars, putVars
<1>1. CASE create_open
  BY <1>1 DEF create_open
<1>2. CASE create_open_fails
  BY <1>2 DEF create_open_fails
<1>3. CASE reuse_reply
  BY <1>3 DEF reuse_reply
<1>4. CASE bad_url
  BY <1>4 DEF bad_url
<1>5. CASE seek_fails
  BY <1>5 DEF seek_fails
<1>6. CASE no_connection
  BY <1>6 DEF no_connection
<1>7. CASE begin_put
  BY <1>7 DEF begin_put
<1>8. CASE stat_fails
  BY <1>8 DEF stat_fails
<1>9. CASE put_ok
  BY <1>9 DEF put_ok
<1>10. CASE put_error
  BY <1>10 DEF put_error
<1>11. CASE create_close
  BY <1>11 DEF create_close
<1>12. CASE create_close_fails
  BY <1>12 DEF create_close_fails
<1>13. CASE Returned \/ UNCHANGED vars
  BY <1>13 DEF Returned, vars
<1> QED BY <1>1, <1>2, <1>3, <1>4, <1>5, <1>6, <1>7, <1>8, <1>9, <1>10, <1>11, <1>12, <1>13 DEF Next

\* A store that reports success has told a tracker a path to which it sent the
\* content from the first byte to the last, and which holds it unless its file
\* server refused that PUT: whatever failed and was retried on the way, whatever
\* the replies lack (file_upload.c:205-226, 302-345).
THEOREM StoredCorrect == Spec => []SuccessMeansSent
<1>1. Safe /\ Delivered /\ SuccessMeansSent /\ [Next]_vars
         => Delivered' /\ SuccessMeansSent'
  BY DeliveredStep
<1> QED BY <1>1, DeliveredInit, AlwaysSafe, PTL DEF Spec
================================================================================
