------------------------------ MODULE FileUpload ------------------------------
(*****************************************************************************)
(* One call of mfs_store_file_or_bytes (src/src/file_upload.c): a loop of    *)
(* create_open on a tracker, HTTP PUT to a file server and create_close on a *)
(* tracker, retried until it succeeds or max_retries attempts are used.      *)
(*                                                                           *)
(* The fid, devid and path of the n-th reply to create_open are all written  *)
(* n, so that a value is known by the reply it came from.  The               *)
(* trackers and file servers are external: they may fail, or act on a        *)
(* request whose answer is then lost.                                        *)
(*****************************************************************************)
EXTENDS Naturals

CONSTANTS
    max_retries,    \* attempts allowed by the file system handle
    None,           \* a missing hash entry or an unassigned pointer
    BadUrls,        \* replies whose path apr_uri_parse rejects
    Malformed,      \* TRUE: an OK reply may lack some of its fields
    HttpErrors      \* TRUE: a file server may answer a PUT with an error status

Replies == 1 .. max_retries

\* What the mfs_store_* functions pass on: bytes with their number, or a file
\* whose size is not known yet.
Sources == {"bytes", "file"}

Field == {"path", "fid", "devid"}

ASSUME RetriesAssumption == max_retries \in Nat
ASSUME NoReplyAssumption == None \notin Nat /\ None \notin [Field -> Nat]
ASSUME ReplyKindsAssumption == Malformed \in BOOLEAN /\ HttpErrors \in BOOLEAN

VARIABLES
    pc,             \* the part of the loop that runs next, or "returned"
    rv,             \* "success" or "error"
    attempt_count,
    call_tracker,
    result,         \* the hash every reply is parsed into; never cleared
    given,          \* the local variables put_url, fid and devid, by field
    source,         \* "bytes" or "file": what is being stored
    at_start,       \* the position of the file is its beginning
    total_bytes,    \* "known", or "unknown" (-1) until the file was examined
    replies,        \* replies to create_open that put a field into result
    storage,        \* per path: what its file server holds
    refused,        \* history: paths whose last PUT got an HTTP error status
    puts,           \* per reply to create_open: PUTs attempted with it
    committed,      \* the last create_close a tracker carried out, or None
    out,            \* file server connections acquired and not given back
    lost            \* failures of apr_file_info_get

requestVars == <<result, given, call_tracker, replies>>
putVars == <<at_start, total_bytes, storage, refused, puts, out, lost>>
vars == <<pc, rv, attempt_count, requestVars, source, putVars, committed>>

Init ==
    /\ pc = IF max_retries = 0 THEN "returned" ELSE "open"
    /\ rv = "error"
    /\ attempt_count = 0
    /\ call_tracker = TRUE
    /\ result = [f \in Field |-> None]
    /\ given = [f \in Field |-> None]
    /\ source \in Sources
    /\ at_start \in BOOLEAN
    /\ total_bytes = IF source = "bytes" THEN "known" ELSE "unknown"
    /\ replies = 0
    /\ storage = [n \in Replies |-> "nothing"] /\ refused = {}
    /\ puts = [n \in Replies |-> 0]
    /\ committed = None
    /\ out = 0 /\ lost = 0

\* Mutant: <= in the condition of the loop.
EndAttemptOneMore(status) ==
    /\ rv' = status
    /\ attempt_count' = attempt_count + 1
    /\ pc' = IF attempt_count + 1 <= max_retries /\ status # "success"
             THEN "open" ELSE "returned"

\* The end of the loop's body and its condition.
EndAttempt(status) ==
    /\ rv' = status
    /\ attempt_count' = attempt_count + 1
    /\ pc' = IF attempt_count + 1 < max_retries /\ status # "success"
             THEN "open" ELSE "returned"
-------------------------------------------------------------------------------
(* create_open.                                                              *)

\* An OK reply: its fields go into result, and the three pointers are taken
\* from there in turn up to the first that is missing.
create_open ==
    /\ pc = "open" /\ call_tracker
    /\ replies' = replies + 1
    /\ \E sent \in IF Malformed THEN SUBSET Field ELSE {Field} :
          result' = [f \in Field |-> IF f \in sent THEN replies' ELSE result[f]]
    /\ given' = [f \in Field |->
          IF \/ f = "path"
             \/ f = "fid" /\ result'["path"] # None
             \/ f = "devid" /\ result'["path"] # None /\ result'["fid"] # None
          THEN result'[f] ELSE given[f]]
    /\ IF \E f \in Field : result'[f] = None
       THEN EndAttempt("error") /\ UNCHANGED call_tracker
       ELSE /\ call_tracker' = FALSE
            /\ pc' = "put" /\ rv' = "success" /\ UNCHANGED attempt_count
    /\ UNCHANGED <<source, putVars, committed>>

\* mfs_request_do fails, or the tracker replies with an error.  A malformed line
\* is given up at its first bad pair, with the pairs before it in result.
create_open_fails ==
    /\ pc = "open" /\ call_tracker
    /\ \E parsed \in IF Malformed THEN SUBSET Field ELSE {{}} :
          /\ replies' = IF parsed = {} THEN replies ELSE replies + 1
          /\ result' = [f \in Field |-> IF f \in parsed THEN replies' ELSE result[f]]
    /\ EndAttempt("error")
    /\ UNCHANGED <<given, call_tracker, source, putVars, committed>>

\* Mutant: the tracker is not called again after the second attempt.
keep_reply ==
    /\ pc = "open" /\ ~call_tracker
    /\ pc' = "put" /\ rv' = "success"
    /\ UNCHANGED <<attempt_count, requestVars, source, putVars, committed>>

\* The second attempt with the same reply.
reuse_reply ==
    /\ pc = "open" /\ ~call_tracker
    /\ call_tracker' = TRUE
    /\ pc' = "put" /\ rv' = "success"
    /\ UNCHANGED <<attempt_count, result, given, replies, source, putVars, committed>>
-------------------------------------------------------------------------------
(* The PUT.                                                                  *)

\* put_url does not parse, or has no host, scheme or path.
bad_url ==
    /\ pc = "put" /\ given["path"] \in BadUrls
    /\ EndAttempt("error")
    /\ UNCHANGED <<requestVars, source, putVars, committed>>

\* apr_file_seek fails: the only return from inside the loop.
seek_fails ==
    /\ pc = "put" /\ given["path"] \notin BadUrls
    /\ source = "file"
    /\ rv' = "error" /\ pc' = "returned"
    /\ UNCHANGED <<attempt_count, requestVars, source, putVars, committed>>

\* Mutant: the file is read on from where it is.
no_rewind ==
    /\ pc = "put" /\ given["path"] \notin BadUrls
    /\ pc' = "perform"
    /\ puts' = [puts EXCEPT ![replies] = @ + 1]
    /\ out' = out + 1
    /\ UNCHANGED <<rv, attempt_count, requestVars, source, at_start, total_bytes,
                   storage, refused, lost, committed>>

\* The file is rewound and mfs_file_server_put acquires a connection.
begin_put ==
    /\ pc = "put" /\ given["path"] \notin BadUrls
    /\ pc' = "perform"
    /\ at_start' = (at_start \/ source = "file")
    /\ puts' = [puts EXCEPT ![replies] = @ + 1]
    /\ out' = out + 1
    /\ UNCHANGED <<rv, attempt_count, requestVars, source, total_bytes, storage,
                   refused, lost, committed>>

\* mfs_get_file_server or apr_reslist_acquire fails.
no_connection ==
    /\ pc = "put" /\ given["path"] \notin BadUrls
    /\ at_start' = (at_start \/ source = "file")
    /\ EndAttempt("error")
    /\ UNCHANGED <<requestVars, source, total_bytes, storage, refused, puts, out, lost,
                   committed>>

\* The size of the file cannot be found out: mfs_file_server_put returns with
\* the connection still acquired.
stat_fails ==
    /\ pc = "perform" /\ total_bytes = "unknown"
    /\ lost' = lost + 1
    /\ EndAttempt("error")
    /\ UNCHANGED <<requestVars, source, at_start, total_bytes, storage, refused, puts,
                   out, committed>>

\* What a complete PUT leaves on the server.
Content == IF source = "bytes" \/ at_start THEN "whole" ELSE "partial"

\* curl_easy_perform returns CURLE_OK, which it also does for an HTTP error.
put_ok ==
    /\ pc = "perform"
    /\ total_bytes' = "known"
    /\ \/ /\ storage' = [storage EXCEPT ![given["path"]] = Content]
          /\ refused' = refused \ {given["path"]}
       \/ /\ HttpErrors
          /\ refused' = refused \cup {given["path"]}
          /\ UNCHANGED storage
    /\ at_start' = (source = "bytes" /\ at_start)
    /\ out' = out - 1
    /\ pc' = "close" /\ rv' = "success"
    /\ UNCHANGED <<attempt_count, requestVars, source, puts, lost, committed>>

\* Mutant: the connection of a failed PUT is not invalidated.
put_error_keeps ==
    /\ pc = "perform"
    /\ total_bytes' = "known"
    /\ at_start' = (source = "bytes" /\ at_start)
    /\ EndAttempt("error")
    /\ UNCHANGED <<requestVars, source, storage, refused, puts, out, lost, committed>>

\* Mutant: a failed transfer is repeated at once and not counted.
put_error_repeats ==
    /\ pc = "perform"
    /\ total_bytes' = "known"
    /\ \E b \in BOOLEAN : at_start' = IF source = "bytes" THEN at_start ELSE b
    /\ UNCHANGED <<pc, rv, attempt_count, requestVars, source, storage, refused, puts,
                   out, lost, committed>>

\* The transfer fails at some point, perhaps after its last byte was stored.
put_error ==
    /\ pc = "perform"
    /\ total_bytes' = "known"
    /\ \E c \in {storage[given["path"]], "partial", Content} :
          storage' = [storage EXCEPT ![given["path"]] = c]
    /\ \E b \in BOOLEAN : at_start' = IF source = "bytes" THEN at_start ELSE b
    /\ out' = out - 1
    /\ EndAttempt("error")
    /\ UNCHANGED <<requestVars, source, refused, puts, lost, committed>>
-------------------------------------------------------------------------------
(* create_close.                                                             *)

create_close ==
    /\ pc = "close"
    /\ committed' = given
    /\ EndAttempt("success")
    /\ UNCHANGED <<requestVars, source, putVars>>

\* The tracker replies with an error, or mfs_request_do fails: no tracker
\* closed the file, or one did and its answer was lost.
create_close_fails ==
    /\ pc = "close"
    /\ committed' \in {committed, given}
    /\ EndAttempt("error")
    /\ UNCHANGED <<requestVars, source, putVars>>

Returned == pc = "returned" /\ UNCHANGED vars

Next ==
    \/ create_open \/ create_open_fails \/ reuse_reply
    \/ bad_url \/ seek_fails \/ no_connection \/ begin_put
    \/ stat_fails \/ put_ok \/ put_error
    \/ create_close \/ create_close_fails
    \/ Returned

Spec == Init /\ [][Next]_vars

\* The calling thread runs; every network call it makes has a timeout.
FairSpec == Spec /\ WF_vars(Next)
-------------------------------------------------------------------------------
TypeOK ==
    /\ pc \in {"open", "put", "perform", "close", "returned"}
    /\ rv \in {"success", "error"}
    /\ attempt_count \in 0 .. max_retries
    /\ call_tracker \in BOOLEAN
    /\ result \in [Field -> Replies \cup {None}]
    /\ given \in [Field -> Replies \cup {None}]
    /\ source \in Sources
    /\ at_start \in BOOLEAN
    /\ total_bytes \in {"known", "unknown"}
    /\ replies \in 0 .. max_retries
    /\ storage \in [Replies -> {"nothing", "partial", "whole"}] /\ refused \subseteq Replies
    /\ puts \in [Replies -> Nat]
    /\ committed \in [Field -> Replies] \cup {None}
    /\ out \in Nat /\ lost \in Nat

\* What is told to create_close is the path, fid and devid of one reply: "Sucessful
\* create.open did not return a fid" (file_upload.c:273, and alike for the path and
\* the devid) is meant to refuse a reply that lacks one of them.
CloseNamesOneReply ==
    pc = "close" => \A f \in Field : given[f] = given["path"]

\* A store that returns APR_SUCCESS has left the whole content at the path that
\* it told the tracker in create_close: "we have successfully upload the file
\* to the fileserver... lets let the tracker know this..." (file_upload.c:317).
SuccessMeansStored ==
    (pc = "returned" /\ rv = "success") =>
        committed # None /\ storage[committed["path"]] = "whole"

\* What APR_SUCCESS is worth, whatever the trackers and file servers answer: the
\* tracker was told a path, and the last PUT to it ran from the first byte to the
\* last.  It is stored unless the server refused just that PUT (file_upload.c:211
\* looks at the CURLcode only), however many PUTs to this or other paths broke off
\* before, and wherever they left the file (file_upload.c:302-310).
SuccessMeansSent ==
    (pc = "returned" /\ rv = "success") =>
        /\ committed # None
        /\ storage[committed["path"]] = "whole" \/ committed["path"] \in refused

\* "we will recall the tracker every 2 attempts" (file_upload.c:256): no reply to
\* create_open is used for a third PUT, whatever made the attempts fail and
\* whatever the replies lack.
TriedTwice == \A n \in Replies : puts[n] <= 2

\* A file server connection is held only while a PUT is performed; the one way
\* to lose it is a failure of apr_file_info_get (file_upload.c:190-195).
ConnectionsAccounted == out = lost + (IF pc = "perform" THEN 1 ELSE 0)

\* The call returns.
UploadReturns == <>(pc = "returned")
-------------------------------------------------------------------------------
(* The inductive invariants of FileUpload_proofs.                            *)

\* Every reply belongs to an attempt, and nothing is used unassigned.
Counted ==
    /\ replies <= attempt_count + (IF pc = "open" THEN 0 ELSE 1)
    /\ pc # "returned" => attempt_count < max_retries
    /\ replies = 0 => \A f \in Field : result[f] = None /\ given[f] = None
    /\ (pc \in {"put", "perform", "close"} \/ ~call_tracker)
          => \A f \in Field : given[f] # None

\* The last reply has seen at most two PUTs, at most one if it is to be used again
\* and none if it is to be used twice.
Parity ==
    /\ \A n \in Replies : puts[n] <= 2 /\ (n > replies => puts[n] = 0)
    /\ pc = "put" \/ ~call_tracker => \A n \in Replies : n = replies => puts[n] <= 1
    /\ pc = "put" /\ ~call_tracker => \A n \in Replies : n = replies => puts[n] = 0

\* A PUT that is being performed sends the whole content, and one that was
\* performed has stored it or was refused.
Delivered ==
    /\ pc = "perform" => Content = "whole"
    /\ pc = "close" =>
          storage[given["path"]] = "whole" \/ given["path"] \in refused
================================================================================
