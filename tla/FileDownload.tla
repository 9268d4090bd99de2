----------------------------- MODULE FileDownload -----------------------------
(*****************************************************************************)
(* One download (src/src/file_download.c): mfs_get_file_or_bytes, which asks *)
(* a tracker for the paths of a key and tries them in turn until one gives a *)
(* file of the required length, or mfs_file_server_get called with a brigade *)
(* for a single URL.                                                         *)
(*                                                                           *)
(* A unit of content is <<path, n>>: the n-th unit that the server of a path *)
(* sends.  Trackers, file servers, cURL and the disk are external: a         *)
(* transfer may break off anywhere, and opening or writing a file may fail.  *)
(*****************************************************************************)
EXTENDS Integers, Sequences

CONSTANTS
    MaxPaths,           \* paths a tracker may return
    MaxBody,            \* units a file server may send
    max_buffer_size,    \* of the file system handle
    Lengths,            \* values of requiredLength besides -1 (not checked)
    BadUrls,            \* indices of paths apr_uri_parse rejects
    None                \* a NULL pointer

Apis == {"mfs_get_file_or_bytes", "mfs_get_file", "mfs_get_brigade", "mfs_file_server_get"}

\* destination_file_path: NULL, a path in a directory, or a name without one.
Destinations == {"NULL", "directory/name", "name"}

Paths == 1 .. MaxPaths
Unit == (0 .. MaxPaths) \X (1 .. MaxBody)

\* The caller's file, the file at destination_file_path, and the last one that
\* apr_file_mktemp made.
Files == {"caller", "destination", "mktemp"}

ASSUME BoundsAssumption ==
    /\ MaxPaths \in Nat \ {0} /\ MaxBody \in Nat \ {0} /\ max_buffer_size \in Nat
    /\ Lengths \subseteq Nat /\ BadUrls \subseteq Nat
ASSUME NoneAssumption == None \notin Files /\ None \notin Seq(Unit)

VARIABLES
    pc,             \* what runs next, or "returned", or "crashed"
    api,            \* the function that was called
    destination,    \* destination_file_path
    requiredLength,
    path_count,
    i,              \* index of the path being tried; 0 before the first
    rv,             \* "success" or "error"
    file,           \* *file: NULL, or a file
    bytes,          \* *bytes: NULL, or the units of the byte buffer
    total_bytes,
    brigade,        \* units of wbuf->brigade, the caller's or a temporary one
    start,          \* units in the caller's brigade before the call
    wfile,          \* wbuf->file
    current_size, file_size,
    content,        \* per file: what is on disk
    pos,            \* per file: the position of its handle
    sent            \* units handed to the callback in this attempt

outVars == <<file, bytes, total_bytes>>
bufVars == <<brigade, wfile, current_size, file_size, content, pos, sent>>
argVars == <<api, destination, requiredLength, start>>
vars == <<pc, argVars, path_count, i, rv, outVars, bufVars>>

\* The caller's brigade is an output.
WantBrigade == api \in {"mfs_get_brigade", "mfs_file_server_get"}

\* wbuf->dont_want_brigade.
dont_want_brigade == file # None \/ ~WantBrigade

\* The units a server of path p sends as its m-th to n-th.
Body(p, m, n) == [k \in 1 .. n - m + 1 |-> <<p, m + k - 1>>]

\* File content s after units u were written at position p.
Overwrite(s, p, u) ==
    [k \in 1 .. (IF Len(s) > p + Len(u) THEN Len(s) ELSE p + Len(u)) |->
        IF k \in p + 1 .. p + Len(u) THEN u[k - p] ELSE s[k]]

Write(f, u) ==
    /\ content' = [content EXCEPT ![f] = Overwrite(@, pos[f], u)]
    /\ pos' = [pos EXCEPT ![f] = @ + Len(u)]

\* The file that is opened for data that does not fit in memory.
NewFile == IF destination = "NULL" THEN "mktemp" ELSE "destination"

\* That file with units u written to it from its start: a new file, or one that
\* may exist and is not truncated.
Opened(u) ==
    /\ wfile' = NewFile
    /\ content' = [content EXCEPT ![NewFile] =
          Overwrite(IF NewFile = "mktemp" THEN <<>> ELSE @, 0, u)]
    /\ pos' = [pos EXCEPT ![NewFile] = Len(u)]

\* A caller that has a file passes it, empty; a brigade may hold a bucket, and
\* the file at destination_file_path may exist.
Init ==
    /\ api \in Apis
    /\ destination \in IF api = "mfs_get_file_or_bytes" THEN Destinations ELSE {"NULL"}
    /\ requiredLength \in IF api = "mfs_file_server_get" THEN {-1} ELSE Lengths \cup {-1}
    /\ start \in IF api \in {"mfs_get_brigade", "mfs_file_server_get"}
                 THEN {<<>>, <<<<0, 1>>>>} ELSE {<<>>}
    /\ pc = IF api = "mfs_file_server_get" THEN "get" ELSE "paths"
    /\ path_count = 1
    /\ i = IF api = "mfs_file_server_get" THEN 1 ELSE 0
    /\ rv = "error"
    /\ file \in IF api \in {"mfs_get_file_or_bytes", "mfs_get_file"}
                THEN {None, "caller"} ELSE {None}
    /\ bytes = None /\ total_bytes = 0
    /\ brigade = start
    /\ wfile = None /\ current_size = 0 /\ file_size = 0 /\ sent = 0
    /\ \E old \in {<<>>, Body(0, 1, MaxBody)} :
          content = [f \in Files |-> IF f = "destination" THEN old ELSE <<>>]
    /\ pos = [f \in Files |-> 0]
-------------------------------------------------------------------------------
(* The loop over the paths.                                                  *)

\* mfs_get_paths succeeds: there is a path at least.
got_paths ==
    /\ pc = "paths"
    /\ path_count' \in Paths
    /\ pc' = "path" /\ i' = 1
    /\ UNCHANGED <<argVars, rv, outVars, bufVars>>

\* mfs_get_paths fails, the key being unknown or for another reason.
no_paths ==
    /\ pc = "paths"
    /\ pc' = "returned"
    /\ UNCHANGED <<argVars, path_count, i, rv, outVars, bufVars>>

\* Mutant: <= in the condition of the loop.
FailedOneMore ==
    /\ rv' = "error"
    /\ IF i <= path_count THEN pc' = "path" /\ i' = i + 1
                          ELSE pc' = "returned" /\ UNCHANGED i

\* Mutant: the same path is tried for ever.
FailedAgain ==
    /\ rv' = "error"
    /\ IF i < path_count THEN pc' = "path" ELSE pc' = "returned"
    /\ UNCHANGED i

\* The end of the loop's body after a failure, and its condition.
Failed ==
    /\ rv' = "error"
    /\ IF i < path_count THEN pc' = "path" /\ i' = i + 1
                         ELSE pc' = "returned" /\ UNCHANGED i

\* *bytes = NULL, through a pointer that mfs_get_file and mfs_get_brigade leave
\* NULL.
null_bytes ==
    /\ pc = "path"
    /\ api \in {"mfs_get_file", "mfs_get_brigade"}
    /\ pc' = "crashed"
    /\ UNCHANGED <<argVars, path_count, i, rv, outVars, bufVars>>

\* The path does not parse, or has no host, scheme or path.
bad_url ==
    /\ pc = "path" /\ api = "mfs_get_file_or_bytes"
    /\ i \in BadUrls
    /\ bytes' = None
    /\ Failed
    /\ UNCHANGED <<argVars, path_count, file, total_bytes, bufVars>>

good_url ==
    /\ pc = "path" /\ api = "mfs_get_file_or_bytes"
    /\ i \notin BadUrls
    /\ bytes' = None
    /\ pc' = "get"
    /\ UNCHANGED <<argVars, path_count, i, rv, file, total_bytes, bufVars>>
-------------------------------------------------------------------------------
(* mfs_file_server_get.                                                      *)

\* mfs_get_file_server or apr_reslist_acquire fails.
no_connection ==
    /\ pc = "get"
    /\ Failed
    /\ UNCHANGED <<argVars, path_count, outVars, bufVars>>

\* The write buffer is set up for a file, the caller's brigade or a new one.
begin_get ==
    /\ pc = "get"
    /\ pc' = "perform"
    /\ wfile' = file
    /\ brigade' = IF WantBrigade /\ file = None THEN brigade ELSE <<>>
    /\ current_size' = 0 /\ file_size' = 0 /\ sent' = 0
    /\ UNCHANGED <<argVars, path_count, i, rv, outVars, content, pos>>

\* cURL hands n more units to mfs_buffer_get_write_callback.
Receive(n) ==
    /\ pc = "perform"
    /\ sent + n <= MaxBody
    /\ sent' = sent + n

\* The data goes to a file.  Fewer units than asked are written when the disk
\* fails; the sizes count all of them, and cURL gives up.
write_file(n) ==
    /\ Receive(n)
    /\ wfile # None
    /\ \E k \in 0 .. n :
          /\ Write(wfile, Body(i, sent + 1, sent + k))
          /\ pc' = IF k = n THEN "perform" ELSE "broken"
    /\ file_size' = file_size + n /\ current_size' = current_size + n
    /\ UNCHANGED <<argVars, path_count, i, rv, outVars, brigade, wfile>>

\* What is to be written to a new file when n more units have come: the units
\* of a temporary brigade first.
ForFile(n) ==
    (IF dont_want_brigade THEN brigade ELSE <<>>) \o Body(i, sent + 1, sent + n)

\* Too much for memory: a file is opened, not truncated if it exists; it gets
\* the units in the temporary brigade and then the new ones.
open_file(n) ==
    /\ Receive(n)
    /\ destination # "name"
    /\ wfile = None /\ current_size + n > max_buffer_size
    /\ LET u == ForFile(n) IN Opened(u) /\ file_size' = Len(u)
    /\ current_size' = current_size + n
    /\ UNCHANGED <<pc, argVars, path_count, i, rv, outVars, brigade>>

\* The search for the last slash of destination_file_path finds none.
no_slash(n) ==
    /\ Receive(n)
    /\ wfile = None /\ current_size + n > max_buffer_size
    /\ destination = "name"
    /\ pc' = "crashed"
    /\ UNCHANGED <<argVars, path_count, i, rv, outVars, brigade, wfile, current_size,
                   file_size, content, pos>>

\* The file cannot be opened, or a write to it fails: the callback returns 0.
\* file_size counts the buckets that were copied; nothing reads it any more.
open_file_fails(n) ==
    /\ Receive(n)
    /\ destination # "name"
    /\ wfile = None /\ current_size + n > max_buffer_size
    /\ pc' = "broken"
    /\ \/ UNCHANGED <<wfile, content, pos, file_size>>
       \/ \E k \in 0 .. Len(ForFile(n)) - 1 :
             Opened(SubSeq(ForFile(n), 1, k)) /\ file_size' \in 0 .. k
    /\ UNCHANGED <<argVars, path_count, i, rv, outVars, brigade, current_size>>

\* Mutant: only the new data is compared with max_buffer_size.
append_bucket_unbounded(n) ==
    /\ Receive(n)
    /\ wfile = None /\ n <= max_buffer_size
    /\ brigade' = brigade \o Body(i, sent + 1, sent + n)
    /\ current_size' = current_size + n
    /\ UNCHANGED <<pc, argVars, path_count, i, rv, outVars, wfile, file_size, content, pos>>

\* The data fits in memory: a bucket is appended.
append_bucket(n) ==
    /\ Receive(n)
    /\ wfile = None /\ current_size + n <= max_buffer_size
    /\ brigade' = brigade \o Body(i, sent + 1, sent + n)
    /\ current_size' = current_size + n
    /\ UNCHANGED <<pc, argVars, path_count, i, rv, outVars, wfile, file_size, content, pos>>

\* Mutant: the caller's file is rewound after a success only.
get_error_no_rewind ==
    /\ pc \in {"perform", "broken"}
    /\ brigade' = IF file = None /\ WantBrigade THEN start ELSE brigade
    /\ Failed
    /\ UNCHANGED <<argVars, path_count, outVars, wfile, current_size, file_size,
                   content, pos, sent>>

\* Mutant: the buckets of a failed transfer stay in the brigade.
get_error_keeps_buckets ==
    /\ pc \in {"perform", "broken"}
    /\ pos' = IF file # None /\ current_size > 0 THEN [pos EXCEPT ![wfile] = 0] ELSE pos
    /\ Failed
    /\ UNCHANGED <<argVars, path_count, outVars, brigade, wfile, current_size, file_size,
                   content, sent>>

\* curl_easy_perform fails: the caller's file is rewound, what was added to the
\* caller's brigade is deleted.
get_error ==
    /\ pc \in {"perform", "broken"}
    /\ pos' = IF file # None /\ current_size > 0 THEN [pos EXCEPT ![wfile] = 0] ELSE pos
    /\ brigade' = IF file = None /\ WantBrigade /\ current_size > 0
                  THEN SubSeq(brigade, 1, Len(start)) ELSE brigade
    /\ Failed
    /\ UNCHANGED <<argVars, path_count, outVars, wfile, current_size, file_size,
                   content, sent>>

\* curl_easy_perform succeeds, with a file server's error page as with a file.
\* The result is handed over, and then its length is looked at.
get_ok ==
    /\ pc = "perform"
    /\ total_bytes' = current_size
    /\ pos' = IF wfile # None /\ current_size > 0 /\ dont_want_brigade
              THEN [pos EXCEPT ![wfile] = 0] ELSE pos
    /\ brigade' = IF ~dont_want_brigade /\ wfile # None
                  THEN brigade \o SubSeq(content[wfile], 1, file_size) ELSE brigade
    /\ file' = IF dont_want_brigade THEN wfile ELSE file
    /\ bytes' = IF dont_want_brigade /\ wfile = None THEN brigade ELSE bytes
    /\ IF requiredLength >= 0 /\ total_bytes' # requiredLength
       THEN Failed
       ELSE pc' = "returned" /\ rv' = "success" /\ UNCHANGED i
    /\ UNCHANGED <<argVars, path_count, wfile, current_size, file_size, content, sent>>

Ended == pc \in {"returned", "crashed"} /\ UNCHANGED vars

Next ==
    \/ got_paths \/ no_paths \/ null_bytes \/ bad_url \/ good_url
    \/ no_connection \/ begin_get
    \/ \E n \in 1 .. MaxBody :
          \/ write_file(n) \/ append_bucket(n)
          \/ open_file(n) \/ no_slash(n) \/ open_file_fails(n)
    \/ get_error \/ get_ok
    \/ Ended

Spec == Init /\ [][Next]_vars

\* The calling thread runs; cURL gives up a transfer that is too slow.
FairSpec == Spec /\ WF_vars(Next)
-------------------------------------------------------------------------------
TypeOK ==
    /\ pc \in {"paths", "path", "get", "perform", "broken", "returned", "crashed"}
    /\ api \in Apis /\ destination \in Destinations /\ requiredLength \in Int
    /\ start \in Seq(Unit)
    /\ path_count \in Paths \cup {1} /\ i \in 0 .. path_count
    /\ rv \in {"success", "error"}
    /\ file \in Files \cup {None}
    /\ bytes \in Seq(Unit) \cup {None}
    /\ total_bytes \in Nat
    /\ brigade \in Seq(Unit)
    /\ wfile \in Files \cup {None}
    /\ current_size \in Nat /\ file_size \in Nat /\ sent \in 0 .. MaxBody
    /\ content \in [Files -> Seq(Unit)]
    /\ pos \in [Files -> Nat]

\* A download that returns APR_SUCCESS hands over the complete body of the one
\* path it reports, from its first unit, as total_bytes units of exactly one
\* output, whatever earlier paths left in the file, the buffer or the brigade
\* (file_download.c:249-305, 319-352: *file, *bytes and the position of the
\* file are carried from one attempt to the next).  A file may be longer than
\* total_bytes: nothing truncates what an earlier attempt wrote.
ResultExact ==
    (pc = "returned" /\ rv = "success") =>
        LET whole == Body(i, 1, sent) IN
        /\ total_bytes = sent
        /\ requiredLength >= 0 => total_bytes = requiredLength
        /\ IF file # None
           THEN /\ bytes = None /\ pos[file] = 0
                /\ SubSeq(content[file], 1, sent) = whole
           ELSE IF WantBrigade THEN brigade = start \o whole
                               ELSE bytes = whole

\* "we wrote to the bucket... lets clean it up for the next attempt"
\* (file_download.c:263): a brigade given to a transfer that failed is as it
\* was before, wherever the transfer broke off.
FailureRestoresBrigade ==
    (pc = "returned" /\ rv = "error" /\ WantBrigade) => brigade = start

\* "return the file in a byte buffer if the file is small enough"
\* (mogile_fs.h:387): at no time is more than max_buffer_size of a transfer
\* held in memory, however cURL cuts it up.
MemoryBounded ==
    /\ pc \in {"perform", "broken"} =>
          Len(brigade) <= max_buffer_size + (IF WantBrigade THEN Len(start) ELSE 0)
    /\ bytes # None => Len(bytes) <= max_buffer_size

\* The download gives up with an error only after the last path was tried, or
\* because there was no path to try.
EveryPathTried == (pc = "returned" /\ rv = "error") => i \in {0, path_count}

\* What an error of a download means: no path is left to try, and the caller's
\* brigade is as it was (file_download.c:262-274, 320-353).
FailureFinal == FailureRestoresBrigade /\ EveryPathTried

\* mfs_get_file and mfs_get_brigade fetch a file for a caller who has no byte
\* buffer ("get a file and store it in the file parameter", "store the file in a
\* bucket brigade", mogile_fs.h:383-391): they get past the assignment to *bytes
\* at the first path (file_download.c:323, 357-358, 367-369).
BytesOptional == api \in {"mfs_get_file", "mfs_get_brigade"} => pc # "crashed"

\* A destination whose parent directory could not be made is tried all the same:
\* "still try even if above fails..... it may not be fatal...."
\* (file_download.c:115), a name without a directory among them.
AnyDestination == destination = "name" => pc # "crashed"

\* A download comes to an end and returns, unless it is one of those that go
\* through a NULL pointer: mfs_get_file and mfs_get_brigade at the first path
\* (file_download.c:323), and a destination without a directory once the data
\* does not fit in memory (file_download.c:116).
DownloadReturns ==
    (api \in {"mfs_get_file_or_bytes", "mfs_file_server_get"} /\ destination # "name")
        => <>(pc = "returned")
===============================================================================
