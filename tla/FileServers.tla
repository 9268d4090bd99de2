------------------------------ MODULE FileServers ------------------------------
(*****************************************************************************)
(* The table of file servers of a file system handle and the pool of HTTP    *)
(* connections of each (mfs_get_file_server in src/src/file.c), used by      *)
(* threads that upload and download (mfs_file_server_put in                  *)
(* src/src/file_upload.c, mfs_file_server_get in src/src/file_download.c).   *)
(*                                                                           *)
(* A connection is a cURL handle.  It keeps the callbacks, buffers and       *)
(* header list that the last job gave it, so each option is NULL, set by the *)
(* job that holds the connection, or stale: set by a job that is over and    *)
(* whose memory may be gone.  apr_reslist is external; its hash and rwlock   *)
(* sections are single steps.                                                *)
(*****************************************************************************)
EXTENDS Naturals, FiniteSets

CONSTANTS
    Threads, Hosts,
    Jobs,           \* uploads and downloads of a thread
    HardMax,        \* 50 in mfs_get_file_server: connections of a file server
    Servers,        \* names for the mfs_file_server structures
    Connections,    \* names for the cURL handles
    None            \* a NULL pointer

Option == {"write", "seek", "read", "header"}
OptionState == {"null", "set", "stale"}

ASSUME SizesAssumption == Jobs \in Nat /\ HardMax \in Nat \ {0}
\* There is a name for every structure that can exist at the same time.
ASSUME NamesAssumption ==
    /\ IsFiniteSet(Hosts) /\ IsFiniteSet(Servers) /\ IsFiniteSet(Connections)
    /\ Cardinality(Hosts) <= Cardinality(Servers)
ASSUME NoneAssumption == None \notin Servers \cup Connections \cup Threads \cup Hosts

VARIABLES
    file_servers,   \* per host: the structure in the hash, or None
    made,           \* structures that were created
    pool_of,        \* per connection: the file server it was made for, or None
    idle,           \* connections in their pool
    options,        \* per connection: the state of each option
    pc,             \* per thread
    jobs,           \* per thread: jobs begun
    kind, host,     \* per thread: what its job is, and where; None without one
    file_server,    \* per thread: the local variable, or None
    conn,           \* per thread: the connection it has acquired, or None
    leaks,          \* per file server: failures of apr_file_info_get
    open            \* mfs_close_file_system was not called yet

serverVars == <<file_servers, made>>
poolVars == <<pool_of, idle, options>>
jobVars == <<jobs, kind, host>>
vars == <<serverVars, poolVars, pc, jobVars, file_server, conn, leaks, open>>

Init ==
    /\ file_servers = [h \in Hosts |-> None] /\ made = {}
    /\ pool_of = [c \in Connections |-> None] /\ idle = {}
    /\ options = [c \in Connections |-> [o \in Option |-> "null"]]
    /\ pc = [t \in Threads |-> "ready"]
    /\ jobs = [t \in Threads |-> 0]
    /\ kind = [t \in Threads |-> None] /\ host = [t \in Threads |-> None]
    /\ file_server = [t \in Threads |-> None]
    /\ conn = [t \in Threads |-> None]
    /\ leaks = [s \in Servers |-> 0]
    /\ open = TRUE

Goto(t, label) == pc' = [pc EXCEPT ![t] = label]

\* A job ends, and its local variables with it.
EndJob(t) ==
    /\ Goto(t, "ready")
    /\ kind' = [kind EXCEPT ![t] = None] /\ host' = [host EXCEPT ![t] = None]
    /\ file_server' = [file_server EXCEPT ![t] = None]
    /\ conn' = [conn EXCEPT ![t] = None]

\* The connections of a file server.
PoolOf(s) == {c \in Connections : pool_of[c] = s}
-------------------------------------------------------------------------------
(* mfs_get_file_server.                                                      *)

begin_job(t) ==
    /\ pc[t] = "ready" /\ jobs[t] < Jobs /\ open
    /\ jobs' = [jobs EXCEPT ![t] = @ + 1]
    /\ \E k \in {"get", "put"} : kind' = [kind EXCEPT ![t] = k]
    /\ \E h \in Hosts : host' = [host EXCEPT ![t] = h]
    /\ Goto(t, "lookup")
    /\ UNCHANGED <<serverVars, poolVars, file_server, conn, leaks, open>>

\* Under the read lock.
lookup(t) ==
    /\ pc[t] = "lookup"
    /\ file_server' = [file_server EXCEPT ![t] = file_servers[host[t]]]
    /\ Goto(t, IF file_servers[host[t]] = None THEN "add" ELSE "acquire")
    /\ UNCHANGED <<serverVars, poolVars, jobVars, conn, leaks, open>>

\* Mutant: the file server is not looked up again under the write lock.
add_unchecked(t) ==
    /\ pc[t] = "add"
    /\ \E s \in Servers \ made :
          /\ made' = made \cup {s}
          /\ file_servers' = [file_servers EXCEPT ![host[t]] = s]
          /\ file_server' = [file_server EXCEPT ![t] = s]
    /\ Goto(t, "acquire")
    /\ UNCHANGED <<poolVars, jobVars, conn, leaks, open>>

\* Under the write lock: another thread may have added it, or it is made.
add(t) ==
    /\ pc[t] = "add"
    /\ IF file_servers[host[t]] # None
       THEN /\ file_server' = [file_server EXCEPT ![t] = file_servers[host[t]]]
            /\ UNCHANGED serverVars
       ELSE LET s == CHOOSE s \in Servers : s \notin made
            IN  /\ made' = made \cup {s}
                /\ file_servers' = [file_servers EXCEPT ![host[t]] = s]
                /\ file_server' = [file_server EXCEPT ![t] = s]
    /\ Goto(t, "acquire")
    /\ UNCHANGED <<poolVars, jobVars, conn, leaks, open>>

\* apr_reslist_create fails.
add_fails(t) ==
    /\ pc[t] = "add" /\ file_servers[host[t]] = None
    /\ EndJob(t)
    /\ UNCHANGED <<serverVars, poolVars, jobs, leaks, open>>
-------------------------------------------------------------------------------
(* apr_reslist, external; the constructor and destructor are in file.c.      *)

Acquired(t, c) ==
    /\ conn' = [conn EXCEPT ![t] = c]
    /\ Goto(t, "prepare")
    /\ UNCHANGED <<serverVars, jobVars, file_server, leaks, open>>

acquire_idle(t) ==
    /\ pc[t] = "acquire"
    /\ \E c \in idle \cap PoolOf(file_server[t]) : idle' = idle \ {c} /\ Acquired(t, c)
    /\ UNCHANGED <<pool_of, options>>

\* mfs_file_server_conn_constructor.  At the limit a thread waits instead, with
\* no timeout, until a connection is idle or gone.  Connections bounds how many
\* exist at a time.
acquire_new(t) ==
    /\ pc[t] = "acquire"
    /\ idle \cap PoolOf(file_server[t]) = {}
    /\ Cardinality(PoolOf(file_server[t])) < HardMax
    /\ \E c \in Connections : pool_of[c] = None
    /\ LET c == CHOOSE c \in Connections : pool_of[c] = None
       IN  pool_of' = [pool_of EXCEPT ![c] = file_server[t]] /\ Acquired(t, c)
    /\ UNCHANGED <<idle, options>>

\* The constructor fails.
acquire_fails(t) ==
    /\ pc[t] = "acquire"
    /\ idle \cap PoolOf(file_server[t]) = {}
    /\ Cardinality(PoolOf(file_server[t])) < HardMax
    /\ EndJob(t)
    /\ UNCHANGED <<serverVars, poolVars, jobs, leaks, open>>

\* mfs_file_server_conn_destructor.
Destroyed(c) ==
    /\ pool_of' = [pool_of EXCEPT ![c] = None]
    /\ options' = [options EXCEPT ![c] = [o \in Option |-> "null"]]

\* Mutant: a destroyed connection stays in the pool's list of idle ones.
expire_keeps_idle(c) ==
    /\ c \in idle
    /\ Destroyed(c)
    /\ UNCHANGED <<serverVars, idle, pc, jobVars, file_server, conn, leaks, open>>

\* An idle connection reaches its time to live.
expire(c) ==
    /\ c \in idle
    /\ idle' = idle \ {c}
    /\ Destroyed(c)
    /\ UNCHANGED <<serverVars, pc, jobVars, file_server, conn, leaks, open>>
-------------------------------------------------------------------------------
(* mfs_file_server_get and mfs_file_server_put.                              *)

\* What was given to a connection goes with the job that gave it.
Aged(opts) == [o \in Option |-> IF opts[o] = "set" THEN "stale" ELSE opts[o]]

\* The options of a download: the read callback of an upload is cleared.
prepare_get(t) ==
    /\ pc[t] = "prepare" /\ kind[t] = "get"
    /\ options' = [options EXCEPT ![conn[t]] =
          [@ EXCEPT !["write"] = "set", !["seek"] = "set", !["read"] = "null"]]
    /\ Goto(t, "perform")
    /\ UNCHANGED <<serverVars, pool_of, idle, jobVars, file_server, conn, leaks, open>>

\* The options of an upload, with the list of headers.
prepare_put(t) ==
    /\ pc[t] = "prepare" /\ kind[t] = "put"
    /\ options' = [options EXCEPT ![conn[t]] = [o \in Option |-> "set"]]
    /\ Goto(t, "perform")
    /\ UNCHANGED <<serverVars, pool_of, idle, jobVars, file_server, conn, leaks, open>>

\* The size of the file to upload cannot be found out: an early return that
\* neither releases nor invalidates the connection.
stat_fails(t) ==
    /\ pc[t] = "prepare" /\ kind[t] = "put"
    /\ options' = [options EXCEPT ![conn[t]] =
          [@ EXCEPT !["write"] = "stale", !["seek"] = "stale"]]
    /\ leaks' = [leaks EXCEPT ![file_server[t]] = @ + 1]
    /\ EndJob(t)
    /\ UNCHANGED <<serverVars, pool_of, idle, jobs, open>>

\* Mutant: the header list is freed and stays with the handle.
PerformedHeader(t) == Aged(options[conn[t]])

\* The options after curl_easy_perform: an upload frees its list of headers.
Performed(t) ==
    Aged([options[conn[t]] EXCEPT !["header"] = IF kind[t] = "put" THEN "null" ELSE @])

\* CURLE_OK: apr_reslist_release.
perform_ok(t) ==
    /\ pc[t] = "perform"
    /\ options' = [options EXCEPT ![conn[t]] = Performed(t)]
    /\ idle' = idle \cup {conn[t]}
    /\ EndJob(t)
    /\ UNCHANGED <<serverVars, pool_of, jobs, leaks, open>>

\* Mutant: a connection that failed is neither released nor invalidated.
perform_error_keeps(t) ==
    /\ pc[t] = "perform"
    /\ EndJob(t)
    /\ UNCHANGED <<serverVars, poolVars, jobs, leaks, open>>

\* Mutant: a failed job is begun again for ever, its connection kept.
perform_error_retries(t) ==
    /\ pc[t] = "perform"
    /\ Goto(t, "prepare")
    /\ UNCHANGED <<serverVars, poolVars, jobVars, file_server, conn, leaks, open>>

\* Another code: apr_reslist_invalidate.
perform_error(t) ==
    /\ pc[t] = "perform"
    /\ Destroyed(conn[t])
    /\ EndJob(t)
    /\ UNCHANGED <<serverVars, idle, jobs, leaks, open>>
-------------------------------------------------------------------------------
\* mfs_close_file_system, called when no thread uses the handle: each pool is
\* destroyed with the connections that are in it.
close_file_system ==
    /\ open
    /\ \A t \in Threads : pc[t] = "ready"
    /\ open' = FALSE
    /\ idle' = {}
    /\ pool_of' = [c \in Connections |-> IF c \in idle THEN None ELSE pool_of[c]]
    /\ options' = [c \in Connections |->
                      IF c \in idle THEN [o \in Option |-> "null"] ELSE options[c]]
    /\ UNCHANGED <<serverVars, pc, jobVars, file_server, conn, leaks>>

Thread(t) ==
    \/ begin_job(t) \/ lookup(t) \/ add(t) \/ add_fails(t)
    \/ acquire_idle(t) \/ acquire_new(t) \/ acquire_fails(t)
    \/ prepare_get(t) \/ prepare_put(t) \/ stat_fails(t)
    \/ perform_ok(t) \/ perform_error(t)

Next ==
    \/ \E t \in Threads : Thread(t)
    \/ \E c \in Connections : expire(c)
    \/ close_file_system

Spec == Init /\ [][Next]_vars

\* Every thread runs when it can; cURL gives up a transfer that is too slow.
FairSpec == Spec /\ \A t \in Threads : WF_vars(Thread(t))
-------------------------------------------------------------------------------
TypeOK ==
    /\ file_servers \in [Hosts -> Servers \cup {None}] /\ made \subseteq Servers
    /\ pool_of \in [Connections -> Servers \cup {None}]
    /\ idle \subseteq {c \in Connections : pool_of[c] # None}
    /\ options \in [Connections -> [Option -> OptionState]]
    /\ pc \in [Threads -> {"ready", "lookup", "add", "acquire", "prepare", "perform"}]
    /\ jobs \in [Threads -> 0 .. Jobs]
    /\ kind \in [Threads -> {"get", "put", None}] /\ host \in [Threads -> Hosts \cup {None}]
    /\ file_server \in [Threads -> Servers \cup {None}]
    /\ conn \in [Threads -> Connections \cup {None}]
    /\ leaks \in [Servers -> Nat]
    /\ open \in BOOLEAN

\* However many threads miss a host at the same time, there is one structure
\* per host, it is the one in the table, and every thread that works on the
\* host has it: "first check the file server was not added in the last few
\* ops..." (file.c:138).
OneServerPerHost ==
    /\ Cardinality(made) = Cardinality({h \in Hosts : file_servers[h] # None})
    /\ \A t \in Threads : pc[t] \in {"acquire", "prepare", "perform"} =>
          file_server[t] = file_servers[host[t]]

\* The connections made for a file server are in its pool, or each in the hands
\* of one thread that works on that server, or were lost by an early return of
\* mfs_file_server_put (file_upload.c:190-195), one each time.  So closing the
\* handle frees every connection but the lost ones.
ConnectionsAccounted ==
    /\ \A t, u \in Threads : conn[t] # None /\ conn[t] = conn[u] => t = u
    /\ \A t \in Threads : conn[t] # None =>
          conn[t] \notin idle /\ pool_of[conn[t]] = file_server[t]
    /\ \A s \in Servers :
          /\ Cardinality(PoolOf(s)) <= HardMax
          /\ Cardinality({c \in PoolOf(s) \ idle : \A t \in Threads : conn[t] # c}) = leaks[s]

\* A transfer uses no callback, buffer or header list of an earlier job on the
\* same handle: "need to clear these values in case connection used for"
\* (file_download.c:224), "we euse connections... clean this up!"
\* (file_upload.c:210).
NoStaleOption ==
    \A t \in Threads : pc[t] = "perform" => \A o \in Option : options[conn[t]][o] # "stale"

\* A thread that asks for a connection gets an answer, unless as many uploads
\* to that file server as there may be connections have lost theirs.
AcquireEnds ==
    \A t \in Threads :
        pc[t] = "acquire" ~>
            (pc[t] # "acquire" \/ leaks[file_server[t]] = HardMax)
================================================================================
