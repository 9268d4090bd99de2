# A TLA+ model of lib_mogilefs

lib_mogilefs is a C client library for MogileFS, built on APR and libcurl. An
application stores and fetches files by asking one of several *trackers* (a line
protocol over TCP) where a file is or may go, and then talks HTTP to a *file
server*. Application threads call the library concurrently; one maintenance
thread per tracker pool runs in the background.

All paths below are relative to the repository; `pool.c:234` means
`src/src/pool.c`, line 234.

## 1. Inventory

| Component | State | Operations | Interacts with |
|---|---|---|---|
| Tracker lists (`pool.c`) | `active_trackers`, `inactive_trackers` (int arrays with counts), `tracker_count` | register, activate, deactivate, copy a list | guarded by the pool's rwlock, except registration and the test of the count before a copy |
| Connection pools (`pool.c`) | per tracker: a ring of idle connections, `connection_count`, a mutex | get (pop or connect), return, destroy, expire | a connection is used outside every lock |
| Maintenance thread (`pool.c`) | `pool_running`, thread handle, condition variable | start, stop, test the inactive trackers, expire idle connections | shares lists and stacks with all callers |
| Requests (`request.c`) | locals only: the list copy with its cursor, `rv` | `mfs_request_do`: walk the active trackers until one answers | pool, tracker connections |
| Tracker connections (`tracker.c`) | a socket, a memory pool of its own | connect, send, receive, parse, destroy | the trackers (external) |
| Upload (`file_upload.c`) | locals: attempt count, reply hash, url/fid/devid; the file's position | `create_open`, PUT, `create_close`, retried | requests, file servers (external), the connection reslist |
| Download (`file_download.c`) | locals; the growing buffer, temporary file or brigade | `get_paths`, GET from one path after the other | requests, file servers |
| File system handle (`file.c`) | hash of file servers, each with a reslist; the tracker pool | init, close, get or create a file server; one function per tracker command | everything |
| Watch reader (`watch.c`) | a connection, a read buffer and its count, `allow_watching` | read a line, reconnect | connection pool |
| Logging (`logger.c`) | level and target | write a line | none |

What makes each part correct, and why it is hard:

* *Lists*: every tracker is on one list, once. Several threads fail on the same
  tracker at the same time; maintenance moves trackers back; the arrays are
  uninitialised and `remove_from_array` reads a cell too far.
* *Connections*: one owner at a time, none leaked, none used after it was
  destroyed, although they are handed around outside the locks; a connection
  that may still carry an answer never goes back to the pool.
* *Requests*: they end; they fail only after every tracker was tried; they
  succeed only with the answer to this very request.
* *Life cycle*: the thread is stopped, joined and gone before its memory is, and
  stopping ends although the wake-up can be missed.
* *Upload*: success means the content is stored under the names the tracker was
  told, whatever failed or was lost on the way; no connection is leaked.
* *Download*: success means the whole body of one path, in one output, although
  file, buffer and brigade are carried from a failed attempt to the next.
* *File servers*: one per host however many threads miss it at once; their
  connections come back, and carry nothing of one transfer into the next.
* *Watch reader*: the lines the tracker sent, whole and each once, although the
  count of buffered bytes is one too high and connections break within a line;
  stopping ends a call wherever it is.
* *Commands and protocol*: the tracker reads exactly what the caller meant and
  the caller gets what the tracker said, however requests and replies are cut,
  and whatever a broken reply left in the hash.

The full list of hazards, with source lines and the properties aimed at them, is
in `PROJECT.json`.

## 2. Modules

| Module | Models | Checked by |
|---|---|---|
| `TrackerMembership` | abstract: a set of active and a set of inactive trackers | property `MembershipSpec` of `TrackerLists` |
| `TrackerLists` | the two int arrays of `pool.c` | `TrackerLists.cfg`, `TrackerListsEarly.cfg` |
| `TrackerLists_proofs` | theorems about `TrackerLists` | tlapm |
| `TrackerPool` | clients in `mfs_request_do` and maintenance, on shared lists and stacks | `TrackerPoolLive.cfg` |
| `MCTrackerPool` | `TrackerPool` with symmetry | `TrackerPool.cfg`, `TrackerPoolEmpty.cfg`, `TrackerPoolNull.cfg` |
| `TrackerPool_proofs` | theorems about `TrackerPool` | tlapm |
| `PoolLifecycle` | registration, start, stop, destruction | `PoolLifecycle.cfg`, `PoolLifecycleTwice.cfg`, `PoolLifecycleSlots.cfg` |
| `PoolLifecycle_proofs` | theorems about `PoolLifecycle` | tlapm |
| `FileUpload` | one `mfs_store_file_or_bytes` | `FileUpload.cfg`, `FileUploadHttpError.cfg`, `FileUploadMixed.cfg` |
| `FileUpload_proofs` | theorems about `FileUpload` | tlapm |
| `FileDownload` | one download: the paths in turn, the write callback, the outputs | `FileDownload.cfg`, `FileDownloadBytes.cfg`, `FileDownloadName.cfg` |
| `FileDownload_proofs` | theorems about `FileDownload` | tlapm |
| `FileServers` | the table of file servers and their cURL handles, shared by threads | `FileServers.cfg` |
| `FileServers_proofs` | theorems about `FileServers` | tlapm |
| `WatchReader` | the line reader of `watch.c`, with a thread that stops it | `WatchReader.cfg`, `WatchReaderLines.cfg` |
| `WatchReader_proofs` | theorems about `WatchReader` | tlapm |
| `TrackerProtocol` | operators: parameters, encoding, request lines, parsing | through `TrackerCommands` |
| `TrackerCommands` | one command from call to return | `TrackerCommands.cfg` |
| `TrackerCommands_proofs` | theorems about `TrackerCommands` | tlapm |

`FileUpload` and `FileDownload` follow one call and take the result of
`mfs_request_do` and of a transfer as given; `TrackerPool` shows what the former
does among threads, `FileServers` what the latter do to the handles they share,
`TrackerCommands` what is in the lines.

Definitions whose comment begins with "Mutant" are wrong variants of the
definition that follows them. No specification uses them; they show that each
property would notice the corresponding slip in the code.

### TrackerLists

A list is its array and its count; `Listed` are the cells below the count. An
array starts with arbitrary content (`apr_palloc` does not clear it), and the
cell behind the last one returns an arbitrary `foreign` value. Register, activate
and deactivate are one step each: the last two hold the write lock throughout,
and registration, which holds none, comes before any use unless `EarlyUse` is
set. An activate or deactivate of a tracker that is not on the list changes
nothing and is not a step.

### TrackerPool

A step is one section under a lock, one unlocked access to shared state, or one
network call; `pc` names the call a thread is about to make. `loc` holds a
thread's locals: `list` is the `tracker_list` (copied indexes, `start`, `cur`),
`index` the current tracker, `is_new` the `create_new` result, `rv` the status.
`tried` and `got` only record the trackers visited and the reply read, for the
properties. `entry` is the `tracker_connection_pool_entry` a thread holds,
`chain` the entries it has unlinked to expire.

| Action | Code |
|---|---|
| `test_count`, `copy_list` | `mfs_pool_list_(in)active_trackers`, before and under the lock |
| `next_tracker` | `mfs_pool_next_tracker` in the three loops |
| `pop_connection`, `connect`, `connect_fails` | `mfs_pool_get_connection_ex` |
| `mfs_pool_deactivate`, `drain` | `mfs_pool_deactivate`, the list and the connections |
| `send_request`, `receive_reply`, `request_fails` | `mfs_tracker_request` |
| `destroy_failed`, `mfs_pool_return_connection` | the two ends of a use |
| `mfs_pool_activate` | the same, called by maintenance |
| `mfs_pool_get_expired_trackers`, `reap` | expiry |
| `mfs_request_do` | the call |
| `Answer`, `Age` | environment: a tracker answers, a connection becomes old |

`wire[c]` is what was sent on a connection and not read, in order. A failing call
(`Fails`) stands for refusal, reset, timeout and malformed lines alike: the code
reacts to all of them in the same way. A timeout leaves the request on the wire,
where the tracker may still answer it.

An empty list copy makes the code read outside an allocation; the model then
picks any tracker or an index outside the arrays (`crashed`).

### PoolLifecycle

The application is one thread, each maintenance thread is a worker. The
maintenance mutex is held only around one call on the condition, so it is not a
variable. A condition variable has no memory: `stop_signals` wakes a worker only
if one is waiting. What a maintenance pass does is left to `TrackerPool`.

### FileUpload

Fields of the n-th `create_open` reply are all written `n`, so mixing two replies
shows. `result` is the hash, `given` the pointers taken from it, `storage` what
each path holds at its file server, `committed` what a tracker has carried out. Two
histories serve the properties: `refused`, the paths whose last PUT was answered with
an HTTP error status, and `puts`, the PUTs attempted with each reply.
`create_close_fails` and `put_error` include the case that the server did its
part and only the answer was lost. A reply whose last pairs are malformed leaves
its first ones in the hash (`create_open_fails`). Replies that lack a field and HTTP
error statuses are switched by the constants `Malformed` and `HttpErrors`; the passing
run allows both, the two configurations against the code only the one they are about. One `mfs_request_do` is
one step: `TrackerPool` shows what it does.

### FileDownload

A unit of content is `<<path, n>>`, so that mixing two attempts shows. The
variables are the outputs of the call (`*file`, `*bytes`, `*total_bytes`, the
caller's brigade), the `mfs_write_buffer` of the attempt, and per file what is on
disk and where the handle stands. One call of the write callback is one step:
`write_file`, `append_bucket`, `open_file`, or one of its failures. `get_ok` and
`get_error` are the rest of `mfs_file_server_get` after `curl_easy_perform`,
including the length check of `mfs_file_system_get`, which runs after the outputs
were assigned: that is how an attempt leaves a file to the next one. A server's
error page is content like any other, as in the code. A destination file may
exist and is not truncated; a temporary one is new.

### FileServers

A thread's job is `mfs_get_file_server` (`lookup` under the read lock, `add` under
the write lock), `apr_reslist_acquire`, setting the options, the transfer, and
releasing or invalidating the handle. Each option is null, set by the job that
holds the handle, or stale. `stat_fails` is the early return of
`mfs_file_server_put` that keeps its handle; `leaks` counts them. `apr_reslist` is
external: it hands out an idle resource if there is one, constructs one below the
hard limit, and otherwise blocks; an idle one may expire at any time.

### WatchReader

The tracker's stream is a sequence of bytes: `Sent[n]` is what it has sent with line `n`,
`Stream` the whole and `End(n)` the place where line `n` ends. The marker `[cache][` and the client
ids are shortened to one or two bytes. `read_buf` has one cell more than the
array: the first byte of `buf_pointer`, which follows it in `watch_data`. A step
takes one byte, after a `recv` if `cnt` is zero, and a `recv` ends anywhere in the
stream. Two histories serve the properties: `last` is the byte of the stream that
was received last, and `split` says that some `recv` has ended within a line. What a
caller gets is only right until then (`CacheLinesExact`); what the buffer holds is
stated whatever the cuts (`UnreadInOrder`).

### TrackerProtocol and TrackerCommands

A line is a sequence of tokens: the names the code writes are one token, a value
is a few characters, an encoded character is three tokens, and a number is its
digits. So lengths, separators and escapes are modelled and the spelling of names is
not. A request's length is computed as in the code, from lengths kept beside the
strings. `TrackerCommands`
runs one command: the caller's extra parameters (only `create_open` takes them),
the request, at most `MaxTries` attempts with sends and receives of any part, and
one `finish_*` action per form of reply, which yields a status and the outputs the
code has assigned by then (`out`). The tracker is external: it answers a whole
line with any of `Answers`, which lack a pair, announce a wrong count, or are
broken in one of four ways.

## 3. Runs

Passing runs:

| Run | Instance | Shows |
|---|---|---|
| `tracker_lists` | 3 trackers, garbage 0 (a valid index) or 9 | `ListsPartition`, `CountsAddUp`, and that the arrays implement `TrackerMembership` |
| `tracker_pool` | 2 trackers, 2 clients, maintenance, 3 connections, 2 faults | `TrackersPartition`, `ConnectionsSafe` (`Ownership`, `NoLeak`), `RepliesSafe` (`PooledClean`, `ReplyMatches`), `OutcomeTruthful` (`SuccessMeansReply`, `FailoverComplete`), `CountNeverUnder` |
| `tracker_pool_live` | 2 trackers (one may fail), 1 client with 2 calls, 2 faults | `RequestCompletes`, `Reactivated` |
| `pool_lifecycle` | 3 slots, unresolvable addresses, maintenance enabled or disabled while registering, 2 maintenance threads | `DestroySafe`, `StopReturns` |
| `file_upload` | 5 attempts, second path unusable, replies that lack a field, HTTP errors | `SuccessMeansSent`, `TriedTwice`, `ConnectionsAccounted`, `UploadReturns` |
| `file_download` | 4 paths (the second unusable), bodies up to 4 units, 2 of them in memory, required length none, 0 or 3 | `ResultExact`, `FailureFinal` (`FailureRestoresBrigade`, `EveryPathTried`), `MemoryBounded`, `DownloadReturns` |
| `file_servers` | 3 threads with one job each, 2 hosts, 2 connections per host | `OneServerPerHost`, `ConnectionsAccounted`, `NoStaleOption`, `AcquireEnds` |
| `watch_reader` | 2 lines cut anywhere, a buffer of 12 bytes, a caller's buffer of 8, one stop, one break, calls of `get_next_watch_cache_line` | `BuffersSafe` (`ReadsAtMostOneBeyond`, `CallerBufferSafe`), `UnreadInOrder`, `CacheLinesExact` (`CacheLinesGenuine`, `CacheLinesComplete`, until a `recv` ends within a line), `StopEndsCall` |
| `tracker_commands` | every command, 2 extra parameters, 2 attempts, pieces of 1 and 4 tokens, lists of at most 2 | `RequestExact`, `ReplyDecoded`, `StatusFaithful`, `OutputsWhole` (`ResultComplete`, `ListsAllOrNothing`) |

Violation runs. Each states what a comment, a header or a test says and TLC shows a
behaviour of the code against it; `PROJECT.json` quotes the lines and tells the traces:

| Run | Statement | Behaviour |
|---|---|---|
| `lifecycle_two_threads` | `NoUseAfterDestroy`: `maintenance_thread`, `pool_running` (`mogile_fs.h:167-168`) | two threads are started, one is joined, the pool is destroyed under the other |
| `upload_http_error` | `SuccessMeansStored`: "we have successfully upload the file to the fileserver" (`file_upload.c:317`) | a PUT answered with an error status counts as success |
| `watch_stale_byte` | `LinesIntact`: the lines that `tests/test_watch.c:45-53` expects | `cnt` is not decremented for the byte read after a refill: when a `recv` ends between CR and LF, the cell behind it (a zero that nothing has filled yet) comes between them, and the line keeps its CR |

Seven more divergences, of rarer uses, have configurations of their own to be run by
hand, among them the ways to crash. TLC finds each within seconds:

| Configuration (module) | Statement | Behaviour |
|---|---|---|
| `TrackerListsEarly.cfg` (`TrackerLists`) | `ListsPartition`: "mark as active..." (`pool.c:134`), with `EarlyUse` | with an inactive tracker, registration writes a cell that the active list does not reach |
| `TrackerPoolEmpty.cfg` (`MCTrackerPool`) | `ListHasTrackers`: "returns NULL if no active trackers" (`mogile_fs.h:181`) | the last tracker goes between the test of the count and the copy (`pool.c:144`), and the caller walks an empty list |
| `TrackerPoolNull.cfg` (`MCTrackerPool`) | `SuccessMeansReply`: "default to APR_ECONNREFUSED" (`request.c:24`), "pool is optional" (`mogile_fs.h:261`) | without a pool `rv` is overwritten by the result of `apr_pool_create`, and a request that no tracker answered returns `APR_SUCCESS` |
| `PoolLifecycleSlots.cfg` (`PoolLifecycle`) | `NoNullMutex`: `tracker_count` is a maximum (`mogile_fs.h:176`) | one of two addresses does not resolve, and destroying the pool locks the null mutex of the empty slot (`pool.c:107`) |
| `FileUploadMixed.cfg` (`FileUpload`) | `CloseNamesOneReply`: replies without a path, fid or devid are refused (`file_upload.c:268-281`) | the hash is not cleared between attempts, and the path of an earlier reply makes up for the one that is missing |
| `FileDownloadBytes.cfg` (`FileDownload`) | `BytesOptional`: `mogile_fs.h:383`, `tests/test_file_system_download.c:93` | `mfs_get_file` and `mfs_get_brigade` go through a NULL `bytes` at their first path (`file_download.c:323`) |
| `FileDownloadName.cfg` (`FileDownload`) | `AnyDestination`: "still try even if above fails" (`file_download.c:115`) | a destination without a slash is written through NULL once the data outgrows memory |

Other divergences are part of the models and left out of a property by its statement:
`DownloadReturns` excludes the calls that go through NULL (the last two configurations
above); a file may keep the tail of an earlier, longer body (`ResultExact`, which tells
it apart by `total_bytes`); `create_node`, `stats` and `check_fs` assign their outputs
after an `ERR` reply too (`ListsAllOrNothing` speaks of lists); a failed
`apr_file_info_get` loses its connection (`ConnectionsAccounted` says that nothing else
does, and `AcquireEnds` excepts a pool that lost them all).

Two smaller ones have no model: a connection error deactivates the only tracker
too, where `README:32` says "(only if > 1 trackers)"; and
`maintenance_thread_running`, "used to tell if maintenance thread is running"
(`mogile_fs.h:169`), is never cleared.

Bounds. Three trackers are the fewest with a first, middle and last cell to
remove. Two trackers are enough for failover and for every wrap-around of a walk
(both start positions); two faults let both trackers fail in one walk, or a
pooled connection and then the reconnect; three connections let every thread hold
one at once. `MaxCalls` is 1 for two clients, whose calls overlap with each other
and with maintenance, which reuses their connections, and 2 in the live run, in
which one call pools the connection the next one takes. Five attempts give three
replies: one used twice, one given up for its path, one more used twice; each may lack
any of its fields.
`CheckMax` stands for `APR_UINT32_MAX`.
Four paths give a failure, an unusable path, a length mismatch and a success in
one download; a body of 4 with 2 in memory fills memory exactly, exceeds it by one
block or by several. Three threads on a pool of two connections make one wait; two
hosts keep the pools apart. Twelve bytes hold two lines, or one with a rest
to be read by the next connection, and 8 bytes do not hold the longest line with its
end and a terminator, so the caller's buffer fills up too; cutting two lines everywhere
gives each `recv` every rest of a line. `get_next_watch_cache_line` calls
`get_next_watch_line` for each line, so the passing run has only calls of the former; the
violation run has those of the latter. Two attempts are enough for a reply to
find what a broken one left in the hash; `Pieces` cut a reply before its LF and
within its last pair; with `MAX_ALLOWED_PATHS` 3 the counts 0 to 3 are none, one,
two and too many.

Deadlock checking is off where the system may stop: in `TrackerLists` once the
bound of registrations is used up with no tracker, and in `TrackerPool` after a
crash, and in `FileServers` at the end of the jobs or when a pool has lost all its
connections. All other runs check it.

Fairness. Threads are scheduled (`WF` on each thread's step) and a tracker
answers what it has not failed to answer: in the code an answer that does not come
ends in a timeout, which is a fault. Faults, aging, new requests and everything
the application decides are never forced, except that `mfs_close_file_system`
goes on once it has begun. `Reactivated` rests on the bound on faults, that is, on
trackers that recover. `tracker_pool_live` keeps one tracker free of faults: with
no active tracker left the walk of an empty list need not end. Nor does the code bound
the turns of the loop on one tracker (`request.c:46`) if connections keep failing while
other threads return more of them: `RequestCompletes` rests on the bound on faults.
`UploadReturns` assumes that the calls an upload makes return: tracker calls have
a socket timeout, curl a low-speed limit (`file_upload.c:160`), and
`apr_reslist_acquire` blocks only while 50 connections are out. `DownloadReturns`
assumes the same (`file_download.c:211`). `AcquireEnds` assumes that each thread
runs when it can: a waiting thread need not be served first, but every job ends
with its handle released, invalidated or lost, and a thread has boundedly many.
`StopEndsCall` assumes that the watching thread runs: a `recv` has a timeout, after
which the flag is read again, and a sleep takes a second.

## 4. Proofs

For every value of the constants; the assumptions are the `ASSUME`s of the
modules, which TLC evaluates on every run. Each proof has an inductive invariant,
which holds of the initial states and of every step (one proof step per action)
and implies the property; the last step is temporal. The invariants below were
checked by TLC too, on the run's instance or a smaller one, before they were proved.

What a recursive function computes for every input is proved by way of a least
counterexample: the library's induction theorems cannot be used (they take an operator
as a parameter), but that a non-empty set of numbers has a least element can be cited.
The lemmas `Least` and `UpTo` put this into the form in which the proofs use it.

`TrackerLists_proofs`: `TypeCorrect`, `CountsCorrect` (`TypeOK`, `CountsAddUp`,
inductive together, also with early use), `PartitionCorrect` (`ListsPartition`
without early use) and `ListsImplementMembership` (refinement of
`TrackerMembership`). `ListsPartition` is not inductive: registration uses the
cell numbered `tracker_count`, which is the first free one only while no tracker
is inactive. `RegisterFirst` says so, and `IInv` is the conjunction. The step
rests on what the array operations do to a list: `RemoveListed` (removal deletes
exactly one element and shifts the others, whatever the foreign cell held),
`AppendListed` and `AppendDistinct`.

`FileUpload_proofs`, for any replies and HTTP statuses: `UploadTypeCorrect` and
`ConnectionsCorrect` (invariant `Safe`: `TypeOK`, `Counted`, `ConnectionsAccounted`);
`TriedTwiceCorrect` (`Parity`: the PUTs of the last reply are counted against the parity
of `call_tracker`, which a reply that is refused for a missing field leaves as it was);
`StoredCorrect` (`Delivered`: a PUT starts at the beginning of the file, and one that was
performed is stored whole or was refused). That a refused PUT counts as stored is the run
`upload_http_error`, that one `create_close` may name two replies `FileUploadMixed.cfg`.

`TrackerPool_proofs`, for any number of threads, trackers, connections, calls and
faults, in three layers, each resting on the one before:

* `Typed` gives `PoolTypeCorrect` and `PartitionCorrect`. The two lists hold
  `NumTrackers` entries together and are disjoint, and a thread holds an entry
  exactly between taking a connection and giving it up (`Holding`). Lists change by
  `Without`, the shift of `remove_from_array`, and by appending at the end.
* `Owned` gives `ConnectionsCorrect` and `CountCorrect`. `Apart(c)` says of one
  connection that stacks, entries and chains exclude each other and that it is alive
  exactly if it is in one of them; each way a connection changes hands (pop, connect,
  drain, destroy, return, expire, reap) is a lemma about `Apart`, and only the reaping
  thread has a chain (`Reaping`).
* `Exact` gives `RepliesCorrect`. What is on the wire of a connection is one message
  of the present call of the thread that holds it, which waits for it, or that thread
  is about to destroy the connection (`Wires`). `PooledClean` is not inductive: that a
  returned connection is empty depends on what its thread read from it.

`Tracking` gives `OutcomeCorrect` and `FailoverCorrect`: all positions from the
random start to the cursor, cyclically, name trackers that were tried (`Visited`,
`Walked`), so when the walk is back at its start, all were. `OutcomeCorrect` has the
hypothesis `"null" \notin PoolArgs`, without which it is false (section 3);
`FailoverCorrect` has none. `NoMessageAssumption` (no message is the value that
stands for "none") is needed because `got` is either.

`Tracking` also gives `WalksCorrect`: a walk stays within a copy that is not empty
(`WalksInCopy`), which `TypeOK` does not say, and the thread that reads outside of its
copy (`crashed`) is one that has copied an empty list, as under `TrackerPoolEmpty.cfg`.

Two action properties follow from these invariants. `PoolKeepsMembership`: a step that
changes the lists moves one tracker to the other side, a step of `TrackerMembership`
after registration, although a thread decides which tracker to move without the lock
(a second thread that decides the same finds it moved and does nothing).
`ActivatedAnswered`: a tracker becomes active again only through a maintenance thread
at that tracker which has read the reply to a ping of its own; it takes all of
`Tracking`, `Exact` and `Activators` (only maintenance gets there).

`PoolLifecycle_proofs`, for any order of calls and number of maintenance threads:
`LifecycleTypeCorrect` (`Counted`: registered and not yet registered addresses fit into
the slots) and `DestroyCorrect` (`Joined`: the handle is that of the thread started last,
which has left its loop before the destruction begins). What `DestroySafe` leaves open,
the thread whose handle was overwritten, is the run `lifecycle_two_threads`.

`FileServers_proofs`: `FileServersTypeCorrect`, `OneServerCorrect`,
`ConnectionsCorrect` and `NoStaleCorrect`. `Working` ties each thread's structure to
the table, `Held` says whose handle is whose, and `OneEach` counts structures made
against hosts in the table, so that a free name exists whenever `add` needs one
(`NamesAssumption`: names are finite and there are as many for structures as hosts).
`Pools` counts what each pool has lost against its failures of `apr_file_info_get`.
`NoStaleOption` is not inductive: `Headers` adds that a header list outside a transfer
is null, which is why an upload must take its own with it.

`FileDownload_proofs`: `DownloadTypeCorrect`, `MemoryCorrect`, `ResultCorrect` and
`FailureCorrect`, for any number of paths, length of bodies (both at least one) and
limit of memory. `Transfer` says where the units received so far are while a transfer
runs (the first ones in the brigade, the others in the file, none twice), `Broken`
what remains true after a failed write, `Between` what the next attempt finds: a file
at position zero and the brigade as it was. `ResultExact` and `FailureFinal` then hold
of every step that returns.

`WatchReader_proofs`, for any number and kinds of lines, cut anywhere: `BuffersCorrect`,
`TypeCorrect`, `UnreadCorrect` and `CacheLinesCorrect`. `Bounded` keeps
`buf_pointer + cnt` at most one byte beyond `read_buf`, only while `cnt` is positive:
after the last byte the pointer means nothing. `UnreadInOrder` is inductive with the types
and `Bounded` (`TakenInOrder`: taking a byte, with or without the stale one, keeps the
rest). `Tracked` says where the reader is in the stream while no `recv` has ended within
a line: `m` whole lines and `i` bytes of the next are consumed, the bytes counted in
`cnt`, but for one, are the bytes of the stream after that (`Position`); the call under
way has collected those bytes, after at most one stale byte (`Collected`); and what the
caller got are the cache lines among the first `m`, all of them unless watching was
stopped (`Delivered`). The invariant is `~split => Tracked`: the code gives no more than
`CacheLinesExact` says, for a `recv` that ends within a line may put the stale byte into
it, which is the run `watch_stale_byte`. `CacheLinesCorrect` has the hypothesis
`BufLen >= 8`: in a smaller buffer a cache line of the model, after a stale byte, is given
up as too long; the repository's own caller passes 999 bytes (`tests/test_watch.c:80`).

`TrackerCommands_proofs`, for any number of attempts, of extra parameters and metadata,
any limits on lists and any `Pieces`. The first part is about the operators of
`TrackerProtocol`:

* `RoundTrip` and `EncodeLength`: decoding undoes encoding, whatever the characters, and
  the length that is counted apart is the one of the string. An encoded string holds
  none of the tokens with a meaning in a line (`EncodeType`), which is why the next
  points hold.
* `StrtokParts`: `strtok` gives back the parts a line was made of, if none is empty or
  holds a separator; `SetPairsSays`: setting pairs one after the other leaves the last
  value of each key.
* `AnswerParsed`: every answer of the tracker is one line, which is parsed into the pairs
  the tracker wrote, or refused if it is broken.
* `Lists(ps, w)`: the parameter list `ps` holds the pairs `w`, with their number and
  their length. Every operation on lists keeps it (`AddLists`, `CopyLists`), and
  `ReadBack`: from the request built of such a list a tracker reads `w`, after the
  number of metadata pairs, and the line is as long as its buffer.

The second part has the invariants of the steps. `Running`: until a reply is accepted no
output is assigned, `is_ok` is unset and the status is that of a failed request.
`Received`: the buffer and what has not arrived are the reply. `Hashed`: until a reply is
accepted the hash holds what earlier attempts left, and no NULL. `Extras`: the caller's
list holds what the caller put in it. `Sending`: the tracker has a first part of the
request. They give `TypeCorrect`, `ReplyCorrect` (`ReplyDecoded`) and `RequestCorrect`
(`RequestExact`), and, from `ReplyCorrect`, `StatusCorrect` (`StatusFaithful`) and
`OutputsCorrect` (`OutputsWhole`); `ListsCorrect` (`ListsAllOrNothing`) needs only
`Running`. `NullAssumption` says that NULL is no truth value, no string of a reply and
no reply.

Only model-checked: the liveness properties (`RequestCompletes`, `Reactivated`,
`StopReturns`, `UploadReturns`, `DownloadReturns`, `AcquireEnds`, `StopEndsCall`), because
temporal proofs under fairness are outside this prover. Every invariant of a passing run
is stated by a theorem.

## 5. Not modelled

* Logging (`logger.c`): output that no other part reads.
* `mfs_curl_upload_timeout_checker` and `mfs_curl_download_timeout_checker`, which
  are no longer installed; the build and the tests.
* Failures of memory allocation, of lock calls, of `apr_file_seek` and of
  `apr_brigade_pflatten`, which the code logs or treats as fatal.
* The clock of a connection stack: `last_used` is read before the lock, so a stack
  need not be sorted, and `TrackerPool` only tells old connections from others.
* What a command does at the tracker: a command whose answer was lost is sent
  again, and whether it then takes effect twice depends on the tracker.
* A second `mfs_pool_stop_maintenance_thread`, which joins a joined thread.

## 6. Plan

1. `ConnectionPool`: one stack with a clock: which connections expire, and whether
   every idle one does ("pool is stack based (FIFO) so we can check the bottom of
   the stack when expiring", `README:46`).
2. Proofs: that only the thread that holds a connection destroys it, as an action
   property of `TrackerPool`.
