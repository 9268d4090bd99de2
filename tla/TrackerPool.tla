------------------------------- MODULE TrackerPool -------------------------------
(*****************************************************************************)
(* The tracker pool at work (src/src/pool.c, request.c, tracker.c): client   *)
(* threads inside mfs_request_do and maintenance threads inside              *)
(* mfs_pool_maintenance share the active and inactive lists and one stack of *)
(* idle connections per tracker.                                             *)
(*                                                                           *)
(* A step is a section under one lock, one access to shared state without a  *)
(* lock, or one network call; everything a thread does between two of them   *)
(* touches only its own memory and is folded into the step before.  The      *)
(* lists are the sequences that TrackerLists shows its arrays to hold.       *)
(*****************************************************************************)
EXTENDS Integers, Sequences, FiniteSets

CONSTANTS
    NumTrackers,    \* trackers registered with the pool
    Clients,        \* threads that call mfs_request_do
    Maint,          \* maintenance threads
    Conns,          \* identities of tracker connections; bounds the live ones
    None,           \* the null pointer
    PoolArgs,       \* whether callers pass a memory pool: "given" or "null"
    MaxCalls,       \* bound: mfs_request_do calls of each client
    Flaky,          \* trackers whose network calls may fail
    MaxFaults       \* bound: network calls that fail in one behaviour

Trackers == 0 .. NumTrackers - 1
Threads == Clients \cup Maint

ASSUME NumTrackersAssumption == NumTrackers \in Nat \ {0}
ASSUME ThreadsAssumption == Clients \cap Maint = {}
ASSUME NoneAssumption == None \notin Conns \cup Trackers \cup Threads
ASSUME PoolArgsAssumption == PoolArgs \subseteq {"given", "null"}
ASSUME BoundsAssumption == MaxCalls \in Nat /\ MaxFaults \in Nat

VARIABLES
    active, inactive,   \* the two lists, guarded by trackers->lock
    stack,              \* per tracker: idle connections, first = top
    connection_count,   \* per tracker: the counter kept beside the stack
    alive,              \* connections whose memory has not been released
    old,                \* idle for longer than MFS_CONNECTION_EXPIRE_TIME
    wire,               \* per connection: what was sent and not yet read
    faults,             \* network failures so far
    crashed,            \* a thread indexed the pool's arrays out of bounds
    pc,                 \* per thread: the call it is about to make
    entry,              \* per thread: the connection entry it holds
    chain,              \* per thread: entries it took off a stack to expire
    loc                 \* per thread: its other local variables

poolVars == <<active, inactive, stack, connection_count>>
netVars == <<alive, old, wire, faults>>
vars == <<poolVars, netVars, crashed, pc, entry, chain, loc>>

Listed(s) == {s[i] : i \in DOMAIN s}

\* A list after remove_from_array and the decrement of its count: the elements
\* from the first match on take the place of their left neighbour.
Without(s, t) ==
    [i \in 1 .. Len(s) - 1 |-> IF t \in {s[j] : j \in 1 .. i} THEN s[i + 1] ELSE s[i]]

\* Thread x runs and is about to make the call that label names.
At(x, label) == ~crashed /\ pc[x] = label
-------------------------------------------------------------------------------
(* Network: a connection carries requests and their replies in order.        *)

Message == [by : Threads, call : Nat, kind : {"request", "reply"}]

ASSUME NoMessageAssumption == None \notin Message

\* A network call on tracker t fails: refused, reset, timed out, malformed.
Fails(t) == t \in Flaky /\ faults < MaxFaults /\ faults' = faults + 1

\* mfs_pool_destroy_connection: closes the socket and releases the memory pool
\* that holds the connection and its entry.
mfs_pool_destroy_connection(c) ==
    /\ alive' = alive \ {c}
    /\ old' = old \ {c}
    /\ wire' = [wire EXCEPT ![c] = <<>>]

\* A tracker answers the first request on a connection it has not answered.
Answer(c) ==
    /\ ~crashed
    /\ \E i \in DOMAIN wire[c] :
        /\ wire[c][i].kind = "request"
        /\ \A j \in 1 .. i - 1 : wire[c][j].kind = "reply"
        /\ wire' = [wire EXCEPT ![c][i].kind = "reply"]
        /\ UNCHANGED <<poolVars, alive, old, faults, crashed, pc, entry, chain, loc>>

\* An idle connection passes MFS_CONNECTION_EXPIRE_TIME.
Age(c) ==
    /\ ~crashed
    /\ c \notin old /\ \E t \in Trackers : c \in Listed(stack[t])
    /\ old' = old \cup {c}
    /\ UNCHANGED <<poolVars, alive, wire, faults, crashed, pc, entry, chain, loc>>
-------------------------------------------------------------------------------
(* tracker_list: a private copy of a list with a cursor.                     *)

NoList == [indexes |-> <<>>, start |-> 0, cur |-> -1]

\* The local variables of a walk that has not begun.
Fresh == [phase |-> "request", list |-> NoList, index |-> 0, is_new |-> FALSE,
          tried |-> {}, rv |-> "refused", got |-> None, calls |-> 0]

\* (int)rint(((float)rand() / RAND_MAX) * (tracker_count - 1))
StartPositions(n) == IF n = 0 THEN {-1, 0} ELSE 0 .. n - 1

\* Mutant of Advance: the cursor does not loop at the end of the list.
AdvanceNoWrap(l) == IF l.cur = -1 THEN l.start ELSE l.cur + 1

\* The cursor after mfs_pool_next_tracker, which returns NULL when the cursor
\* was moved back to where it started.
Advance(l) ==
    IF l.cur = -1 THEN l.start
    ELSE IF l.cur + 1 >= Len(l.indexes) THEN 0 ELSE l.cur + 1

\* Mutant of IsLast: a walk ends at the end of the list, not where it began.
IsLastAtEnd(l) == l.cur # -1 /\ l.cur + 1 >= Len(l.indexes)

IsLast(l) == l.cur # -1 /\ Advance(l) = l.start

\* What mfs_pool_current_tracker_index may return: outside the copied indexes
\* it reads whatever the memory pool holds, which may not be an index at all.
CurrentIndex(l) ==
    LET pos == IF l.cur = -1 THEN l.start ELSE l.cur
    IN  IF pos + 1 \in DOMAIN l.indexes
        THEN {l.indexes[pos + 1]} ELSE Trackers \cup {None}

\* mfs_pool_test_inactive_trackers walks the inactive list, the other two
\* walks are over the active list.
Source(x) == IF loc[x].phase = "test" THEN inactive ELSE active

\* What a thread does when it has no list or its list is exhausted: a request
\* returns status, maintenance goes on to its other task.
Leave(x, status) ==
    IF x \in Clients
    THEN /\ pc' = [pc EXCEPT ![x] = "done"]
         /\ loc' = [loc EXCEPT ![x].rv = status]
    ELSE /\ pc' = [pc EXCEPT ![x] = "list"]
         /\ loc' = [loc EXCEPT ![x] = [Fresh EXCEPT !.phase =
                       IF loc[x].phase = "test" THEN "expire" ELSE "test"]]

\* mfs_pool_list_(in)active_trackers, the test of the count before the lock.
test_count(x) ==
    /\ At(x, "list")
    /\ IF Source(x) = <<>>
       THEN Leave(x, "refused")
       ELSE pc' = [pc EXCEPT ![x] = "copy"] /\ UNCHANGED loc
    /\ UNCHANGED <<poolVars, netVars, crashed, entry, chain>>

\* mfs_pool_list_(in)active_trackers, the copy under the read lock.
copy_list(x) ==
    /\ At(x, "copy")
    /\ \E s \in StartPositions(Len(Source(x))) :
          loc' = [loc EXCEPT ![x].tried = {}, ![x].list =
                     [indexes |-> Source(x), start |-> s, cur |-> -1]]
    /\ pc' = [pc EXCEPT ![x] = "next"]
    /\ UNCHANGED <<poolVars, netVars, crashed, entry, chain>>

\* mfs_pool_next_tracker in the loop of a walk.
next_tracker(x) ==
    /\ At(x, "next")
    /\ LET l == loc[x].list
           moved == [l EXCEPT !.cur = Advance(l)]
       IN IF IsLast(l)
          THEN Leave(x, loc[x].rv) /\ UNCHANGED crashed
          ELSE \E t \in CurrentIndex(moved) :
                 IF t = None
                 THEN crashed' = TRUE /\ UNCHANGED <<pc, loc>>
                 ELSE /\ pc' = [pc EXCEPT ![x] = IF loc[x].phase = "expire"
                                                 THEN "expire" ELSE "get"]
                      /\ loc' = [loc EXCEPT ![x].list = moved, ![x].index = t,
                                            ![x].tried = @ \cup {t}]
                      /\ UNCHANGED crashed
    /\ UNCHANGED <<poolVars, netVars, entry, chain>>
-------------------------------------------------------------------------------
(* mfs_pool_get_connection_ex and what it calls.                             *)

Pop(t) ==
    /\ stack' = [stack EXCEPT ![t] = Tail(@)]
    /\ connection_count' = [connection_count EXCEPT ![t] = @ - 1]

\* The section under the connection pool's lock: pop an idle connection, or go
\* on to connect.
pop_connection(x) ==
    LET t == loc[x].index IN
    /\ At(x, "get")
    /\ IF stack[t] = <<>>
       THEN /\ pc' = [pc EXCEPT ![x] = "connect"]
            /\ UNCHANGED <<stack, connection_count, entry, loc>>
       ELSE /\ Pop(t)
            /\ entry' = [entry EXCEPT ![x] = Head(stack[t])]
            /\ pc' = [pc EXCEPT ![x] = "send"]
            /\ loc' = [loc EXCEPT ![x].is_new = FALSE]
    /\ UNCHANGED <<active, inactive, netVars, crashed, chain>>

\* mfs_tracker_connect succeeds: a connection with memory of its own.
connect(x) ==
    /\ At(x, "connect")
    /\ \E c \in Conns \ alive :
          /\ alive' = alive \cup {c}
          /\ entry' = [entry EXCEPT ![x] = c]
    /\ pc' = [pc EXCEPT ![x] = "send"]
    /\ loc' = [loc EXCEPT ![x].is_new = TRUE]
    /\ UNCHANGED <<poolVars, old, wire, faults, crashed, chain>>

connect_fails(x) ==
    /\ At(x, "connect")
    /\ Fails(loc[x].index)
    /\ pc' = [pc EXCEPT ![x] = "deactivate"]
    /\ UNCHANGED <<poolVars, alive, old, wire, crashed, entry, chain, loc>>

\* Mutant: the second of two racing deactivate calls is not discarded.
deactivate_again(x) ==
    LET t == loc[x].index IN
    /\ At(x, "deactivate")
    /\ active' = Without(active, t)
    /\ inactive' = Append(inactive, t)
    /\ pc' = [pc EXCEPT ![x] = "drain"]
    /\ UNCHANGED <<stack, connection_count, netVars, crashed, entry, chain, loc>>

\* mfs_pool_deactivate, the section under the write lock.  Whoever moved the
\* tracker goes on to drain its stack; both callers then try the next tracker.
mfs_pool_deactivate(x) ==
    LET t == loc[x].index IN
    /\ At(x, "deactivate")
    /\ IF t \in Listed(active)
       THEN /\ active' = Without(active, t)
            /\ inactive' = Append(inactive, t)
            /\ pc' = [pc EXCEPT ![x] = "drain"]
       ELSE /\ pc' = [pc EXCEPT ![x] = "next"]
            /\ UNCHANGED <<active, inactive>>
    /\ UNCHANGED <<stack, connection_count, netVars, crashed, entry, chain, loc>>

\* Mutant: the loop asks for connections with create_new set, so that it never
\* runs out of them.
drain_creating(x) ==
    LET t == loc[x].index IN
    /\ At(x, "drain")
    /\ IF stack[t] = <<>>
       THEN UNCHANGED <<stack, connection_count, alive, old, wire>>
       ELSE Pop(t) /\ mfs_pool_destroy_connection(Head(stack[t]))
    /\ UNCHANGED <<active, inactive, faults, crashed, pc, entry, chain, loc>>

\* mfs_pool_deactivate, one turn of the loop that removes the connections of
\* the deactivated tracker.
drain(x) ==
    LET t == loc[x].index IN
    /\ At(x, "drain")
    /\ IF stack[t] = <<>>
       THEN /\ pc' = [pc EXCEPT ![x] = "next"]
            /\ UNCHANGED <<stack, connection_count, alive, old, wire>>
       ELSE /\ Pop(t)
            /\ mfs_pool_destroy_connection(Head(stack[t]))
            /\ UNCHANGED pc
    /\ UNCHANGED <<active, inactive, faults, crashed, entry, chain, loc>>
-------------------------------------------------------------------------------
(* mfs_tracker_request on the connection a thread holds.                     *)

send_request(x) ==
    /\ At(x, "send")
    /\ wire' = [wire EXCEPT ![entry[x]] =
          Append(@, [by |-> x, call |-> loc[x].calls, kind |-> "request"])]
    /\ pc' = [pc EXCEPT ![x] = "receive"]
    /\ UNCHANGED <<poolVars, alive, old, faults, crashed, entry, chain, loc>>

\* Mutant: a ping that is answered does not lead to mfs_pool_activate.
receive_no_activate(x) ==
    LET c == entry[x] IN
    /\ At(x, "receive")
    /\ wire[c] # <<>> /\ Head(wire[c]).kind = "reply"
    /\ wire' = [wire EXCEPT ![c] = Tail(@)]
    /\ pc' = [pc EXCEPT ![x] = "return"]
    /\ loc' = [loc EXCEPT ![x].rv = "success", ![x].got = Head(wire[c])]
    /\ UNCHANGED <<poolVars, alive, old, faults, crashed, entry, chain>>

\* A complete, well-formed reply line is read.
receive_reply(x) ==
    LET c == entry[x] IN
    /\ At(x, "receive")
    /\ wire[c] # <<>> /\ Head(wire[c]).kind = "reply"
    /\ wire' = [wire EXCEPT ![c] = Tail(@)]
    /\ pc' = [pc EXCEPT ![x] = IF x \in Clients THEN "return" ELSE "activate"]
    /\ loc' = [loc EXCEPT ![x].rv = "success", ![x].got = Head(wire[c])]
    /\ UNCHANGED <<poolVars, alive, old, faults, crashed, entry, chain>>

\* The send or the read fails, times out or yields a malformed line, whether or
\* not the tracker has acted on the request.
request_fails(x) ==
    /\ At(x, "send") \/ At(x, "receive")
    /\ Fails(loc[x].index)
    /\ pc' = [pc EXCEPT ![x] = "destroy"]
    /\ loc' = [loc EXCEPT ![x].rv = "error"]
    /\ UNCHANGED <<poolVars, alive, old, wire, crashed, entry, chain>>

\* Mutant: the failed connection goes back to the pool.
destroy_pools(x) ==
    LET t == loc[x].index IN
    /\ At(x, "destroy")
    /\ stack' = [stack EXCEPT ![t] = <<entry[x]>> \o @]
    /\ connection_count' = [connection_count EXCEPT ![t] = @ + 1]
    /\ entry' = [entry EXCEPT ![x] = None]
    /\ pc' = [pc EXCEPT ![x] = "next"]
    /\ UNCHANGED <<active, inactive, netVars, crashed, chain, loc>>

\* The failed connection is destroyed.  A request goes back to the same tracker
\* unless the connection was new; maintenance goes to the next tracker.
destroy_failed(x) ==
    /\ At(x, "destroy")
    /\ mfs_pool_destroy_connection(entry[x])
    /\ entry' = [entry EXCEPT ![x] = None]
    /\ pc' = [pc EXCEPT ![x] = IF x \in Maint \/ loc[x].is_new
                               THEN "next" ELSE "get"]
    /\ UNCHANGED <<poolVars, faults, crashed, chain, loc>>

\* Mutant: a returned connection is not counted.
return_uncounted(x) ==
    LET t == loc[x].index IN
    /\ At(x, "return")
    /\ stack' = [stack EXCEPT ![t] = <<entry[x]>> \o @]
    /\ old' = old \ {entry[x]}
    /\ entry' = [entry EXCEPT ![x] = None]
    /\ pc' = [pc EXCEPT ![x] = IF x \in Clients THEN "done" ELSE "next"]
    /\ UNCHANGED <<active, inactive, connection_count, alive, wire, faults,
                   crashed, chain, loc>>

\* mfs_pool_return_connection; a request then returns, maintenance goes on.
mfs_pool_return_connection(x) ==
    LET t == loc[x].index IN
    /\ At(x, "return")
    /\ stack' = [stack EXCEPT ![t] = <<entry[x]>> \o @]
    /\ connection_count' = [connection_count EXCEPT ![t] = @ + 1]
    /\ old' = old \ {entry[x]}
    /\ entry' = [entry EXCEPT ![x] = None]
    /\ pc' = [pc EXCEPT ![x] = IF x \in Clients THEN "done" ELSE "next"]
    /\ UNCHANGED <<active, inactive, alive, wire, faults, crashed, chain, loc>>
-------------------------------------------------------------------------------
(* The callers.                                                              *)

\* mfs_request_do is called.  With a pool of its own making, rv holds the
\* status of apr_pool_create instead of APR_ECONNREFUSED.
mfs_request_do(x) ==
    /\ At(x, "done")
    /\ loc[x].calls < MaxCalls
    /\ \E arg \in PoolArgs :
          loc' = [loc EXCEPT ![x] = [Fresh EXCEPT
                     !.rv = IF arg = "null" THEN "success" ELSE "refused",
                     !.calls = loc[x].calls + 1]]
    /\ pc' = [pc EXCEPT ![x] = "list"]
    /\ UNCHANGED <<poolVars, netVars, crashed, entry, chain>>

\* mfs_pool_activate, called when a tracker on the inactive list answers.
mfs_pool_activate(x) ==
    LET t == loc[x].index IN
    /\ At(x, "activate")
    /\ IF t \in Listed(inactive)
       THEN inactive' = Without(inactive, t) /\ active' = Append(active, t)
       ELSE UNCHANGED <<active, inactive>>
    /\ pc' = [pc EXCEPT ![x] = "return"]
    /\ UNCHANGED <<stack, connection_count, netVars, crashed, entry, chain, loc>>

\* Mutant: the expired entries are collected but left on the stack.
expired_not_unlinked(x) ==
    LET t == loc[x].index
        Bottom(k) == SubSeq(stack[t], k, Len(stack[t]))
    IN
    /\ At(x, "expire")
    /\ \E k \in 1 .. Len(stack[t]) + 1 :
          /\ Listed(Bottom(k)) \subseteq old
          /\ k > 1 => stack[t][k - 1] \notin old
          /\ chain' = [chain EXCEPT ![x] = Bottom(k)]
    /\ pc' = [pc EXCEPT ![x] = "reap"]
    /\ UNCHANGED <<poolVars, netVars, crashed, entry, loc>>

\* mfs_pool_get_expired_trackers: unlink the longest run of expired entries at
\* the bottom of the stack.  connection_count is left alone.
mfs_pool_get_expired_trackers(x) ==
    LET t == loc[x].index
        Bottom(k) == SubSeq(stack[t], k, Len(stack[t]))
    IN
    /\ At(x, "expire")
    /\ \E k \in 1 .. Len(stack[t]) + 1 :
          /\ Listed(Bottom(k)) \subseteq old
          /\ k > 1 => stack[t][k - 1] \notin old
          /\ chain' = [chain EXCEPT ![x] = Bottom(k)]
          /\ stack' = [stack EXCEPT ![t] = SubSeq(@, 1, k - 1)]
    /\ pc' = [pc EXCEPT ![x] = "reap"]
    /\ UNCHANGED <<active, inactive, connection_count, netVars, crashed, entry, loc>>

\* mfs_pool_expire_active_trackers destroys the unlinked entries one by one.
reap(x) ==
    /\ At(x, "reap")
    /\ IF chain[x] = <<>>
       THEN /\ pc' = [pc EXCEPT ![x] = "next"]
            /\ UNCHANGED <<alive, old, wire, chain>>
       ELSE /\ mfs_pool_destroy_connection(Head(chain[x]))
            /\ chain' = [chain EXCEPT ![x] = Tail(@)]
            /\ UNCHANGED pc
    /\ UNCHANGED <<poolVars, faults, crashed, entry, loc>>
-------------------------------------------------------------------------------
Init ==
    /\ active = [i \in 1 .. NumTrackers |-> i - 1]
    /\ inactive = <<>>
    /\ stack = [t \in Trackers |-> <<>>]
    /\ connection_count = [t \in Trackers |-> 0]
    /\ alive = {} /\ old = {} /\ faults = 0 /\ crashed = FALSE
    /\ wire = [c \in Conns |-> <<>>]
    /\ pc = [x \in Threads |-> IF x \in Clients THEN "done" ELSE "list"]
    /\ entry = [x \in Threads |-> None]
    /\ chain = [x \in Threads |-> <<>>]
    /\ loc = [x \in Threads |->
                 IF x \in Clients THEN Fresh ELSE [Fresh EXCEPT !.phase = "test"]]

\* One step of a mfs_request_do in progress, or of a maintenance pass.
Step(x) ==
    \/ test_count(x) \/ copy_list(x) \/ next_tracker(x)
    \/ pop_connection(x) \/ connect(x) \/ connect_fails(x)
    \/ mfs_pool_deactivate(x) \/ drain(x)
    \/ send_request(x) \/ receive_reply(x) \/ request_fails(x)
    \/ destroy_failed(x) \/ mfs_pool_return_connection(x)
    \/ mfs_pool_activate(x) \/ mfs_pool_get_expired_trackers(x) \/ reap(x)

Next ==
    \/ \E x \in Threads : Step(x)
    \/ \E x \in Clients : mfs_request_do(x)
    \/ \E c \in Conns : Answer(c) \/ Age(c)

Spec == Init /\ [][Next]_vars

\* The operating system runs every thread, and a tracker that is up answers.
\* Nothing forces a fault, an aging or a new request.
FairSpec ==
    /\ Spec
    /\ \A x \in Threads : WF_vars(Step(x))
    /\ \A c \in Conns : WF_vars(Answer(c))
-------------------------------------------------------------------------------
(* Properties.                                                               *)

Lists == [indexes : UNION {[1 .. n -> Trackers] : n \in 0 .. NumTrackers},
          start : -1 .. NumTrackers - 1, cur : -1 .. NumTrackers - 1]

Labels == {"done", "list", "copy", "next", "get", "connect", "deactivate",
           "drain", "send", "receive", "destroy", "return", "activate",
           "expire", "reap"}

Statuses == {"refused", "error", "success"}

Locals == [phase : {"request", "test", "expire"}, list : Lists,
           index : Trackers, is_new : BOOLEAN, tried : SUBSET Trackers,
           rv : Statuses, got : Message \cup {None}, calls : 0 .. MaxCalls]

TypeOK ==
    /\ active \in Seq(Trackers) /\ inactive \in Seq(Trackers)
    /\ stack \in [Trackers -> Seq(Conns)]
    /\ connection_count \in [Trackers -> Int]
    /\ alive \subseteq Conns /\ old \subseteq Conns
    /\ wire \in [Conns -> Seq(Message)]
    /\ faults \in 0 .. MaxFaults
    /\ crashed \in BOOLEAN
    /\ pc \in [Threads -> Labels]
    /\ entry \in [Threads -> Conns \cup {None}]
    /\ chain \in [Threads -> Seq(Conns)]
    /\ loc \in [Threads -> Locals]

NoRepeats(s) == \A i, j \in DOMAIN s : s[i] = s[j] => i = j

\* Every tracker is on exactly one of the two lists, once, whatever walks,
\* deactivations and reactivations overlap (pool.c:217-257).
TrackersPartition ==
    /\ Listed(active) \cup Listed(inactive) = Trackers
    /\ Listed(active) \cap Listed(inactive) = {}
    /\ NoRepeats(active) /\ NoRepeats(inactive)

\* A connection is reachable from one place only - a stack, a thread's entry or
\* the chain of entries a thread is expiring - and its memory is still there:
\* no double use, no double destroy, no use after destroy (pool.c:259-336,
\* 424-470, which hand connections around outside the locks).
Ownership ==
    /\ \A t \in Trackers :
          /\ Listed(stack[t]) \subseteq alive
          /\ NoRepeats(stack[t])
          /\ \A u \in Trackers \ {t} : Listed(stack[t]) \cap Listed(stack[u]) = {}
    /\ \A x \in Threads :
          /\ Listed(chain[x]) \cup ({entry[x]} \ {None}) \subseteq alive
          /\ NoRepeats(chain[x])
          /\ entry[x] \notin Listed(chain[x])
          /\ \A t \in Trackers :
                Listed(stack[t]) \cap (Listed(chain[x]) \cup {entry[x]}) = {}
          /\ \A y \in Threads \ {x} :
                (Listed(chain[x]) \cup ({entry[x]} \ {None}))
                   \cap (Listed(chain[y]) \cup {entry[y]}) = {}

\* No connection is leaked: on every error path of mfs_request_do and of the
\* maintenance walk it is destroyed or pooled again.
NoLeak ==
    \A c \in alive :
        \/ \E t \in Trackers : c \in Listed(stack[t])
        \/ \E x \in Threads : c = entry[x] \/ c \in Listed(chain[x])

\* Every live connection is in exactly one place, and only live ones are
\* anywhere, although stacks, threads and the expiry hand them around outside
\* the locks and each has error paths of its own (pool.c:250-336, 424-469).
ConnectionsSafe == Ownership /\ NoLeak

\* A pooled connection has nothing in flight.  A reply that comes after its
\* request was given up (timeout, request.c:52-61) can never be read as the
\* answer to a later request on the same connection.
PooledClean == \A t \in Trackers : \A c \in Listed(stack[t]) : wire[c] = <<>>

\* The answer a request works with is the answer to that very request.
ReplyMatches ==
    \A x \in Threads : loc[x].got # None =>
        loc[x].got = [by |-> x, call |-> loc[x].calls, kind |-> "reply"]

\* Late replies are harmless: they stay on connections that are destroyed
\* (request.c:52-61), so that no request reads one.
RepliesSafe == PooledClean /\ ReplyMatches

\* mfs_request_do reports success only if a tracker answered this request; its
\* default is APR_ECONNREFUSED "becuase if we dont call the server its becuase
\* they are all down" (request.c:24).
SuccessMeansReply ==
    \A x \in Clients :
        (pc[x] = "done" /\ loc[x].rv = "success") => loc[x].got # None

\* A list that a thread walks has a tracker: the two functions that make one
\* return "NULL if no active trackers" (mogile_fs.h:181).  They test the count
\* before they take the lock and copy the list under it (pool.c:144-153, 164-173).
ListHasTrackers ==
    \A x \in Threads : pc[x] = "next" => loc[x].list.indexes # <<>>

\* mfs_request_do gives up only after it has tried every tracker of its copy of
\* the active list, from whatever random position it started (request.c:46).
FailoverComplete ==
    \A x \in Clients :
        (pc[x] = "done" /\ loc[x].got = None)
            => Listed(loc[x].list.indexes) \subseteq loc[x].tried

\* What the status of mfs_request_do means (request.c:24, 42-75): success, that
\* this request was answered; failure, that every tracker listed was tried.
OutcomeTruthful == SuccessMeansReply /\ FailoverComplete

\* connection_count never undercounts the stack (expiry leaves it too high).
CountNeverUnder ==
    \A t \in Trackers : connection_count[t] >= Len(stack[t])

\* A request ends, however the other threads interleave.
RequestCompletes ==
    \A x \in Clients : pc[x] # "done" ~> pc[x] = "done"

\* Once its failures are over, a deactivated tracker is activated again by the
\* maintenance thread (pool.c:395-422).
Reactivated ==
    \A t \in Trackers : t \in Listed(inactive) ~> t \in Listed(active)
================================================================================
