--------------------------- MODULE FileServers_proofs ---------------------------
(*****************************************************************************)
(* Proofs about the file server table and its connection pools, for every    *)
(* number of threads, hosts and jobs and every limit of a pool.              *)
(*****************************************************************************)
EXTENDS FileServers, FiniteSetTheorems, TLAPS

USE SizesAssumption, NamesAssumption, NoneAssumption

\* What a thread holds at each point of a job.
Working ==
    \A t \in Threads :
        /\ pc[t] # "ready" => kind[t] \in {"get", "put"} /\ host[t] \in Hosts
        /\ pc[t] \in {"acquire", "prepare", "perform"} =>
              /\ file_server[t] \in Servers
              /\ file_server[t] = file_servers[host[t]]
        /\ conn[t] # None <=> pc[t] \in {"prepare", "perform"}

\* A connection in use is in no pool and in no other hands.
Held ==
    /\ \A t, u \in Threads : conn[t] # None /\ conn[t] = conn[u] => t = u
    /\ \A t \in Threads : conn[t] # None =>
          conn[t] \notin idle /\ pool_of[conn[t]] = file_server[t]

Safe == TypeOK /\ Working /\ Held

LEMMA SafeInit == Init => Safe
  BY DEF Init, Safe, TypeOK, Working, Held, Option, OptionState
-------------------------------------------------------------------------------
(* The table.                                                                *)

Tabled == {h \in Hosts : file_servers[h] # None}
OneEach == Cardinality(made) = Cardinality(Tabled)

LEMMA OneEachInit == Init => OneEach
<1> SUFFICES ASSUME Init PROVE OneEach
  OBVIOUS
<1>1. made = {} /\ Tabled = {}
  BY DEF Init, Tabled
<1> QED BY <1>1 DEF OneEach

\* A host that is not in the table leaves a name for its structure.
LEMMA NameLeft ==
    ASSUME TypeOK, OneEach, NEW h \in Hosts, file_servers[h] = None
    PROVE  \E s \in Servers : s \notin made
<1>1. Tabled \subseteq Hosts /\ Tabled # Hosts
  BY DEF Tabled
<1>2. IsFiniteSet(Tabled) /\ Cardinality(Tabled) < Cardinality(Hosts)
  <2>1. /\ IsFiniteSet(Tabled) /\ Cardinality(Tabled) <= Cardinality(Hosts)
        /\ Cardinality(Tabled) # Cardinality(Hosts)
    BY <1>1, FS_Subset
  <2>2. Cardinality(Tabled) \in Nat /\ Cardinality(Hosts) \in Nat
    BY <2>1, FS_CardinalityType
  <2> QED BY <2>1, <2>2
<1>3. made # Servers
  <2>1. Cardinality(Tabled) \in Nat /\ Cardinality(Hosts) \in Nat /\ Cardinality(Servers) \in Nat
    BY <1>2, FS_CardinalityType
  <2> QED BY <1>2, <2>1 DEF OneEach
<1> QED BY <1>3 DEF TypeOK

\* What add does when the host is still missing under the write lock.
LEMMA Added ==
    ASSUME TypeOK, OneEach, NEW t \in Threads, add(t), host[t] \in Hosts,
           file_servers[host[t]] = None
    PROVE  \E s \in Servers \ made :
              /\ made' = made \cup {s}
              /\ file_servers' = [file_servers EXCEPT ![host[t]] = s]
              /\ file_server' = [file_server EXCEPT ![t] = s]
<1> DEFINE s == CHOOSE s \in Servers : s \notin made
<1>1. s \in Servers /\ s \notin made
  BY NameLeft
<1>2. /\ made' = made \cup {s}
      /\ file_servers' = [file_servers EXCEPT ![host[t]] = s]
      /\ file_server' = [file_server EXCEPT ![t] = s]
  BY DEF add
<1> HIDE DEF s
<1> QED BY <1>1, <1>2

\* One structure is made for a host that gets its first one, and only then.
LEMMA OneEachStep == Safe /\ OneEach /\ [Next]_vars => OneEach'
<1> SUFFICES ASSUME Safe, OneEach, [Next]_vars PROVE OneEach'
  OBVIOUS
<1>1. CASE UNCHANGED serverVars
  BY <1>1 DEF OneEach, Tabled, serverVars
<1>2. ASSUME NEW t \in Threads, add(t) PROVE OneEach'
  <2>1. host[t] \in Hosts
    BY <1>2 DEF Safe, Working, add
  <2>2. CASE file_servers[host[t]] # None
    BY <1>1, <1>2, <2>2 DEF add
  <2>3. CASE file_servers[host[t]] = None
    <3>1. PICK s \in Servers \ made :
              made' = made \cup {s} /\ file_servers' = [file_servers EXCEPT ![host[t]] = s]
      BY <1>2, <2>1, <2>3, Added DEF Safe
    <3>2. Tabled' = Tabled \cup {host[t]} /\ host[t] \notin Tabled
      BY <2>1, <2>3, <3>1 DEF Tabled, Safe, TypeOK
    <3>3. IsFiniteSet(made) /\ IsFiniteSet(Tabled)
      BY FS_Subset DEF Safe, TypeOK, Tabled
    <3>4. Cardinality(made \cup {s}) = Cardinality(made) + 1
      BY <3>1, <3>3, FS_AddElement
    <3>5. Cardinality(Tabled \cup {host[t]}) = Cardinality(Tabled) + 1
      BY <3>2, <3>3, FS_AddElement
    <3> QED BY <3>1, <3>2, <3>4, <3>5 DEF OneEach
  <2> QED BY <2>2, <2>3
<1> QED
  BY <1>1, <1>2 DEF Next, Thread, begin_job, lookup, add_fails, acquire_idle, acquire_new,
     acquire_fails, Acquired, prepare_get, prepare_put, stat_fails, perform_ok,
     perform_error, expire, close_file_system, vars, serverVars
-------------------------------------------------------------------------------
(* Types, what threads hold, and the table, step by step.                    *)

LEMMA SafeStep == Safe /\ OneEach /\ [Next]_vars => Safe'
<1> SUFFICES ASSUME Safe, OneEach, [Next]_vars PROVE Safe'
  OBVIOUS
<1> USE DEF Safe, TypeOK, Working, Held, Goto, serverVars, poolVars, jobVars
<1>1. ASSUME NEW t \in Threads, begin_job(t) PROVE Safe'
  BY <1>1 DEF begin_job
<1>2. ASSUME NEW t \in Threads, lookup(t) PROVE Safe'
  BY <1>2 DEF lookup
<1>3. ASSUME NEW t \in Threads, add(t) PROVE Safe'
  <2>1. CASE file_servers[host[t]] # None
    BY <1>3, <2>1 DEF add
  <2>2. CASE file_servers[host[t]] = None
    <3>1. PICK s \in Servers \ made :
              /\ made' = made \cup {s}
              /\ file_servers' = [file_servers EXCEPT ![host[t]] = s]
              /\ file_server' = [file_server EXCEPT ![t] = s]
      BY <1>3, <2>2, Added DEF add
    <3>2. /\ pc[t] = "add" /\ pc' = [pc EXCEPT ![t] = "acquire"]
          /\ UNCHANGED <<poolVars, jobVars, conn, leaks, open>>
      BY <1>3 DEF add
    <3> QED BY <2>2, <3>1, <3>2
  <2> QED BY <2>1, <2>2
<1>4. ASSUME NEW t \in Threads, add_fails(t) PROVE Safe'
  BY <1>4 DEF add_fails, EndJob
<1>5. ASSUME NEW t \in Threads, acquire_idle(t) PROVE Safe'
  BY <1>5 DEF acquire_idle, Acquired, PoolOf
<1>6. ASSUME NEW t \in Threads, acquire_new(t) PROVE Safe'
  <2> DEFINE c == CHOOSE c \in Connections : pool_of[c] = None
  <2>1. c \in Connections /\ pool_of[c] = None
    BY <1>6 DEF acquire_new
  <2>2. /\ pc[t] = "acquire" /\ pool_of' = [pool_of EXCEPT ![c] = file_server[t]]
        /\ Acquired(t, c) /\ UNCHANGED <<idle, options>>
    BY <1>6 DEF acquire_new
  <2> HIDE DEF c
  <2> QED BY <2>1, <2>2 DEF Acquired
<1>7. ASSUME NEW t \in Threads, acquire_fails(t) PROVE Safe'
  BY <1>7 DEF acquire_fails, EndJob
<1>8. ASSUME NEW t \in Threads, prepare_get(t) PROVE Safe'
  BY <1>8 DEF prepare_get, Option, OptionState
<1>9. ASSUME NEW t \in Threads, prepare_put(t) PROVE Safe'
  BY <1>9 DEF prepare_put, Option, OptionState
<1>10. ASSUME NEW t \in Threads, stat_fails(t) PROVE Safe'
  BY <1>10, SMTT(30) DEF stat_fails, EndJob, Option, OptionState
<1>11. ASSUME NEW t \in Threads, perform_ok(t) PROVE Safe'
  BY <1>11 DEF perform_ok, EndJob, Performed, Aged, Option, OptionState
<1>12. ASSUME NEW t \in Threads, perform_error(t) PROVE Safe'
  BY <1>12 DEF perform_error, EndJob, Destroyed, Option, OptionState
<1>13. ASSUME NEW c \in Connections, expire(c) PROVE Safe'
  BY <1>13 DEF expire, Destroyed, Option, OptionState
<1>14. CASE close_file_system
  BY <1>14 DEF close_file_system, Option, OptionState
<1>15. CASE UNCHANGED vars
  BY <1>15 DEF vars
<1> QED
  BY <1>1, <1>2, <1>3, <1>4, <1>5, <1>6, <1>7, <1>8, <1>9, <1>10, <1>11, <1>12,
     <1>13, <1>14, <1>15 DEF Next, Thread

LEMMA AlwaysSafe == Spec => [](Safe /\ OneEach)
  BY SafeInit, OneEachInit, SafeStep, OneEachStep, PTL DEF Spec

\* Every variable keeps its type.
THEOREM FileServersTypeCorrect == Spec => []TypeOK
<1>1. Safe => TypeOK
  BY DEF Safe
<1> QED BY <1>1, AlwaysSafe, PTL

\* Threads that miss a host at the same time make one structure for it, and each
\* of them works with the one in the table (file.c:136-171).
THEOREM OneServerCorrect == Spec => []OneServerPerHost
<1>1. Safe /\ OneEach => OneServerPerHost
  BY DEF Safe, Working, OneEach, Tabled, OneServerPerHost
<1> QED BY <1>1, AlwaysSafe, PTL
-------------------------------------------------------------------------------
(* The connections of each pool.                                             *)

Lost(s) == {c \in PoolOf(s) \ idle : \A t \in Threads : conn[t] # c}

Pools ==
    \A s \in Servers :
        Cardinality(PoolOf(s)) <= HardMax /\ Cardinality(Lost(s)) = leaks[s]

LEMMA PoolsFinite ==
    \A s \in Servers : /\ IsFiniteSet(PoolOf(s)) /\ Cardinality(PoolOf(s)) \in Nat
                       /\ IsFiniteSet(Lost(s)) /\ Cardinality(Lost(s)) \in Nat
  BY FS_Subset, FS_CardinalityType DEF PoolOf, Lost

LEMMA PoolsInit == Init => Pools
<1> SUFFICES ASSUME Init, NEW s \in Servers
             PROVE  Cardinality(PoolOf(s)) <= HardMax /\ Cardinality(Lost(s)) = leaks[s]
  BY DEF Pools
<1>1. PoolOf(s) = {} /\ Lost(s) = {}
  BY DEF Init, PoolOf, Lost
<1> QED BY <1>1, FS_EmptySet DEF Init

\* A step that makes no connection and loses none.
LEMMA PoolsShrink ==
    ASSUME Pools, UNCHANGED leaks,
           \A s \in Servers : PoolOf(s)' \subseteq PoolOf(s) /\ Lost(s)' = Lost(s)
    PROVE  Pools'
<1> SUFFICES ASSUME NEW s \in Servers
             PROVE  Cardinality(PoolOf(s)') <= HardMax /\ Cardinality(Lost(s)') = leaks'[s]
  BY DEF Pools
<1>1. IsFiniteSet(PoolOf(s)) /\ Cardinality(PoolOf(s)) \in Nat
  BY PoolsFinite
<1>2. /\ IsFiniteSet(PoolOf(s)') /\ Cardinality(PoolOf(s)') <= Cardinality(PoolOf(s))
  BY <1>1, FS_Subset
<1>3. Cardinality(PoolOf(s)') \in Nat
  BY <1>2, FS_CardinalityType
<1> QED BY <1>1, <1>2, <1>3 DEF Pools

LEMMA PoolsStep == Safe /\ Pools /\ [Next]_vars => Pools'
<1> SUFFICES ASSUME Safe, Pools, [Next]_vars PROVE Pools'
  OBVIOUS
<1> DEFINE Kept == /\ UNCHANGED leaks
                   /\ \A s \in Servers : PoolOf(s)' \subseteq PoolOf(s) /\ Lost(s)' = Lost(s)
<1> USE DEF Safe, TypeOK, Working, Held, Goto, serverVars, poolVars, jobVars
<1>1. ASSUME NEW t \in Threads, begin_job(t) \/ lookup(t) \/ add(t) PROVE Kept
  BY <1>1 DEF begin_job, lookup, add, PoolOf, Lost
<1>2. ASSUME NEW t \in Threads, add_fails(t) \/ acquire_fails(t) PROVE Kept
  BY <1>2 DEF add_fails, acquire_fails, EndJob, PoolOf, Lost
<1>3. ASSUME NEW t \in Threads, acquire_idle(t) PROVE Kept
  BY <1>3, SMTT(30) DEF acquire_idle, Acquired, PoolOf, Lost
<1>4. ASSUME NEW t \in Threads, acquire_new(t) PROVE Pools'
  <2> DEFINE c == CHOOSE c \in Connections : pool_of[c] = None
  <2>0. PICK fs \in Servers : fs = file_server[t] /\ pc[t] = "acquire"
    BY <1>4 DEF acquire_new
  <2>1. c \in Connections /\ pool_of[c] = None
    BY <1>4 DEF acquire_new
  <2>2. /\ pool_of' = [pool_of EXCEPT ![c] = fs]
        /\ conn' = [conn EXCEPT ![t] = c] /\ UNCHANGED <<idle, leaks>>
        /\ Cardinality(PoolOf(fs)) < HardMax
    BY <1>4, <2>0 DEF acquire_new, Acquired
  <2> HIDE DEF c
  <2>3. fs # None /\ conn[t] = None
    BY <2>0
  <2>4. PoolOf(fs)' = PoolOf(fs) \cup {c} /\ c \notin PoolOf(fs)
    BY <2>1, <2>2, <2>3 DEF PoolOf, Lost
  <2>5. \A s \in Servers : s # fs => PoolOf(s)' = PoolOf(s)
    BY <2>1, <2>2, <2>3 DEF PoolOf, Lost
  <2>6. \A s \in Servers : Lost(s)' = Lost(s)
    BY <2>1, <2>2, <2>3 DEF PoolOf, Lost
  <2>7. Cardinality(PoolOf(fs)') <= HardMax
    <3>1. IsFiniteSet(PoolOf(fs)) /\ Cardinality(PoolOf(fs)) \in Nat
      BY <2>3, PoolsFinite
    <3>2. Cardinality(PoolOf(fs) \cup {c}) = Cardinality(PoolOf(fs)) + 1
      BY <2>4, <3>1, FS_AddElement
    <3> QED BY <2>2, <2>4, <3>1, <3>2
  <2> QED BY <2>2, <2>5, <2>6, <2>7 DEF Pools
<1>5. ASSUME NEW t \in Threads, prepare_get(t) \/ prepare_put(t) PROVE Kept
  BY <1>5 DEF prepare_get, prepare_put, PoolOf, Lost
<1>6. ASSUME NEW t \in Threads, stat_fails(t) PROVE Pools'
  <2>0. PICK fs \in Servers : fs = file_server[t] /\ pc[t] = "prepare"
    BY <1>6 DEF stat_fails
  <2>1. /\ conn' = [conn EXCEPT ![t] = None]
        /\ leaks' = [leaks EXCEPT ![fs] = @ + 1] /\ UNCHANGED <<pool_of, idle>>
    BY <1>6, <2>0 DEF stat_fails, EndJob
  <2>2. conn[t] \in Connections /\ conn[t] # None /\ pool_of[conn[t]] = fs
    BY <2>0
  <2>3. Lost(fs)' = Lost(fs) \cup {conn[t]} /\ conn[t] \notin Lost(fs)
    BY <2>1, <2>2 DEF PoolOf, Lost
  <2>4. \A s \in Servers : s # fs => Lost(s)' = Lost(s)
    BY <2>1, <2>2 DEF PoolOf, Lost
  <2>5. \A s \in Servers : PoolOf(s)' = PoolOf(s)
    BY <2>1 DEF PoolOf
  <2>6. Cardinality(Lost(fs)') = leaks'[fs]
    <3>1. IsFiniteSet(Lost(fs))
      BY <2>2, PoolsFinite
    <3>2. Cardinality(Lost(fs) \cup {conn[t]}) = Cardinality(Lost(fs)) + 1
      BY <2>3, <3>1, FS_AddElement
    <3> QED BY <2>1, <2>2, <2>3, <3>2 DEF Pools
  <2> QED BY <2>1, <2>4, <2>5, <2>6 DEF Pools
<1>7. ASSUME NEW t \in Threads, perform_ok(t) PROVE Kept
  BY <1>7 DEF perform_ok, EndJob, PoolOf, Lost
<1>8. ASSUME NEW t \in Threads, perform_error(t) PROVE Kept
  BY <1>8 DEF perform_error, EndJob, Destroyed, PoolOf, Lost
<1>9. ASSUME NEW c \in Connections, expire(c) PROVE Kept
  BY <1>9 DEF expire, Destroyed, PoolOf, Lost
<1>10. CASE close_file_system
  <2>1. Kept
    BY <1>10 DEF close_file_system, PoolOf, Lost
  <2> QED BY <2>1, PoolsShrink
<1>11. CASE UNCHANGED vars
  <2>1. Kept
    BY <1>11 DEF vars, PoolOf, Lost
  <2> QED BY <2>1, PoolsShrink
<1>12. Kept => Pools'
  BY PoolsShrink
<1> HIDE DEF Kept
<1> QED
  BY <1>1, <1>2, <1>3, <1>4, <1>5, <1>6, <1>7, <1>8, <1>9, <1>10, <1>11, <1>12
  DEF Next, Thread

\* However jobs of many threads interleave, a file server never has more than
\* HardMax connections, no connection is used by two jobs, and the only ones
\* neither pooled nor in use are those mfs_file_server_put abandoned, one for
\* each failure of apr_file_info_get (file_upload.c:190-195).
THEOREM ConnectionsCorrect == Spec => []ConnectionsAccounted
<1>1. Safe /\ Pools => ConnectionsAccounted
  BY DEF Safe, Held, Pools, Lost, ConnectionsAccounted
<1> QED BY <1>1, AlwaysSafe, PoolsInit, PoolsStep, PTL DEF Spec
-------------------------------------------------------------------------------
(* The options of a handle.                                                  *)

\* Only an upload in progress has a list of headers on its handle.
Headers ==
    \A c \in Connections : options[c]["header"] # "null" =>
        /\ options[c]["header"] = "set"
        /\ \E t \in Threads : conn[t] = c /\ pc[t] = "perform" /\ kind[t] = "put"

Clean == Headers /\ NoStaleOption

LEMMA CleanInit == Init => Clean
  BY DEF Init, Clean, Headers, NoStaleOption, Option

LEMMA CleanStep == Safe /\ Clean /\ [Next]_vars => Clean'
<1> SUFFICES ASSUME Safe, Clean, [Next]_vars PROVE Clean'
  OBVIOUS
<1> USE DEF Safe, TypeOK, Working, Held, Clean, Headers, NoStaleOption, Option, OptionState,
        Goto, serverVars, poolVars, jobVars
<1>1. ASSUME NEW t \in Threads, begin_job(t) \/ lookup(t) PROVE Clean'
  BY <1>1 DEF begin_job, lookup
<1>2. ASSUME NEW t \in Threads, add(t) PROVE Clean'
  BY <1>2 DEF add
<1>3. ASSUME NEW t \in Threads, add_fails(t) \/ acquire_fails(t) PROVE Clean'
  BY <1>3, SMTT(30) DEF add_fails, acquire_fails, EndJob
<1>4. ASSUME NEW t \in Threads, acquire_idle(t) PROVE Clean'
  BY <1>4 DEF acquire_idle, Acquired
<1>5. ASSUME NEW t \in Threads, acquire_new(t) PROVE Clean'
  BY <1>5 DEF acquire_new, Acquired
<1>6. ASSUME NEW t \in Threads, prepare_get(t) PROVE Clean'
  BY <1>6, SMTT(30) DEF prepare_get
<1>7. ASSUME NEW t \in Threads, prepare_put(t) PROVE Clean'
  BY <1>7 DEF prepare_put
<1>8. ASSUME NEW t \in Threads, stat_fails(t) PROVE Clean'
  BY <1>8 DEF stat_fails, EndJob
<1>9. ASSUME NEW t \in Threads, perform_ok(t) PROVE Clean'
  BY <1>9 DEF perform_ok, EndJob, Performed, Aged
<1>10. ASSUME NEW t \in Threads, perform_error(t) PROVE Clean'
  BY <1>10 DEF perform_error, EndJob, Destroyed
<1>11. ASSUME NEW c \in Connections, expire(c) PROVE Clean'
  BY <1>11 DEF expire, Destroyed
<1>12. CASE close_file_system
  BY <1>12 DEF close_file_system
<1>13. CASE UNCHANGED vars
  BY <1>13 DEF vars
<1> QED
  BY <1>1, <1>2, <1>3, <1>4, <1>5, <1>6, <1>7, <1>8, <1>9, <1>10, <1>11, <1>12, <1>13
  DEF Next, Thread

\* A transfer never runs with a callback, buffer or header list that an earlier
\* job left on its handle: a download resets what an upload set, and an upload
\* takes its header list with it (file_download.c:224, file_upload.c:210).
THEOREM NoStaleCorrect == Spec => []NoStaleOption
<1>1. Clean => NoStaleOption
  BY DEF Clean
<1> QED BY <1>1, AlwaysSafe, CleanInit, CleanStep, PTL DEF Spec
================================================================================
