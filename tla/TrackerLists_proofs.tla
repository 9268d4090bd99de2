-------------------------- MODULE TrackerLists_proofs --------------------------
(*****************************************************************************)
(* Proofs about the tracker lists of pool.c, for every max_tracker_count and *)
(* every content of uninitialised and foreign memory.                        *)
(*****************************************************************************)
EXTENDS TrackerLists, TLAPS

\* remove_from_array writes only cells of the array, whatever it reads past
\* its end (pool.c:203-215).
LEMMA RemoveType ==
    ASSUME NEW values \in [Slot -> Cell], NEW length \in 0 .. MaxTrackers,
           NEW test, NEW foreign \in Cell
    PROVE  remove_from_array(values, length, test, foreign) \in [Slot -> Cell]
  BY DEF remove_from_array

\* On a list without repetitions, remove_from_array followed by the decrement
\* of the count removes exactly the tracker asked for, and leaves a list
\* without repetitions.
LEMMA RemoveListed ==
    ASSUME NEW values \in [Slot -> Cell], NEW length \in 0 .. MaxTrackers,
           NEW test \in Listed(values, length), NEW foreign \in Cell,
           Distinct(values, length)
    PROVE  LET new == remove_from_array(values, length, test, foreign) IN
           /\ length > 0
           /\ Listed(new, length - 1) = Listed(values, length) \ {test}
           /\ Distinct(new, length - 1)
<1> DEFINE new == remove_from_array(values, length, test, foreign)
<1>1. PICK k \in 0 .. length - 1 : values[k] = test
  BY DEF Listed
<1>2. length \in Nat /\ length > 0 /\ length <= MaxTrackers /\ k \in Nat /\ k < length
  BY <1>1, MaxTrackersAssumption
<1>3. ASSUME NEW i \in 0 .. length - 1
      PROVE  test \in Listed(values, i + 1) <=> k <= i
  <2>1. test \in Listed(values, i + 1) => k <= i
    <3> SUFFICES ASSUME test \in Listed(values, i + 1) PROVE k <= i
      OBVIOUS
    <3>1. PICK j \in 0 .. (i + 1) - 1 : values[j] = test
      BY DEF Listed
    <3>2. j \in 0 .. length - 1 /\ j <= i
      BY <1>2, <3>1
    <3>3. j = k
      BY <1>1, <3>1, <3>2 DEF Distinct
    <3> QED BY <3>2, <3>3
  <2>2. k <= i => k \in 0 .. (i + 1) - 1
    BY <1>2
  <2> QED BY <1>1, <2>1, <2>2 DEF Listed
<1>4. ASSUME NEW i \in 0 .. length - 2
      PROVE  new[i] = IF k <= i THEN values[i + 1] ELSE values[i]
  <2>1. i \in Slot /\ i + 1 \in Slot /\ i < length /\ i \in 0 .. length - 1
    BY <1>2, MaxTrackersAssumption DEF Slot
  <2>2. test \in Listed(values, i + 1) <=> k <= i
    BY <1>3, <2>1
  <2> QED BY <2>1, <2>2 DEF remove_from_array
<1>5. Listed(new, length - 1) \subseteq Listed(values, length) \ {test}
  <2> SUFFICES ASSUME NEW i \in 0 .. (length - 1) - 1
               PROVE  new[i] \in Listed(values, length) /\ new[i] # test
    BY DEF Listed
  <2>1. i \in 0 .. length - 2 /\ i \in 0 .. length - 1 /\ i + 1 \in 0 .. length - 1
    BY <1>2
  <2>2. CASE k <= i
    <3>1. new[i] = values[i + 1]
      BY <1>4, <2>1, <2>2
    <3>2. i + 1 # k
      BY <1>2, <2>1, <2>2
    <3>3. values[i + 1] # values[k]
      BY <2>1, <3>2 DEF Distinct
    <3> QED BY <1>1, <2>1, <3>1, <3>3 DEF Listed
  <2>3. CASE ~(k <= i)
    <3>1. new[i] = values[i]
      BY <1>4, <2>1, <2>3
    <3>2. i # k
      BY <1>2, <2>1, <2>3
    <3>3. values[i] # values[k]
      BY <2>1, <3>2 DEF Distinct
    <3> QED BY <1>1, <2>1, <3>1, <3>3 DEF Listed
  <2> QED BY <2>2, <2>3
<1>6. Listed(values, length) \ {test} \subseteq Listed(new, length - 1)
  <2> SUFFICES ASSUME NEW j \in 0 .. length - 1, values[j] # test
               PROVE  \E i \in 0 .. (length - 1) - 1 : new[i] = values[j]
    BY DEF Listed
  <2>1. j # k
    BY <1>1
  <2>2. CASE j < k
    <3>1. j \in 0 .. length - 2 /\ j \in 0 .. (length - 1) - 1 /\ ~(k <= j)
      BY <1>2, <2>2
    <3> QED BY <1>4, <3>1
  <2>3. CASE j > k
    <3>1. /\ j - 1 \in 0 .. length - 2 /\ j - 1 \in 0 .. (length - 1) - 1
          /\ k <= j - 1 /\ (j - 1) + 1 = j
      BY <1>2, <2>3
    <3> QED BY <1>4, <3>1
  <2> QED BY <1>2, <2>1, <2>2, <2>3
<1>7. Distinct(new, length - 1)
  <2> SUFFICES ASSUME NEW i \in 0 .. (length - 1) - 1, NEW j \in 0 .. (length - 1) - 1,
                      new[i] = new[j]
               PROVE  i = j
    BY DEF Distinct
  <2> DEFINE From(n) == IF k <= n THEN n + 1 ELSE n
  <2>1. i \in 0 .. length - 2 /\ j \in 0 .. length - 2
    BY <1>2
  <2>2. new[i] = values[From(i)] /\ new[j] = values[From(j)]
    BY <1>4, <2>1
  <2>3. From(i) \in 0 .. length - 1 /\ From(j) \in 0 .. length - 1
    BY <1>2, <2>1
  <2>4. From(i) = From(j)
    BY <2>2, <2>3 DEF Distinct
  <2> QED BY <1>2, <2>1, <2>4
<1> QED BY <1>2, <1>5, <1>6, <1>7

\* Storing a tracker in the cell numbered by the count stays in the array and
\* leaves the cells below the count alone.
LEMMA AppendCells ==
    ASSUME NEW values \in [Slot -> Cell], NEW length \in 0 .. MaxTrackers - 1,
           NEW t \in Slot, NEW new, new = [values EXCEPT ![length] = t]
    PROVE  /\ new \in [Slot -> Cell]
           /\ new[length] = t
           /\ \A i \in 0 .. length - 1 : new[i] = values[i]
<1>1. length \in Slot /\ length \in Nat
  BY MaxTrackersAssumption DEF Slot
<1>2. ASSUME NEW i \in 0 .. length - 1 PROVE i \in Slot /\ i # length
  BY <1>1, MaxTrackersAssumption DEF Slot
<1> QED BY <1>1, <1>2 DEF Cell

\* Incrementing the count then adds exactly that tracker to the list.
LEMMA AppendListed ==
    ASSUME NEW values, NEW new, NEW length \in Nat, NEW t, new[length] = t,
           \A i \in 0 .. length - 1 : new[i] = values[i],
           NEW u
    PROVE  u \in Listed(new, length + 1) <=> u \in Listed(values, length) \/ u = t
<1>1. 0 .. (length + 1) - 1 = (0 .. length - 1) \cup {length}
  OBVIOUS
<1> QED BY <1>1 DEF Listed

\* If the tracker was not on the list before, the list has no repetitions after.
LEMMA AppendDistinct ==
    ASSUME NEW values, NEW new, NEW length \in Nat, NEW t, new[length] = t,
           \A i \in 0 .. length - 1 : new[i] = values[i],
           Distinct(values, length), t \notin Listed(values, length)
    PROVE  Distinct(new, length + 1)
<1>1. 0 .. (length + 1) - 1 = (0 .. length - 1) \cup {length}
  OBVIOUS
<1>2. \A i \in 0 .. length - 1 : new[i] # t
  BY DEF Listed
<1> SUFFICES ASSUME NEW i \in 0 .. (length + 1) - 1, NEW j \in 0 .. (length + 1) - 1,
                    new[i] = new[j]
             PROVE  i = j
  BY DEF Distinct
<1>3. CASE i = length \/ j = length
  BY <1>1, <1>2, <1>3
<1>4. CASE i # length /\ j # length
  BY <1>1, <1>4 DEF Distinct
<1> QED BY <1>3, <1>4
-------------------------------------------------------------------------------
(* TypeOK and CountsAddUp hold together, with or without early use.          *)

LEMMA CountedInit == Init => TypeOK /\ CountsAddUp
<1> SUFFICES ASSUME Init PROVE TypeOK /\ CountsAddUp
  OBVIOUS
<1>1. 0 \in 0 .. MaxTrackers /\ 0 + 0 = 0
  BY MaxTrackersAssumption
<1> QED BY <1>1 DEF Init, TypeOK, CountsAddUp

\* A listed tracker needs a cell below the count.
LEMMA ListedPositive ==
    ASSUME NEW values, NEW length \in Int, Listed(values, length) # {}
    PROVE  length > 0
  BY DEF Listed

LEMMA CountedStep ==
    TypeOK /\ CountsAddUp /\ [Next]_vars => TypeOK' /\ CountsAddUp'
<1> SUFFICES ASSUME TypeOK, CountsAddUp, [Next]_vars
             PROVE  TypeOK' /\ CountsAddUp'
  OBVIOUS
<1> USE MaxTrackersAssumption
<1>1. CASE mfs_pool_register_tracker
  <2>1. tracker_count \in Slot /\ tracker_count \in Cell
    BY <1>1 DEF mfs_pool_register_tracker, TypeOK, Slot, Cell
  <2>2. active_trackers' \in [Slot -> Cell]
    BY <1>1, <2>1 DEF mfs_pool_register_tracker, TypeOK
  <2>3. active_tracker_count < MaxTrackers
    BY <1>1 DEF mfs_pool_register_tracker, TypeOK, CountsAddUp
  <2> QED BY <1>1, <2>2, <2>3 DEF mfs_pool_register_tracker, TypeOK, CountsAddUp
<1>2. CASE register_unresolved
  BY <1>2 DEF register_unresolved, lists, TypeOK, CountsAddUp
<1>3. CASE hand_out
  BY <1>3 DEF hand_out, lists, TypeOK, CountsAddUp
<1>4. ASSUME NEW t \in Slot, NEW foreign \in Cell, mfs_pool_activate(t, foreign)
      PROVE  TypeOK' /\ CountsAddUp'
  <2>1. inactive_tracker_count > 0
    BY <1>4, ListedPositive DEF mfs_pool_activate, Inactive, TypeOK
  <2>2. active_tracker_count \in 0 .. MaxTrackers - 1
    BY <2>1 DEF TypeOK, CountsAddUp
  <2>3. inactive_trackers' \in [Slot -> Cell]
    BY <1>4, RemoveType DEF mfs_pool_activate, TypeOK
  <2>4. active_trackers' \in [Slot -> Cell]
    BY <1>4, <2>2, AppendCells DEF mfs_pool_activate, TypeOK
  <2> QED BY <1>4, <2>1, <2>2, <2>3, <2>4 DEF mfs_pool_activate, TypeOK, CountsAddUp
<1>5. ASSUME NEW t \in Slot, NEW foreign \in Cell, mfs_pool_deactivate(t, foreign)
      PROVE  TypeOK' /\ CountsAddUp'
  <2>1. active_tracker_count > 0
    BY <1>5, ListedPositive DEF mfs_pool_deactivate, Active, TypeOK
  <2>2. inactive_tracker_count \in 0 .. MaxTrackers - 1
    BY <2>1 DEF TypeOK, CountsAddUp
  <2>3. active_trackers' \in [Slot -> Cell]
    BY <1>5, RemoveType DEF mfs_pool_deactivate, TypeOK
  <2>4. inactive_trackers' \in [Slot -> Cell]
    BY <1>5, <2>2, AppendCells DEF mfs_pool_deactivate, TypeOK
  <2> QED BY <1>5, <2>1, <2>2, <2>3, <2>4 DEF mfs_pool_deactivate, TypeOK, CountsAddUp
<1>6. CASE UNCHANGED vars
  BY <1>6 DEF vars, TypeOK, CountsAddUp
<1> QED BY <1>1, <1>2, <1>3, <1>4, <1>5, <1>6 DEF Next

\* The arrays are only ever written inside their max_tracker_count cells, and
\* the counts stay in range, for every order of calls (pool.c:118-140, 217-257).
THEOREM TypeCorrect == Spec => []TypeOK
<1>1. Spec => [](TypeOK /\ CountsAddUp)
  BY CountedInit, CountedStep, PTL DEF Spec
<1> QED BY <1>1, PTL

\* No activate or deactivate call loses or duplicates a count.
THEOREM CountsCorrect == Spec => []CountsAddUp
<1>1. Spec => [](TypeOK /\ CountsAddUp)
  BY CountedInit, CountedStep, PTL DEF Spec
<1> QED BY <1>1, PTL
-------------------------------------------------------------------------------
(* The effect of each call on the two lists, when there is no early use.     *)

LEMMA InitLists == Init => IInv /\ Active = {} /\ Inactive = {}
<1> SUFFICES ASSUME Init PROVE IInv /\ Active = {} /\ Inactive = {}
  OBVIOUS
<1>1. 0 .. 0 - 1 = {}
  OBVIOUS
<1>2. Active = {} /\ Inactive = {}
  BY <1>1 DEF Init, Active, Inactive, Listed
<1>3. ListsPartition /\ RegisterFirst
  BY <1>1, <1>2 DEF Init, ListsPartition, Distinct, RegisterFirst
<1> QED BY <1>2, <1>3, CountedInit DEF IInv

LEMMA RegisterLists ==
    ASSUME IInv, mfs_pool_register_tracker
    PROVE  /\ tracker_count \in Slot
           /\ tracker_count \notin Active \cup Inactive
           /\ Active' = Active \cup {tracker_count}
           /\ Inactive' = Inactive
           /\ IInv'
<1> USE MaxTrackersAssumption
<1>1. /\ tracker_count \in Slot /\ tracker_count \in Nat
      /\ active_tracker_count = tracker_count
      /\ active_tracker_count \in 0 .. MaxTrackers - 1
      /\ active_trackers \in [Slot -> Cell]
      /\ ~in_use /\ inactive_tracker_count = 0
  BY DEF IInv, TypeOK, CountsAddUp, RegisterFirst, mfs_pool_register_tracker, Slot
<1>2. tracker_count \notin Active \cup Inactive
  BY <1>1 DEF IInv, ListsPartition
<1>3. /\ Active' = Active \cup {tracker_count}
      /\ Distinct(active_trackers, active_tracker_count)'
  <2>1. /\ active_trackers \in [Slot -> Cell] /\ active_tracker_count \in Nat
        /\ tracker_count \notin Listed(active_trackers, active_tracker_count)
        /\ Distinct(active_trackers, active_tracker_count)
    BY <1>1, <1>2 DEF IInv, ListsPartition, Active
  <2>2. /\ active_trackers' = [active_trackers EXCEPT ![active_tracker_count] = tracker_count]
        /\ active_tracker_count' = active_tracker_count + 1
    BY <1>1 DEF mfs_pool_register_tracker
  <2>3. /\ active_trackers'[active_tracker_count] = tracker_count
        /\ \A i \in 0 .. active_tracker_count - 1 :
              active_trackers'[i] = active_trackers[i]
    BY <1>1, <1>2, <2>1, <2>2, AppendCells
  <2>4. Listed(active_trackers', active_tracker_count + 1)
           = Listed(active_trackers, active_tracker_count) \cup {tracker_count}
    BY <2>1, <2>3, AppendListed, Zenon
  <2>5. Distinct(active_trackers', active_tracker_count + 1)
    BY <2>1, <2>3, AppendDistinct, Zenon
  <2> QED BY <2>2, <2>4, <2>5 DEF Active
<1>4. /\ Inactive' = Inactive
      /\ Distinct(inactive_trackers, inactive_tracker_count)'
  BY DEF IInv, ListsPartition, mfs_pool_register_tracker, Inactive, Listed, Distinct
<1>5. 0 .. tracker_count' - 1 = (0 .. tracker_count - 1) \cup {tracker_count}
  BY <1>1 DEF mfs_pool_register_tracker
<1>6. ListsPartition'
  BY <1>2, <1>3, <1>4, <1>5 DEF IInv, ListsPartition
<1>7. RegisterFirst'
  BY <1>1 DEF RegisterFirst, mfs_pool_register_tracker
<1>8. TypeOK' /\ CountsAddUp'
  BY CountedStep DEF IInv, Next
<1> QED BY <1>1, <1>2, <1>3, <1>4, <1>6, <1>7, <1>8 DEF IInv

LEMMA ActivateLists ==
    ASSUME IInv, NEW t \in Slot, NEW foreign \in Cell, mfs_pool_activate(t, foreign)
    PROVE  /\ t \in Inactive
           /\ Active' = Active \cup {t}
           /\ Inactive' = Inactive \ {t}
           /\ IInv'
<1> USE MaxTrackersAssumption
<1>1. /\ active_trackers \in [Slot -> Cell] /\ active_tracker_count \in 0 .. MaxTrackers
      /\ inactive_trackers \in [Slot -> Cell] /\ inactive_tracker_count \in 0 .. MaxTrackers
      /\ t \in Inactive /\ t \notin Active
  BY DEF IInv, TypeOK, ListsPartition, mfs_pool_activate
<1>2. /\ inactive_tracker_count > 0
      /\ Inactive' = Inactive \ {t}
      /\ Distinct(inactive_trackers, inactive_tracker_count)'
  BY <1>1, RemoveListed DEF IInv, ListsPartition, mfs_pool_activate, Inactive
<1>3. active_tracker_count \in 0 .. MaxTrackers - 1
  BY <1>1, <1>2 DEF IInv, TypeOK, CountsAddUp
<1>4. /\ Active' = Active \cup {t}
      /\ Distinct(active_trackers, active_tracker_count)'
  <2>1. /\ active_trackers \in [Slot -> Cell] /\ active_tracker_count \in Nat
        /\ t \notin Listed(active_trackers, active_tracker_count)
        /\ Distinct(active_trackers, active_tracker_count)
    BY <1>1, <1>3 DEF IInv, ListsPartition, Active
  <2>2. /\ active_trackers' = [active_trackers EXCEPT ![active_tracker_count] = t]
        /\ active_tracker_count' = active_tracker_count + 1
    BY <1>1 DEF mfs_pool_activate
  <2>3. /\ active_trackers'[active_tracker_count] = t
        /\ \A i \in 0 .. active_tracker_count - 1 :
              active_trackers'[i] = active_trackers[i]
    BY <1>1, <1>3, <2>1, <2>2, AppendCells
  <2>4. Listed(active_trackers', active_tracker_count + 1)
           = Listed(active_trackers, active_tracker_count) \cup {t}
    BY <2>1, <2>3, AppendListed, Zenon
  <2>5. Distinct(active_trackers', active_tracker_count + 1)
    BY <2>1, <2>3, AppendDistinct, Zenon
  <2> QED BY <2>2, <2>4, <2>5 DEF Active
<1>5. ListsPartition'
  BY <1>1, <1>2, <1>4 DEF IInv, ListsPartition, mfs_pool_activate
<1>6. RegisterFirst'
  BY DEF IInv, RegisterFirst, mfs_pool_activate
<1>7. TypeOK' /\ CountsAddUp'
  BY CountedStep DEF IInv, Next
<1> QED BY <1>1, <1>2, <1>4, <1>5, <1>6, <1>7 DEF IInv

LEMMA DeactivateLists ==
    ASSUME IInv, NEW t \in Slot, NEW foreign \in Cell, mfs_pool_deactivate(t, foreign)
    PROVE  /\ t \in Active
           /\ Active' = Active \ {t}
           /\ Inactive' = Inactive \cup {t}
           /\ IInv'
<1> USE MaxTrackersAssumption
<1>1. /\ active_trackers \in [Slot -> Cell] /\ active_tracker_count \in 0 .. MaxTrackers
      /\ inactive_trackers \in [Slot -> Cell] /\ inactive_tracker_count \in 0 .. MaxTrackers
      /\ t \in Active /\ t \notin Inactive
  BY DEF IInv, TypeOK, ListsPartition, mfs_pool_deactivate
<1>2. /\ active_tracker_count > 0
      /\ Active' = Active \ {t}
      /\ Distinct(active_trackers, active_tracker_count)'
  BY <1>1, RemoveListed DEF IInv, ListsPartition, mfs_pool_deactivate, Active
<1>3. inactive_tracker_count \in 0 .. MaxTrackers - 1
  BY <1>1, <1>2 DEF IInv, TypeOK, CountsAddUp
<1>4. /\ Inactive' = Inactive \cup {t}
      /\ Distinct(inactive_trackers, inactive_tracker_count)'
  <2>1. /\ inactive_trackers \in [Slot -> Cell] /\ inactive_tracker_count \in Nat
        /\ t \notin Listed(inactive_trackers, inactive_tracker_count)
        /\ Distinct(inactive_trackers, inactive_tracker_count)
    BY <1>1, <1>3 DEF IInv, ListsPartition, Inactive
  <2>2. /\ inactive_trackers' = [inactive_trackers EXCEPT ![inactive_tracker_count] = t]
        /\ inactive_tracker_count' = inactive_tracker_count + 1
    BY <1>1 DEF mfs_pool_deactivate
  <2>3. /\ inactive_trackers'[inactive_tracker_count] = t
        /\ \A i \in 0 .. inactive_tracker_count - 1 :
              inactive_trackers'[i] = inactive_trackers[i]
    BY <1>1, <1>3, <2>1, <2>2, AppendCells
  <2>4. Listed(inactive_trackers', inactive_tracker_count + 1)
           = Listed(inactive_trackers, inactive_tracker_count) \cup {t}
    BY <2>1, <2>3, AppendListed, Zenon
  <2>5. Distinct(inactive_trackers', inactive_tracker_count + 1)
    BY <2>1, <2>3, AppendDistinct, Zenon
  <2> QED BY <2>2, <2>4, <2>5 DEF Inactive
<1>5. ListsPartition'
  BY <1>1, <1>2, <1>4 DEF IInv, ListsPartition, mfs_pool_deactivate
<1>6. RegisterFirst'
  BY DEF IInv, RegisterFirst, mfs_pool_deactivate
<1>7. TypeOK' /\ CountsAddUp'
  BY CountedStep DEF IInv, Next
<1> QED BY <1>1, <1>2, <1>4, <1>5, <1>6, <1>7 DEF IInv

\* The steps that leave both lists alone.
LEMMA QuietLists ==
    ASSUME ~EarlyUse, IInv, register_unresolved \/ hand_out \/ UNCHANGED vars
    PROVE  Active' = Active /\ Inactive' = Inactive /\ IInv'
<1> USE MaxTrackersAssumption
<1>1. /\ UNCHANGED <<active_trackers, active_tracker_count, inactive_trackers,
                     inactive_tracker_count, tracker_count>>
      /\ tokens' > 0 => ~in_use'
      /\ ~in_use' => ~in_use
  BY DEF IInv, TypeOK, RegisterFirst, register_unresolved, hand_out, lists, vars
<1>2. Active' = Active /\ Inactive' = Inactive
  BY <1>1 DEF Active, Inactive, Listed
<1>3. ListsPartition' /\ RegisterFirst'
  BY <1>1, <1>2 DEF IInv, ListsPartition, Distinct, RegisterFirst
<1>4. TypeOK' /\ CountsAddUp'
  BY CountedStep DEF IInv, Next
<1> QED BY <1>2, <1>3, <1>4 DEF IInv

\* IInv is inductive, and the next-state relation acts on the sets of listed
\* trackers as TrackerMembership says.
LEMMA ListsStep ==
    ASSUME ~EarlyUse, IInv, [Next]_vars
    PROVE  IInv' /\ [Membership!Next]_(Membership!vars)
<1>1. CASE mfs_pool_register_tracker
  <2>1. Membership!Register(tracker_count)
    BY <1>1, RegisterLists DEF Membership!Register
  <2> QED BY <1>1, <2>1, RegisterLists DEF Membership!Next
<1>2. CASE register_unresolved \/ hand_out \/ UNCHANGED vars
  BY <1>2, QuietLists DEF Membership!vars
<1>3. ASSUME NEW t \in Slot, NEW foreign \in Cell, mfs_pool_activate(t, foreign)
      PROVE  IInv' /\ Membership!Next
  <2>1. Membership!Activate(t)
    BY <1>3, ActivateLists DEF Membership!Activate
  <2> QED BY <1>3, <2>1, ActivateLists DEF Membership!Next
<1>4. ASSUME NEW t \in Slot, NEW foreign \in Cell, mfs_pool_deactivate(t, foreign)
      PROVE  IInv' /\ Membership!Next
  <2>1. Membership!Deactivate(t)
    BY <1>4, DeactivateLists DEF Membership!Deactivate
  <2> QED BY <1>4, <2>1, DeactivateLists DEF Membership!Next
<1> QED BY <1>1, <1>2, <1>3, <1>4 DEF Next

\* The lists partition the registered trackers for every number of trackers and
\* every interleaving of activate and deactivate calls, provided the pool is not
\* used before its last register call returns.
THEOREM PartitionCorrect == ~EarlyUse => (Spec => []ListsPartition)
<1> SUFFICES ASSUME ~EarlyUse PROVE Spec => []ListsPartition
  OBVIOUS
<1>1. Init => IInv
  BY InitLists
<1>2. IInv /\ [Next]_vars => IInv'
  BY ListsStep
<1>3. IInv => ListsPartition
  BY DEF IInv
<1> QED BY <1>1, <1>2, <1>3, PTL DEF Spec

\* The arrays of pool.c implement the abstract membership specification: a
\* tracker is registered active once and afterwards only changes sides.
THEOREM ListsImplementMembership == ~EarlyUse => (Spec => MembershipSpec)
<1> SUFFICES ASSUME ~EarlyUse PROVE Spec => MembershipSpec
  OBVIOUS
<1>1. Init => IInv /\ Membership!Init
  BY InitLists DEF Membership!Init
<1>2. IInv /\ [Next]_vars => IInv' /\ [Membership!Next]_(Membership!vars)
  BY ListsStep
<1> QED BY <1>1, <1>2, PTL DEF Spec, MembershipSpec, Membership!Spec
================================================================================
