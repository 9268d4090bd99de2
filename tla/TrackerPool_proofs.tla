---------------------------- MODULE TrackerPool_proofs ----------------------------
(*****************************************************************************)
(* Proofs about TrackerPool, for any number of trackers, client threads,     *)
(* maintenance threads, connections, calls and network failures.             *)
(*****************************************************************************)
EXTENDS TrackerPool, TLAPS

-------------------------------------------------------------------------------
(* The operations on lists and stacks, as sets of elements.                  *)

LEMMA EmptyFacts == Listed(<<>>) = {} /\ NoRepeats(<<>>)
BY DEF Listed, NoRepeats

LEMMA NoLength ==
    ASSUME NEW S, NEW s \in Seq(S), Len(s) = 0
    PROVE  s = <<>>
OBVIOUS

\* What the pop of a stack leaves.
LEMMA TailFacts ==
    ASSUME NEW S, NEW s \in Seq(S), s # <<>>
    PROVE  /\ Head(s) \in S /\ Tail(s) \in Seq(S)
           /\ Len(Tail(s)) = Len(s) - 1
           /\ Listed(s) = Listed(Tail(s)) \cup {Head(s)}
           /\ NoRepeats(s) => NoRepeats(Tail(s)) /\ Head(s) \notin Listed(Tail(s))
<1>1. /\ Head(s) \in S /\ Tail(s) \in Seq(S)
      /\ Len(Tail(s)) = Len(s) - 1 /\ Len(s) \in Nat \ {0}
      /\ DOMAIN s = 1 .. Len(s) /\ DOMAIN Tail(s) = 1 .. Len(s) - 1
      /\ Head(s) = s[1]
      /\ \A i \in 1 .. Len(s) - 1 : Tail(s)[i] = s[i + 1]
  OBVIOUS
<1>2. Listed(s) \subseteq Listed(Tail(s)) \cup {Head(s)}
  <2>. SUFFICES ASSUME NEW i \in 1 .. Len(s), i # 1
                PROVE  s[i] \in Listed(Tail(s))
    BY <1>1 DEF Listed
  <2>1. i - 1 \in DOMAIN Tail(s) /\ Tail(s)[i - 1] = s[i]
    BY <1>1
  <2>. QED  BY <2>1 DEF Listed
<1>3. Listed(Tail(s)) \cup {Head(s)} \subseteq Listed(s)
  BY <1>1 DEF Listed
<1>4. ASSUME NoRepeats(s)
      PROVE  NoRepeats(Tail(s)) /\ Head(s) \notin Listed(Tail(s))
  BY <1>1, <1>4 DEF NoRepeats, Listed
<1>. QED  BY <1>1, <1>2, <1>3, <1>4

\* What a push on a stack leaves.
LEMMA PushFacts ==
    ASSUME NEW S, NEW s \in Seq(S), NEW e \in S
    PROVE  /\ <<e>> \o s \in Seq(S)
           /\ Len(<<e>> \o s) = Len(s) + 1
           /\ Listed(<<e>> \o s) = Listed(s) \cup {e}
           /\ NoRepeats(s) /\ e \notin Listed(s) => NoRepeats(<<e>> \o s)
<1>1. /\ <<e>> \o s \in Seq(S)
      /\ Len(<<e>> \o s) = Len(s) + 1 /\ Len(s) \in Nat
      /\ DOMAIN s = 1 .. Len(s) /\ DOMAIN (<<e>> \o s) = 1 .. Len(s) + 1
      /\ (<<e>> \o s)[1] = e
      /\ \A i \in 2 .. Len(s) + 1 : (<<e>> \o s)[i] = s[i - 1]
  OBVIOUS
<1>. DEFINE q == <<e>> \o s
<1>. HIDE DEF q
<1>2. Listed(q) \subseteq Listed(s) \cup {e}
  BY <1>1 DEF Listed, q
<1>3. ASSUME NEW i \in 1 .. Len(s)  PROVE s[i] \in Listed(q)
  <2>1. i + 1 \in DOMAIN q /\ q[i + 1] = s[i]
    BY <1>1 DEF q
  <2>. QED  BY <2>1 DEF Listed
<1>4. Listed(q) = Listed(s) \cup {e}
  <2>1. e \in Listed(q)
    BY <1>1 DEF Listed, q
  <2>2. Listed(s) \subseteq Listed(q)
    BY <1>1, <1>3 DEF Listed
  <2>. QED  BY <1>2, <2>1, <2>2
<1>5. ASSUME NoRepeats(s), e \notin Listed(s)
      PROVE  NoRepeats(q)
  BY <1>1, <1>5 DEF NoRepeats, Listed, q
<1>. QED  BY <1>1, <1>4, <1>5 DEF q

\* What filing an index at the end of a list leaves.
LEMMA AppendFacts ==
    ASSUME NEW S, NEW s \in Seq(S), NEW e \in S
    PROVE  /\ Append(s, e) \in Seq(S)
           /\ Len(Append(s, e)) = Len(s) + 1
           /\ Listed(Append(s, e)) = Listed(s) \cup {e}
           /\ NoRepeats(s) /\ e \notin Listed(s) => NoRepeats(Append(s, e))
<1>1. /\ Append(s, e) \in Seq(S)
      /\ Len(Append(s, e)) = Len(s) + 1 /\ Len(s) \in Nat
      /\ DOMAIN s = 1 .. Len(s) /\ DOMAIN Append(s, e) = 1 .. Len(s) + 1
      /\ Append(s, e)[Len(s) + 1] = e
      /\ \A i \in 1 .. Len(s) : Append(s, e)[i] = s[i]
  OBVIOUS
<1>. DEFINE q == Append(s, e)
<1>. HIDE DEF q
<1>2. Listed(q) = Listed(s) \cup {e}
  <2>1. Listed(q) \subseteq Listed(s) \cup {e}
    BY <1>1 DEF Listed, q
  <2>2. Listed(s) \cup {e} \subseteq Listed(q)
    BY <1>1 DEF Listed, q
  <2>. QED  BY <2>1, <2>2
<1>3. ASSUME NoRepeats(s), e \notin Listed(s)
      PROVE  NoRepeats(q)
  BY <1>1, <1>3 DEF NoRepeats, Listed, q
<1>. QED  BY <1>1, <1>2, <1>3 DEF q

\* What cutting a stack in two leaves.
LEMMA CutFacts ==
    ASSUME NEW S, NEW s \in Seq(S), NEW k \in 1 .. Len(s) + 1
    PROVE  LET top == SubSeq(s, 1, k - 1)
               bottom == SubSeq(s, k, Len(s))
           IN  /\ top \in Seq(S) /\ bottom \in Seq(S)
               /\ Len(top) <= Len(s)
               /\ Listed(s) = Listed(top) \cup Listed(bottom)
               /\ NoRepeats(s) => /\ NoRepeats(top) /\ NoRepeats(bottom)
                                  /\ Listed(top) \cap Listed(bottom) = {}
<1>. DEFINE top == SubSeq(s, 1, k - 1)
            bottom == SubSeq(s, k, Len(s))
<1>1. /\ top \in Seq(S) /\ Len(top) = k - 1 /\ DOMAIN top = 1 .. k - 1
      /\ \A i \in 1 .. k - 1 : top[i] = s[i]
      /\ Len(s) \in Nat /\ DOMAIN s = 1 .. Len(s)
  OBVIOUS
<1>2. /\ bottom \in Seq(S) /\ DOMAIN bottom = 1 .. Len(s) - k + 1
      /\ \A i \in 1 .. Len(s) - k + 1 : bottom[i] = s[i + k - 1]
  OBVIOUS
<1>. HIDE DEF top, bottom
<1>. DEFINE Place(i) == i + k - 1
<1>a. ASSUME NEW i \in DOMAIN bottom
      PROVE  i \in Nat /\ Place(i) \in DOMAIN s /\ k <= Place(i) /\ bottom[i] = s[Place(i)]
  <2>1. i \in 1 .. Len(s) - k + 1
    BY <1>2
  <2>2. i \in Nat /\ i + k - 1 \in 1 .. Len(s) /\ k <= i + k - 1
    BY <1>1, <2>1
  <2>3. bottom[i] = s[i + k - 1]
    BY <1>2, <2>1
  <2>. QED  BY <1>1, <2>2, <2>3
<1>. HIDE DEF Place
<1>3. Listed(top) \subseteq Listed(s) /\ Listed(bottom) \subseteq Listed(s)
  <2>1. ASSUME NEW i \in DOMAIN top  PROVE top[i] \in Listed(s)
    BY <1>1 DEF Listed
  <2>2. ASSUME NEW i \in DOMAIN bottom  PROVE bottom[i] \in Listed(s)
    BY <1>a DEF Listed
  <2>. QED  BY <2>1, <2>2 DEF Listed
<1>4. ASSUME NEW i \in 1 .. Len(s)  PROVE s[i] \in Listed(top) \cup Listed(bottom)
  <2>1. CASE i < k
    BY <1>1, <2>1 DEF Listed
  <2>2. CASE i >= k
    <3>1. i - k + 1 \in DOMAIN bottom /\ bottom[i - k + 1] = s[i]
      BY <1>2, <2>2
    <3>. QED  BY <3>1 DEF Listed
  <2>. QED  BY <2>1, <2>2
<1>5. Listed(s) = Listed(top) \cup Listed(bottom)
  BY <1>1, <1>3, <1>4 DEF Listed
<1>6. ASSUME NoRepeats(s)
      PROVE  /\ NoRepeats(top) /\ NoRepeats(bottom)
             /\ Listed(top) \cap Listed(bottom) = {}
  <2>1. NoRepeats(top)
    BY <1>1, <1>6 DEF NoRepeats
  <2>2. NoRepeats(bottom)
    <3>. SUFFICES ASSUME NEW i \in DOMAIN bottom, NEW j \in DOMAIN bottom,
                         bottom[i] = bottom[j]
                  PROVE  i = j
      BY DEF NoRepeats
    <3>1. Place(i) = Place(j) /\ i \in Nat /\ j \in Nat
      BY <1>a, <1>6 DEF NoRepeats
    <3>. QED  BY <3>1 DEF Place
  <2>3. ASSUME NEW i \in DOMAIN top, NEW j \in DOMAIN bottom, top[i] = bottom[j]
        PROVE  FALSE
    <3>1. i \in DOMAIN s /\ top[i] = s[i] /\ i < k
      BY <1>1
    <3>2. Place(j) \in DOMAIN s /\ k <= Place(j) /\ s[Place(j)] = s[i]
      BY <1>a, <2>3, <3>1
    <3>3. Place(j) = i
      BY <3>1, <3>2, <1>6 DEF NoRepeats
    <3>. QED  BY <1>1, <3>1, <3>2, <3>3
  <2>. QED  BY <2>1, <2>2, <2>3 DEF Listed
<1>. QED  BY <1>1, <1>2, <1>5, <1>6 DEF top, bottom

\* What remove_from_array leaves of a list that holds the index.
LEMMA WithoutFacts ==
    ASSUME NEW S, NEW s \in Seq(S), NoRepeats(s), NEW t \in Listed(s)
    PROVE  /\ Without(s, t) \in Seq(S)
           /\ Len(Without(s, t)) = Len(s) - 1
           /\ Listed(Without(s, t)) = Listed(s) \ {t}
           /\ NoRepeats(Without(s, t))
<1>1. Len(s) \in Nat /\ DOMAIN s = 1 .. Len(s) /\ \A i \in 1 .. Len(s) : s[i] \in S
  OBVIOUS
<1>2. PICK k \in 1 .. Len(s) : s[k] = t
  BY <1>1 DEF Listed
<1>3. \A i \in 1 .. Len(s) : t \in {s[j] : j \in 1 .. i} <=> k <= i
  BY <1>1, <1>2 DEF NoRepeats
<1>. DEFINE q == Without(s, t)
<1>4. q = [i \in 1 .. Len(s) - 1 |-> IF k <= i THEN s[i + 1] ELSE s[i]]
  BY <1>1, <1>3 DEF Without
<1>. HIDE DEF q
<1>5. q \in Seq(S) /\ Len(q) = Len(s) - 1 /\ DOMAIN q = 1 .. Len(s) - 1
  <2>1. q \in [1 .. Len(s) - 1 -> S] /\ Len(s) - 1 \in Nat
    BY <1>1, <1>2, <1>4
  <2>. QED  BY <2>1
<1>6. \A i \in 1 .. Len(s) - 1 : q[i] = IF k <= i THEN s[i + 1] ELSE s[i]
  BY <1>4
<1>7. Listed(q) \subseteq Listed(s) \ {t}
  <2>. SUFFICES ASSUME NEW i \in 1 .. Len(s) - 1
                PROVE  q[i] \in Listed(s) /\ q[i] # t
    BY <1>5 DEF Listed
  <2>1. PICK j \in DOMAIN s : q[i] = s[j] /\ j # k
    BY <1>1, <1>2, <1>6
  <2>. QED  BY <1>1, <1>2, <2>1 DEF Listed, NoRepeats
<1>8. ASSUME NEW i \in 1 .. Len(s), i # k  PROVE s[i] \in Listed(q)
  <2>1. CASE i < k
    <3>1. i \in DOMAIN q /\ q[i] = s[i]
      BY <1>2, <1>5, <1>6, <2>1
    <3>. QED  BY <3>1 DEF Listed
  <2>2. CASE i > k
    <3>1. i - 1 \in DOMAIN q /\ q[i - 1] = s[i]
      BY <1>2, <1>5, <1>6, <2>2
    <3>. QED  BY <3>1 DEF Listed
  <2>. QED  BY <1>8, <2>1, <2>2
<1>9. Listed(q) = Listed(s) \ {t}
  <2>1. Listed(s) \ {t} \subseteq Listed(q)
    BY <1>1, <1>2, <1>8 DEF Listed
  <2>. QED  BY <1>7, <2>1
<1>10. NoRepeats(q)
  <2>. SUFFICES ASSUME NEW i \in 1 .. Len(s) - 1, NEW j \in 1 .. Len(s) - 1, q[i] = q[j]
                PROVE  i = j
    BY <1>5 DEF NoRepeats
  <2>1. PICK a \in 1 .. Len(s) : q[i] = s[a] /\ a = IF k <= i THEN i + 1 ELSE i
    BY <1>1, <1>2, <1>6
  <2>2. PICK b \in 1 .. Len(s) : q[j] = s[b] /\ b = IF k <= j THEN j + 1 ELSE j
    BY <1>1, <1>2, <1>6
  <2>3. a = b
    BY <1>1, <2>1, <2>2 DEF NoRepeats
  <2>. QED  BY <1>1, <1>2, <2>1, <2>2, <2>3
<1>. QED  BY <1>5, <1>9, <1>10 DEF q
-------------------------------------------------------------------------------
(* Types.  A list that was copied has at most NumTrackers elements, because  *)
(* the two lists together always have NumTrackers; what is read from a wire  *)
(* is read by a thread that holds a connection.                              *)

Placed == Len(active) + Len(inactive) = NumTrackers

\* A thread holds a connection exactly between the calls that get and give up
\* one; mfs_request_do and mfs_pool_test_inactive_trackers lose none.
Holding ==
    \A x \in Threads :
        entry[x] # None <=>
            pc[x] \in {"send", "receive", "destroy", "return", "activate"}

Typed == TypeOK /\ Placed /\ TrackersPartition /\ Holding

LEMMA ConstantFacts ==
    /\ NumTrackers \in Nat \ {0} /\ Trackers \subseteq Int /\ 0 \in Trackers
    /\ None \notin Conns /\ None \notin Trackers
    /\ MaxCalls \in Nat /\ MaxFaults \in Nat
BY NumTrackersAssumption, NoneAssumption, BoundsAssumption DEF Trackers

\* The type of a private copy of a list.
LEMMA ListFacts ==
    ASSUME NEW l
    PROVE  l \in Lists <=>
              /\ l = [indexes |-> l.indexes, start |-> l.start, cur |-> l.cur]
              /\ l.indexes \in Seq(Trackers) /\ Len(l.indexes) <= NumTrackers
              /\ l.start \in -1 .. NumTrackers - 1
              /\ l.cur \in -1 .. NumTrackers - 1
<1>. DEFINE Copies == UNION {[1 .. n -> Trackers] : n \in 0 .. NumTrackers}
<1>1. ASSUME NEW s  PROVE s \in Copies <=> s \in Seq(Trackers) /\ Len(s) <= NumTrackers
  <2>1. ASSUME s \in Copies
        PROVE  s \in Seq(Trackers) /\ Len(s) <= NumTrackers
    <3>1. PICK n \in 0 .. NumTrackers : s \in [1 .. n -> Trackers]
      BY <2>1
    <3>2. n \in Nat /\ n <= NumTrackers
      BY ConstantFacts
    <3>. QED  BY <3>1, <3>2
  <2>2. ASSUME s \in Seq(Trackers), Len(s) <= NumTrackers
        PROVE  s \in Copies
    <3>1. Len(s) \in 0 .. NumTrackers /\ s \in [1 .. Len(s) -> Trackers]
      BY <2>2, ConstantFacts
    <3>. QED  BY <3>1
  <2>. QED  BY <2>1, <2>2
<1>. HIDE DEF Copies
<1>2. Lists = [indexes : Copies, start : -1 .. NumTrackers - 1,
               cur : -1 .. NumTrackers - 1]
  BY DEF Lists, Copies
<1>. QED  BY <1>1, <1>2

LEMMA FreshType == Fresh \in Locals /\ NoList \in Lists
<1>1. NoList \in Lists
  <2>1. <<>> \in Seq(Trackers) /\ Len(<<>>) = 0
    OBVIOUS
  <2>2. /\ NoList.indexes = <<>> /\ NoList.start = 0 /\ NoList.cur = -1
        /\ NoList = [indexes |-> NoList.indexes, start |-> NoList.start,
                     cur |-> NoList.cur]
    BY DEF NoList
  <2>3. 0 \in -1 .. NumTrackers - 1 /\ -1 \in -1 .. NumTrackers - 1 /\ 0 <= NumTrackers
    BY ConstantFacts
  <2>. QED  BY <2>1, <2>2, <2>3, ListFacts, Zenon
<1>. QED  BY <1>1, ConstantFacts DEF Fresh, Locals, Statuses

LEMMA TypedInit == Init => Typed
<1>. SUFFICES ASSUME Init PROVE Typed
  OBVIOUS
<1>. DEFINE all == [i \in 1 .. NumTrackers |-> i - 1]
<1>1. all \in Seq(Trackers) /\ Len(all) = NumTrackers /\ DOMAIN all = 1 .. NumTrackers
  <2>1. all \in [1 .. NumTrackers -> Trackers]
    BY ConstantFacts DEF Trackers
  <2>. QED  BY <2>1, ConstantFacts
<1>2. Listed(all) = Trackers /\ NoRepeats(all)
  <2>1. ASSUME NEW t \in Trackers  PROVE t \in Listed(all)
    <3>1. t + 1 \in 1 .. NumTrackers /\ all[t + 1] = t
      BY ConstantFacts DEF Trackers
    <3>. QED  BY <1>1, <3>1 DEF Listed
  <2>2. Listed(all) \subseteq Trackers
    BY ConstantFacts DEF Trackers, Listed
  <2>3. NoRepeats(all)
    BY ConstantFacts DEF NoRepeats
  <2>. QED  BY <2>1, <2>2, <2>3
<1>3. active = all /\ inactive = <<>>
  BY DEF Init
<1>. HIDE DEF all
<1>4. Placed /\ TrackersPartition
  BY <1>1, <1>2, <1>3, EmptyFacts, ConstantFacts DEF Placed, TrackersPartition
<1>5. Holding
  BY DEF Init, Holding
<1>6. loc \in [Threads -> Locals]
  <2>1. [Fresh EXCEPT !.phase = "test"] \in Locals
    BY FreshType DEF Locals
  <2>. QED  BY <2>1, FreshType DEF Init
<1>7. TypeOK
  <2>1. active \in Seq(Trackers) /\ inactive \in Seq(Trackers)
    BY <1>1, <1>3
  <2>2. /\ stack \in [Trackers -> Seq(Conns)] /\ chain \in [Threads -> Seq(Conns)]
        /\ wire \in [Conns -> Seq(Message)]
    BY DEF Init
  <2>3. /\ connection_count \in [Trackers -> Int] /\ faults \in 0 .. MaxFaults
    BY ConstantFacts DEF Init
  <2>5. /\ alive \subseteq Conns /\ old \subseteq Conns /\ crashed \in BOOLEAN
        /\ entry \in [Threads -> Conns \cup {None}]
    BY Zenon DEF Init
  <2>4. pc \in [Threads -> Labels]
    BY DEF Init, Labels
  <2>. QED  BY <1>6, <2>1, <2>2, <2>3, <2>4, <2>5 DEF TypeOK
<1>. QED  BY <1>4, <1>5, <1>7 DEF Typed

\* What a thread does to its state when it leaves a walk.
LEMMA LeaveFacts ==
    ASSUME TypeOK, NEW x \in Threads, NEW status \in Statuses, Leave(x, status)
    PROVE  /\ pc' \in [Threads -> Labels] /\ loc' \in [Threads -> Locals]
           /\ pc'[x] \in {"done", "list"}
           /\ \A y \in Threads \ {x} : pc'[y] = pc[y] /\ loc'[y] = loc[y]
           /\ x \in Clients => /\ pc'[x] = "done"
                               /\ loc'[x] = [loc[x] EXCEPT !.rv = status]
           /\ x \notin Clients =>
                /\ pc'[x] = "list"
                /\ \E phase \in {"test", "expire"} :
                      loc'[x] = [Fresh EXCEPT !.phase = phase]
<1>. USE DEF TypeOK
<1>1. CASE x \in Clients
  <2>1. /\ pc' = [pc EXCEPT ![x] = "done"]
        /\ loc' = [loc EXCEPT ![x].rv = status]
    BY <1>1 DEF Leave
  <2>2. [loc[x] EXCEPT !.rv = status] \in Locals
    BY DEF Locals
  <2>. QED  BY <1>1, <2>1, <2>2 DEF Labels
<1>2. CASE x \notin Clients
  <2>1. PICK phase \in {"test", "expire"} :
          /\ pc' = [pc EXCEPT ![x] = "list"]
          /\ loc' = [loc EXCEPT ![x] = [Fresh EXCEPT !.phase = phase]]
    BY <1>2 DEF Leave
  <2>2. [Fresh EXCEPT !.phase = phase] \in Locals
    BY FreshType DEF Locals
  <2>. QED  BY <1>2, <2>1, <2>2 DEF Labels
<1>. QED  BY <1>1, <1>2

\* Moving a tracker from one list to the other.
LEMMA MoveFacts ==
    ASSUME NEW from \in Seq(Trackers), NEW to \in Seq(Trackers),
           NEW t \in Listed(from),
           Listed(from) \cup Listed(to) = Trackers,
           Listed(from) \cap Listed(to) = {}, NoRepeats(from), NoRepeats(to)
    PROVE  LET kept == Without(from, t)
               grown == Append(to, t)
           IN  /\ kept \in Seq(Trackers) /\ grown \in Seq(Trackers)
               /\ Len(kept) + Len(grown) = Len(from) + Len(to)
               /\ Listed(kept) \cup Listed(grown) = Trackers
               /\ Listed(kept) \cap Listed(grown) = {}
               /\ NoRepeats(kept) /\ NoRepeats(grown)
<1>1. t \in Trackers /\ t \notin Listed(to)
  OBVIOUS
<1>2. /\ Without(from, t) \in Seq(Trackers)
      /\ Len(Without(from, t)) = Len(from) - 1
      /\ Listed(Without(from, t)) = Listed(from) \ {t}
      /\ NoRepeats(Without(from, t))
  BY WithoutFacts
<1>3. /\ Append(to, t) \in Seq(Trackers)
      /\ Len(Append(to, t)) = Len(to) + 1
      /\ Listed(Append(to, t)) = Listed(to) \cup {t}
      /\ NoRepeats(Append(to, t))
  BY <1>1, AppendFacts
<1>4. Len(from) \in Nat /\ Len(to) \in Nat
  OBVIOUS
<1>. DEFINE kept == Without(from, t)
            grown == Append(to, t)
<1>. HIDE DEF kept, grown
<1>5. Len(kept) + Len(grown) = Len(from) + Len(to)
  BY <1>2, <1>3, <1>4 DEF kept, grown
<1>6. /\ Listed(kept) \cup Listed(grown) = Trackers
      /\ Listed(kept) \cap Listed(grown) = {}
  BY <1>2, <1>3 DEF kept, grown
<1>. QED  BY <1>2, <1>3, <1>5, <1>6 DEF kept, grown

\* The cursor stays within the copied list.
LEMMA AdvanceType ==
    ASSUME NEW l \in Lists
    PROVE  [l EXCEPT !.cur = Advance(l)] \in Lists
<1>1. /\ l = [indexes |-> l.indexes, start |-> l.start, cur |-> l.cur]
      /\ l.indexes \in Seq(Trackers) /\ Len(l.indexes) <= NumTrackers
      /\ l.start \in -1 .. NumTrackers - 1
      /\ l.cur \in -1 .. NumTrackers - 1
  BY ListFacts
<1>2. Advance(l) \in -1 .. NumTrackers - 1
  <2>1. Len(l.indexes) \in Nat
    BY <1>1
  <2>. QED  BY <1>1, <2>1, ConstantFacts DEF Advance
<1>3. PICK m : m = [l EXCEPT !.cur = Advance(l)]
  OBVIOUS
<1>4. /\ m = [indexes |-> m.indexes, start |-> m.start, cur |-> m.cur]
      /\ m.indexes = l.indexes /\ m.start = l.start /\ m.cur = Advance(l)
  BY <1>1, <1>3
<1>. QED  BY <1>1, <1>2, <1>3, <1>4, ListFacts

LEMMA CopyType ==
    ASSUME NEW s \in Seq(Trackers), Len(s) <= NumTrackers,
           NEW p \in StartPositions(Len(s))
    PROVE  [indexes |-> s, start |-> p, cur |-> -1] \in Lists
<1>1. PICK m : m = [indexes |-> s, start |-> p, cur |-> -1]
  OBVIOUS
<1>2. /\ m = [indexes |-> m.indexes, start |-> m.start, cur |-> m.cur]
      /\ m.indexes = s /\ m.start = p /\ m.cur = -1
  BY <1>1
<1>3. p \in -1 .. NumTrackers - 1 /\ -1 \in -1 .. NumTrackers - 1
  <2>1. Len(s) \in Nat
    OBVIOUS
  <2>. QED  BY <2>1, ConstantFacts DEF StartPositions
<1>. QED  BY <1>1, <1>2, <1>3, ListFacts

\* The walk of thread x goes on to tracker t, with its list left as m.
Visits(x, m, t, at) ==
    /\ ~IsLast(loc[x].list) /\ UNCHANGED crashed
    /\ m = [loc[x].list EXCEPT !.cur = Advance(loc[x].list)]
    /\ t \in CurrentIndex(m)
    /\ pc' = [pc EXCEPT ![x] = at]
    /\ loc' = [loc EXCEPT ![x].list = m, ![x].index = t, ![x].tried = @ \cup {t}]

\* The outcomes of mfs_pool_next_tracker: the walk is over, the index read is no
\* index, or the walk goes on to a tracker.
LEMMA NextTrackerFacts ==
    ASSUME TypeOK, NEW x \in Threads, next_tracker(x)
    PROVE  /\ pc[x] = "next"
           /\ UNCHANGED <<active, inactive, stack, connection_count, alive, old,
                          wire, faults, entry, chain>>
           /\ \/ IsLast(loc[x].list) /\ Leave(x, loc[x].rv) /\ UNCHANGED crashed
              \/ crashed' = TRUE /\ UNCHANGED <<pc, loc>>
              \/ \E m \in Lists, t \in Trackers, at \in {"expire", "get"} : Visits(x, m, t, at)
<1>. DEFINE l == loc[x].list
<1>1. l \in Lists
  BY DEF TypeOK, Locals
<1>2. PICK m \in Lists : m = [l EXCEPT !.cur = Advance(l)]
  BY <1>1, AdvanceType
<1>3. CASE IsLast(l)
  BY <1>3 DEF next_tracker, At, poolVars, netVars
<1>4. CASE ~IsLast(l)
  <2>1. PICK t \in CurrentIndex(m) :
          IF t = None
          THEN crashed' = TRUE /\ UNCHANGED <<pc, loc>>
          ELSE /\ pc' = [pc EXCEPT ![x] = IF loc[x].phase = "expire"
                                          THEN "expire" ELSE "get"]
               /\ loc' = [loc EXCEPT ![x].list = m, ![x].index = t,
                                     ![x].tried = @ \cup {t}]
               /\ UNCHANGED crashed
    BY <1>2, <1>4 DEF next_tracker
  <2>2. t # None => t \in Trackers
    <3>1. m.indexes \in Seq(Trackers)
      BY ListFacts
    <3>. QED  BY <2>1, <3>1 DEF CurrentIndex
  <2>3. /\ pc[x] = "next"
        /\ UNCHANGED <<active, inactive, stack, connection_count, alive, old,
                       wire, faults, entry, chain>>
    BY DEF next_tracker, At, poolVars, netVars
  <2>4. CASE t = None
    BY <2>1, <2>3, <2>4
  <2>5. CASE t # None
    BY <1>2, <1>4, <2>1, <2>2, <2>3, <2>5 DEF Visits
  <2>. QED  BY <2>4, <2>5
<1>. QED  BY <1>3, <1>4

LEMMA NextTrackerOthers ==
    ASSUME TypeOK, NEW x \in Threads, next_tracker(x)
    PROVE  \A y \in Threads \ {x} : pc'[y] = pc[y] /\ loc'[y] = loc[y]
<1>1. pc \in [Threads -> Labels] /\ loc \in [Threads -> Locals]
  BY DEF TypeOK
<1>2. CASE Leave(x, loc[x].rv)
  <2>1. loc[x].rv \in Statuses
    BY <1>1 DEF Locals
  <2>. QED  BY <1>2, <2>1, LeaveFacts
<1>3. CASE UNCHANGED <<pc, loc>>
  BY <1>3
<1>4. ASSUME NEW m, NEW t, NEW at, pc' = [pc EXCEPT ![x] = at],
             loc' = [loc EXCEPT ![x].list = m, ![x].index = t,
                                ![x].tried = @ \cup {t}]
      PROVE  \A y \in Threads \ {x} : pc'[y] = pc[y] /\ loc'[y] = loc[y]
  BY <1>1, <1>4
<1>5. \/ IsLast(loc[x].list) /\ Leave(x, loc[x].rv) /\ UNCHANGED crashed
      \/ crashed' = TRUE /\ UNCHANGED <<pc, loc>>
      \/ \E m \in Lists, t \in Trackers, at \in {"expire", "get"} : Visits(x, m, t, at)
  BY NextTrackerFacts
<1>. QED  BY <1>2, <1>3, <1>4, <1>5 DEF Visits

\* A thread's local variables after one of them was assigned.
LEMMA AssignTypes ==
    ASSUME NEW r \in Locals
    PROVE  /\ \A l \in Lists : [r EXCEPT !.tried = {}, !.list = l] \in Locals
           /\ \A l \in Lists, t \in Trackers :
                 [r EXCEPT !.list = l, !.index = t, !.tried = @ \cup {t}] \in Locals
           /\ \A b \in BOOLEAN : [r EXCEPT !.is_new = b] \in Locals
           /\ \A v \in Statuses : [r EXCEPT !.rv = v] \in Locals
           /\ \A m \in Message : [r EXCEPT !.rv = "success", !.got = m] \in Locals
<1>1. \A l \in Lists : [r EXCEPT !.tried = {}, !.list = l] \in Locals
  BY DEF Locals
<1>2. \A l \in Lists, t \in Trackers :
         [r EXCEPT !.list = l, !.index = t, !.tried = @ \cup {t}] \in Locals
  BY DEF Locals
<1>3. \A b \in BOOLEAN : [r EXCEPT !.is_new = b] \in Locals
  BY DEF Locals
<1>4. \A v \in Statuses : [r EXCEPT !.rv = v] \in Locals
  BY DEF Locals
<1>5. \A m \in Message : [r EXCEPT !.rv = "success", !.got = m] \in Locals
  BY DEF Locals, Statuses
<1>. QED  BY <1>1, <1>2, <1>3, <1>4, <1>5

LEMMA StackTypes ==
    ASSUME NEW f \in [Trackers -> Int], NEW g \in [Trackers -> Seq(Conns)],
           NEW t \in Trackers, NEW s \in Seq(Conns)
    PROVE  /\ [f EXCEPT ![t] = @ + 1] \in [Trackers -> Int]
           /\ [f EXCEPT ![t] = @ - 1] \in [Trackers -> Int]
           /\ [g EXCEPT ![t] = s] \in [Trackers -> Seq(Conns)]
<1>1. /\ [f EXCEPT ![t] = @ + 1] \in [Trackers -> Int]
      /\ [f EXCEPT ![t] = @ - 1] \in [Trackers -> Int]
  OBVIOUS
<1>2. [g EXCEPT ![t] = s] \in [Trackers -> Seq(Conns)]
  OBVIOUS
<1>. QED  BY <1>1, <1>2

LEMMA TypedStep ==
    ASSUME Typed, NEW x \in Threads, Step(x)
    PROVE  Typed'
<1>. USE DEF Typed, poolVars, netVars, At
<1>0. ASSUME UNCHANGED <<active, inactive>>
      PROVE  Placed' /\ TrackersPartition'
  BY <1>0 DEF Placed, TrackersPartition
<1>a. /\ \A y \in Threads : loc[y] \in Locals
      /\ loc \in [Threads -> Locals]
  BY DEF TypeOK
<1>1. CASE test_count(x)
  <2>1. CASE Leave(x, "refused")
    <3>1. "refused" \in Statuses
      BY DEF Statuses
    <3>2. TypeOK'
      BY <1>1, <2>1, <3>1, LeaveFacts DEF test_count, TypeOK
    <3>3. Holding'
      BY <1>1, <2>1, <3>1, LeaveFacts DEF test_count, Holding
    <3>. QED  BY <1>0, <1>1, <3>2, <3>3 DEF test_count
  <2>2. CASE pc' = [pc EXCEPT ![x] = "copy"] /\ UNCHANGED loc
    <3>1. TypeOK'
      BY <1>1, <2>2 DEF test_count, TypeOK, Labels
    <3>2. Holding'
      BY <1>1, <2>2 DEF test_count, Holding, TypeOK
    <3>. QED  BY <1>0, <1>1, <3>1, <3>2 DEF test_count
  <2>. QED  BY <1>1, <2>1, <2>2 DEF test_count
<1>2. CASE copy_list(x)
  <2>1. PICK s \in StartPositions(Len(Source(x))) :
          loc' = [loc EXCEPT ![x].tried = {}, ![x].list =
                     [indexes |-> Source(x), start |-> s, cur |-> -1]]
    BY <1>2 DEF copy_list
  <2>2. Source(x) \in Seq(Trackers) /\ Len(Source(x)) <= NumTrackers
    <3>1. /\ active \in Seq(Trackers) /\ inactive \in Seq(Trackers)
          /\ Len(active) \in Nat /\ Len(inactive) \in Nat
      BY DEF TypeOK
    <3>. QED  BY <3>1, ConstantFacts DEF Source, Placed
  <2>3. PICK l \in Lists : l = [indexes |-> Source(x), start |-> s, cur |-> -1]
    BY <2>2, CopyType
  <2>4. loc' \in [Threads -> Locals]
    <3>1. loc' = [loc EXCEPT ![x] = [loc[x] EXCEPT !.tried = {}, !.list = l]]
      BY <2>1, <2>3
    <3>. QED  BY <1>a, <3>1, AssignTypes
  <2>5. TypeOK'
    BY <1>2, <2>4 DEF copy_list, TypeOK, Labels
  <2>6. Holding'
    BY <1>2 DEF copy_list, Holding, TypeOK
  <2>. QED  BY <1>0, <1>2, <2>5, <2>6 DEF copy_list
<1>3. CASE next_tracker(x)
  <2>1. CASE Leave(x, loc[x].rv) /\ UNCHANGED crashed
    <3>1. loc[x].rv \in Statuses
      BY DEF TypeOK, Locals
    <3>2. TypeOK'
      BY <1>3, <2>1, <3>1, LeaveFacts DEF next_tracker, TypeOK
    <3>3. Holding'
      BY <1>3, <2>1, <3>1, LeaveFacts DEF next_tracker, Holding
    <3>. QED  BY <1>0, <1>3, <3>2, <3>3 DEF next_tracker
  <2>2. CASE crashed' = TRUE /\ UNCHANGED <<pc, loc>>
    <3>1. TypeOK'
      BY <1>3, <2>2 DEF next_tracker, TypeOK
    <3>2. Holding'
      BY <1>3, <2>2 DEF next_tracker, Holding
    <3>. QED  BY <1>0, <1>3, <3>1, <3>2 DEF next_tracker
  <2>3. ASSUME NEW m \in Lists, NEW t \in Trackers, NEW at \in {"expire", "get"},
               UNCHANGED crashed, pc' = [pc EXCEPT ![x] = at],
               loc' = [loc EXCEPT ![x].list = m, ![x].index = t,
                                  ![x].tried = @ \cup {t}]
        PROVE  Typed'
    <3>1. loc' \in [Threads -> Locals]
      <4>1. loc' = [loc EXCEPT ![x] = [loc[x] EXCEPT !.list = m, !.index = t,
                                                     !.tried = @ \cup {t}]]
        BY <2>3
      <4>. QED  BY <1>a, <4>1, AssignTypes
    <3>2. TypeOK'
      BY <1>3, <2>3, <3>1 DEF next_tracker, TypeOK, Labels
    <3>3. Holding'
      BY <1>3, <2>3 DEF next_tracker, Holding, TypeOK
    <3>. QED  BY <1>0, <1>3, <3>2, <3>3 DEF next_tracker
  <2>4. TypeOK
    OBVIOUS
  <2>5. CASE \E m \in Lists, t \in Trackers, at \in {"expire", "get"} : Visits(x, m, t, at)
    BY <2>3, <2>5 DEF Visits
  <2>6. \/ IsLast(loc[x].list) /\ Leave(x, loc[x].rv) /\ UNCHANGED crashed
        \/ crashed' = TRUE /\ UNCHANGED <<pc, loc>>
        \/ \E m \in Lists, t \in Trackers, at \in {"expire", "get"} : Visits(x, m, t, at)
    BY <1>3, <2>4, NextTrackerFacts
  <2>. QED  BY <2>1, <2>2, <2>5, <2>6
<1>4. CASE pop_connection(x)
  <2>. DEFINE t == loc[x].index
  <2>0. t \in Trackers /\ stack[t] \in Seq(Conns)
    BY DEF TypeOK, Locals
  <2>1. CASE stack[t] = <<>>
    <3>1. TypeOK'
      BY <1>4, <2>1 DEF pop_connection, TypeOK, Labels
    <3>2. Holding'
      BY <1>4, <2>1 DEF pop_connection, Holding, TypeOK
    <3>. QED  BY <1>0, <1>4, <3>1, <3>2 DEF pop_connection
  <2>2. CASE stack[t] # <<>>
    <3>1. Head(stack[t]) \in Conns /\ Tail(stack[t]) \in Seq(Conns)
      BY <2>0, <2>2
    <3>2. loc' \in [Threads -> Locals]
      <4>1. loc' = [loc EXCEPT ![x] = [loc[x] EXCEPT !.is_new = FALSE]]
        BY <1>4, <2>2 DEF pop_connection
      <4>. QED  BY <1>a, <4>1, AssignTypes
    <3>5. /\ stack' \in [Trackers -> Seq(Conns)]
          /\ connection_count' \in [Trackers -> Int]
      <4>1. /\ stack' = [stack EXCEPT ![t] = Tail(stack[t])]
            /\ connection_count' = [connection_count EXCEPT ![t] = @ - 1]
        BY <1>4, <2>2 DEF pop_connection, Pop
      <4>2. /\ stack \in [Trackers -> Seq(Conns)]
            /\ connection_count \in [Trackers -> Int]
        BY DEF TypeOK
      <4>. QED  BY <2>0, <3>1, <4>1, <4>2, StackTypes
    <3>3. TypeOK'
      BY <1>4, <2>2, <3>1, <3>2, <3>5 DEF pop_connection, TypeOK, Labels
    <3>4. Holding'
      BY <1>4, <2>2, <3>1, ConstantFacts DEF pop_connection, Holding, TypeOK
    <3>. QED  BY <1>0, <1>4, <3>3, <3>4 DEF pop_connection
  <2>. QED  BY <2>1, <2>2
<1>5. CASE connect(x)
  <2>1. PICK c \in Conns \ alive :
          alive' = alive \cup {c} /\ entry' = [entry EXCEPT ![x] = c]
    BY <1>5 DEF connect
  <2>2. loc' \in [Threads -> Locals]
    <3>1. loc' = [loc EXCEPT ![x] = [loc[x] EXCEPT !.is_new = TRUE]]
      BY <1>5 DEF connect
    <3>. QED  BY <1>a, <3>1, AssignTypes
  <2>3. TypeOK'
    BY <1>5, <2>1, <2>2 DEF connect, TypeOK, Labels
  <2>4. Holding'
    BY <1>5, <2>1, ConstantFacts DEF connect, Holding, TypeOK
  <2>. QED  BY <1>0, <1>5, <2>3, <2>4 DEF connect
<1>6. CASE connect_fails(x)
  <2>1. TypeOK'
    BY <1>6, ConstantFacts DEF connect_fails, Fails, TypeOK, Labels
  <2>2. Holding'
    BY <1>6 DEF connect_fails, Holding, TypeOK
  <2>. QED  BY <1>0, <1>6, <2>1, <2>2 DEF connect_fails
<1>7. CASE mfs_pool_deactivate(x)
  <2>. DEFINE t == loc[x].index
  <2>1. pc' \in [Threads -> Labels]
    BY <1>7 DEF mfs_pool_deactivate, TypeOK, Labels
  <2>2. Holding'
    BY <1>7 DEF mfs_pool_deactivate, Holding, TypeOK
  <2>3. CASE t \in Listed(active)
    <3>1. /\ active' = Without(active, t) /\ inactive' = Append(inactive, t)
          /\ active \in Seq(Trackers) /\ inactive \in Seq(Trackers)
      BY <1>7, <2>3 DEF mfs_pool_deactivate, TypeOK
    <3>2. /\ active' \in Seq(Trackers) /\ inactive' \in Seq(Trackers)
          /\ Placed' /\ TrackersPartition'
      BY <2>3, <3>1, MoveFacts DEF Placed, TrackersPartition
    <3>3. TypeOK'
      BY <1>7, <2>1, <3>2 DEF mfs_pool_deactivate, TypeOK
    <3>. QED  BY <2>2, <3>2, <3>3
  <2>4. CASE t \notin Listed(active)
    <3>1. UNCHANGED <<active, inactive>>
      BY <1>7, <2>4 DEF mfs_pool_deactivate
    <3>2. TypeOK'
      BY <1>7, <2>1, <3>1 DEF mfs_pool_deactivate, TypeOK
    <3>. QED  BY <1>0, <2>2, <3>1, <3>2
  <2>. QED  BY <2>3, <2>4
<1>8. CASE drain(x)
  <2>. DEFINE t == loc[x].index
  <2>0. t \in Trackers /\ stack[t] \in Seq(Conns)
    BY DEF TypeOK, Locals
  <2>1. CASE stack[t] = <<>>
    <3>1. TypeOK'
      BY <1>8, <2>1 DEF drain, TypeOK, Labels
    <3>2. Holding'
      BY <1>8, <2>1 DEF drain, Holding, TypeOK
    <3>. QED  BY <1>0, <1>8, <3>1, <3>2 DEF drain
  <2>2. CASE stack[t] # <<>>
    <3>1. Tail(stack[t]) \in Seq(Conns) /\ <<>> \in Seq(Message)
      BY <2>0, <2>2
    <3>4. /\ stack' \in [Trackers -> Seq(Conns)]
          /\ connection_count' \in [Trackers -> Int]
      <4>1. /\ stack' = [stack EXCEPT ![t] = Tail(stack[t])]
            /\ connection_count' = [connection_count EXCEPT ![t] = @ - 1]
        BY <1>8, <2>2 DEF drain, Pop
      <4>2. /\ stack \in [Trackers -> Seq(Conns)]
            /\ connection_count \in [Trackers -> Int]
        BY DEF TypeOK
      <4>. QED  BY <2>0, <3>1, <4>1, <4>2, StackTypes
    <3>2. TypeOK'
      BY <1>8, <2>2, <3>1, <3>4 DEF drain, mfs_pool_destroy_connection, TypeOK
    <3>3. Holding'
      BY <1>8, <2>2 DEF drain, Holding
    <3>. QED  BY <1>0, <1>8, <3>2, <3>3 DEF drain
  <2>. QED  BY <2>1, <2>2
<1>9. CASE send_request(x)
  <2>. DEFINE m == [by |-> x, call |-> loc[x].calls, kind |-> "request"]
  <2>1. m \in Message
    BY ConstantFacts DEF TypeOK, Locals, Message
  <2>2. wire' \in [Conns -> Seq(Message)]
    <3>1. wire' = [wire EXCEPT ![entry[x]] = Append(@, m)]
      BY <1>9 DEF send_request
    <3>. HIDE DEF m
    <3>2. wire[entry[x]] \in Seq(Message) => Append(wire[entry[x]], m) \in Seq(Message)
      BY <2>1
    <3>. QED  BY <3>1, <3>2 DEF TypeOK
  <2>3. TypeOK'
    BY <1>9, <2>2 DEF send_request, TypeOK, Labels
  <2>4. Holding'
    BY <1>9 DEF send_request, Holding, TypeOK
  <2>. QED  BY <1>0, <1>9, <2>3, <2>4 DEF send_request
<1>10. CASE receive_reply(x)
  <2>. DEFINE c == entry[x]
  <2>1. c \in Conns /\ wire[c] \in Seq(Message) /\ wire[c] # <<>>
    BY <1>10 DEF receive_reply, Holding, TypeOK
  <2>2. Head(wire[c]) \in Message /\ Tail(wire[c]) \in Seq(Message)
    BY <2>1
  <2>3. loc' \in [Threads -> Locals]
    <3>1. loc' = [loc EXCEPT ![x].rv = "success", ![x].got = Head(wire[c])]
      BY <1>10 DEF receive_reply
    <3>2. PICK m \in Message : m = Head(wire[c])
      BY <2>2
    <3>3. loc' = [loc EXCEPT ![x] = [loc[x] EXCEPT !.rv = "success", !.got = m]]
      BY <3>1, <3>2
    <3>. QED  BY <1>a, <3>3, AssignTypes
  <2>4. TypeOK'
    BY <1>10, <2>2, <2>3 DEF receive_reply, TypeOK, Labels
  <2>5. Holding'
    BY <1>10 DEF receive_reply, Holding, TypeOK
  <2>. QED  BY <1>0, <1>10, <2>4, <2>5 DEF receive_reply
<1>11. CASE request_fails(x)
  <2>1. loc' \in [Threads -> Locals]
    <3>1. loc' = [loc EXCEPT ![x] = [loc[x] EXCEPT !.rv = "error"]]
      BY <1>11 DEF request_fails
    <3>. QED  BY <1>a, <3>1, AssignTypes DEF Statuses
  <2>4. faults' \in 0 .. MaxFaults
    BY <1>11, ConstantFacts DEF request_fails, Fails, TypeOK
  <2>5. pc' \in [Threads -> Labels]
    BY <1>11 DEF request_fails, TypeOK, Labels
  <2>2. TypeOK'
    BY <1>11, <2>1, <2>4, <2>5 DEF request_fails, TypeOK
  <2>3. Holding'
    BY <1>11 DEF request_fails, Holding, TypeOK
  <2>. QED  BY <1>0, <1>11, <2>2, <2>3 DEF request_fails
<1>12. CASE destroy_failed(x)
  <2>1. <<>> \in Seq(Message)
    OBVIOUS
  <2>2. TypeOK'
    BY <1>12, <2>1 DEF destroy_failed, mfs_pool_destroy_connection, TypeOK, Labels
  <2>3. Holding'
    BY <1>12 DEF destroy_failed, Holding, TypeOK
  <2>. QED  BY <1>0, <1>12, <2>2, <2>3 DEF destroy_failed
<1>13. CASE mfs_pool_return_connection(x)
  <2>. DEFINE t == loc[x].index
  <2>1. t \in Trackers /\ stack[t] \in Seq(Conns) /\ entry[x] \in Conns
    BY <1>13 DEF mfs_pool_return_connection, TypeOK, Locals, Holding
  <2>2. <<entry[x]>> \o stack[t] \in Seq(Conns)
    BY <2>1
  <2>5. /\ stack' \in [Trackers -> Seq(Conns)]
        /\ connection_count' \in [Trackers -> Int]
    <3>1. /\ stack' = [stack EXCEPT ![t] = <<entry[x]>> \o stack[t]]
          /\ connection_count' = [connection_count EXCEPT ![t] = @ + 1]
      BY <1>13 DEF mfs_pool_return_connection
    <3>2. /\ stack \in [Trackers -> Seq(Conns)]
          /\ connection_count \in [Trackers -> Int]
      BY DEF TypeOK
    <3>. QED  BY <2>1, <2>2, <3>1, <3>2, StackTypes
  <2>3. TypeOK'
    BY <1>13, <2>5 DEF mfs_pool_return_connection, TypeOK, Labels
  <2>4. Holding'
    BY <1>13 DEF mfs_pool_return_connection, Holding, TypeOK
  <2>. QED  BY <1>0, <1>13, <2>3, <2>4 DEF mfs_pool_return_connection
<1>14. CASE mfs_pool_activate(x)
  <2>. DEFINE t == loc[x].index
  <2>1. pc' \in [Threads -> Labels]
    BY <1>14 DEF mfs_pool_activate, TypeOK, Labels
  <2>2. Holding'
    BY <1>14 DEF mfs_pool_activate, Holding, TypeOK
  <2>3. CASE t \in Listed(inactive)
    <3>1. /\ inactive' = Without(inactive, t) /\ active' = Append(active, t)
          /\ active \in Seq(Trackers) /\ inactive \in Seq(Trackers)
          /\ Len(active) \in Nat /\ Len(inactive) \in Nat
      BY <1>14, <2>3 DEF mfs_pool_activate, TypeOK
    <3>2. /\ active' \in Seq(Trackers) /\ inactive' \in Seq(Trackers)
          /\ Len(inactive') + Len(active') = Len(inactive) + Len(active)
          /\ TrackersPartition'
      BY <2>3, <3>1, MoveFacts DEF TrackersPartition
    <3>3. Len(active') \in Nat /\ Len(inactive') \in Nat
      BY <3>2
    <3>4. Placed'
      BY <3>1, <3>2, <3>3 DEF Placed
    <3>5. TypeOK'
      BY <1>14, <2>1, <3>2 DEF mfs_pool_activate, TypeOK
    <3>. QED  BY <2>2, <3>2, <3>4, <3>5
  <2>4. CASE t \notin Listed(inactive)
    <3>1. UNCHANGED <<active, inactive>>
      BY <1>14, <2>4 DEF mfs_pool_activate
    <3>2. TypeOK'
      BY <1>14, <2>1, <3>1 DEF mfs_pool_activate, TypeOK
    <3>. QED  BY <1>0, <2>2, <3>1, <3>2
  <2>. QED  BY <2>3, <2>4
<1>15. CASE mfs_pool_get_expired_trackers(x)
  <2>. DEFINE t == loc[x].index
  <2>1. t \in Trackers /\ stack[t] \in Seq(Conns)
    BY DEF TypeOK, Locals
  <2>2. PICK k \in 1 .. Len(stack[t]) + 1 :
          /\ chain' = [chain EXCEPT ![x] = SubSeq(stack[t], k, Len(stack[t]))]
          /\ stack' = [stack EXCEPT ![t] = SubSeq(stack[t], 1, k - 1)]
    BY <1>15 DEF mfs_pool_get_expired_trackers
  <2>3. /\ SubSeq(stack[t], k, Len(stack[t])) \in Seq(Conns)
        /\ SubSeq(stack[t], 1, k - 1) \in Seq(Conns)
    BY <2>1, CutFacts
  <2>4. TypeOK'
    BY <1>15, <2>2, <2>3 DEF mfs_pool_get_expired_trackers, TypeOK, Labels
  <2>5. Holding'
    BY <1>15 DEF mfs_pool_get_expired_trackers, Holding, TypeOK
  <2>. QED  BY <1>0, <1>15, <2>4, <2>5 DEF mfs_pool_get_expired_trackers
<1>16. CASE reap(x)
  <2>1. CASE chain[x] = <<>>
    <3>1. TypeOK'
      BY <1>16, <2>1 DEF reap, TypeOK, Labels
    <3>2. Holding'
      BY <1>16, <2>1 DEF reap, Holding, TypeOK
    <3>. QED  BY <1>0, <1>16, <3>1, <3>2 DEF reap
  <2>2. CASE chain[x] # <<>>
    <3>1. chain[x] \in Seq(Conns)
      BY DEF TypeOK
    <3>2. Tail(chain[x]) \in Seq(Conns) /\ <<>> \in Seq(Message)
      BY <2>2, <3>1
    <3>3. TypeOK'
      BY <1>16, <2>2, <3>2 DEF reap, mfs_pool_destroy_connection, TypeOK
    <3>4. Holding'
      BY <1>16, <2>2 DEF reap, Holding
    <3>. QED  BY <1>0, <1>16, <3>3, <3>4 DEF reap
  <2>. QED  BY <2>1, <2>2
<1>. QED
  BY <1>1, <1>2, <1>3, <1>4, <1>5, <1>6, <1>7, <1>8, <1>9, <1>10, <1>11, <1>12,
     <1>13, <1>14, <1>15, <1>16 DEF Step

\* The start of a request.
LEMMA RequestFacts ==
    ASSUME TypeOK, NEW x \in Clients, mfs_request_do(x)
    PROVE  /\ x \in Threads /\ pc[x] = "done" /\ pc' = [pc EXCEPT ![x] = "list"]
           /\ loc' \in [Threads -> Locals]
           /\ \A y \in Threads \ {x} : loc'[y] = loc[y]
           /\ \E v \in Statuses, n \in 0 .. MaxCalls :
                 /\ loc'[x] = [Fresh EXCEPT !.rv = v, !.calls = n]
                 /\ v = "success" => "null" \in PoolArgs
           /\ UNCHANGED <<active, inactive, stack, connection_count, alive, old,
                          wire, faults, crashed, entry, chain>>
<1>1. /\ x \in Threads /\ pc[x] = "done" /\ pc' = [pc EXCEPT ![x] = "list"]
      /\ UNCHANGED <<active, inactive, stack, connection_count, alive, old,
                     wire, faults, crashed, entry, chain>>
  BY DEF mfs_request_do, Threads, At, poolVars, netVars
<1>2. PICK arg \in PoolArgs :
        loc' = [loc EXCEPT ![x] = [Fresh EXCEPT
                     !.rv = IF arg = "null" THEN "success" ELSE "refused",
                     !.calls = loc[x].calls + 1]]
  BY DEF mfs_request_do
<1>3. loc[x].calls + 1 \in 0 .. MaxCalls
  BY <1>1, ConstantFacts DEF mfs_request_do, TypeOK, Locals
<1>4. PICK n \in 0 .. MaxCalls : n = loc[x].calls + 1
  BY <1>3
<1>5. PICK v \in Statuses : v = IF arg = "null" THEN "success" ELSE "refused"
  BY DEF Statuses
<1>6. [Fresh EXCEPT !.rv = v, !.calls = n] \in Locals
  BY FreshType DEF Locals
<1>7. loc' = [loc EXCEPT ![x] = [Fresh EXCEPT !.rv = v, !.calls = n]]
  BY <1>2, <1>4, <1>5
<1>8. loc' \in [Threads -> Locals]
  BY <1>6, <1>7 DEF TypeOK
<1>9. v = "success" => "null" \in PoolArgs
  BY <1>2, <1>5
<1>10. loc'[x] = [Fresh EXCEPT !.rv = v, !.calls = n]
  BY <1>1, <1>7 DEF TypeOK
<1>. QED  BY <1>1, <1>2, <1>8, <1>9, <1>10 DEF TypeOK

\* A tracker's answer turns one request on the wire into its reply.
LEMMA AnswerFacts ==
    ASSUME TypeOK, NEW c \in Conns, Answer(c)
    PROVE  /\ wire' \in [Conns -> Seq(Message)]
           /\ Len(wire'[c]) = Len(wire[c])
           /\ \A i \in 1 .. Len(wire[c]) : /\ wire'[c][i].by = wire[c][i].by
                                           /\ wire'[c][i].call = wire[c][i].call
           /\ \A d \in Conns \ {c} : wire'[d] = wire[d]
           /\ UNCHANGED <<active, inactive, stack, connection_count, alive, old,
                          faults, crashed, pc, entry, chain, loc>>
<1>1. PICK i \in DOMAIN wire[c] :
        /\ wire' = [wire EXCEPT ![c][i].kind = "reply"]
        /\ UNCHANGED <<active, inactive, stack, connection_count, alive, old,
                       faults, crashed, pc, entry, chain, loc>>
  BY DEF Answer, poolVars
<1>2. wire \in [Conns -> Seq(Message)]
  BY DEF TypeOK
<1>3. PICK s \in Seq(Message) : s = wire[c]
  BY <1>2
<1>4. i \in 1 .. Len(s) /\ s[i] \in Message
  BY <1>1, <1>3
<1>5. PICK m \in Message : m = [s[i] EXCEPT !.kind = "reply"]
  BY <1>4 DEF Message
<1>6. m.by = s[i].by /\ m.call = s[i].call
  BY <1>4, <1>5 DEF Message
<1>7. PICK q : q = [s EXCEPT ![i] = m]
  OBVIOUS
<1>8. q \in Seq(Message) /\ Len(q) = Len(s)
  BY <1>4, <1>7
<1>9. wire' = [wire EXCEPT ![c] = q]
  BY <1>1, <1>2, <1>3, <1>5, <1>7
<1>10. \A j \in 1 .. Len(s) : q[j].by = s[j].by /\ q[j].call = s[j].call
  BY <1>4, <1>6, <1>7
<1>. QED  BY <1>1, <1>2, <1>3, <1>8, <1>9, <1>10

LEMMA TypedNext == Typed /\ [Next]_vars => Typed'
<1>. SUFFICES ASSUME Typed, [Next]_vars PROVE Typed'
  OBVIOUS
<1>. USE DEF Typed
<1>0. ASSUME UNCHANGED <<active, inactive>>
      PROVE  Placed' /\ TrackersPartition'
  BY <1>0 DEF Placed, TrackersPartition
<1>1. CASE \E x \in Threads : Step(x)
  BY <1>1, TypedStep
<1>2. ASSUME NEW x \in Clients, mfs_request_do(x)  PROVE Typed'
  <2>1. TypeOK'
    BY <1>2, RequestFacts DEF TypeOK, Labels
  <2>2. Holding'
    BY <1>2, RequestFacts DEF TypeOK, Holding
  <2>3. UNCHANGED <<active, inactive>>
    BY <1>2, RequestFacts
  <2>. QED  BY <1>0, <2>1, <2>2, <2>3
<1>3. ASSUME NEW c \in Conns, Answer(c)  PROVE Typed'
  <2>1. TypeOK'
    BY <1>3, AnswerFacts DEF TypeOK
  <2>2. Holding' /\ UNCHANGED <<active, inactive>>
    BY <1>3, AnswerFacts DEF Holding
  <2>. QED  BY <1>0, <2>1, <2>2
<1>4. ASSUME NEW c \in Conns, Age(c)  PROVE Typed'
  <2>1. TypeOK'
    BY <1>4 DEF Age, TypeOK, poolVars
  <2>2. Holding' /\ UNCHANGED <<active, inactive>>
    BY <1>4 DEF Age, Holding, poolVars
  <2>. QED  BY <1>0, <2>1, <2>2
<1>5. CASE UNCHANGED vars
  BY <1>5 DEF vars, poolVars, netVars, TypeOK, Placed, TrackersPartition, Holding
<1>. QED  BY <1>1, <1>2, <1>3, <1>4, <1>5 DEF Next

LEMMA TypedAlways == Spec => []Typed
BY TypedInit, TypedNext, PTL DEF Spec

\* Type correctness of the pool, its connections and the threads that share
\* them, for any number of each: a copied list never has more than the registered
\* trackers, and what a thread takes for a tracker's index is one, unless it
\* crashed (pool.c:143-200).
THEOREM PoolTypeCorrect == Spec => []TypeOK
<1>1. Typed => TypeOK
  BY DEF Typed
<1>. QED  BY <1>1, TypedAlways, PTL

\* Every tracker stays on exactly one of the two lists, once, whatever the
\* number of threads that deactivate and activate trackers at the same time
\* (pool.c:217-257).
THEOREM PartitionCorrect == Spec => []TrackersPartition
<1>1. Typed => TrackersPartition
  BY DEF Typed
<1>. QED  BY <1>1, TypedAlways, PTL
-------------------------------------------------------------------------------
(* Connections.  Every step that moves one is one of seven transfers between *)
(* the stacks, the threads and the memory, and leaves the others alone.      *)

\* A thread holds expired entries only while it destroys them: a second expiry
\* never overwrites a chain (pool.c:424-441).
Reaping == \A x \in Threads : chain[x] # <<>> => pc[x] = "reap"

\* Where connection c is: on one stack, with one thread, or nowhere, when its
\* memory has been released.
Apart(c) ==
    /\ \A t, u \in Trackers :
          c \in Listed(stack[t]) /\ c \in Listed(stack[u]) => t = u
    /\ \A t \in Trackers, x \in Threads :
          c \in Listed(stack[t]) => c \notin Listed(chain[x]) /\ c # entry[x]
    /\ \A x \in Threads : c \in Listed(chain[x]) => c # entry[x]
    /\ \A x, y \in Threads :
          /\ c \in Listed(chain[x]) \/ c = entry[x]
          /\ c \in Listed(chain[y]) \/ c = entry[y]
          => x = y
    /\ c \in alive <=>
          \/ \E t \in Trackers : c \in Listed(stack[t])
          \/ \E x \in Threads : c \in Listed(chain[x]) \/ c = entry[x]

Once ==
    /\ \A t \in Trackers : NoRepeats(stack[t])
    /\ \A x \in Threads : NoRepeats(chain[x])

Owned == Typed /\ Reaping /\ Once /\ (\A c \in Conns : Apart(c)) /\ CountNeverUnder

LEMMA ListedType ==
    ASSUME NEW S, NEW s \in Seq(S)
    PROVE  Listed(s) \subseteq S
BY DEF Listed

\* Place by place, this is what ConnectionsSafe says.
LEMMA ApartSafe ==
    ASSUME TypeOK, Once, \A c \in Conns : Apart(c)
    PROVE  ConnectionsSafe
<1>1. /\ \A t \in Trackers : Listed(stack[t]) \subseteq Conns
      /\ \A x \in Threads : Listed(chain[x]) \subseteq Conns
      /\ \A x \in Threads : entry[x] \in Conns \cup {None}
      /\ alive \subseteq Conns
  BY ListedType DEF TypeOK
<1>2. ASSUME NEW t \in Trackers
      PROVE  /\ Listed(stack[t]) \subseteq alive
             /\ NoRepeats(stack[t])
             /\ \A u \in Trackers \ {t} : Listed(stack[t]) \cap Listed(stack[u]) = {}
  BY <1>1 DEF Apart, Once
<1>3. ASSUME NEW x \in Threads
      PROVE  /\ Listed(chain[x]) \cup ({entry[x]} \ {None}) \subseteq alive
             /\ NoRepeats(chain[x])
             /\ entry[x] \notin Listed(chain[x])
  BY <1>1 DEF Apart, Once
<1>4. ASSUME NEW x \in Threads, NEW t \in Trackers
      PROVE  Listed(stack[t]) \cap (Listed(chain[x]) \cup {entry[x]}) = {}
  BY <1>1 DEF Apart
<1>5. ASSUME NEW x \in Threads, NEW y \in Threads \ {x}
      PROVE  (Listed(chain[x]) \cup ({entry[x]} \ {None}))
                \cap (Listed(chain[y]) \cup {entry[y]}) = {}
  BY <1>1 DEF Apart
<1>6. Ownership
  BY <1>2, <1>3, <1>4, <1>5 DEF Ownership
<1>7. NoLeak
  BY <1>1 DEF Apart, NoLeak
<1>. QED  BY <1>6, <1>7 DEF ConnectionsSafe

\* Thread x pops the top of a stack.
LEMMA ApartPop ==
    ASSUME TypeOK, Once, NEW c \in Conns, Apart(c),
           NEW x \in Threads, NEW t \in Trackers, stack[t] # <<>>, entry[x] = None,
           stack' = [stack EXCEPT ![t] = Tail(stack[t])],
           entry' = [entry EXCEPT ![x] = Head(stack[t])],
           UNCHANGED <<chain, alive>>
    PROVE  Apart(c)'
<1>1. PICK e, rest : e = Head(stack[t]) /\ rest = Tail(stack[t])
  OBVIOUS
<1>2. /\ e \in Conns /\ Listed(stack[t]) = Listed(rest) \cup {e}
      /\ e \notin Listed(rest)
  BY <1>1, TailFacts DEF TypeOK, Once
<1>3. /\ stack'[t] = rest /\ \A u \in Trackers \ {t} : stack'[u] = stack[u]
      /\ entry'[x] = e /\ \A y \in Threads \ {x} : entry'[y] = entry[y]
      /\ c # None
  BY <1>1, <1>2, ConstantFacts DEF TypeOK
<1>4. \A u \in Trackers : c \in Listed(stack'[u]) <=>
                          c \in Listed(stack[u]) /\ ~(u = t /\ c = e)
  BY <1>2, <1>3
<1>5. \A y \in Threads : c = entry'[y] <=> IF y = x THEN c = e ELSE c = entry[y]
  BY <1>3
<1>. QED  BY <1>2, <1>3, <1>4, <1>5 DEF Apart

\* Thread x connects.
LEMMA ApartConnect ==
    ASSUME TypeOK, NEW c \in Conns, Apart(c),
           NEW x \in Threads, NEW e \in Conns \ alive, entry[x] = None,
           alive' = alive \cup {e}, entry' = [entry EXCEPT ![x] = e],
           UNCHANGED <<stack, chain>>
    PROVE  Apart(c)'
<1>1. \A y \in Threads : c = entry'[y] <=> IF y = x THEN c = e ELSE c = entry[y]
  BY DEF TypeOK
<1>2. c \in alive' <=> c \in alive \/ c = e
  OBVIOUS
<1>3. c # None
  BY ConstantFacts
<1>. QED  BY <1>1, <1>2, <1>3 DEF Apart

\* The drain of a deactivated tracker destroys the top of its stack.
LEMMA ApartDrain ==
    ASSUME TypeOK, Once, NEW c \in Conns, Apart(c),
           NEW t \in Trackers, stack[t] # <<>>,
           stack' = [stack EXCEPT ![t] = Tail(stack[t])],
           alive' = alive \ {Head(stack[t])},
           UNCHANGED <<chain, entry>>
    PROVE  Apart(c)'
<1>1. PICK e, rest : e = Head(stack[t]) /\ rest = Tail(stack[t])
  OBVIOUS
<1>2. /\ e \in Conns /\ Listed(stack[t]) = Listed(rest) \cup {e}
      /\ e \notin Listed(rest)
  BY <1>1, TailFacts DEF TypeOK, Once
<1>3. stack'[t] = rest /\ \A u \in Trackers \ {t} : stack'[u] = stack[u]
  BY <1>1, <1>2 DEF TypeOK
<1>4. \A u \in Trackers : c \in Listed(stack'[u]) <=>
                          c \in Listed(stack[u]) /\ ~(u = t /\ c = e)
  BY <1>2, <1>3
<1>5. c \in alive' <=> c \in alive /\ c # e
  BY <1>1
<1>. QED  BY <1>2, <1>4, <1>5 DEF Apart

\* Thread x destroys the connection it holds.
LEMMA ApartDestroy ==
    ASSUME TypeOK, NEW c \in Conns, Apart(c),
           NEW x \in Threads, alive' = alive \ {entry[x]},
           entry' = [entry EXCEPT ![x] = None], UNCHANGED <<stack, chain>>
    PROVE  Apart(c)'
<1>1. c # None
  BY ConstantFacts
<1>2. \A y \in Threads : c = entry'[y] <=> y # x /\ c = entry[y]
  BY <1>1 DEF TypeOK
<1>3. c \in alive' <=> c \in alive /\ c # entry[x]
  OBVIOUS
<1>. QED  BY <1>2, <1>3 DEF Apart

\* Thread x returns the connection it holds.
LEMMA ApartReturn ==
    ASSUME TypeOK, NEW c \in Conns, Apart(c),
           NEW x \in Threads, NEW t \in Trackers, entry[x] \in Conns,
           stack' = [stack EXCEPT ![t] = <<entry[x]>> \o stack[t]],
           entry' = [entry EXCEPT ![x] = None], UNCHANGED <<alive, chain>>
    PROVE  Apart(c)'
<1>1. c # None
  BY ConstantFacts
<1>2. \A y \in Threads : c = entry'[y] <=> y # x /\ c = entry[y]
  BY <1>1 DEF TypeOK
<1>3. PICK grown : grown = <<entry[x]>> \o stack[t]
  OBVIOUS
<1>4. Listed(grown) = Listed(stack[t]) \cup {entry[x]}
  BY <1>3, PushFacts DEF TypeOK
<1>5. stack'[t] = grown /\ \A u \in Trackers \ {t} : stack'[u] = stack[u]
  BY <1>3 DEF TypeOK
<1>6. \A u \in Trackers : c \in Listed(stack'[u]) <=>
                          c \in Listed(stack[u]) \/ (u = t /\ c = entry[x])
  BY <1>4, <1>5
<1>. QED  BY <1>2, <1>6 DEF Apart

\* Thread x unlinks the bottom of a stack.
LEMMA ApartExpire ==
    ASSUME TypeOK, Once, NEW c \in Conns, Apart(c),
           NEW x \in Threads, NEW t \in Trackers, chain[x] = <<>>,
           NEW k \in 1 .. Len(stack[t]) + 1,
           chain' = [chain EXCEPT ![x] = SubSeq(stack[t], k, Len(stack[t]))],
           stack' = [stack EXCEPT ![t] = SubSeq(stack[t], 1, k - 1)],
           UNCHANGED <<alive, entry>>
    PROVE  Apart(c)'
<1>1. PICK top, bottom : /\ top = SubSeq(stack[t], 1, k - 1)
                         /\ bottom = SubSeq(stack[t], k, Len(stack[t]))
  OBVIOUS
<1>2. /\ Listed(stack[t]) = Listed(top) \cup Listed(bottom)
      /\ Listed(top) \cap Listed(bottom) = {}
  BY <1>1, CutFacts DEF TypeOK, Once
<1>3. /\ stack'[t] = top /\ \A u \in Trackers \ {t} : stack'[u] = stack[u]
      /\ chain'[x] = bottom /\ \A y \in Threads \ {x} : chain'[y] = chain[y]
  BY <1>1 DEF TypeOK
<1>4. \A u \in Trackers : c \in Listed(stack'[u]) <=>
                          c \in Listed(stack[u]) /\ ~(u = t /\ c \in Listed(bottom))
  BY <1>2, <1>3
<1>5. \A y \in Threads : c \in Listed(chain'[y]) <=>
                         IF y = x THEN c \in Listed(bottom) ELSE c \in Listed(chain[y])
  BY <1>3
<1>6. c \notin Listed(chain[x])
  BY EmptyFacts
<1>. QED  BY <1>2, <1>4, <1>5, <1>6 DEF Apart

\* Thread x destroys the first of its expired entries.
LEMMA ApartReap ==
    ASSUME TypeOK, Once, NEW c \in Conns, Apart(c),
           NEW x \in Threads, chain[x] # <<>>,
           chain' = [chain EXCEPT ![x] = Tail(chain[x])],
           alive' = alive \ {Head(chain[x])},
           UNCHANGED <<stack, entry>>
    PROVE  Apart(c)'
<1>1. PICK e, rest : e = Head(chain[x]) /\ rest = Tail(chain[x])
  OBVIOUS
<1>2. /\ e \in Conns /\ Listed(chain[x]) = Listed(rest) \cup {e}
      /\ e \notin Listed(rest)
  BY <1>1, TailFacts DEF TypeOK, Once
<1>3. chain'[x] = rest /\ \A y \in Threads \ {x} : chain'[y] = chain[y]
  BY <1>1, <1>2 DEF TypeOK
<1>4. \A y \in Threads : c \in Listed(chain'[y]) <=>
                         c \in Listed(chain[y]) /\ ~(y = x /\ c = e)
  BY <1>2, <1>3
<1>5. c \in alive' <=> c \in alive /\ c # e
  BY <1>1
<1>. QED  BY <1>2, <1>4, <1>5 DEF Apart

LEMMA OwnedInit == Init => Owned
<1>. SUFFICES ASSUME Init PROVE Owned
  OBVIOUS
<1>1. Typed
  BY TypedInit
<1>2. Reaping /\ Once
  BY EmptyFacts DEF Init, Reaping, Once
<1>3. ASSUME NEW c \in Conns  PROVE Apart(c)
  <2>1. c # None
    BY ConstantFacts
  <2>2. /\ \A t \in Trackers : Listed(stack[t]) = {}
        /\ \A x \in Threads : Listed(chain[x]) = {} /\ entry[x] = None
        /\ alive = {}
    BY EmptyFacts DEF Init
  <2>. QED  BY <2>1, <2>2 DEF Apart
<1>4. CountNeverUnder
  BY DEF Init, CountNeverUnder
<1>. QED  BY <1>1, <1>2, <1>3, <1>4 DEF Owned

LEMMA OwnedStep ==
    ASSUME Owned, NEW x \in Threads, Step(x)
    PROVE  Reaping' /\ Once' /\ (\A c \in Conns : Apart(c)') /\ CountNeverUnder'
<1>. DEFINE t == loc[x].index
            Goal == Reaping' /\ Once' /\ (\A c \in Conns : Apart(c)') /\ CountNeverUnder'
<1>. USE DEF At, poolVars, netVars
<1>0. /\ TypeOK /\ Holding /\ Reaping /\ Once /\ CountNeverUnder
      /\ \A c \in Conns : Apart(c)
  BY DEF Owned, Typed
<1>a. /\ t \in Trackers /\ stack \in [Trackers -> Seq(Conns)]
      /\ stack[t] \in Seq(Conns) /\ Len(stack[t]) \in Nat
      /\ connection_count \in [Trackers -> Int]
      /\ chain \in [Threads -> Seq(Conns)] /\ pc \in [Threads -> Labels]
      /\ \A u \in Trackers : Len(stack[u]) \in Nat
  BY <1>0 DEF TypeOK, Locals
<1>b. ASSUME UNCHANGED chain, pc[x] # "reap",
             \A y \in Threads \ {x} : pc'[y] = pc[y]
      PROVE  Reaping'
  BY <1>0, <1>b DEF Reaping
<1>c. ASSUME UNCHANGED <<stack, connection_count>>
      PROVE  CountNeverUnder'
  BY <1>0, <1>c DEF CountNeverUnder
<1>d. ASSUME UNCHANGED <<stack, connection_count, chain, entry, alive>>,
             pc[x] # "reap", \A y \in Threads \ {x} : pc'[y] = pc[y]
      PROVE  Goal
  <2>1. Once' /\ \A c \in Conns : Apart(c)'
    BY <1>0, <1>d DEF Once, Apart
  <2>. QED  BY <1>b, <1>c, <1>d, <2>1
<1>1. CASE test_count(x)
  <2>1. \A y \in Threads \ {x} : pc'[y] = pc[y]
    BY <1>0, <1>1, LeaveFacts DEF test_count, TypeOK, Statuses
  <2>. QED  BY <1>1, <1>d, <2>1 DEF test_count
<1>2. CASE copy_list(x)
  BY <1>2, <1>a, <1>d DEF copy_list
<1>3. CASE next_tracker(x)
  <2>1. \A y \in Threads \ {x} : pc'[y] = pc[y]
    BY <1>0, <1>3, NextTrackerOthers
  <2>. QED  BY <1>3, <1>d, <2>1 DEF next_tracker
<1>4. CASE pop_connection(x)
  <2>1. CASE stack[t] = <<>>
    BY <1>4, <1>a, <1>d, <2>1 DEF pop_connection
  <2>2. CASE stack[t] # <<>>
    <3>1. /\ stack' = [stack EXCEPT ![t] = Tail(stack[t])]
          /\ connection_count' = [connection_count EXCEPT ![t] = @ - 1]
          /\ entry' = [entry EXCEPT ![x] = Head(stack[t])]
          /\ UNCHANGED <<chain, alive>>
          /\ pc[x] = "get" /\ \A y \in Threads \ {x} : pc'[y] = pc[y]
      BY <1>4, <1>a, <2>2 DEF pop_connection, Pop
    <3>2. entry[x] = None
      BY <1>0, <3>1 DEF Holding
    <3>3. \A c \in Conns : Apart(c)'
      BY <1>0, <1>a, <2>2, <3>1, <3>2, ApartPop
    <3>4. PICK rest : /\ rest = Tail(stack[t]) /\ rest \in Seq(Conns)
                      /\ NoRepeats(rest) /\ Len(rest) = Len(stack[t]) - 1
      BY <1>0, <1>a, <2>2, TailFacts DEF Once
    <3>5. Once'
      BY <1>0, <1>a, <3>1, <3>4 DEF Once
    <3>6. CountNeverUnder'
      BY <1>0, <1>a, <3>1, <3>4 DEF CountNeverUnder
    <3>. QED  BY <1>b, <3>1, <3>3, <3>5, <3>6
  <2>. QED  BY <2>1, <2>2
<1>5. CASE connect(x)
  <2>1. PICK e \in Conns \ alive :
          alive' = alive \cup {e} /\ entry' = [entry EXCEPT ![x] = e]
    BY <1>5 DEF connect
  <2>2. /\ UNCHANGED <<stack, connection_count, chain>>
        /\ pc[x] = "connect" /\ \A y \in Threads \ {x} : pc'[y] = pc[y]
    BY <1>5, <1>a DEF connect
  <2>3. entry[x] = None
    BY <1>0, <2>2 DEF Holding
  <2>4. \A c \in Conns : Apart(c)'
    BY <1>0, <2>1, <2>2, <2>3, ApartConnect
  <2>5. Once'
    BY <1>0, <2>2 DEF Once
  <2>. QED  BY <1>b, <1>c, <2>2, <2>4, <2>5
<1>6. CASE connect_fails(x)
  BY <1>6, <1>a, <1>d DEF connect_fails
<1>7. CASE mfs_pool_deactivate(x)
  BY <1>7, <1>a, <1>d DEF mfs_pool_deactivate
<1>8. CASE drain(x)
  <2>1. CASE stack[t] = <<>>
    BY <1>8, <1>a, <1>d, <2>1 DEF drain
  <2>2. CASE stack[t] # <<>>
    <3>1. /\ stack' = [stack EXCEPT ![t] = Tail(stack[t])]
          /\ connection_count' = [connection_count EXCEPT ![t] = @ - 1]
          /\ alive' = alive \ {Head(stack[t])}
          /\ UNCHANGED <<chain, entry, pc>> /\ pc[x] = "drain"
      BY <1>8, <2>2 DEF drain, Pop, mfs_pool_destroy_connection
    <3>2. \A c \in Conns : Apart(c)'
      BY <1>0, <1>a, <2>2, <3>1, ApartDrain
    <3>3. PICK rest : /\ rest = Tail(stack[t]) /\ rest \in Seq(Conns)
                      /\ NoRepeats(rest) /\ Len(rest) = Len(stack[t]) - 1
      BY <1>0, <1>a, <2>2, TailFacts DEF Once
    <3>4. Once'
      BY <1>0, <1>a, <3>1, <3>3 DEF Once
    <3>5. CountNeverUnder'
      BY <1>0, <1>a, <3>1, <3>3 DEF CountNeverUnder
    <3>. QED  BY <1>b, <3>1, <3>2, <3>4, <3>5
  <2>. QED  BY <2>1, <2>2
<1>9. CASE send_request(x)
  BY <1>9, <1>a, <1>d DEF send_request
<1>10. CASE receive_reply(x)
  BY <1>10, <1>a, <1>d DEF receive_reply
<1>11. CASE request_fails(x)
  BY <1>11, <1>a, <1>d DEF request_fails
<1>12. CASE destroy_failed(x)
  <2>1. /\ alive' = alive \ {entry[x]} /\ entry' = [entry EXCEPT ![x] = None]
        /\ UNCHANGED <<stack, connection_count, chain>>
        /\ pc[x] = "destroy" /\ \A y \in Threads \ {x} : pc'[y] = pc[y]
    BY <1>12, <1>a DEF destroy_failed, mfs_pool_destroy_connection
  <2>2. \A c \in Conns : Apart(c)'
    BY <1>0, <2>1, ApartDestroy
  <2>3. Once'
    BY <1>0, <2>1 DEF Once
  <2>. QED  BY <1>b, <1>c, <2>1, <2>2, <2>3
<1>13. CASE mfs_pool_return_connection(x)
  <2>1. /\ stack' = [stack EXCEPT ![t] = <<entry[x]>> \o stack[t]]
        /\ connection_count' = [connection_count EXCEPT ![t] = @ + 1]
        /\ entry' = [entry EXCEPT ![x] = None]
        /\ UNCHANGED <<alive, chain>>
        /\ pc[x] = "return" /\ \A y \in Threads \ {x} : pc'[y] = pc[y]
    BY <1>13, <1>a DEF mfs_pool_return_connection
  <2>2. entry[x] \in Conns
    BY <1>0, <2>1 DEF Holding, TypeOK
  <2>3. \A c \in Conns : Apart(c)'
    BY <1>0, <1>a, <2>1, <2>2, ApartReturn
  <2>4. entry[x] \notin Listed(stack[t])
    BY <1>0, <1>a, <2>2 DEF Apart
  <2>5. PICK grown : /\ grown = <<entry[x]>> \o stack[t]
                     /\ NoRepeats(grown) /\ Len(grown) = Len(stack[t]) + 1
    BY <1>0, <1>a, <2>2, <2>4, PushFacts DEF Once
  <2>6. Once'
    BY <1>0, <1>a, <2>1, <2>5 DEF Once
  <2>7. CountNeverUnder'
    <3>. SUFFICES ASSUME NEW u \in Trackers
                  PROVE  connection_count'[u] >= Len(stack'[u])
      BY DEF CountNeverUnder
    <3>1. CASE u = t
      <4>1. stack'[u] = grown /\ connection_count'[u] = connection_count[u] + 1
        BY <1>a, <2>1, <2>5, <3>1
      <4>. QED  BY <1>0, <1>a, <2>5, <3>1, <4>1 DEF CountNeverUnder
    <3>2. CASE u # t
      <4>1. stack'[u] = stack[u] /\ connection_count'[u] = connection_count[u]
        BY <1>a, <2>1, <3>2
      <4>. QED  BY <1>0, <4>1 DEF CountNeverUnder
    <3>. QED  BY <3>1, <3>2
  <2>. QED  BY <1>b, <2>1, <2>3, <2>6, <2>7
<1>14. CASE mfs_pool_activate(x)
  BY <1>14, <1>a, <1>d DEF mfs_pool_activate
<1>15. CASE mfs_pool_get_expired_trackers(x)
  <2>1. PICK k \in 1 .. Len(stack[t]) + 1 :
          /\ chain' = [chain EXCEPT ![x] = SubSeq(stack[t], k, Len(stack[t]))]
          /\ stack' = [stack EXCEPT ![t] = SubSeq(stack[t], 1, k - 1)]
    BY <1>15 DEF mfs_pool_get_expired_trackers
  <2>2. /\ UNCHANGED <<alive, entry, connection_count>>
        /\ pc[x] = "expire" /\ pc' = [pc EXCEPT ![x] = "reap"]
    BY <1>15 DEF mfs_pool_get_expired_trackers
  <2>3. chain[x] = <<>>
    BY <1>0, <2>2 DEF Reaping
  <2>4. \A c \in Conns : Apart(c)'
    BY <1>0, <1>a, <2>1, <2>2, <2>3, ApartExpire
  <2>5. PICK top, bottom :
          /\ top = SubSeq(stack[t], 1, k - 1) /\ top \in Seq(Conns)
          /\ bottom = SubSeq(stack[t], k, Len(stack[t]))
          /\ NoRepeats(top) /\ NoRepeats(bottom) /\ Len(top) <= Len(stack[t])
    BY <1>0, <1>a, CutFacts DEF Once
  <2>6. Once'
    BY <1>0, <1>a, <2>1, <2>5 DEF Once
  <2>7. CountNeverUnder'
    <3>1. Len(top) \in Nat
      BY <2>5
    <3>. SUFFICES ASSUME NEW u \in Trackers
                  PROVE  connection_count'[u] >= Len(stack'[u])
      BY DEF CountNeverUnder
    <3>2. CASE u = t
      <4>1. stack'[u] = top /\ connection_count'[u] = connection_count[u]
        BY <1>a, <2>1, <2>2, <2>5, <3>2
      <4>. QED  BY <1>0, <1>a, <2>5, <3>1, <3>2, <4>1 DEF CountNeverUnder
    <3>3. CASE u # t
      <4>1. stack'[u] = stack[u] /\ connection_count'[u] = connection_count[u]
        BY <1>a, <2>1, <2>2, <3>3
      <4>. QED  BY <1>0, <4>1 DEF CountNeverUnder
    <3>. QED  BY <3>2, <3>3
  <2>8. Reaping'
    BY <1>0, <1>a, <2>1, <2>2 DEF Reaping
  <2>. QED  BY <2>4, <2>6, <2>7, <2>8
<1>16. CASE reap(x)
  <2>1. CASE chain[x] = <<>>
    <3>1. /\ UNCHANGED <<stack, connection_count, chain, entry, alive>>
          /\ \A y \in Threads \ {x} : pc'[y] = pc[y]
      BY <1>16, <1>a, <2>1 DEF reap
    <3>2. Once' /\ \A c \in Conns : Apart(c)'
      BY <1>0, <3>1 DEF Once, Apart
    <3>3. Reaping'
      BY <1>0, <2>1, <3>1 DEF Reaping
    <3>. QED  BY <1>c, <3>1, <3>2, <3>3
  <2>2. CASE chain[x] # <<>>
    <3>1. /\ chain' = [chain EXCEPT ![x] = Tail(chain[x])]
          /\ alive' = alive \ {Head(chain[x])}
          /\ UNCHANGED <<stack, connection_count, entry, pc>> /\ pc[x] = "reap"
      BY <1>16, <2>2 DEF reap, mfs_pool_destroy_connection
    <3>2. \A c \in Conns : Apart(c)'
      BY <1>0, <2>2, <3>1, ApartReap
    <3>3. PICK rest : rest = Tail(chain[x]) /\ NoRepeats(rest)
      BY <1>0, <1>a, <2>2, TailFacts DEF Once
    <3>4. Once'
      BY <1>0, <1>a, <3>1, <3>3 DEF Once
    <3>5. Reaping'
      BY <1>0, <1>a, <3>1 DEF Reaping
    <3>. QED  BY <1>c, <3>1, <3>2, <3>4, <3>5
  <2>. QED  BY <2>1, <2>2
<1>. QED
  BY <1>1, <1>2, <1>3, <1>4, <1>5, <1>6, <1>7, <1>8, <1>9, <1>10, <1>11, <1>12,
     <1>13, <1>14, <1>15, <1>16 DEF Step

LEMMA OwnedNext == Owned /\ [Next]_vars => Owned'
<1>. SUFFICES ASSUME Owned, [Next]_vars PROVE Owned'
  OBVIOUS
<1>. DEFINE Goal == /\ Reaping' /\ Once' /\ CountNeverUnder'
                    /\ \A c \in Conns : Apart(c)'
<1>0. Typed /\ Typed'
  BY TypedNext DEF Owned
<1>1. ASSUME NEW x \in Threads, Step(x)  PROVE Goal
  BY <1>1, OwnedStep
<1>2. ASSUME UNCHANGED <<stack, connection_count, chain, entry, alive>>, Reaping'
      PROVE  Goal
  BY <1>2 DEF Owned, Once, CountNeverUnder, Apart
<1>. HIDE DEF Goal
<1>3. ASSUME NEW x \in Clients, mfs_request_do(x)  PROVE Goal
  <2>1. /\ UNCHANGED <<stack, connection_count, chain, entry, alive>>
        /\ pc[x] = "done" /\ pc' = [pc EXCEPT ![x] = "list"]
    BY <1>0, <1>3, RequestFacts DEF Typed
  <2>2. Reaping'
    BY <1>0, <2>1 DEF Owned, Typed, TypeOK, Reaping
  <2>. QED  BY <1>2, <2>1, <2>2
<1>4. ASSUME NEW c \in Conns, Answer(c) \/ Age(c)  PROVE Goal
  <2>1. UNCHANGED <<stack, connection_count, chain, entry, alive, pc>>
    BY <1>4 DEF Answer, Age, poolVars
  <2>2. Reaping'
    BY <2>1 DEF Owned, Reaping
  <2>. QED  BY <1>2, <2>1, <2>2
<1>5. ASSUME UNCHANGED vars  PROVE Goal
  <2>1. UNCHANGED <<stack, connection_count, chain, entry, alive, pc>>
    BY <1>5 DEF vars, poolVars, netVars
  <2>2. Reaping'
    BY <2>1 DEF Owned, Reaping
  <2>. QED  BY <1>2, <2>1, <2>2
<1>6. Goal
  BY <1>1, <1>3, <1>4, <1>5 DEF Next
<1>. QED  BY <1>0, <1>6 DEF Owned, Goal

LEMMA OwnedAlways == Spec => []Owned
BY OwnedInit, OwnedNext, PTL DEF Spec

\* Every live connection is in exactly one place - a stack, a thread's entry, a
\* chain being expired - and nothing that was destroyed is anywhere, for any
\* number of threads, trackers and failures (pool.c:250-336, 424-469).
THEOREM ConnectionsCorrect == Spec => []ConnectionsSafe
<1>1. Owned => ConnectionsSafe
  BY ApartSafe DEF Owned, Typed
<1>. QED  BY <1>1, OwnedAlways, PTL

\* The counter beside a stack never falls below the stack's length, although
\* the expiry never corrects it (pool.c:279, 326, 443-469).
THEOREM CountCorrect == Spec => []CountNeverUnder
<1>1. Owned => CountNeverUnder
  BY DEF Owned
<1>. QED  BY <1>1, OwnedAlways, PTL
-------------------------------------------------------------------------------
(* Replies.  What is on a wire was sent by the thread that holds the         *)
(* connection, for its present call, unless it has given the request up and  *)
(* is about to destroy the connection.                                       *)

Expects(x, c) ==
    /\ entry[x] = c
    /\ \/ pc[x] = "destroy"
       \/ /\ pc[x] = "receive" /\ Len(wire[c]) = 1
          /\ wire[c][1].by = x /\ wire[c][1].call = loc[x].calls

Wires == \A c \in Conns : wire[c] # <<>> => \E x \in Threads : Expects(x, c)

Exact == Owned /\ Wires /\ ReplyMatches

\* A connection has one holder.
LEMMA OneHolder ==
    ASSUME Owned, NEW x \in Threads, NEW y \in Threads,
           entry[x] \in Conns, entry[x] = entry[y]
    PROVE  x = y
BY DEF Owned, Apart

\* Steps that put nothing on a wire and do not end a wait for a reply.
LEMMA WiresKept ==
    ASSUME Wires, NEW x \in Threads,
           \A c \in Conns : wire'[c] \in {wire[c], <<>>},
           \A c \in Conns : wire'[c] # <<>> /\ entry[x] = c
                               => pc[x] \notin {"receive", "destroy"},
           \A y \in Threads \ {x} : /\ pc'[y] = pc[y] /\ entry'[y] = entry[y]
                                    /\ loc'[y] = loc[y]
    PROVE  Wires'
<1>. SUFFICES ASSUME NEW c \in Conns, wire'[c] # <<>>
              PROVE  \E y \in Threads : Expects(y, c)'
  BY DEF Wires
<1>1. wire'[c] = wire[c]
  OBVIOUS
<1>2. PICK y \in Threads : Expects(y, c)
  BY <1>1 DEF Wires
<1>3. y # x
  BY <1>2 DEF Expects
<1>. QED  BY <1>1, <1>2, <1>3 DEF Expects

\* Steps that keep or forget the reply of thread x.
LEMMA MatchesKept ==
    ASSUME ReplyMatches, NEW x \in Threads,
           \A y \in Threads \ {x} : loc'[y] = loc[y],
           \/ loc'[x].got = None
           \/ loc'[x].got = loc[x].got /\ loc'[x].calls = loc[x].calls
    PROVE  ReplyMatches'
BY DEF ReplyMatches

\* What leaving a walk, copying a list and going to the next tracker do to the
\* reply of a thread.
LEMMA WalkKeepsReply ==
    ASSUME TypeOK, NEW x \in Threads,
           test_count(x) \/ copy_list(x) \/ next_tracker(x)
    PROVE  /\ \A y \in Threads \ {x} : pc'[y] = pc[y] /\ loc'[y] = loc[y]
           /\ \/ loc'[x].got = None
              \/ loc'[x].got = loc[x].got /\ loc'[x].calls = loc[x].calls
<1>0. /\ loc \in [Threads -> Locals] /\ pc \in [Threads -> Labels]
      /\ loc[x].rv \in Statuses /\ "refused" \in Statuses
  BY DEF TypeOK, Locals, Statuses
<1>1. ASSUME NEW status \in Statuses, Leave(x, status)
      PROVE  \/ loc'[x].got = None
             \/ loc'[x].got = loc[x].got /\ loc'[x].calls = loc[x].calls
  <2>1. CASE x \in Clients
    <3>1. loc'[x] = [loc[x] EXCEPT !.rv = status]
      BY <1>1, <2>1, LeaveFacts
    <3>. QED  BY <1>0, <3>1 DEF Locals
  <2>2. CASE x \notin Clients
    <3>1. PICK phase : loc'[x] = [Fresh EXCEPT !.phase = phase]
      BY <1>1, <2>2, LeaveFacts
    <3>. QED  BY <3>1 DEF Fresh
  <2>. QED  BY <2>1, <2>2
<1>2. CASE test_count(x)
  <2>1. CASE Leave(x, "refused")
    BY <1>0, <1>1, <2>1, LeaveFacts
  <2>2. CASE pc' = [pc EXCEPT ![x] = "copy"] /\ UNCHANGED loc
    BY <1>0, <2>2
  <2>. QED  BY <1>2, <2>1, <2>2 DEF test_count
<1>3. CASE copy_list(x)
  <2>1. PICK l : /\ loc' = [loc EXCEPT ![x] = [loc[x] EXCEPT !.tried = {}, !.list = l]]
                 /\ pc' = [pc EXCEPT ![x] = "next"]
    BY <1>3 DEF copy_list
  <2>. QED  BY <1>0, <2>1 DEF Locals
<1>4. CASE next_tracker(x)
  <2>1. CASE Leave(x, loc[x].rv)
    BY <1>0, <1>1, <1>4, <2>1, NextTrackerOthers
  <2>2. CASE UNCHANGED <<pc, loc>>
    BY <2>2
  <2>3. ASSUME NEW m, NEW t,
               loc' = [loc EXCEPT ![x].list = m, ![x].index = t, ![x].tried = @ \cup {t}]
        PROVE  loc'[x].got = loc[x].got /\ loc'[x].calls = loc[x].calls
    <3>1. loc'[x] = [loc[x] EXCEPT !.list = m, !.index = t, !.tried = @ \cup {t}]
      BY <1>0, <2>3
    <3>. QED  BY <1>0, <3>1 DEF Locals
  <2>4. \/ IsLast(loc[x].list) /\ Leave(x, loc[x].rv) /\ UNCHANGED crashed
        \/ crashed' = TRUE /\ UNCHANGED <<pc, loc>>
        \/ \E m \in Lists, t \in Trackers, at \in {"expire", "get"} : Visits(x, m, t, at)
    BY <1>4, NextTrackerFacts
  <2>5. CASE \E m \in Lists, t \in Trackers, at \in {"expire", "get"} : Visits(x, m, t, at)
    <3>1. PICK m, t : loc' = [loc EXCEPT ![x].list = m, ![x].index = t,
                                         ![x].tried = @ \cup {t}]
      BY <2>5 DEF Visits
    <3>2. loc'[x].got = loc[x].got /\ loc'[x].calls = loc[x].calls
      BY <2>3, <3>1
    <3>. QED  BY <1>4, <3>2, NextTrackerOthers
  <2>. QED  BY <2>1, <2>2, <2>4, <2>5
<1>. QED  BY <1>2, <1>3, <1>4

LEMMA ExactStep ==
    ASSUME Exact, NEW x \in Threads, Step(x)
    PROVE  Wires' /\ ReplyMatches'
<1>. DEFINE t == loc[x].index
            Others == \A y \in Threads \ {x} : /\ pc'[y] = pc[y] /\ entry'[y] = entry[y]
                                               /\ loc'[y] = loc[y]
            Same == \/ loc'[x].got = None
                    \/ loc'[x].got = loc[x].got /\ loc'[x].calls = loc[x].calls
<1>. USE DEF At, poolVars, netVars
<1>0. /\ Owned /\ TypeOK /\ Holding /\ Reaping /\ Wires /\ ReplyMatches
  BY DEF Exact, Owned, Typed
<1>a. /\ loc \in [Threads -> Locals] /\ pc \in [Threads -> Labels]
      /\ entry \in [Threads -> Conns \cup {None}]
      /\ wire \in [Conns -> Seq(Message)]
      /\ DOMAIN loc = Threads /\ DOMAIN pc = Threads /\ DOMAIN entry = Threads
  BY <1>0 DEF TypeOK
<1>b. ASSUME Others, Same,
             \A c \in Conns : wire'[c] \in {wire[c], <<>>},
             pc[x] \in {"receive", "destroy"} =>
                \A c \in Conns : entry[x] = c => wire'[c] = <<>>
      PROVE  Wires' /\ ReplyMatches'
  <2>1. \A c \in Conns : wire'[c] # <<>> /\ entry[x] = c
                            => pc[x] \notin {"receive", "destroy"}
    BY <1>b
  <2>2. Wires'
    BY <1>0, <1>b, <2>1, WiresKept
  <2>3. ReplyMatches'
    BY <1>0, <1>b, MatchesKept
  <2>. QED  BY <2>2, <2>3
<1>c. ASSUME Others, Same, UNCHANGED wire, pc[x] \notin {"receive", "destroy"}
      PROVE  Wires' /\ ReplyMatches'
  BY <1>b, <1>c
<1>d. ASSUME Others, Same, NEW d, wire' = [wire EXCEPT ![d] = <<>>],
             pc[x] \notin {"receive", "destroy"} \/ entry[x] = d
      PROVE  Wires' /\ ReplyMatches'
  <2>1. \A c \in Conns : wire'[c] \in {wire[c], <<>>}
    BY <1>a, <1>d
  <2>2. \A c \in Conns : c = d => wire'[c] = <<>>
    BY <1>a, <1>d
  <2>. QED  BY <1>b, <1>d, <2>1, <2>2
<1>1. CASE test_count(x) \/ copy_list(x) \/ next_tracker(x)
  <2>1. UNCHANGED <<wire, entry>> /\ pc[x] \notin {"receive", "destroy"}
    BY <1>1 DEF test_count, copy_list, next_tracker
  <2>2. Others /\ Same
    BY <1>0, <1>1, <2>1, WalkKeepsReply
  <2>. QED  BY <1>c, <2>1, <2>2
<1>2. CASE pop_connection(x)
  <2>1. Same
    BY <1>2, <1>a DEF pop_connection, Locals
  <2>2. Others /\ UNCHANGED wire /\ pc[x] \notin {"receive", "destroy"}
    BY <1>2, <1>a DEF pop_connection
  <2>. QED  BY <1>c, <2>1, <2>2
<1>3. CASE connect(x)
  <2>1. Same
    BY <1>3, <1>a DEF connect, Locals
  <2>2. Others /\ UNCHANGED wire /\ pc[x] \notin {"receive", "destroy"}
    BY <1>3, <1>a DEF connect
  <2>. QED  BY <1>c, <2>1, <2>2
<1>4. CASE connect_fails(x) \/ mfs_pool_deactivate(x) \/ mfs_pool_activate(x)
  <2>1. /\ Others /\ Same /\ UNCHANGED wire
        /\ pc[x] \notin {"receive", "destroy"}
    BY <1>4, <1>a DEF connect_fails, mfs_pool_deactivate, mfs_pool_activate
  <2>. QED  BY <1>c, <2>1
<1>5. CASE mfs_pool_return_connection(x) \/ mfs_pool_get_expired_trackers(x)
  <2>1. /\ Others /\ Same /\ UNCHANGED wire
        /\ pc[x] \notin {"receive", "destroy"}
    BY <1>5, <1>a DEF mfs_pool_return_connection, mfs_pool_get_expired_trackers
  <2>. QED  BY <1>c, <2>1
<1>6. CASE drain(x)
  <2>1. Others /\ Same /\ pc[x] \notin {"receive", "destroy"}
    BY <1>6, <1>a DEF drain
  <2>2. CASE UNCHANGED wire
    BY <1>c, <2>1, <2>2
  <2>3. CASE wire' = [wire EXCEPT ![Head(stack[t])] = <<>>]
    BY <1>d, <2>1, <2>3
  <2>. QED  BY <1>6, <2>2, <2>3 DEF drain, mfs_pool_destroy_connection
<1>7. CASE reap(x)
  <2>1. Others /\ Same /\ pc[x] \notin {"receive", "destroy"}
    BY <1>7, <1>a DEF reap
  <2>2. CASE UNCHANGED wire
    BY <1>c, <2>1, <2>2
  <2>3. CASE wire' = [wire EXCEPT ![Head(chain[x])] = <<>>]
    BY <1>d, <2>1, <2>3
  <2>. QED  BY <1>7, <2>2, <2>3 DEF reap, mfs_pool_destroy_connection
<1>8. CASE destroy_failed(x)
  <2>1. Others /\ Same /\ wire' = [wire EXCEPT ![entry[x]] = <<>>]
    BY <1>8, <1>a DEF destroy_failed, mfs_pool_destroy_connection
  <2>. QED  BY <1>d, <2>1
<1>9. CASE send_request(x)
  <2>1. /\ Others /\ UNCHANGED <<loc, entry>> /\ pc[x] = "send" /\ pc'[x] = "receive"
        /\ wire' = [wire EXCEPT ![entry[x]] = Append(@,
                      [by |-> x, call |-> loc[x].calls, kind |-> "request"])]
    BY <1>9, <1>a DEF send_request
  <2>2. PICK e \in Conns : e = entry[x]
    BY <1>0, <1>a, <2>1 DEF Holding
  <2>3. wire[e] = <<>>
    <3>. SUFFICES ASSUME wire[e] # <<>> PROVE FALSE
      OBVIOUS
    <3>1. PICK y \in Threads : Expects(y, e)
      BY <1>0 DEF Wires
    <3>2. y = x
      BY <1>0, <2>2, <3>1, OneHolder DEF Expects
    <3>. QED  BY <2>1, <3>1, <3>2 DEF Expects
  <2>4. PICK m : m = [by |-> x, call |-> loc[x].calls, kind |-> "request"]
    OBVIOUS
  <2>5. wire' = [wire EXCEPT ![e] = <<m>>]
    <3>1. Append(wire[e], m) = <<m>>
      BY <2>3
    <3>. QED  BY <2>1, <2>2, <2>4, <3>1
  <2>6. Expects(x, e)'
    <3>1. wire'[e] = <<m>>
      BY <1>a, <2>5
    <3>2. Len(wire'[e]) = 1 /\ wire'[e][1] = m
      BY <3>1
    <3>3. m.by = x /\ m.call = loc[x].calls
      BY <2>4
    <3>4. entry'[x] = e /\ loc'[x].calls = loc[x].calls /\ pc'[x] = "receive"
      BY <2>1, <2>2
    <3>. QED  BY <3>2, <3>3, <3>4 DEF Expects
  <2>7. ASSUME NEW c \in Conns, c # e, wire'[c] # <<>>
        PROVE  \E y \in Threads : Expects(y, c)'
    <3>1. wire'[c] = wire[c]
      BY <1>a, <2>5, <2>7
    <3>2. PICK y \in Threads : Expects(y, c)
      BY <1>0, <2>7, <3>1 DEF Wires
    <3>3. y # x
      BY <2>2, <2>7, <3>2 DEF Expects
    <3>. QED  BY <2>1, <3>1, <3>2, <3>3 DEF Expects
  <2>8. Wires'
    BY <2>6, <2>7 DEF Wires
  <2>9. ReplyMatches'
    BY <1>0, <2>1 DEF ReplyMatches
  <2>. QED  BY <2>8, <2>9
<1>10. CASE receive_reply(x)
  <2>1. PICK e \in Conns : e = entry[x]
    BY <1>0, <1>10, <1>a DEF receive_reply, Holding
  <2>2. /\ pc[x] = "receive" /\ wire[e] # <<>> /\ Head(wire[e]).kind = "reply"
        /\ wire' = [wire EXCEPT ![e] = Tail(wire[e])]
        /\ loc' = [loc EXCEPT ![x] = [loc[x] EXCEPT !.rv = "success", !.got = Head(wire[e])]]
        /\ UNCHANGED entry /\ \A y \in Threads \ {x} : pc'[y] = pc[y]
    BY <1>10, <1>a, <2>1 DEF receive_reply
  <2>3. PICK y \in Threads : Expects(y, e)
    BY <1>0, <2>2 DEF Wires
  <2>4. y = x
    BY <1>0, <2>1, <2>3, OneHolder DEF Expects
  <2>5. PICK m \in Message : m = Head(wire[e])
    BY <1>a, <2>2
  <2>6. /\ Len(wire[e]) = 1 /\ m = wire[e][1] /\ m.by = x /\ m.call = loc[x].calls
    BY <1>a, <2>2, <2>3, <2>4, <2>5 DEF Expects
  <2>7. Tail(wire[e]) = <<>>
    <3>1. wire[e] \in Seq(Message)
      BY <1>a
    <3>2. Tail(wire[e]) \in Seq(Message) /\ Len(Tail(wire[e])) = 0
      BY <2>2, <2>6, <3>1
    <3>. QED  BY <3>2, NoLength
  <2>8. loc'[x] = [loc[x] EXCEPT !.rv = "success", !.got = m]
    BY <1>a, <2>2, <2>5
  <2>9. loc'[x].got = m /\ loc'[x].calls = loc[x].calls
    BY <1>a, <2>8 DEF Locals
  <2>10. Others
    BY <1>a, <2>2
  <2>11. m = [by |-> x, call |-> loc[x].calls, kind |-> "reply"]
    BY <2>2, <2>5, <2>6 DEF Message
  <2>12. ReplyMatches'
    BY <1>0, <2>9, <2>10, <2>11 DEF ReplyMatches
  <2>13. \A c \in Conns : /\ wire'[c] \in {wire[c], <<>>}
                          /\ entry[x] = c => wire'[c] = <<>>
    BY <1>a, <2>1, <2>2, <2>7
  <2>14. Wires'
    <3>1. \A c \in Conns : wire'[c] # <<>> /\ entry[x] = c
                              => pc[x] \notin {"receive", "destroy"}
      BY <2>13
    <3>. QED  BY <1>0, <2>10, <2>13, <3>1, WiresKept
  <2>. QED  BY <2>12, <2>14
<1>11. CASE request_fails(x)
  <2>1. /\ UNCHANGED <<wire, entry>> /\ pc'[x] = "destroy" /\ Others
        /\ loc' = [loc EXCEPT ![x] = [loc[x] EXCEPT !.rv = "error"]]
    BY <1>11, <1>a DEF request_fails
  <2>2. Same
    BY <1>a, <2>1 DEF Locals
  <2>3. ReplyMatches'
    BY <1>0, <2>1, <2>2, MatchesKept
  <2>4. Wires'
    <3>. SUFFICES ASSUME NEW c \in Conns, wire'[c] # <<>>
                  PROVE  \E y \in Threads : Expects(y, c)'
      BY DEF Wires
    <3>1. PICK y \in Threads : Expects(y, c)
      BY <1>0, <2>1 DEF Wires
    <3>2. CASE y = x
      BY <2>1, <3>1, <3>2 DEF Expects
    <3>3. CASE y # x
      BY <2>1, <3>1, <3>3 DEF Expects
    <3>. QED  BY <3>2, <3>3
  <2>. QED  BY <2>3, <2>4
<1>. QED
  BY <1>1, <1>2, <1>3, <1>4, <1>5, <1>6, <1>7, <1>8, <1>9, <1>10, <1>11 DEF Step

LEMMA ExactInit == Init => Exact
<1>. SUFFICES ASSUME Init PROVE Exact
  OBVIOUS
<1>1. Owned
  BY OwnedInit
<1>2. Wires
  BY DEF Init, Wires
<1>3. ReplyMatches
  BY DEF Init, ReplyMatches, Fresh
<1>. QED  BY <1>1, <1>2, <1>3 DEF Exact

LEMMA ExactNext == Exact /\ [Next]_vars => Exact'
<1>. SUFFICES ASSUME Exact, [Next]_vars PROVE Exact'
  OBVIOUS
<1>. DEFINE Goal == Wires' /\ ReplyMatches'
<1>0. Owned /\ Owned' /\ TypeOK /\ Wires /\ ReplyMatches
  BY OwnedNext DEF Exact, Owned, Typed
<1>1. ASSUME NEW x \in Threads, Step(x)  PROVE Goal
  BY <1>1, ExactStep
<1>2. ASSUME NEW x \in Clients, mfs_request_do(x)  PROVE Goal
  <2>1. /\ x \in Threads /\ UNCHANGED <<wire, entry>> /\ pc[x] = "done"
        /\ \A y \in Threads \ {x} : loc'[y] = loc[y] /\ pc'[y] = pc[y]
    BY <1>0, <1>2, RequestFacts DEF TypeOK
  <2>2. loc'[x].got = None
    <3>1. PICK v \in Statuses, n \in 0 .. MaxCalls :
            /\ loc'[x] = [Fresh EXCEPT !.rv = v, !.calls = n]
            /\ v = "success" => "null" \in PoolArgs
      BY <1>0, <1>2, RequestFacts
    <3>. QED  BY <3>1 DEF Fresh
  <2>3. Wires'
    BY <1>0, <2>1, WiresKept
  <2>4. ReplyMatches'
    BY <1>0, <2>1, <2>2, MatchesKept
  <2>. QED  BY <2>3, <2>4
<1>3. ASSUME NEW d \in Conns, Answer(d)  PROVE Goal
  <2>1. /\ wire \in [Conns -> Seq(Message)] /\ wire' \in [Conns -> Seq(Message)]
        /\ Len(wire'[d]) = Len(wire[d])
        /\ \A i \in 1 .. Len(wire[d]) : /\ wire'[d][i].by = wire[d][i].by
                                        /\ wire'[d][i].call = wire[d][i].call
        /\ \A c \in Conns \ {d} : wire'[c] = wire[c]
        /\ UNCHANGED <<pc, entry, loc>>
    BY <1>0, <1>3, AnswerFacts DEF TypeOK
  <2>2. ReplyMatches'
    BY <1>0, <2>1 DEF ReplyMatches
  <2>3. ASSUME NEW c \in Conns, wire'[c] # <<>>
        PROVE  \E y \in Threads : Expects(y, c)'
    <3>1. wire[c] # <<>>
      <4>1. wire'[c] \in Seq(Message) /\ wire[c] \in Seq(Message)
        BY <2>1
      <4>2. Len(wire'[c]) = Len(wire[c])
        BY <2>1
      <4>. QED  BY <2>3, <4>1, <4>2, NoLength
    <3>2. PICK y \in Threads : Expects(y, c)
      BY <1>0, <3>1 DEF Wires
    <3>3. Len(wire[c]) = 1 => /\ Len(wire'[c]) = 1
                              /\ wire'[c][1].by = wire[c][1].by
                              /\ wire'[c][1].call = wire[c][1].call
      BY <2>1
    <3>. QED  BY <2>1, <3>2, <3>3 DEF Expects
  <2>4. Wires'
    BY <2>3 DEF Wires
  <2>. QED  BY <2>2, <2>4
<1>4. ASSUME UNCHANGED <<wire, pc, entry, loc>>  PROVE Goal
  BY <1>0, <1>4 DEF Wires, Expects, ReplyMatches
<1>5. ASSUME NEW d \in Conns, Age(d)  PROVE Goal
  <2>1. UNCHANGED <<wire, pc, entry, loc>>
    BY <1>5 DEF Age
  <2>. QED  BY <1>4, <2>1
<1>6. ASSUME UNCHANGED vars  PROVE Goal
  <2>1. UNCHANGED <<wire, pc, entry, loc>>
    BY <1>6 DEF vars, netVars
  <2>. QED  BY <1>4, <2>1
<1>. HIDE DEF Goal
<1>7. Goal
  BY <1>1, <1>2, <1>3, <1>5, <1>6 DEF Next
<1>. QED  BY <1>0, <1>7 DEF Exact, Goal

LEMMA ExactAlways == Spec => []Exact
BY ExactInit, ExactNext, PTL DEF Spec

\* Nothing is in flight on a pooled connection, and the answer a request works
\* with is the answer to that very request: a late reply to a request that was
\* given up is never read (request.c:52-61).
THEOREM RepliesCorrect == Spec => []RepliesSafe
<1>1. Exact => RepliesSafe
  <2>. SUFFICES ASSUME Exact PROVE RepliesSafe
    OBVIOUS
  <2>1. ASSUME NEW t \in Trackers, NEW c \in Listed(stack[t])  PROVE wire[c] = <<>>
    <3>1. c \in Conns
      BY ListedType DEF Exact, Owned, Typed, TypeOK
    <3>2. \A x \in Threads : c # entry[x]
      BY <3>1 DEF Exact, Owned, Apart
    <3>. QED  BY <3>1, <3>2 DEF Exact, Wires, Expects
  <2>. QED  BY <2>1 DEF RepliesSafe, PooledClean, Exact
<1>. QED  BY <1>1, ExactAlways, PTL
-------------------------------------------------------------------------------
(* Outcomes.  The trackers tried are those at the positions from where the   *)
(* walk began up to the cursor, around the end of the list.                  *)

Visited(l, p) ==
    IF l.start <= l.cur THEN l.start <= p /\ p <= l.cur
                        ELSE l.start <= p \/ p <= l.cur

Walked(r) ==
    LET l == r.list
        n == Len(l.indexes)
    IN  n > 0 =>
          /\ l.start \in 0 .. n - 1 /\ l.cur \in -1 .. n - 1
          /\ l.cur # -1 => \A p \in 0 .. n - 1 :
                              Visited(l, p) => l.indexes[p + 1] \in r.tried

\* What the local variables r of thread x tell when it is about to do at.
Tracked(x, r, at) ==
    /\ Walked(r)
    /\ at = "list" => r.list = NoList
    /\ at \in {"return", "activate"} => r.got # None
    /\ x \in Clients /\ at = "done" /\ r.got = None
          => Listed(r.list.indexes) \subseteq r.tried
    /\ x \in Clients /\ "null" \notin PoolArgs /\ r.rv = "success" => r.got # None

Tracking == \A x \in Threads : Tracked(x, loc[x], pc[x])

\* The walk before its first and after its last tracker.
LEMMA WalkEnds ==
    ASSUME NEW r \in Locals, Walked(r), IsLast(r.list)
    PROVE  Listed(r.list.indexes) \subseteq r.tried
<1>1. PICK l : l = r.list
  OBVIOUS
<1>2. PICK n : n = Len(l.indexes)
  OBVIOUS
<1>3. /\ l.indexes \in Seq(Trackers) /\ n \in Nat /\ DOMAIN l.indexes = 1 .. n
      /\ l.start \in Int /\ l.cur \in Int
  BY <1>1, <1>2, ListFacts DEF Locals
<1>4. ASSUME NEW i \in 1 .. n  PROVE l.indexes[i] \in r.tried
  <2>1. n > 0 /\ l.start \in 0 .. n - 1 /\ l.cur \in 0 .. n - 1
    BY <1>1, <1>2, <1>3 DEF Walked, IsLast
  <2>2. l.start = IF l.cur + 1 >= n THEN 0 ELSE l.cur + 1
    BY <1>1, <1>2 DEF IsLast, Advance
  <2>3. PICK p \in 0 .. n - 1 : p + 1 = i
    <3>1. i - 1 \in 0 .. n - 1 /\ (i - 1) + 1 = i
      BY <1>3
    <3>. QED  BY <3>1
  <2>4. Visited(l, p)
    BY <2>1, <2>2, <1>3 DEF Visited
  <2>5. l.indexes[p + 1] \in r.tried
    BY <1>1, <1>2, <2>1, <2>4 DEF Walked
  <2>. QED  BY <2>3, <2>5
<1>. QED  BY <1>1, <1>3, <1>4 DEF Listed

\* One step of the walk.
LEMMA WalkGoesOn ==
    ASSUME NEW r \in Locals, Walked(r), ~IsLast(r.list),
           NEW m, m = [r.list EXCEPT !.cur = Advance(r.list)],
           NEW t \in CurrentIndex(m), t \in Trackers
    PROVE  Walked([r EXCEPT !.list = m, !.index = t, !.tried = @ \cup {t}])
<1>1. PICK l \in Lists : l = r.list
  BY DEF Locals
<1>2. PICK n : n = Len(l.indexes)
  OBVIOUS
<1>3. /\ l.indexes \in Seq(Trackers) /\ n \in Nat /\ DOMAIN l.indexes = 1 .. n
      /\ l.start \in Int /\ l.cur \in Int
      /\ l = [indexes |-> l.indexes, start |-> l.start, cur |-> l.cur]
  BY <1>2, ListFacts
<1>4. PICK k : k = Advance(l)
  OBVIOUS
<1>5. m = [l EXCEPT !.cur = k]
  BY <1>1, <1>4
<1>6. m.indexes = l.indexes /\ m.start = l.start /\ m.cur = k
  BY <1>3, <1>5
<1>7. PICK q : q = [r EXCEPT !.list = m, !.index = t, !.tried = @ \cup {t}]
  OBVIOUS
<1>8. q.list = m /\ q.tried = r.tried \cup {t}
  BY <1>7 DEF Locals
<1>. SUFFICES ASSUME n > 0
              PROVE  /\ m.start \in 0 .. n - 1 /\ m.cur \in -1 .. n - 1
                     /\ \A p \in 0 .. n - 1 :
                           Visited(m, p) => m.indexes[p + 1] \in q.tried
  BY <1>2, <1>6, <1>7, <1>8 DEF Walked
<1>9. l.start \in 0 .. n - 1 /\ l.cur \in -1 .. n - 1
  BY <1>1, <1>2 DEF Walked
<1>10. /\ k = IF l.cur = -1 THEN l.start
              ELSE IF l.cur + 1 >= n THEN 0 ELSE l.cur + 1
       /\ l.cur # -1 => k # l.start
  BY <1>1, <1>2, <1>4 DEF Advance, IsLast
<1>11. k \in 0 .. n - 1 /\ k + 1 \in DOMAIN l.indexes /\ k # -1
  BY <1>3, <1>9, <1>10
<1>12. t = l.indexes[k + 1]
  BY <1>6, <1>11 DEF CurrentIndex
<1>13. ASSUME NEW p \in 0 .. n - 1, Visited(m, p), p # k
       PROVE  l.cur # -1 /\ Visited(l, p)
  <2>1. PICK s, c : s = l.start /\ c = l.cur
    OBVIOUS
  <2>2. /\ s \in 0 .. n - 1 /\ c \in -1 .. n - 1 /\ k \in 0 .. n - 1 /\ n \in Nat
        /\ k = IF c = -1 THEN s ELSE IF c + 1 >= n THEN 0 ELSE c + 1
        /\ c # -1 => k # s
        /\ IF s <= k THEN s <= p /\ p <= k ELSE s <= p \/ p <= k
    BY <1>3, <1>6, <1>9, <1>10, <1>11, <1>13, <2>1 DEF Visited
  <2>3. c # -1
    BY <1>13, <2>2
  <2>4. IF s <= c THEN s <= p /\ p <= c ELSE s <= p \/ p <= c
    <3>1. CASE c + 1 >= n
      BY <1>13, <2>2, <2>3, <3>1
    <3>2. CASE c + 1 < n
      BY <1>13, <2>2, <2>3, <3>2
    <3>. QED  BY <2>2, <3>1, <3>2
  <2>. QED  BY <2>1, <2>3, <2>4 DEF Visited
<1>14. ASSUME NEW p \in 0 .. n - 1, Visited(m, p)
       PROVE  m.indexes[p + 1] \in q.tried
  <2>1. CASE p = k
    BY <1>6, <1>8, <1>12, <2>1
  <2>2. CASE p # k
    <3>1. l.cur # -1 /\ Visited(l, p)
      BY <1>13, <1>14, <2>2
    <3>2. l.indexes[p + 1] \in r.tried
      BY <1>1, <1>2, <3>1 DEF Walked
    <3>. QED  BY <1>6, <1>8, <3>2
  <2>. QED  BY <2>1, <2>2
<1>. QED  BY <1>6, <1>9, <1>11, <1>14

\* A copied list that has not been walked, and no list at all.
LEMMA WalkBegins ==
    ASSUME NEW r \in Locals, NEW s \in Seq(Trackers),
           NEW p \in StartPositions(Len(s))
    PROVE  Walked([r EXCEPT !.tried = {},
                            !.list = [indexes |-> s, start |-> p, cur |-> -1]])
<1>1. PICK q : q = [r EXCEPT !.tried = {},
                             !.list = [indexes |-> s, start |-> p, cur |-> -1]]
  OBVIOUS
<1>2. q.list.indexes = s /\ q.list.start = p /\ q.list.cur = -1
  BY <1>1 DEF Locals
<1>3. Len(s) \in Nat
  OBVIOUS
<1>. QED  BY <1>1, <1>2, <1>3 DEF Walked, StartPositions

LEMMA FreshWalk ==
    ASSUME NEW r, r.list = NoList
    PROVE  Walked(r) /\ Listed(r.list.indexes) = {}
<1>1. r.list.indexes = <<>> /\ Len(r.list.indexes) = 0
  BY DEF NoList
<1>. QED  BY <1>1, EmptyFacts DEF Walked

\* Steps outside the walk that keep the reply, and do not report success.
LEMMA TrackedKept ==
    ASSUME NEW x, NEW r, NEW q, NEW at, NEW to, Tracked(x, r, at),
           q.list = r.list, q.tried = r.tried, q.got = r.got,
           q.rv = "success" => r.rv = "success",
           to # "list",
           to \in {"return", "activate"} => at \in {"return", "activate"},
           to = "done" => at = "return"
    PROVE  Tracked(x, q, to)
<1>1. Walked(q)
  BY DEF Tracked, Walked
<1>. QED  BY <1>1 DEF Tracked

LEMMA TrackingStep ==
    ASSUME Typed, Tracking, NEW x \in Threads, Step(x)
    PROVE  Tracking'
<1>. DEFINE Others == \A y \in Threads \ {x} : pc'[y] = pc[y] /\ loc'[y] = loc[y]
<1>. USE DEF At, poolVars, netVars
<1>0. /\ TypeOK /\ Tracked(x, loc[x], pc[x]) /\ loc[x] \in Locals
      /\ loc \in [Threads -> Locals] /\ pc \in [Threads -> Labels]
      /\ loc[x].rv \in Statuses /\ "refused" \in Statuses
      /\ DOMAIN loc = Threads /\ DOMAIN pc = Threads
  BY DEF Typed, TypeOK, Tracking, Locals, Statuses
<1>a. ASSUME Others, Tracked(x, loc'[x], pc'[x])
      PROVE  Tracking'
  BY <1>a DEF Tracking
<1>b. ASSUME Others, loc'[x].list = loc[x].list, loc'[x].tried = loc[x].tried,
             loc'[x].got = loc[x].got,
             loc'[x].rv = "success" => loc[x].rv = "success",
             pc'[x] # "list",
             pc'[x] \in {"return", "activate"} => pc[x] \in {"return", "activate"},
             pc'[x] = "done" => pc[x] = "return"
      PROVE  Tracking'
  <2>1. PICK r, q, at, to : r = loc[x] /\ q = loc'[x] /\ at = pc[x] /\ to = pc'[x]
    OBVIOUS
  <2>2. Tracked(x, q, to)
    BY <1>0, <1>b, <2>1, TrackedKept
  <2>. QED  BY <1>a, <1>b, <2>1, <2>2
<1>c. ASSUME NEW status \in Statuses, Leave(x, status),
             Listed(loc[x].list.indexes) \subseteq loc[x].tried,
             status = "success" => loc[x].rv = "success"
      PROVE  Tracking'
  <2>1. Others
    BY <1>0, <1>c, LeaveFacts
  <2>2. CASE x \in Clients
    <3>1. loc'[x] = [loc[x] EXCEPT !.rv = status] /\ pc'[x] = "done"
      BY <1>0, <1>c, <2>2, LeaveFacts
    <3>2. PICK q : q = loc'[x]
      OBVIOUS
    <3>3. /\ q.list = loc[x].list /\ q.tried = loc[x].tried /\ q.got = loc[x].got
          /\ q.rv = status
      BY <1>0, <3>1, <3>2 DEF Locals
    <3>4. Walked(q)
      BY <1>0, <3>3 DEF Tracked, Walked
    <3>5. Tracked(x, q, "done")
      BY <1>0, <1>c, <3>3, <3>4 DEF Tracked
    <3>. QED  BY <1>a, <2>1, <3>1, <3>2, <3>5
  <2>3. CASE x \notin Clients
    <3>1. PICK phase \in {"test", "expire"} : loc'[x] = [Fresh EXCEPT !.phase = phase]
      BY <1>0, <1>c, <2>3, LeaveFacts
    <3>2. PICK q : q = loc'[x]
      OBVIOUS
    <3>3. q.list = NoList
      BY <3>1, <3>2 DEF Fresh
    <3>4. pc'[x] = "list"
      BY <1>0, <1>c, <2>3, LeaveFacts
    <3>5. Tracked(x, q, "list")
      BY <2>3, <3>3, FreshWalk DEF Tracked
    <3>. QED  BY <1>a, <2>1, <3>2, <3>4, <3>5
  <2>. QED  BY <2>2, <2>3
<1>1. CASE test_count(x)
  <2>1. CASE Leave(x, "refused")
    <3>1. loc[x].list = NoList
      BY <1>0, <1>1 DEF test_count, Tracked
    <3>2. Listed(loc[x].list.indexes) = {}
      BY <3>1, FreshWalk
    <3>. QED  BY <1>0, <1>c, <2>1, <3>2
  <2>2. CASE pc' = [pc EXCEPT ![x] = "copy"] /\ UNCHANGED loc
    BY <1>0, <1>b, <2>2
  <2>. QED  BY <1>1, <2>1, <2>2 DEF test_count
<1>2. CASE copy_list(x)
  <2>1. PICK s \in StartPositions(Len(Source(x))) :
          loc' = [loc EXCEPT ![x] = [loc[x] EXCEPT !.tried = {}, !.list =
                     [indexes |-> Source(x), start |-> s, cur |-> -1]]]
    BY <1>2 DEF copy_list
  <2>2. Source(x) \in Seq(Trackers)
    BY <1>0 DEF Source, TypeOK
  <2>3. PICK q : q = loc'[x]
    OBVIOUS
  <2>4. q = [loc[x] EXCEPT !.tried = {}, !.list =
                [indexes |-> Source(x), start |-> s, cur |-> -1]]
    BY <1>0, <2>1, <2>3
  <2>5. Walked(q)
    BY <1>0, <2>2, <2>4, WalkBegins
  <2>6. q.got = loc[x].got /\ q.rv = loc[x].rv
    BY <1>0, <2>4 DEF Locals
  <2>7. Others /\ pc'[x] = "next"
    BY <1>0, <1>2, <2>1 DEF copy_list
  <2>8. Tracked(x, q, "next")
    BY <1>0, <2>5, <2>6 DEF Tracked
  <2>. QED  BY <1>a, <2>3, <2>7, <2>8
<1>3. CASE next_tracker(x)
  <2>0. Others
    BY <1>0, <1>3, NextTrackerOthers
  <2>1. CASE IsLast(loc[x].list) /\ Leave(x, loc[x].rv)
    <3>1. Listed(loc[x].list.indexes) \subseteq loc[x].tried
      BY <1>0, <2>1, WalkEnds DEF Tracked
    <3>. QED  BY <1>0, <1>c, <2>1, <3>1
  <2>2. CASE UNCHANGED <<pc, loc>>
    BY <2>2 DEF Tracking
  <2>3. ASSUME NEW m \in Lists, NEW t \in Trackers, NEW at \in {"expire", "get"},
               Visits(x, m, t, at)
        PROVE  Tracking'
    <3>1. PICK r, q : r = loc[x] /\ q = loc'[x]
      OBVIOUS
    <3>2. q = [r EXCEPT !.list = m, !.index = t, !.tried = @ \cup {t}]
      BY <1>0, <2>3, <3>1 DEF Visits
    <3>3. /\ ~IsLast(r.list) /\ m = [r.list EXCEPT !.cur = Advance(r.list)]
          /\ t \in CurrentIndex(m) /\ r \in Locals /\ Walked(r)
      BY <1>0, <2>3, <3>1 DEF Visits, Tracked
    <3>4. Walked(q)
      BY <3>2, <3>3, WalkGoesOn
    <3>5. q.got = r.got /\ q.rv = r.rv
      BY <3>2, <3>3 DEF Locals
    <3>6. Tracked(x, q, at)
      BY <1>0, <3>1, <3>4, <3>5 DEF Tracked
    <3>7. pc'[x] = at
      BY <1>0, <2>3 DEF Visits
    <3>. QED  BY <1>a, <2>0, <3>1, <3>6, <3>7
  <2>4. \/ IsLast(loc[x].list) /\ Leave(x, loc[x].rv) /\ UNCHANGED crashed
        \/ crashed' = TRUE /\ UNCHANGED <<pc, loc>>
        \/ \E m \in Lists, t \in Trackers, at \in {"expire", "get"} : Visits(x, m, t, at)
    BY <1>0, <1>3, NextTrackerFacts
  <2>. QED  BY <2>1, <2>2, <2>3, <2>4
<1>4. CASE pop_connection(x)
  <2>1. CASE loc' = [loc EXCEPT ![x] = [loc[x] EXCEPT !.is_new = FALSE]] /\ pc' = [pc EXCEPT ![x] = "send"]
    BY <1>0, <1>b, <2>1 DEF Locals
  <2>2. CASE UNCHANGED loc /\ pc' = [pc EXCEPT ![x] = "connect"]
    BY <1>0, <1>b, <2>2
  <2>. QED  BY <1>4, <2>1, <2>2 DEF pop_connection
<1>5. CASE connect(x)
  <2>1. /\ loc' = [loc EXCEPT ![x] = [loc[x] EXCEPT !.is_new = TRUE]]
        /\ pc' = [pc EXCEPT ![x] = "send"]
    BY <1>5 DEF connect
  <2>. QED  BY <1>0, <1>b, <2>1 DEF Locals
<1>6. CASE \E to \in {"deactivate", "drain", "next", "get", "receive", "reap"} :
             UNCHANGED loc /\ pc' = [pc EXCEPT ![x] = to]
  BY <1>0, <1>b, <1>6
<1>7. CASE UNCHANGED <<pc, loc>>
  BY <1>7 DEF Tracking
<1>8. CASE receive_reply(x)
  <2>1. PICK e \in Conns : e = entry[x]
    BY <1>8 DEF receive_reply, Typed, TypeOK, Holding
  <2>2. wire[e] \in Seq(Message) /\ wire[e] # <<>>
    BY <1>8, <2>1 DEF receive_reply, Typed, TypeOK
  <2>3. PICK m \in Message : m = Head(wire[e])
    BY <2>2
  <2>4. loc' = [loc EXCEPT ![x] = [loc[x] EXCEPT !.rv = "success", !.got = m]]
    BY <1>8, <2>1, <2>3 DEF receive_reply
  <2>5. PICK q : q = loc'[x]
    OBVIOUS
  <2>6. q.list = loc[x].list /\ q.tried = loc[x].tried /\ q.got # None
    BY <1>0, <2>4, <2>5, NoMessageAssumption DEF Locals
  <2>7. Walked(q)
    BY <1>0, <2>6 DEF Tracked, Walked
  <2>8. Others /\ pc'[x] \in {"return", "activate"}
    BY <1>0, <1>8, <2>4 DEF receive_reply
  <2>9. Tracked(x, q, pc'[x])
    BY <2>6, <2>7, <2>8 DEF Tracked
  <2>. QED  BY <1>a, <2>5, <2>8, <2>9
<1>9. CASE request_fails(x)
  <2>1. /\ loc' = [loc EXCEPT ![x] = [loc[x] EXCEPT !.rv = "error"]]
        /\ pc' = [pc EXCEPT ![x] = "destroy"]
    BY <1>9 DEF request_fails
  <2>. QED  BY <1>0, <1>b, <2>1 DEF Locals
<1>10. CASE mfs_pool_return_connection(x) \/ mfs_pool_activate(x)
  <2>1. /\ UNCHANGED loc
        /\ \/ pc[x] = "return" /\ \E to \in {"done", "next"} : pc' = [pc EXCEPT ![x] = to]
           \/ pc[x] = "activate" /\ pc' = [pc EXCEPT ![x] = "return"]
    BY <1>10 DEF mfs_pool_return_connection, mfs_pool_activate
  <2>. QED  BY <1>0, <1>b, <2>1
<1>11. ASSUME \/ connect_fails(x) \/ mfs_pool_deactivate(x) \/ drain(x)
              \/ send_request(x) \/ destroy_failed(x)
              \/ mfs_pool_get_expired_trackers(x) \/ reap(x)
       PROVE  \/ \E to \in {"deactivate", "drain", "next", "get", "receive", "reap"} :
                    UNCHANGED loc /\ pc' = [pc EXCEPT ![x] = to]
              \/ UNCHANGED <<pc, loc>>
  BY <1>11 DEF connect_fails, mfs_pool_deactivate, drain, send_request,
               destroy_failed, mfs_pool_get_expired_trackers, reap
<1>. QED
  BY <1>1, <1>2, <1>3, <1>4, <1>5, <1>6, <1>7, <1>8, <1>9, <1>10, <1>11 DEF Step

LEMMA TrackingInit == Init => Tracking
<1>. SUFFICES ASSUME Init, NEW x \in Threads PROVE Tracked(x, loc[x], pc[x])
  BY DEF Tracking
<1>1. loc[x].list = NoList /\ loc[x].rv = "refused" /\ pc[x] \in {"done", "list"}
  BY DEF Init, Fresh
<1>2. PICK r : r = loc[x]
  OBVIOUS
<1>3. Walked(r) /\ Listed(r.list.indexes) = {}
  BY <1>1, <1>2, FreshWalk
<1>. QED  BY <1>1, <1>2, <1>3 DEF Tracked

LEMMA TrackingNext == Typed /\ Tracking /\ [Next]_vars => Tracking'
<1>. SUFFICES ASSUME Typed, Tracking, [Next]_vars PROVE Tracking'
  OBVIOUS
<1>1. ASSUME NEW x \in Threads, Step(x)  PROVE Tracking'
  BY <1>1, TrackingStep
<1>2. ASSUME NEW x \in Clients, mfs_request_do(x)  PROVE Tracking'
  <2>0. TypeOK
    BY DEF Typed
  <2>1. PICK v \in Statuses, n \in 0 .. MaxCalls :
          /\ loc'[x] = [Fresh EXCEPT !.rv = v, !.calls = n]
          /\ v = "success" => "null" \in PoolArgs
    BY <1>2, <2>0, RequestFacts
  <2>2. PICK q : q = loc'[x]
    OBVIOUS
  <2>3. q.list = NoList /\ q.rv = v
    BY <2>1, <2>2 DEF Fresh
  <2>4. Tracked(x, q, "list")
    BY <2>1, <2>3, FreshWalk DEF Tracked
  <2>5. /\ x \in Threads /\ pc'[x] = "list"
        /\ \A y \in Threads \ {x} : loc'[y] = loc[y] /\ pc'[y] = pc[y]
    BY <1>2, <2>0, RequestFacts DEF TypeOK
  <2>. QED  BY <2>2, <2>4, <2>5 DEF Tracking
<1>3. CASE UNCHANGED <<pc, loc>>
  BY <1>3 DEF Tracking
<1>4. ASSUME NEW c \in Conns, Answer(c) \/ Age(c)  PROVE UNCHANGED <<pc, loc>>
  BY <1>4 DEF Answer, Age
<1>5. CASE UNCHANGED vars
  BY <1>3, <1>5 DEF vars
<1>. QED  BY <1>1, <1>2, <1>3, <1>4, <1>5 DEF Next

LEMMA TrackingAlways == Spec => [](Typed /\ Tracking)
<1>1. Init => Typed /\ Tracking
  BY TypedInit, TrackingInit
<1>2. Typed /\ Tracking /\ [Next]_vars => (Typed /\ Tracking)'
  BY TypedNext, TrackingNext
<1>. QED  BY <1>1, <1>2, PTL DEF Spec

\* mfs_request_do gives up only after it has tried every tracker of its copy of
\* the active list, wherever the walk began (request.c:42-75, pool.c:183-192);
\* and when callers pass a memory pool, it reports success only if a tracker
\* answered this request.
THEOREM OutcomeCorrect == "null" \notin PoolArgs /\ Spec => []OutcomeTruthful
<1>. SUFFICES ASSUME "null" \notin PoolArgs PROVE Spec => []OutcomeTruthful
  OBVIOUS
<1>1. Tracking => OutcomeTruthful
  BY DEF Tracking, Tracked, OutcomeTruthful, SuccessMeansReply, FailoverComplete, Threads
<1>. QED  BY <1>1, TrackingAlways, PTL

\* The walk is complete whatever the callers pass (request.c:42-75).
THEOREM FailoverCorrect == Spec => []FailoverComplete
<1>1. Tracking => FailoverComplete
  BY DEF Tracking, Tracked, FailoverComplete, Threads
<1>. QED  BY <1>1, TrackingAlways, PTL
\* The cursor of a walk, and the position it began at, are within a copy that is
\* not empty; and if a thread used what was not an index, its copy was empty.
WalksInCopy ==
    /\ \A x \in Threads :
          LET l == loc[x].list
              n == Len(l.indexes)
          IN  n > 0 => l.start \in 0 .. n - 1 /\ l.cur \in -1 .. n - 1
    /\ crashed => \E x \in Threads : pc[x] = "next" /\ loc[x].list.indexes = <<>>

\* A walk of a copy that is not empty reads an index of the copy.
LEMMA ReadsCopy ==
    ASSUME NEW r \in Locals, Walked(r), r.list.indexes # <<>>, ~IsLast(r.list)
    PROVE  None \notin CurrentIndex([r.list EXCEPT !.cur = Advance(r.list)])
<1>1. PICK l \in Lists : l = r.list
  BY DEF Locals
<1>2. PICK n : n = Len(l.indexes)
  OBVIOUS
<1>3. /\ l.indexes \in Seq(Trackers) /\ n \in Nat \ {0} /\ DOMAIN l.indexes = 1 .. n
      /\ l = [indexes |-> l.indexes, start |-> l.start, cur |-> l.cur]
  <2>1. l.indexes \in Seq(Trackers) /\ l.indexes # <<>>
    BY <1>1, ListFacts
  <2>2. Len(l.indexes) # 0
    BY <2>1, NoLength
  <2>. QED  BY <1>2, <2>1, <2>2, ListFacts
<1>4. PICK k : k = Advance(l)
  OBVIOUS
<1>5. PICK m : m = [l EXCEPT !.cur = k]
  OBVIOUS
<1>6. m.indexes = l.indexes /\ m.cur = k
  BY <1>3, <1>5
<1>7. k \in 0 .. n - 1
  <2>1. l.start \in 0 .. n - 1 /\ l.cur \in -1 .. n - 1
    BY <1>1, <1>2, <1>3 DEF Walked
  <2>. QED  BY <1>2, <1>3, <1>4, <2>1 DEF Advance
<1>8. k + 1 \in DOMAIN l.indexes /\ k # -1
  BY <1>3, <1>7
<1>9. CurrentIndex(m) = {l.indexes[k + 1]} /\ l.indexes[k + 1] \in Trackers
  BY <1>3, <1>6, <1>8 DEF CurrentIndex
<1>. QED  BY <1>1, <1>4, <1>5, <1>9, ConstantFacts

\* A walk never leaves its copy of a list, from whatever random position it began
\* and however often it wraps round (pool.c:183-200): the copy that is empty,
\* because the last tracker left the list between the test of its count and the
\* copy, is the only one outside of which a thread reads.
THEOREM WalksCorrect == Spec => []WalksInCopy
<1>. DEFINE Blamed == crashed => \E x \in Threads : pc[x] = "next" /\ loc[x].list.indexes = <<>>
<1>1. Init => Blamed
  BY DEF Init
<1>2. ASSUME Typed, Tracking, Blamed, [Next]_vars  PROVE Blamed'
  <2>1. CASE crashed
    <3>1. UNCHANGED vars
      BY <1>2, <2>1 DEF Next, Step, At, Answer, Age, mfs_request_do, test_count, copy_list,
           next_tracker, pop_connection, connect, connect_fails, mfs_pool_deactivate, drain,
           send_request, receive_reply, request_fails, destroy_failed,
           mfs_pool_return_connection, mfs_pool_activate, mfs_pool_get_expired_trackers, reap
    <3>. QED  BY <1>2, <3>1 DEF vars
  <2>2. ASSUME NEW x \in Threads, next_tracker(x), ~crashed, crashed'  PROVE Blamed'
    <3>1. loc[x] \in Locals /\ Walked(loc[x]) /\ TypeOK
      BY <1>2 DEF Typed, TypeOK, Tracking, Tracked
    <3>2. pc[x] = "next" /\ UNCHANGED <<pc, loc>>
      BY <2>2, <3>1, NextTrackerFacts DEF Visits
    <3>3. ~IsLast(loc[x].list)
      BY <2>2 DEF next_tracker
    <3>4. None \in CurrentIndex([loc[x].list EXCEPT !.cur = Advance(loc[x].list)])
      BY <2>2, <3>3 DEF next_tracker
    <3>5. loc[x].list.indexes = <<>>
      BY <3>1, <3>3, <3>4, ReadsCopy
    <3>. QED  BY <3>2, <3>5
  <2>3. ASSUME NEW x \in Threads, Step(x), ~next_tracker(x)  PROVE UNCHANGED crashed
    BY <2>3 DEF Step, test_count, copy_list, pop_connection, connect, connect_fails,
         mfs_pool_deactivate, drain, send_request, receive_reply, request_fails,
         destroy_failed, mfs_pool_return_connection, mfs_pool_activate,
         mfs_pool_get_expired_trackers, reap, netVars
  <2>4. ASSUME ~ \E x \in Threads : Step(x)  PROVE UNCHANGED crashed
    BY <1>2, <2>4 DEF Next, mfs_request_do, Answer, Age, vars
  <2>. QED  BY <2>1, <2>2, <2>3, <2>4
<1>3. Tracking /\ Blamed => WalksInCopy
  BY DEF WalksInCopy, Tracking, Tracked, Walked
<1>. HIDE DEF Blamed
<1>4. Init => Typed /\ Tracking /\ Blamed
  BY <1>1, TypedInit, TrackingInit
<1>5. Typed /\ Tracking /\ Blamed /\ [Next]_vars => (Typed /\ Tracking /\ Blamed)'
  BY <1>2, TypedNext, TrackingNext
<1>. QED  BY <1>3, <1>4, <1>5, PTL DEF Spec
-------------------------------------------------------------------------------
(* The lists, whichever threads move trackers between them: the steps of     *)
(* TrackerMembership after every tracker was registered.                     *)

Membership == INSTANCE TrackerMembership
    WITH Index <- Trackers, active <- Listed(active), inactive <- Listed(inactive)

\* A step changes the lists in mfs_pool_deactivate and mfs_pool_activate only.
LEMMA ListsChange ==
    ASSUME [Next]_vars
    PROVE  \/ UNCHANGED <<active, inactive>>
           \/ \E x \in Threads : mfs_pool_deactivate(x) \/ mfs_pool_activate(x)
<1>1. ASSUME NEW x \in Threads, Step(x)
      PROVE  \/ UNCHANGED <<active, inactive>>
             \/ mfs_pool_deactivate(x) \/ mfs_pool_activate(x)
  BY <1>1 DEF Step, test_count, copy_list, next_tracker, pop_connection, connect,
              connect_fails, drain, send_request, receive_reply, request_fails,
              destroy_failed, mfs_pool_return_connection,
              mfs_pool_get_expired_trackers, reap, poolVars
<1>2. ASSUME NEW x \in Clients, mfs_request_do(x)  PROVE UNCHANGED <<active, inactive>>
  BY <1>2 DEF mfs_request_do, poolVars
<1>3. ASSUME NEW c \in Conns, Answer(c) \/ Age(c)  PROVE UNCHANGED <<active, inactive>>
  BY <1>3 DEF Answer, Age, poolVars
<1>4. CASE UNCHANGED vars
  BY <1>4 DEF vars, poolVars
<1>. QED  BY <1>1, <1>2, <1>3, <1>4 DEF Next

\* What moving a tracker does to the two sets.
LEMMA MoveSets ==
    ASSUME NEW from \in Seq(Trackers), NEW to \in Seq(Trackers),
           NEW t \in Listed(from), t \notin Listed(to), NoRepeats(from), NoRepeats(to)
    PROVE  /\ t \in Trackers
           /\ Listed(Without(from, t)) = Listed(from) \ {t}
           /\ Listed(Append(to, t)) = Listed(to) \cup {t}
<1>1. t \in Trackers
  BY ListedType
<1>. QED  BY <1>1, WithoutFacts, AppendFacts

\* mfs_pool_deactivate moves the thread's tracker, if it is still active.
LEMMA DeactivateMoves ==
    ASSUME Typed, NEW x \in Threads, mfs_pool_deactivate(x)
    PROVE  UNCHANGED <<active, inactive>> \/ Membership!Deactivate(loc[x].index)
<1>. DEFINE t == loc[x].index
<1>1. CASE t \notin Listed(active)
  BY <1>1 DEF mfs_pool_deactivate
<1>2. CASE t \in Listed(active)
  <2>1. active' = Without(active, t) /\ inactive' = Append(inactive, t)
    BY <1>2 DEF mfs_pool_deactivate
  <2>2. /\ active \in Seq(Trackers) /\ inactive \in Seq(Trackers)
        /\ NoRepeats(active) /\ NoRepeats(inactive) /\ t \notin Listed(inactive)
    BY <1>2 DEF Typed, TypeOK, TrackersPartition
  <2>3. /\ Listed(Without(active, t)) = Listed(active) \ {t}
        /\ Listed(Append(inactive, t)) = Listed(inactive) \cup {t}
    BY <1>2, <2>2, MoveSets
  <2>4. Listed(active)' = Listed(active') /\ Listed(inactive)' = Listed(inactive')
    BY DEF Listed
  <2>. HIDE DEF t
  <2>5. Membership!Deactivate(t)
    BY <1>2, <2>1, <2>3, <2>4 DEF Membership!Deactivate
  <2>. QED  BY <2>5 DEF t
<1>. QED  BY <1>1, <1>2

\* mfs_pool_activate moves the thread's tracker, if it is still inactive.
LEMMA ActivateMoves ==
    ASSUME Typed, NEW x \in Threads, mfs_pool_activate(x)
    PROVE  UNCHANGED <<active, inactive>> \/ Membership!Activate(loc[x].index)
<1>. DEFINE t == loc[x].index
<1>1. CASE t \notin Listed(inactive)
  BY <1>1 DEF mfs_pool_activate
<1>2. CASE t \in Listed(inactive)
  <2>1. inactive' = Without(inactive, t) /\ active' = Append(active, t)
    BY <1>2 DEF mfs_pool_activate
  <2>2. /\ active \in Seq(Trackers) /\ inactive \in Seq(Trackers)
        /\ NoRepeats(active) /\ NoRepeats(inactive) /\ t \notin Listed(active)
    BY <1>2 DEF Typed, TypeOK, TrackersPartition
  <2>3. /\ Listed(Without(inactive, t)) = Listed(inactive) \ {t}
        /\ Listed(Append(active, t)) = Listed(active) \cup {t}
    BY <1>2, <2>2, MoveSets
  <2>4. Listed(active)' = Listed(active') /\ Listed(inactive)' = Listed(inactive')
    BY DEF Listed
  <2>. HIDE DEF t
  <2>5. Membership!Activate(t)
    BY <1>2, <2>1, <2>3, <2>4 DEF Membership!Activate
  <2>. QED  BY <2>5 DEF t
<1>. QED  BY <1>1, <1>2

\* A step that changes the lists moves one tracker from one side to the other: the
\* steps of TrackerMembership but for the registration, although requests that
\* failed and the maintenance thread decide without the lock which tracker to move
\* (pool.c:217-257).
THEOREM PoolKeepsMembership ==
    Spec => [][\E t \in Trackers : Membership!Activate(t) \/ Membership!Deactivate(t)]_
              (Membership!vars)
<1>1. ASSUME Typed, [Next]_vars
      PROVE  [\E t \in Trackers : Membership!Activate(t) \/ Membership!Deactivate(t)]_
               (Membership!vars)
  <2>1. ASSUME UNCHANGED <<active, inactive>>  PROVE UNCHANGED (Membership!vars)
    BY <2>1 DEF Membership!vars, Listed
  <2>2. \A x \in Threads : loc[x].index \in Trackers
    BY <1>1 DEF Typed, TypeOK, Locals
  <2>. QED  BY <1>1, <2>1, <2>2, ListsChange, DeactivateMoves, ActivateMoves
<1>. QED  BY <1>1, TypedAlways, PTL DEF Spec

\* Maintenance alone activates trackers.
Activators == \A x \in Threads : pc[x] = "activate" => x \in Maint

LEMMA ActivatorsNext == Typed /\ Activators /\ [Next]_vars => Activators'
<1>. SUFFICES ASSUME Typed, Activators, [Next]_vars PROVE Activators'
  OBVIOUS
<1>0. TypeOK /\ pc \in [Threads -> Labels] /\ DOMAIN pc = Threads
  BY DEF Typed, TypeOK
<1>1. ASSUME NEW x \in Threads, NEW l, l = "activate" => x \in Maint,
             pc' = [pc EXCEPT ![x] = l]
      PROVE  Activators'
  BY <1>0, <1>1 DEF Activators
<1>2. CASE UNCHANGED pc
  BY <1>2 DEF Activators
<1>3. ASSUME NEW x \in Threads, NEW s, Leave(x, s)  PROVE Activators'
  BY <1>1, <1>3 DEF Leave
<1>4. ASSUME NEW x \in Threads, Step(x)  PROVE Activators'
  <2>1. CASE test_count(x)
    BY <1>1, <1>3, <2>1 DEF test_count
  <2>2. CASE next_tracker(x)
    <3>1. \/ IsLast(loc[x].list) /\ Leave(x, loc[x].rv) /\ UNCHANGED crashed
          \/ crashed' = TRUE /\ UNCHANGED <<pc, loc>>
          \/ \E m \in Lists, t \in Trackers, at \in {"expire", "get"} : Visits(x, m, t, at)
      BY <1>0, <2>2, NextTrackerFacts
    <3>2. CASE \E m \in Lists, t \in Trackers, at \in {"expire", "get"} : Visits(x, m, t, at)
      BY <1>1, <3>2 DEF Visits
    <3>. QED  BY <1>2, <1>3, <3>1, <3>2
  <2>3. CASE receive_reply(x)
    <3>1. pc' = [pc EXCEPT ![x] = IF x \in Clients THEN "return" ELSE "activate"]
      BY <2>3 DEF receive_reply
    <3>. QED  BY <1>1, <3>1 DEF Threads
  <2>4. CASE \/ copy_list(x) \/ pop_connection(x) \/ connect(x) \/ connect_fails(x)
             \/ mfs_pool_deactivate(x) \/ drain(x) \/ send_request(x) \/ request_fails(x)
    <3>1. \/ UNCHANGED pc
          \/ \E l \in Labels \ {"activate"} : pc' = [pc EXCEPT ![x] = l]
      BY <2>4 DEF copy_list, pop_connection, connect, connect_fails, Labels,
                  mfs_pool_deactivate, drain, send_request, request_fails
    <3>. QED  BY <1>1, <1>2, <3>1
  <2>5. CASE \/ destroy_failed(x) \/ mfs_pool_return_connection(x) \/ mfs_pool_activate(x)
             \/ mfs_pool_get_expired_trackers(x) \/ reap(x)
    <3>1. \/ UNCHANGED pc
          \/ \E l \in Labels \ {"activate"} : pc' = [pc EXCEPT ![x] = l]
      BY <2>5 DEF destroy_failed, mfs_pool_return_connection, mfs_pool_activate,
                  mfs_pool_get_expired_trackers, reap, Labels
    <3>. QED  BY <1>1, <1>2, <3>1
  <2>. QED  BY <1>4, <2>1, <2>2, <2>3, <2>4, <2>5 DEF Step
<1>5. ASSUME NEW x \in Clients, mfs_request_do(x)  PROVE Activators'
  BY <1>0, <1>1, <1>5, RequestFacts
<1>6. ASSUME NEW c \in Conns, Answer(c) \/ Age(c)  PROVE UNCHANGED pc
  BY <1>6 DEF Answer, Age
<1>7. CASE UNCHANGED vars
  BY <1>2, <1>7 DEF vars
<1>. QED  BY <1>2, <1>4, <1>5, <1>6, <1>7 DEF Next

LEMMA ActivatorsAlways == Spec => []Activators
<1>1. Init => Activators
  BY DEF Init, Activators
<1>. QED  BY <1>1, ActivatorsNext, TypedAlways, PTL DEF Spec

\* Thread x stands at tracker t in its walk and has read a reply to a ping of its own.
Answered(x, t) ==
    /\ pc[x] = "activate" /\ loc[x].index = t
    /\ loc[x].got = [by |-> x, call |-> loc[x].calls, kind |-> "reply"]

\* A tracker comes back to the active list only through a maintenance thread whose
\* walk stands at it and that has read a reply to a ping of its own, never one that
\* was meant for another thread that used the connection before (pool.c:395-422).
THEOREM ActivatedAnswered ==
    Spec => [][\A t \in Trackers : t \in Listed(active)' /\ t \notin Listed(active) =>
                  \E x \in Maint : Answered(x, t)]_vars
<1>1. ASSUME Typed, Tracking, Exact, Activators, [Next]_vars,
             NEW t \in Trackers, t \in Listed(active)', t \notin Listed(active)
      PROVE  \E x \in Maint : Answered(x, t)
  <2>1. ~UNCHANGED <<active, inactive>>
    BY <1>1 DEF Listed
  <2>2. PICK x \in Threads : mfs_pool_deactivate(x) \/ mfs_pool_activate(x)
    BY <1>1, <2>1, ListsChange
  <2>3. CASE mfs_pool_deactivate(x)
    <3>1. Membership!Deactivate(loc[x].index)
      BY <1>1, <2>1, <2>3, DeactivateMoves
    <3>. QED  BY <1>1, <3>1 DEF Membership!Deactivate
  <2>4. CASE mfs_pool_activate(x)
    <3>1. Membership!Activate(loc[x].index)
      BY <1>1, <2>1, <2>4, ActivateMoves
    <3>2. loc[x].index = t
      BY <1>1, <3>1 DEF Membership!Activate
    <3>3. pc[x] = "activate" /\ x \in Maint
      BY <1>1, <2>4 DEF mfs_pool_activate, At, Activators
    <3>4. loc[x].got # None
      BY <1>1, <3>3 DEF Tracking, Tracked
    <3>5. loc[x].got = [by |-> x, call |-> loc[x].calls, kind |-> "reply"]
      BY <1>1, <3>4 DEF Exact, ReplyMatches
    <3>. QED  BY <3>2, <3>3, <3>5 DEF Answered
  <2>. QED  BY <2>2, <2>3, <2>4
<1>2. Typed /\ Tracking /\ Exact /\ Activators /\ [Next]_vars =>
        [\A t \in Trackers : t \in Listed(active)' /\ t \notin Listed(active) =>
            \E x \in Maint : Answered(x, t)]_vars
  BY <1>1
<1>. QED  BY <1>2, TrackingAlways, ExactAlways, ActivatorsAlways, PTL DEF Spec
================================================================================
