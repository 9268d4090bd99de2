--------------------------- MODULE FileDownload_proofs ---------------------------
(*****************************************************************************)
(* Proofs about one download, for every number of paths, every size of the   *)
(* body and of the memory buffer, and every way a transfer can be cut up or  *)
(* break off.                                                                *)
(*****************************************************************************)
EXTENDS FileDownload, SequenceTheorems, TLAPS

USE BoundsAssumption, NoneAssumption DEF Paths

\* What the caller's brigade held, if there is one, and what came after it.
base == IF WantBrigade THEN start ELSE <<>>
kept == Len(brigade) - Len(base)

\* The brigade is what it was at first and the first units of path i.
BrigadeHolds ==
    /\ kept \in 0 .. max_buffer_size
    /\ \A k \in 1 .. Len(base) : brigade[k] = base[k]
    /\ \A k \in 1 .. kept : brigade[Len(base) + k] = <<i, k>>

\* The units of the transfer that are not in the file: those in the caller's brigade.
skipped == IF WantBrigade THEN kept ELSE 0

\* The file being written has the rest of the units, and its handle is after them.
FileHolds ==
    /\ file_size = sent - skipped /\ pos[wfile] = file_size
    /\ Len(content[wfile]) >= file_size
    /\ \A k \in 1 .. file_size : content[wfile][k] = <<i, skipped + k>>

\* Which calls are made where, and what the arguments allow.
Called ==
    /\ api = "mfs_file_server_get" => path_count = 1 /\ requiredLength = -1
    /\ WantBrigade => file = None /\ bytes = None
    /\ pc \in {"paths", "path"} => api # "mfs_file_server_get"
    /\ pc = "paths" => i = 0
    /\ pc \in {"path", "get", "perform", "broken"} => i \in 1 .. path_count
    /\ pc \in {"get", "perform", "broken"} =>
          api \in {"mfs_get_file_or_bytes", "mfs_file_server_get"} /\ bytes = None
    /\ pc # "returned" => rv = "error"

\* Between two attempts nothing is left of the last one but what a file holds.
Between ==
    pc \in {"paths", "path", "get"} =>
        /\ file # None => pos[file] = 0
        /\ WantBrigade => brigade = start

\* During a transfer every unit is in memory or in the file.
Transfer ==
    pc = "perform" =>
        /\ current_size = sent
        /\ file # None => wfile = file
        /\ BrigadeHolds
        /\ IF wfile = None THEN kept = sent /\ file_size = 0
                           ELSE kept <= sent /\ FileHolds

\* What get_error needs to undo a transfer that the write callback broke off.
Broken ==
    pc = "broken" =>
        /\ file # None => wfile = file /\ current_size > 0
        /\ BrigadeHolds /\ kept <= current_size

Safe == TypeOK /\ Called /\ Between /\ Transfer /\ Broken
-------------------------------------------------------------------------------
(* The operators.                                                            *)

LEMMA BodyFacts ==
    ASSUME NEW p \in 0 .. MaxPaths, NEW m \in 1 .. MaxBody + 1, NEW n \in 0 .. MaxBody,
           m <= n + 1
    PROVE  /\ Body(p, m, n) \in Seq(Unit)
           /\ Len(Body(p, m, n)) = n - m + 1
           /\ \A k \in 1 .. n - m + 1 : Body(p, m, n)[k] = <<p, m + k - 1>>
<1> DEFINE b == [k \in 1 .. n - m + 1 |-> <<p, m + k - 1>>]
<1>1. Body(p, m, n) = b
  BY DEF Body
<1>2. \A k \in 1 .. n - m + 1 : <<p, m + k - 1>> \in Unit
  BY DEF Unit
<1>3. n - m + 1 \in Nat
  OBVIOUS
<1>4. b \in [1 .. n - m + 1 -> Unit]
  BY <1>2
<1>5. b \in Seq(Unit) /\ Len(b) = n - m + 1
  <2> HIDE DEF b
  <2>1. PICK l \in Nat : l = n - m + 1
    BY <1>3
  <2>2. b \in [1 .. l -> Unit]
    BY <1>4, <2>1
  <2> QED BY <2>1, <2>2
<1> QED BY <1>1, <1>5

LEMMA ConcatFacts ==
    ASSUME NEW s \in Seq(Unit), NEW u \in Seq(Unit)
    PROVE  /\ s \o u \in Seq(Unit)
           /\ Len(s \o u) = Len(s) + Len(u)
           /\ \A k \in 1 .. Len(s) : (s \o u)[k] = s[k]
           /\ \A k \in 1 .. Len(u) : (s \o u)[Len(s) + k] = u[k]
<1>1. s \o u \in Seq(Unit) /\ Len(s \o u) = Len(s) + Len(u) /\ Len(s) \in Nat /\ Len(u) \in Nat
  BY ConcatProperties
<1>2. \A k \in 1 .. Len(s) + Len(u) : (s \o u)[k] = IF k <= Len(s) THEN s[k] ELSE u[k - Len(s)]
  BY ConcatProperties
<1>3. ASSUME NEW k \in 1 .. Len(u) PROVE (s \o u)[Len(s) + k] = u[k]
  <2>1. Len(s) + k \in 1 .. Len(s) + Len(u) /\ ~(Len(s) + k <= Len(s)) /\ (Len(s) + k) - Len(s) = k
    BY <1>1
  <2> QED BY <1>2, <2>1
<1> QED BY <1>1, <1>2, <1>3

LEMMA OverwriteFacts ==
    ASSUME NEW s \in Seq(Unit), NEW u \in Seq(Unit), NEW p \in 0 .. Len(s)
    PROVE  /\ Overwrite(s, p, u) \in Seq(Unit)
           /\ Len(Overwrite(s, p, u)) >= p + Len(u)
           /\ \A k \in 1 .. p : Overwrite(s, p, u)[k] = s[k]
           /\ \A k \in 1 .. Len(u) : Overwrite(s, p, u)[p + k] = u[k]
<1> DEFINE n == IF Len(s) > p + Len(u) THEN Len(s) ELSE p + Len(u)
           o == [k \in 1 .. n |-> IF k \in p + 1 .. p + Len(u) THEN u[k - p] ELSE s[k]]
<1>1. Overwrite(s, p, u) = o
  BY DEF Overwrite
<1>2. n \in Nat /\ n >= p + Len(u) /\ n >= p
  OBVIOUS
<1>3. \A k \in 1 .. n : (IF k \in p + 1 .. p + Len(u) THEN u[k - p] ELSE s[k]) \in Unit
  OBVIOUS
<1>4. o \in Seq(Unit) /\ Len(o) = n
  <2>1. o \in [1 .. n -> Unit]
    BY <1>3
  <2> HIDE DEF o, n
  <2> QED BY <1>2, <2>1
<1>5. \A k \in 1 .. p : o[k] = s[k]
  BY <1>2
<1>6. \A k \in 1 .. Len(u) : o[p + k] = u[k]
  <2> SUFFICES ASSUME NEW k \in 1 .. Len(u) PROVE o[p + k] = u[k]
    OBVIOUS
  <2>1. p + k \in 1 .. n /\ p + k \in p + 1 .. p + Len(u) /\ (p + k) - p = k
    OBVIOUS
  <2> QED BY <2>1
<1> HIDE DEF o, n
<1> QED BY <1>1, <1>2, <1>4, <1>5, <1>6
-------------------------------------------------------------------------------
(* Types and transfers, step by step.                                        *)

LEMMA SafeInit == Init => Safe
<1> SUFFICES ASSUME Init PROVE Safe
  OBVIOUS
<1>1. <<>> \in Seq(Unit) /\ <<<<0, 1>>>> \in Seq(Unit)
  BY DEF Unit
<1>2. Body(0, 1, MaxBody) \in Seq(Unit)
  <2>1. /\ 0 \in 0 .. MaxPaths /\ 1 \in 1 .. MaxBody + 1 /\ MaxBody \in 0 .. MaxBody
        /\ 1 <= MaxBody + 1
    OBVIOUS
  <2> QED BY <2>1, BodyFacts
<1>3. start \in Seq(Unit) /\ brigade \in Seq(Unit)
  BY <1>1 DEF Init
<1>4. content \in [Files -> Seq(Unit)]
  BY <1>1, <1>2 DEF Init
<1>5. TypeOK
  <2>1. api \in Apis /\ destination \in Destinations /\ requiredLength \in Int
    BY DEF Init, Destinations
  <2>2. /\ pc \in {"paths", "get"} /\ path_count = 1 /\ i \in 0 .. 1 /\ rv = "error"
        /\ file \in Files \cup {None} /\ bytes = None /\ wfile = None
    BY DEF Init, Files
  <2>3. /\ total_bytes = 0 /\ current_size = 0 /\ file_size = 0 /\ sent \in 0 .. MaxBody
        /\ pos \in [Files -> Nat]
    BY DEF Init
  <2> QED BY <1>3, <1>4, <2>1, <2>2, <2>3 DEF TypeOK
<1>6. Called /\ Between /\ Transfer /\ Broken
  BY DEF Init, Called, Between, Transfer, Broken, WantBrigade, Apis, Files
<1> QED BY <1>5, <1>6 DEF Safe

\* A failed attempt is followed by the next path, or by the end.
LEMMA AfterFailure ==
    ASSUME Safe, Failed, pc \in {"path", "get", "perform", "broken"},
           UNCHANGED <<argVars, path_count>>,
           file' \in Files \cup {None}, bytes' \in Seq(Unit) \cup {None},
           total_bytes' \in Nat, brigade' \in Seq(Unit), wfile' \in Files \cup {None},
           current_size' \in Nat, file_size' \in Nat, sent' \in 0 .. MaxBody,
           content' \in [Files -> Seq(Unit)], pos' \in [Files -> Nat],
           file' # None => pos'[file'] = 0,
           WantBrigade => file' = None /\ bytes' = None /\ brigade' = start
    PROVE  Safe'
<1>1. \/ pc' = "path" /\ i' = i + 1 /\ i < path_count
      \/ pc' = "returned" /\ i' = i
  BY DEF Failed
<1>2. i \in 1 .. path_count /\ path_count \in Nat /\ rv' = "error"
  BY DEF Safe, TypeOK, Called, Failed
<1>3. TypeOK'
  <2>1. i' \in 0 .. path_count' /\ path_count' \in Paths \cup {1}
        /\ pc' \in {"path", "returned"}
    <3>1. path_count' = path_count /\ path_count \in Paths \cup {1}
      BY DEF Safe, TypeOK
    <3>2. i' \in 0 .. path_count
      BY <1>1, <1>2
    <3> QED BY <1>1, <3>1, <3>2
  <2>2. api' \in Apis /\ destination' \in Destinations /\ requiredLength' \in Int
        /\ start' \in Seq(Unit)
    BY DEF Safe, TypeOK, argVars
  <2> QED BY <1>2, <2>1, <2>2 DEF TypeOK
<1>4. pc' = "path" => api # "mfs_file_server_get"
  BY <1>1, <1>2 DEF Safe, Called
<1>5. Called'
  BY <1>1, <1>2, <1>4 DEF Safe, Called, argVars, WantBrigade
<1>6. Between' /\ Transfer' /\ Broken'
  BY <1>1 DEF Between, Transfer, Broken, argVars, WantBrigade
<1> QED BY <1>3, <1>5, <1>6 DEF Safe

LEMMA LoopStep ==
    ASSUME Safe, got_paths \/ no_paths \/ null_bytes \/ bad_url \/ good_url
    PROVE  Safe'
<1> USE DEF Safe, TypeOK, Called, Between, Transfer, Broken, WantBrigade, argVars, outVars, bufVars
<1>1. CASE got_paths
  BY <1>1 DEF got_paths
<1>2. CASE no_paths
  BY <1>2 DEF no_paths
<1>3. CASE null_bytes
  BY <1>3 DEF null_bytes
<1>4. CASE bad_url
  BY <1>4, AfterFailure DEF bad_url
<1>5. CASE good_url
  BY <1>5 DEF good_url
<1> QED BY <1>1, <1>2, <1>3, <1>4, <1>5

LEMMA BeginStep == ASSUME Safe, begin_get PROVE Safe'
<1> USE DEF Safe, argVars, outVars, bufVars
<1>1. TypeOK'
  BY DEF begin_get, TypeOK
<1>2. Called' /\ Between' /\ Broken'
  BY DEF begin_get, Called, Between, Broken, WantBrigade
<1>3. Transfer'
  <2>1. base' = base /\ WantBrigade' = WantBrigade
    BY DEF begin_get, base, WantBrigade
  <2>2. brigade' = base /\ Len(base) \in Nat
    BY DEF begin_get, base, Between, Called, TypeOK, WantBrigade
  <2>3. kept' = 0
    BY <2>1, <2>2 DEF kept
  <2>4. BrigadeHolds'
    BY <2>1, <2>2, <2>3 DEF BrigadeHolds
  <2>5. file' # None => FileHolds'
    BY <2>3 DEF begin_get, FileHolds, skipped, Between, TypeOK
  <2> QED BY <2>3, <2>4, <2>5 DEF begin_get, Transfer
<1> QED BY <1>1, <1>2, <1>3
-------------------------------------------------------------------------------
(* The write callback.                                                       *)

\* The sizes and the path during a transfer.
LEMMA Sizes ==
    ASSUME Safe, pc = "perform", NEW n \in 1 .. MaxBody, Receive(n)
    PROVE  /\ i \in 0 .. MaxPaths /\ sent \in 0 .. MaxBody /\ sent + n \in 0 .. MaxBody
           /\ sent' = sent + n /\ current_size = sent
           /\ Len(base) \in Nat /\ kept \in Nat /\ skipped \in 0 .. sent
  BY DEF Safe, TypeOK, Called, Transfer, BrigadeHolds, kept, skipped, base, Receive

\* The next units of the body.
LEMMA NextUnits ==
    ASSUME Safe, pc = "perform", NEW n \in 1 .. MaxBody, Receive(n), NEW k \in 0 .. n
    PROVE  /\ Body(i, sent + 1, sent + k) \in Seq(Unit)
           /\ Len(Body(i, sent + 1, sent + k)) = k
           /\ \A j \in 1 .. k : Body(i, sent + 1, sent + k)[j] = <<i, sent + j>>
<1> DEFINE u == Body(i, sent + 1, sent + k)
<1>1. i \in 0 .. MaxPaths /\ sent \in 0 .. MaxBody /\ sent + n \in 0 .. MaxBody
  BY Sizes
<1>2. /\ sent + 1 \in 1 .. MaxBody + 1 /\ sent + k \in 0 .. MaxBody
      /\ sent + 1 <= sent + k + 1 /\ (sent + k) - (sent + 1) + 1 = k
  BY <1>1
<1>3. /\ u \in Seq(Unit) /\ Len(u) = (sent + k) - (sent + 1) + 1
      /\ \A j \in 1 .. (sent + k) - (sent + 1) + 1 : u[j] = <<i, sent + 1 + j - 1>>
  <2>1. PICK p \in 0 .. MaxPaths, m \in 1 .. MaxBody + 1, r \in 0 .. MaxBody :
           p = i /\ m = sent + 1 /\ r = sent + k /\ m <= r + 1
    BY <1>1, <1>2
  <2>2. /\ Body(p, m, r) \in Seq(Unit) /\ Len(Body(p, m, r)) = r - m + 1
        /\ \A j \in 1 .. r - m + 1 : Body(p, m, r)[j] = <<p, m + j - 1>>
    BY <2>1, BodyFacts
  <2> QED BY <2>1, <2>2
<1>4. \A j \in 1 .. k : sent + 1 + j - 1 = sent + j
  BY <1>1
<1> HIDE DEF u
<1>5. u \in Seq(Unit) /\ Len(u) = k /\ \A j \in 1 .. k : u[j] = <<i, sent + j>>
  BY <1>2, <1>3, <1>4
<1> QED BY <1>5 DEF u

\* What does not touch the brigade leaves what is known of it.
LEMMA BrigadeKept ==
    ASSUME UNCHANGED <<argVars, i, brigade>>
    PROVE  /\ kept' = kept /\ base' = base /\ skipped' = skipped
           /\ WantBrigade' = WantBrigade /\ BrigadeHolds' = BrigadeHolds
  BY DEF argVars, kept, base, skipped, WantBrigade, BrigadeHolds

LEMMA WriteStep == ASSUME Safe, NEW n \in 1 .. MaxBody, write_file(n) PROVE Safe'
<1>1. /\ Receive(n) /\ pc = "perform" /\ wfile # None /\ wfile \in Files
      /\ file_size' = file_size + n /\ current_size' = current_size + n
      /\ UNCHANGED <<argVars, path_count, i, rv, outVars, brigade, wfile>>
  BY DEF write_file, Receive, Safe, TypeOK
<1>2. PICK k \in 0 .. n : /\ Write(wfile, Body(i, sent + 1, sent + k))
                          /\ pc' = IF k = n THEN "perform" ELSE "broken"
  BY DEF write_file
<1>3. /\ i \in 0 .. MaxPaths /\ sent \in 0 .. MaxBody /\ sent + n \in 0 .. MaxBody
      /\ sent' = sent + n /\ current_size = sent /\ kept \in Nat /\ skipped \in 0 .. sent
  BY <1>1, Sizes
<1>4. FileHolds /\ BrigadeHolds /\ kept <= sent
  BY <1>1 DEF Safe, Transfer
<1> DEFINE u == Body(i, sent + 1, sent + k)
           s == content[wfile]
<1>5. /\ u \in Seq(Unit) /\ Len(u) = k
      /\ \A j \in 1 .. k : u[j] = <<i, sent + j>>
  BY <1>1, NextUnits
<1>6. s \in Seq(Unit) /\ pos[wfile] \in 0 .. Len(s) /\ pos[wfile] = sent - skipped
  BY <1>1, <1>3, <1>4 DEF FileHolds, Safe, TypeOK
<1> HIDE DEF u
<1> DEFINE o == Overwrite(s, pos[wfile], u)
<1>7. /\ content' = [content EXCEPT ![wfile] = o]
      /\ pos' = [pos EXCEPT ![wfile] = @ + Len(u)]
  BY <1>2 DEF Write, u
<1>8. /\ o \in Seq(Unit) /\ Len(o) >= pos[wfile] + k
      /\ \A j \in 1 .. pos[wfile] : o[j] = s[j]
      /\ \A j \in 1 .. k : o[pos[wfile] + j] = u[j]
  <2>1. /\ o \in Seq(Unit) /\ Len(o) >= pos[wfile] + Len(u)
        /\ \A j \in 1 .. pos[wfile] : o[j] = s[j]
        /\ \A j \in 1 .. Len(u) : o[pos[wfile] + j] = u[j]
    <3> HIDE DEF s
    <3>1. PICK p \in 0 .. Len(s) : p = pos[wfile]
      BY <1>6
    <3>2. s \in Seq(Unit) /\ u \in Seq(Unit)
      BY <1>5, <1>6
    <3>3. /\ Overwrite(s, p, u) \in Seq(Unit) /\ Len(Overwrite(s, p, u)) >= p + Len(u)
          /\ \A j \in 1 .. p : Overwrite(s, p, u)[j] = s[j]
          /\ \A j \in 1 .. Len(u) : Overwrite(s, p, u)[p + j] = u[j]
      BY <3>2, OverwriteFacts
    <3> QED BY <3>1, <3>3
  <2> QED BY <1>5, <2>1
<1> HIDE DEF o
<1>9. TypeOK'
  <2>1. content' \in [Files -> Seq(Unit)] /\ pos' \in [Files -> Nat]
    BY <1>1, <1>5, <1>7, <1>8 DEF Safe, TypeOK
  <2>2. sent' \in 0 .. MaxBody /\ file_size' \in Nat /\ current_size' \in Nat
    BY <1>1, <1>3 DEF Safe, TypeOK
  <2> QED BY <1>1, <1>2, <2>1, <2>2 DEF Safe, TypeOK, argVars, outVars
<1>10. Called' /\ Between'
  BY <1>1, <1>2 DEF Safe, Called, Between, argVars, outVars, WantBrigade
<1>11. kept' = kept /\ skipped' = skipped /\ BrigadeHolds'
  BY <1>1, <1>4, BrigadeKept
<1>12. Broken'
  BY <1>1, <1>2, <1>3, <1>4, <1>11 DEF Broken, Safe, Transfer, outVars
<1>13. ASSUME k = n PROVE Transfer'
  <2>1. /\ content'[wfile'] = o /\ pos'[wfile'] = sent - skipped + k
        /\ file_size' = sent' - skipped' /\ Len(o) >= file_size'
    BY <1>1, <1>3, <1>4, <1>5, <1>6, <1>7, <1>8, <1>11, <1>13 DEF FileHolds, Safe, TypeOK
  <2>2. ASSUME NEW j \in Nat, 1 <= j, j <= file_size' PROVE o[j] = <<i, skipped + j>>
    <3>1. CASE j <= pos[wfile]
      <4>1. j \in 1 .. file_size /\ j \in 1 .. pos[wfile]
        BY <1>4, <1>6, <2>2, <3>1 DEF FileHolds
      <4>2. s[j] = <<i, skipped + j>>
        BY <1>4, <4>1 DEF FileHolds
      <4> QED BY <1>8, <4>1, <4>2
    <3>2. CASE j > pos[wfile]
      <4>1. j - pos[wfile] \in 1 .. k /\ pos[wfile] + (j - pos[wfile]) = j
        BY <1>3, <1>6, <1>11, <1>13, <2>1, <2>2, <3>2
      <4>2. o[j] = u[j - pos[wfile]]
        BY <1>8, <4>1
      <4>3. u[j - pos[wfile]] = <<i, sent + (j - pos[wfile])>>
        BY <1>5, <4>1
      <4>4. sent + (j - pos[wfile]) = skipped + j
        BY <1>3, <1>6, <4>1
      <4> QED BY <4>2, <4>3, <4>4
    <3> QED BY <1>6, <3>1, <3>2
  <2>3. FileHolds'
    <3>1. pos'[wfile'] = file_size' /\ file_size' \in Nat
      BY <1>3, <1>11, <1>13, <2>1
    <3>2. \A j \in 1 .. file_size' : content'[wfile'][j] = <<i', skipped' + j>>
      BY <1>1, <1>11, <2>1, <2>2, <3>1
    <3> QED BY <2>1, <3>1, <3>2 DEF FileHolds
  <2> QED BY <1>1, <1>3, <1>4, <1>11, <2>3 DEF Transfer, Safe, outVars
<1>14. Transfer'
  BY <1>2, <1>13 DEF Transfer
<1> QED BY <1>9, <1>10, <1>12, <1>14 DEF Safe

\* A bucket is appended to the brigade.
LEMMA AppendStep == ASSUME Safe, NEW n \in 1 .. MaxBody, append_bucket(n) PROVE Safe'
<1>1. /\ Receive(n) /\ pc = "perform" /\ wfile = None /\ current_size + n <= max_buffer_size
      /\ brigade' = brigade \o Body(i, sent + 1, sent + n)
      /\ current_size' = current_size + n
      /\ UNCHANGED <<pc, argVars, path_count, i, rv, outVars, wfile, file_size, content, pos>>
  BY DEF append_bucket, Receive
<1>2. /\ i \in 0 .. MaxPaths /\ sent \in 0 .. MaxBody /\ sent + n \in 0 .. MaxBody
      /\ sent' = sent + n /\ current_size = sent /\ Len(base) \in Nat /\ kept \in Nat
  BY <1>1, Sizes
<1> DEFINE u == Body(i, sent + 1, sent + n)
<1>3. /\ u \in Seq(Unit) /\ Len(u) = n
      /\ \A j \in 1 .. n : u[j] = <<i, sent + j>>
  BY <1>1, NextUnits
<1> HIDE DEF u
<1>4. BrigadeHolds /\ kept = sent /\ file_size = 0 /\ brigade \in Seq(Unit)
  BY <1>1 DEF Safe, Transfer, TypeOK
<1>5. /\ brigade' \in Seq(Unit) /\ Len(brigade') = Len(brigade) + n
      /\ \A j \in 1 .. Len(brigade) : brigade'[j] = brigade[j]
      /\ \A j \in 1 .. n : brigade'[Len(brigade) + j] = u[j]
  <2>1. brigade' = brigade \o u
    BY <1>1 DEF u
  <2>2. /\ brigade \o u \in Seq(Unit) /\ Len(brigade \o u) = Len(brigade) + Len(u)
        /\ \A j \in 1 .. Len(brigade) : (brigade \o u)[j] = brigade[j]
        /\ \A j \in 1 .. Len(u) : (brigade \o u)[Len(brigade) + j] = u[j]
    BY <1>3, <1>4, ConcatFacts
  <2> QED BY <1>3, <2>1, <2>2
<1>6. TypeOK'
  <2>1. brigade' \in Seq(Unit) /\ sent' \in 0 .. MaxBody /\ current_size' \in Nat
    BY <1>1, <1>2, <1>5
  <2>2. UNCHANGED <<pc, argVars, path_count, i, rv, outVars, wfile, file_size, content, pos>>
    BY <1>1
  <2> QED BY <2>1, <2>2 DEF Safe, TypeOK, argVars, outVars
<1>7. Called' /\ Between' /\ Broken'
  BY <1>1 DEF Safe, Called, Between, Broken, argVars, outVars, WantBrigade
<1>8. base' = base /\ kept' = sent + n /\ Len(brigade) = Len(base) + sent
  <2>1. base' = base
    BY <1>1 DEF base, argVars, WantBrigade
  <2>2. Len(brigade) - Len(base) = sent /\ kept' = Len(brigade') - Len(base) /\ Len(brigade) \in Nat
    BY <1>4, <2>1 DEF kept
  <2>3. Len(brigade') = Len(brigade) + n
    BY <1>5
  <2> QED BY <1>2, <2>1, <2>2, <2>3
<1>9. BrigadeHolds'
  <2>1. kept' \in 0 .. max_buffer_size
    BY <1>1, <1>2, <1>8
  <2>2. ASSUME NEW j \in 1 .. Len(base) PROVE brigade'[j] = base[j]
    <3>1. j \in 1 .. Len(brigade)
      BY <1>2, <1>8
    <3>2. brigade[j] = base[j]
      BY <1>4 DEF BrigadeHolds
    <3> QED BY <1>5, <3>1, <3>2
  <2>3. ASSUME NEW j \in Nat, 1 <= j, j <= kept' PROVE brigade'[Len(base) + j] = <<i, j>>
    <3>1. CASE j <= sent
      <4>1. Len(base) + j \in 1 .. Len(brigade) /\ j \in 1 .. kept
        BY <1>2, <1>4, <1>8, <2>3, <3>1
      <4> QED BY <1>4, <1>5, <4>1 DEF BrigadeHolds
    <3>2. CASE j > sent
      <4>1. /\ j - sent \in 1 .. n /\ Len(brigade) + (j - sent) = Len(base) + j
            /\ sent + (j - sent) = j
        BY <1>2, <1>8, <2>3, <3>2
      <4>2. brigade'[Len(brigade) + (j - sent)] = u[j - sent]
        BY <1>5, <4>1
      <4>3. u[j - sent] = <<i, sent + (j - sent)>>
        BY <1>3, <4>1
      <4> QED BY <4>1, <4>2, <4>3
    <3> QED BY <1>2, <3>1, <3>2
  <2>4. \A j \in 1 .. kept' : brigade'[Len(base') + j] = <<i', j>>
    <3>1. i' = i /\ Len(base') = Len(base) /\ kept' \in Nat
      BY <1>1, <1>2, <1>8
    <3> QED BY <2>3, <3>1
  <2> QED BY <1>8, <2>1, <2>2, <2>4 DEF BrigadeHolds
<1>10. Transfer'
  BY <1>1, <1>2, <1>4, <1>8, <1>9 DEF Transfer, Safe, outVars
<1> QED BY <1>6, <1>7, <1>10 DEF Safe

\* What is to be written when a file is opened: the units it should hold.
LEMMA ForFileFacts ==
    ASSUME Safe, pc = "perform", wfile = None, NEW n \in 1 .. MaxBody, Receive(n)
    PROVE  /\ ForFile(n) \in Seq(Unit)
           /\ Len(ForFile(n)) = sent + n - skipped
           /\ \A j \in 1 .. sent + n - skipped : ForFile(n)[j] = <<i, skipped + j>>
<1> DEFINE u == Body(i, sent + 1, sent + n)
<1>1. u \in Seq(Unit) /\ Len(u) = n /\ \A j \in 1 .. n : u[j] = <<i, sent + j>>
  <2>1. n \in 0 .. n
    OBVIOUS
  <2> QED BY <2>1, NextUnits
<1> HIDE DEF u
<1>2. /\ sent \in Nat /\ Len(base) \in Nat /\ kept = sent /\ file = None
      /\ BrigadeHolds /\ brigade \in Seq(Unit)
  BY Sizes DEF Safe, TypeOK, Transfer
<1>3. CASE WantBrigade
  <2>1. ~dont_want_brigade /\ skipped = sent
    BY <1>2, <1>3 DEF dont_want_brigade, skipped
  <2>2. ForFile(n) = <<>> \o u /\ <<>> \o u = u
    BY <1>1, <2>1, ConcatEmptySeq DEF ForFile, u
  <2>3. sent + n - skipped = n
    BY <1>2, <2>1
  <2> QED BY <1>1, <2>1, <2>2, <2>3
<1>4. CASE ~WantBrigade
  <2>1. /\ dont_want_brigade /\ skipped = 0 /\ base = <<>> /\ Len(base) = 0
    BY <1>4 DEF dont_want_brigade, skipped, base
  <2>2. Len(brigade) = sent
    BY <1>2, <2>1 DEF kept
  <2>3. \A j \in 1 .. sent : brigade[j] = <<i, j>>
    BY <1>2, <2>1 DEF BrigadeHolds
  <2>4. ForFile(n) = brigade \o u
    BY <2>1 DEF ForFile, u
  <2>5. /\ brigade \o u \in Seq(Unit) /\ Len(brigade \o u) = sent + n
        /\ \A j \in 1 .. sent : (brigade \o u)[j] = brigade[j]
        /\ \A j \in 1 .. Len(u) : (brigade \o u)[Len(brigade) + j] = u[j]
    BY <1>1, <1>2, <2>2, ConcatFacts
  <2>6. ASSUME NEW j \in 1 .. sent + n PROVE (brigade \o u)[j] = <<i, j>>
    <3>1. CASE j <= sent
      BY <1>2, <2>3, <2>5, <3>1
    <3>2. CASE j > sent
      <4>1. j - sent \in 1 .. n /\ sent + (j - sent) = j
        BY <1>2, <3>2
      <4>2. (brigade \o u)[sent + (j - sent)] = u[j - sent]
        BY <1>1, <2>2, <2>5, <4>1
      <4>3. u[j - sent] = <<i, sent + (j - sent)>>
        BY <1>1, <4>1
      <4> QED BY <4>1, <4>2, <4>3
    <3>3. j <= sent \/ j > sent
      BY <1>2
    <3> QED BY <3>1, <3>2, <3>3
  <2>7. sent + n - skipped = sent + n /\ \A j \in 1 .. sent + n : skipped + j = j
    BY <1>2, <2>1
  <2> QED BY <2>4, <2>5, <2>6, <2>7
<1> QED BY <1>3, <1>4

\* A file that is opened gets the units at its start.
LEMMA OpenedFacts ==
    ASSUME TypeOK, NEW u \in Seq(Unit), Opened(u)
    PROVE  /\ wfile' \in Files /\ content' \in [Files -> Seq(Unit)] /\ pos' \in [Files -> Nat]
           /\ pos'[wfile'] = Len(u) /\ Len(content'[wfile']) >= Len(u)
           /\ \A j \in 1 .. Len(u) : content'[wfile'][j] = u[j]
<1>1. NewFile \in Files /\ wfile' = NewFile
  BY DEF NewFile, Files, Opened
<1> DEFINE s == IF NewFile = "mktemp" THEN <<>> ELSE content[NewFile]
           o == Overwrite(s, 0, u)
<1>2. s \in Seq(Unit) /\ 0 \in 0 .. Len(s)
  BY <1>1 DEF TypeOK
<1>3. content' = [content EXCEPT ![NewFile] = o] /\ pos' = [pos EXCEPT ![NewFile] = Len(u)]
  BY DEF Opened
<1>4. /\ o \in Seq(Unit) /\ Len(o) >= 0 + Len(u)
      /\ \A j \in 1 .. Len(u) : o[0 + j] = u[j]
  <2> HIDE DEF s
  <2>1. PICK p \in 0 .. Len(s) : p = 0
    BY <1>2
  <2> QED BY <1>2, <2>1, OverwriteFacts
<1> HIDE DEF o
<1>5. \A j \in 1 .. Len(u) : o[j] = u[j]
  <2>1. \A j \in 1 .. Len(u) : 0 + j = j
    OBVIOUS
  <2> QED BY <1>4, <2>1
<1>6. Len(u) \in Nat /\ Len(o) \in Nat
  BY <1>4
<1> QED BY <1>1, <1>3, <1>4, <1>5, <1>6 DEF TypeOK

LEMMA OpenStep == ASSUME Safe, NEW n \in 1 .. MaxBody, open_file(n) PROVE Safe'
<1>1. /\ Receive(n) /\ pc = "perform" /\ wfile = None
      /\ Opened(ForFile(n)) /\ file_size' = Len(ForFile(n))
      /\ current_size' = current_size + n
      /\ UNCHANGED <<pc, argVars, path_count, i, rv, outVars, brigade>>
  BY DEF open_file, Receive
<1>2. /\ sent \in 0 .. MaxBody /\ sent + n \in 0 .. MaxBody /\ sent' = sent + n
      /\ current_size = sent /\ kept \in Nat /\ skipped \in 0 .. sent
  BY <1>1, Sizes
<1>3. /\ ForFile(n) \in Seq(Unit) /\ Len(ForFile(n)) = sent + n - skipped
      /\ \A j \in 1 .. sent + n - skipped : ForFile(n)[j] = <<i, skipped + j>>
  BY <1>1, ForFileFacts
<1>4. /\ wfile' \in Files /\ content' \in [Files -> Seq(Unit)] /\ pos' \in [Files -> Nat]
      /\ pos'[wfile'] = file_size' /\ Len(content'[wfile']) >= file_size'
      /\ \A j \in 1 .. file_size' : content'[wfile'][j] = ForFile(n)[j]
  BY <1>1, <1>3, OpenedFacts DEF Safe
<1>5. file_size' = sent' - skipped /\ file_size' \in Nat
  BY <1>1, <1>2, <1>3
<1>6. TypeOK'
  BY <1>1, <1>2, <1>4, <1>5 DEF Safe, TypeOK, argVars, outVars
<1>7. Called' /\ Between' /\ Broken'
  BY <1>1 DEF Safe, Called, Between, Broken, argVars, outVars, WantBrigade
<1>8. BrigadeHolds /\ kept <= sent /\ file = None
  BY <1>1, <1>2 DEF Safe, Transfer
<1>9. kept' = kept /\ skipped' = skipped /\ BrigadeHolds'
  BY <1>1, <1>8, BrigadeKept
<1>10. \A j \in 1 .. file_size' : content'[wfile'][j] = <<i', skipped' + j>>
  BY <1>1, <1>2, <1>3, <1>4, <1>9
<1>11. FileHolds'
  BY <1>4, <1>5, <1>9, <1>10 DEF FileHolds
<1>12. Transfer'
  BY <1>1, <1>2, <1>4, <1>8, <1>9, <1>11 DEF Transfer, outVars
<1> QED BY <1>6, <1>7, <1>12 DEF Safe

LEMMA OpenFailsStep ==
    ASSUME Safe, NEW n \in 1 .. MaxBody, open_file_fails(n) \/ no_slash(n)
    PROVE  Safe'
<1>1. CASE no_slash(n)
  <2>1. /\ Receive(n) /\ pc = "perform" /\ pc' = "crashed"
        /\ UNCHANGED <<argVars, path_count, i, rv, outVars, brigade, wfile, current_size,
                       file_size, content, pos>>
    BY <1>1 DEF no_slash, Receive
  <2>2. sent' \in 0 .. MaxBody
    BY <2>1, Sizes
  <2>3. TypeOK'
    BY <2>1, <2>2 DEF Safe, TypeOK, argVars, outVars
  <2> QED BY <2>1, <2>3 DEF Safe, Called, Between, Transfer, Broken, argVars, outVars, WantBrigade
<1>2. CASE open_file_fails(n)
  <2>1. /\ Receive(n) /\ pc = "perform" /\ pc' = "broken" /\ wfile = None
        /\ UNCHANGED <<argVars, path_count, i, rv, outVars, brigade, current_size>>
        /\ \/ UNCHANGED <<wfile, content, pos, file_size>>
           \/ \E k \in 0 .. Len(ForFile(n)) - 1 :
                 Opened(SubSeq(ForFile(n), 1, k)) /\ file_size' \in 0 .. k
    BY <1>2 DEF open_file_fails, Receive
  <2>2. /\ sent' \in 0 .. MaxBody /\ current_size = sent
    BY <2>1, Sizes
  <2>3. /\ wfile' \in Files \cup {None} /\ content' \in [Files -> Seq(Unit)]
        /\ pos' \in [Files -> Nat] /\ file_size' \in Nat
    <3>1. CASE UNCHANGED <<wfile, content, pos, file_size>>
      BY <3>1 DEF Safe, TypeOK
    <3>2. ASSUME NEW k \in 0 .. Len(ForFile(n)) - 1, Opened(SubSeq(ForFile(n), 1, k)),
                 file_size' \in 0 .. k
          PROVE  /\ wfile' \in Files /\ content' \in [Files -> Seq(Unit)]
                 /\ pos' \in [Files -> Nat] /\ file_size' \in Nat
      <4>1. ForFile(n) \in Seq(Unit)
        BY <2>1, ForFileFacts
      <4>2. SubSeq(ForFile(n), 1, k) \in Seq(Unit)
        BY <3>2, <4>1
      <4>3. /\ wfile' \in Files /\ content' \in [Files -> Seq(Unit)] /\ pos' \in [Files -> Nat]
        <5>1. PICK u \in Seq(Unit) : u = SubSeq(ForFile(n), 1, k)
          BY <4>2
        <5>2. TypeOK /\ Opened(u)
          BY <3>2, <5>1 DEF Safe
        <5> QED BY <5>2, OpenedFacts
      <4> QED BY <3>2, <4>3
    <3> QED BY <2>1, <3>1, <3>2
  <2>4. TypeOK'
    BY <2>1, <2>2, <2>3 DEF Safe, TypeOK, argVars, outVars
  <2>5. Called' /\ Between' /\ Transfer'
    BY <2>1 DEF Safe, Called, Between, Transfer, argVars, outVars, WantBrigade
  <2>6. BrigadeHolds /\ kept = sent /\ file = None
    BY <2>1 DEF Safe, Transfer
  <2>7. kept' = kept /\ BrigadeHolds'
    BY <2>1, <2>6, BrigadeKept
  <2>8. Broken'
    BY <2>1, <2>2, <2>6, <2>7 DEF Broken, outVars, Safe, TypeOK
  <2> QED BY <2>4, <2>5, <2>8 DEF Safe
<1> QED BY <1>1, <1>2
-------------------------------------------------------------------------------
(* The end of a transfer.                                                    *)

\* A brigade with nothing but its first buckets is the caller's.
LEMMA BrigadeCut ==
    ASSUME Safe, BrigadeHolds, WantBrigade
    PROVE  /\ SubSeq(brigade, 1, Len(start)) = start
           /\ kept = 0 => brigade = start
<1>1. /\ start \in Seq(Unit) /\ brigade \in Seq(Unit) /\ base = start
      /\ Len(start) \in Nat /\ Len(brigade) \in Nat
  BY DEF Safe, TypeOK, base
<1>2. /\ kept = Len(brigade) - Len(start) /\ kept \in Nat
      /\ \A k \in 1 .. Len(start) : brigade[k] = start[k]
  BY <1>1 DEF BrigadeHolds, kept
<1>3. SubSeq(brigade, 1, Len(start)) = start
  <2> DEFINE b == SubSeq(brigade, 1, Len(start))
  <2>1. /\ b \in Seq(Unit) /\ Len(b) = Len(start)
        /\ \A k \in 1 .. Len(start) : b[k] = brigade[k]
    BY <1>1, <1>2
  <2> HIDE DEF b
  <2>2. b = start
    BY <1>1, <1>2, <2>1, SeqEqual
  <2> QED BY <2>2 DEF b
<1>4. kept = 0 => brigade = start
  BY <1>1, <1>2, SeqEqual
<1> QED BY <1>3, <1>4

LEMMA ErrorStep == ASSUME Safe, get_error \/ no_connection PROVE Safe'
<1>1. CASE no_connection
  BY <1>1, AfterFailure DEF no_connection, Safe, TypeOK, Called, Between, outVars, bufVars
<1>2. CASE get_error
  <2>1. /\ pc \in {"perform", "broken"} /\ Failed
        /\ pos' = (IF file # None /\ current_size > 0 THEN [pos EXCEPT ![wfile] = 0] ELSE pos)
        /\ brigade' = (IF file = None /\ WantBrigade /\ current_size > 0
                       THEN SubSeq(brigade, 1, Len(start)) ELSE brigade)
        /\ UNCHANGED <<argVars, path_count, outVars, wfile, current_size, file_size,
                       content, sent>>
    BY <1>2 DEF get_error
  <2>2. BrigadeHolds /\ kept <= current_size /\ kept \in Nat
    BY <2>1 DEF Safe, Transfer, Broken, BrigadeHolds, TypeOK
  <2>3. WantBrigade => file = None /\ brigade' = start
    BY <2>1, <2>2, BrigadeCut DEF Safe, Called, TypeOK
  <2>4. brigade' \in Seq(Unit)
    BY <2>1, <2>3 DEF Safe, TypeOK
  <2>5. file # None => wfile = file /\ (pos[file] = 0 \/ current_size > 0)
    <3>1. CASE pc = "broken"
      BY <3>1 DEF Safe, Broken
    <3>2. CASE pc = "perform" /\ file # None
      <4>1. FileHolds /\ current_size = sent /\ wfile = file
        BY <3>2 DEF Safe, Transfer
      <4>2. skipped = 0
        BY <3>2 DEF skipped, Safe, Called
      <4> QED BY <4>1, <4>2 DEF FileHolds, Safe, TypeOK
    <3> QED BY <2>1, <3>1, <3>2
  <2>6. pos' \in [Files -> Nat] /\ (file # None => pos'[file] = 0)
    BY <2>1, <2>5 DEF Safe, TypeOK
  <2> QED BY <2>1, <2>3, <2>4, <2>6, AfterFailure DEF Safe, TypeOK, Called, outVars
<1> QED BY <1>1, <1>2

\* What get_ok hands over: the units of path i, in the one output that is wanted.
Whole == Body(i, 1, sent)
Handed ==
    /\ total_bytes' = sent
    /\ WantBrigade => file' = None /\ bytes' = None /\ brigade' = start \o Whole
    /\ ~WantBrigade =>
          /\ brigade' = brigade
          /\ \/ /\ file' \in Files /\ bytes' = None /\ pos'[file'] = 0
                /\ SubSeq(content[file'], 1, sent) = Whole
             \/ file' = None /\ bytes' = Whole /\ sent <= max_buffer_size
    /\ brigade' \in Seq(Unit) /\ pos' \in [Files -> Nat]

LEMMA WholeFacts ==
    ASSUME Safe, pc = "perform"
    PROVE  /\ Whole \in Seq(Unit) /\ Len(Whole) = sent /\ sent \in 0 .. MaxBody
           /\ \A k \in 1 .. sent : Whole[k] = <<i, k>>
<1>1. /\ i \in 0 .. MaxPaths /\ 1 \in 1 .. MaxBody + 1 /\ sent \in 0 .. MaxBody
      /\ 1 <= sent + 1 /\ sent - 1 + 1 = sent
  BY DEF Safe, TypeOK, Called
<1>2. /\ Whole \in Seq(Unit) /\ Len(Whole) = sent - 1 + 1
      /\ \A k \in 1 .. sent - 1 + 1 : Whole[k] = <<i, 1 + k - 1>>
  BY <1>1, BodyFacts, Zenon DEF Whole
<1>3. \A k \in 1 .. sent : 1 + k - 1 = k
  OBVIOUS
<1> QED BY <1>1, <1>2, <1>3

LEMMA OkHanded == ASSUME Safe, get_ok PROVE Handed
<1>1. /\ pc = "perform" /\ total_bytes' = current_size
      /\ pos' = (IF wfile # None /\ current_size > 0 /\ dont_want_brigade
                 THEN [pos EXCEPT ![wfile] = 0] ELSE pos)
      /\ brigade' = (IF ~dont_want_brigade /\ wfile # None
                     THEN brigade \o SubSeq(content[wfile], 1, file_size) ELSE brigade)
      /\ file' = (IF dont_want_brigade THEN wfile ELSE file)
      /\ bytes' = (IF dont_want_brigade /\ wfile = None THEN brigade ELSE bytes)
  BY DEF get_ok
<1>2. /\ current_size = sent /\ BrigadeHolds /\ bytes = None
      /\ file # None => wfile = file
      /\ wfile = None => kept = sent
      /\ wfile # None => FileHolds /\ kept <= sent
      /\ WantBrigade => file = None
  BY <1>1 DEF Safe, Transfer, Called
<1>3. /\ Whole \in Seq(Unit) /\ Len(Whole) = sent /\ sent \in 0 .. MaxBody
      /\ \A k \in 1 .. sent : Whole[k] = <<i, k>>
  BY <1>1, WholeFacts
<1>4. /\ brigade \in Seq(Unit) /\ start \in Seq(Unit) /\ wfile \in Files \cup {None}
      /\ content \in [Files -> Seq(Unit)] /\ pos \in [Files -> Nat]
      /\ Len(brigade) \in Nat /\ Len(start) \in Nat
  BY DEF Safe, TypeOK
<1>5. pos' \in [Files -> Nat]
  BY <1>1, <1>4
<1>6. CASE ~WantBrigade
  <2>1. dont_want_brigade /\ skipped = 0 /\ base = <<>> /\ brigade' = brigade
    BY <1>1, <1>6 DEF dont_want_brigade, skipped, base
  <2>2. CASE wfile # None
    <3>1. /\ wfile \in Files /\ content[wfile] \in Seq(Unit) /\ Len(content[wfile]) \in Nat
          /\ file_size = sent /\ Len(content[wfile]) >= sent /\ pos[wfile] = sent
      BY <1>2, <1>3, <1>4, <2>1, <2>2 DEF FileHolds
    <3>2. \A k \in 1 .. sent : content[wfile][k] = <<i, k>>
      <4>1. \A k \in 1 .. sent : 0 + k = k
        OBVIOUS
      <4> QED BY <1>2, <2>1, <2>2, <3>1, <4>1 DEF FileHolds
    <3> DEFINE b == SubSeq(content[wfile], 1, sent)
    <3>3. b \in Seq(Unit) /\ Len(b) = sent /\ \A k \in 1 .. sent : b[k] = content[wfile][k]
      BY <1>3, <3>1
    <3> HIDE DEF b
    <3>4. b = Whole
      BY <1>3, <3>2, <3>3, SeqEqual
    <3>5. file' = wfile /\ bytes' = None /\ pos'[wfile] = 0
      BY <1>1, <1>2, <1>3, <1>4, <2>1, <2>2, <3>1
    <3> QED BY <1>1, <1>2, <1>4, <1>5, <1>6, <2>1, <3>1, <3>4, <3>5 DEF Handed, b
  <2>3. CASE wfile = None
    <3>1. Len(brigade) = sent /\ sent <= max_buffer_size
      BY <1>2, <1>3, <1>4, <2>1, <2>3 DEF BrigadeHolds, kept
    <3>2. \A k \in 1 .. sent : brigade[k] = <<i, k>>
      <4>1. \A k \in 1 .. sent : Len(<<>>) + k = k
        OBVIOUS
      <4> QED BY <1>2, <2>1, <2>3, <4>1 DEF BrigadeHolds
    <3>3. brigade = Whole
      BY <1>3, <1>4, <3>1, <3>2, SeqEqual
    <3>4. file' = None /\ bytes' = brigade
      BY <1>1, <2>1, <2>3
    <3> QED BY <1>1, <1>2, <1>4, <1>5, <1>6, <2>1, <3>1, <3>3, <3>4 DEF Handed
  <2> QED BY <2>2, <2>3
<1>7. CASE WantBrigade
  <2>1. /\ ~dont_want_brigade /\ skipped = kept /\ base = start
        /\ file' = None /\ bytes' = None
    BY <1>1, <1>2, <1>7 DEF dont_want_brigade, skipped, base
  <2>2. kept \in 0 .. sent /\ Len(brigade) = Len(start) + kept
    <3>1. kept \in Nat /\ kept <= sent
      BY <1>2, <1>3 DEF BrigadeHolds
    <3>2. kept = Len(brigade) - Len(start)
      BY <2>1 DEF kept
    <3> QED BY <1>3, <1>4, <3>1, <3>2
  <2>7. /\ \A k \in 1 .. Len(start) : brigade[k] = start[k]
        /\ \A k \in 1 .. kept : brigade[Len(start) + k] = <<i, k>>
    BY <1>2, <2>1 DEF BrigadeHolds
  <2>3. /\ brigade' \in Seq(Unit) /\ Len(brigade') = Len(start) + sent
        /\ \A k \in 1 .. Len(brigade) : brigade'[k] = brigade[k]
        /\ \A k \in 1 .. sent - kept : brigade'[Len(brigade) + k] = <<i, kept + k>>
    <3>1. CASE wfile = None
      BY <1>1, <1>2, <1>3, <1>4, <2>1, <2>2, <3>1
    <3>2. CASE wfile # None
      <4>1. /\ wfile \in Files /\ content[wfile] \in Seq(Unit) /\ Len(content[wfile]) \in Nat
            /\ file_size = sent - kept /\ Len(content[wfile]) >= file_size
            /\ \A k \in 1 .. sent - kept : content[wfile][k] = <<i, kept + k>>
        BY <1>2, <1>4, <2>1, <3>2 DEF FileHolds
      <4> DEFINE b == SubSeq(content[wfile], 1, file_size)
      <4>2. /\ b \in Seq(Unit) /\ Len(b) = sent - kept
            /\ \A k \in 1 .. sent - kept : b[k] = content[wfile][k]
        <5>1. PICK l \in Nat : l = sent - kept
          BY <1>3, <2>2
        <5> QED BY <4>1, <5>1
      <4> HIDE DEF b
      <4>3. brigade' = brigade \o b
        BY <1>1, <2>1, <3>2 DEF b
      <4>4. /\ brigade \o b \in Seq(Unit) /\ Len(brigade \o b) = Len(brigade) + Len(b)
            /\ \A k \in 1 .. Len(brigade) : (brigade \o b)[k] = brigade[k]
            /\ \A k \in 1 .. Len(b) : (brigade \o b)[Len(brigade) + k] = b[k]
        BY <1>4, <4>2, ConcatFacts
      <4>5. Len(brigade) + Len(b) = Len(start) + sent
        BY <1>3, <1>4, <2>2, <4>2
      <4> QED BY <4>1, <4>2, <4>3, <4>4, <4>5
    <3> QED BY <3>1, <3>2
  <2>4. /\ start \o Whole \in Seq(Unit) /\ Len(start \o Whole) = Len(start) + sent
        /\ \A k \in 1 .. Len(start) : (start \o Whole)[k] = start[k]
        /\ \A k \in 1 .. sent : (start \o Whole)[Len(start) + k] = Whole[k]
    BY <1>3, <1>4, ConcatFacts
  <2>5. ASSUME NEW k \in 1 .. Len(start) + sent PROVE brigade'[k] = (start \o Whole)[k]
    <3>1. CASE k <= Len(start)
      BY <1>3, <1>4, <2>7, <2>2, <2>3, <2>4, <3>1
    <3>2. CASE k > Len(start) /\ k <= Len(brigade)
      <4>1. PICK j \in 1 .. kept : j = k - Len(start)
        <5>1. k - Len(start) \in 1 .. kept
          BY <1>4, <2>2, <3>2
        <5> QED BY <5>1
      <4>2. k = Len(start) + j /\ j \in 1 .. sent /\ k \in 1 .. Len(brigade)
        BY <1>3, <1>4, <2>2, <3>2, <4>1
      <4>3. brigade'[k] = brigade[k] /\ brigade[k] = <<i, j>>
        BY <2>7, <2>3, <4>1, <4>2
      <4>4. (start \o Whole)[k] = Whole[j] /\ Whole[j] = <<i, j>>
        BY <1>3, <2>4, <4>2
      <4> QED BY <4>3, <4>4
    <3>3. CASE k > Len(brigade)
      <4>1. PICK j \in 1 .. sent - kept : j = k - Len(brigade)
        <5>1. k - Len(brigade) \in 1 .. sent - kept
          BY <1>3, <1>4, <2>2, <3>3
        <5> QED BY <5>1
      <4>2. k = Len(brigade) + j /\ kept + j \in 1 .. sent /\ k = Len(start) + (kept + j)
        BY <1>3, <1>4, <2>2, <4>1
      <4>3. brigade'[k] = <<i, kept + j>>
        BY <2>3, <4>1, <4>2
      <4>4. (start \o Whole)[Len(start) + (kept + j)] = Whole[kept + j]
        BY <2>4, <4>2
      <4>5. Whole[kept + j] = <<i, kept + j>>
        BY <1>3, <4>2
      <4> QED BY <4>2, <4>3, <4>4, <4>5
    <3>4. k <= Len(start) \/ (k > Len(start) /\ k <= Len(brigade)) \/ k > Len(brigade)
      BY <1>4
    <3> QED BY <3>1, <3>2, <3>3, <3>4
  <2>6. brigade' = start \o Whole
    BY <2>3, <2>4, <2>5, SeqEqual
  <2> QED BY <1>1, <1>2, <1>5, <1>7, <2>1, <2>3, <2>6 DEF Handed
<1> QED BY <1>6, <1>7

LEMMA OkStep == ASSUME Safe, get_ok PROVE Safe'
<1>1. Handed
  BY OkHanded
<1>2. /\ pc = "perform" /\ total_bytes' = current_size
      /\ IF requiredLength >= 0 /\ total_bytes' # requiredLength
         THEN Failed
         ELSE pc' = "returned" /\ rv' = "success" /\ UNCHANGED i
      /\ UNCHANGED <<argVars, path_count, wfile, current_size, file_size, content, sent>>
  BY DEF get_ok
<1>3. /\ file' \in Files \cup {None} /\ bytes' \in Seq(Unit) \cup {None}
      /\ brigade' \in Seq(Unit) /\ pos' \in [Files -> Nat] /\ total_bytes' \in Nat
      /\ file' # None => pos'[file'] = 0
      /\ WantBrigade => file' = None /\ bytes' = None
  BY <1>1, <1>2, WholeFacts DEF Handed, Safe, TypeOK
<1>4. CASE Failed
  <2>1. ~WantBrigade \/ api # "mfs_file_server_get"
    BY <1>2, <1>4 DEF Safe, Called, Failed
  <2>2. ~WantBrigade
    BY <1>2, <2>1 DEF Safe, Called, WantBrigade
  <2> QED BY <1>2, <1>3, <1>4, <2>2, AfterFailure DEF Safe, TypeOK
<1>5. CASE pc' = "returned" /\ rv' = "success" /\ UNCHANGED i
  <2>1. TypeOK'
    BY <1>2, <1>3, <1>5 DEF Safe, TypeOK, argVars
  <2>2. Called' /\ Between' /\ Transfer' /\ Broken'
    BY <1>2, <1>3, <1>5 DEF Safe, Called, Between, Transfer, Broken, argVars, WantBrigade
  <2> QED BY <2>1, <2>2 DEF Safe
<1> QED BY <1>2, <1>4, <1>5

LEMMA SafeStep == Safe /\ [Next]_vars => Safe'
<1> SUFFICES ASSUME Safe, [Next]_vars PROVE Safe'
  OBVIOUS
<1>1. CASE got_paths \/ no_paths \/ null_bytes \/ bad_url \/ good_url
  BY <1>1, LoopStep
<1>2. CASE begin_get
  BY <1>2, BeginStep
<1>3. ASSUME NEW n \in 1 .. MaxBody, write_file(n) PROVE Safe'
  BY <1>3, WriteStep
<1>4. ASSUME NEW n \in 1 .. MaxBody, append_bucket(n) PROVE Safe'
  BY <1>4, AppendStep
<1>5. ASSUME NEW n \in 1 .. MaxBody, open_file(n) PROVE Safe'
  BY <1>5, OpenStep
<1>6. ASSUME NEW n \in 1 .. MaxBody, open_file_fails(n) \/ no_slash(n) PROVE Safe'
  BY <1>6, OpenFailsStep
<1>7. CASE get_error \/ no_connection
  BY <1>7, ErrorStep
<1>8. CASE get_ok
  BY <1>8, OkStep
<1>9. CASE UNCHANGED vars
  <2>1. /\ kept' = kept /\ base' = base /\ skipped' = skipped
        /\ WantBrigade' = WantBrigade /\ BrigadeHolds' = BrigadeHolds
    BY <1>9, BrigadeKept DEF vars, bufVars
  <2>2. FileHolds' = FileHolds
    BY <1>9, <2>1 DEF FileHolds, vars, bufVars
  <2> QED BY <1>9, <2>1, <2>2
      DEF Safe, TypeOK, Called, Between, Transfer, Broken, vars, argVars, outVars, bufVars
<1> QED BY <1>1, <1>2, <1>3, <1>4, <1>5, <1>6, <1>7, <1>8, <1>9 DEF Next, Ended

LEMMA AlwaysSafe == Spec => []Safe
  BY SafeInit, SafeStep, PTL DEF Spec

\* Every variable keeps its type: units are only ever taken from the body of a path
\* or from what was there before, and no write leaves a hole in a file.
THEOREM DownloadTypeCorrect == Spec => []TypeOK
<1>1. Safe => TypeOK
  BY DEF Safe
<1> QED BY <1>1, AlwaysSafe, PTL
-------------------------------------------------------------------------------
(* What a download returns.                                                  *)

BytesBounded == bytes # None => Len(bytes) <= max_buffer_size

LEMMA BytesInit == Init => BytesBounded
  BY DEF Init, BytesBounded

LEMMA BytesStep == Safe /\ BytesBounded /\ [Next]_vars => BytesBounded'
<1> SUFFICES ASSUME Safe, BytesBounded, [Next]_vars PROVE BytesBounded'
  OBVIOUS
<1>1. CASE get_ok
  BY <1>1, OkHanded, WholeFacts DEF Handed, BytesBounded, get_ok
<1>2. CASE bad_url \/ good_url
  BY <1>2 DEF bad_url, good_url, BytesBounded
<1>3. CASE UNCHANGED bytes
  BY <1>3 DEF BytesBounded
<1> QED BY <1>1, <1>2, <1>3 DEF Next, got_paths, no_paths, null_bytes, no_connection, begin_get,
     write_file, append_bucket, open_file, no_slash, open_file_fails, get_error, Ended,
     outVars, vars

\* However cURL cuts a body up, no more than max_buffer_size of it is held in
\* memory, in the brigade or in the bytes that are returned (mogile_fs.h:387).
THEOREM MemoryCorrect == Spec => []MemoryBounded
<1>1. Safe /\ BytesBounded => MemoryBounded
  <2> SUFFICES ASSUME Safe, BytesBounded, pc \in {"perform", "broken"}
               PROVE  Len(brigade) <= max_buffer_size + (IF WantBrigade THEN Len(start) ELSE 0)
    BY DEF MemoryBounded, BytesBounded
  <2>1. kept \in Nat /\ kept <= max_buffer_size /\ Len(brigade) \in Nat /\ Len(start) \in Nat
    BY DEF Safe, TypeOK, Transfer, Broken, BrigadeHolds
  <2>2. Len(base) = IF WantBrigade THEN Len(start) ELSE 0
    BY DEF base
  <2> QED BY <2>1, <2>2 DEF kept
<1> QED BY <1>1, AlwaysSafe, BytesInit, BytesStep, PTL DEF Spec

LEMMA ResultStep == Safe /\ ResultExact /\ [Next]_vars => ResultExact'
<1> SUFFICES ASSUME Safe, ResultExact, [Next]_vars PROVE ResultExact'
  OBVIOUS
<1>1. CASE get_ok
  <2> SUFFICES ASSUME pc' = "returned", rv' = "success"
               PROVE  LET whole == Whole' IN
                      /\ total_bytes' = sent'
                      /\ requiredLength' >= 0 => total_bytes' = requiredLength'
                      /\ IF file' # None
                         THEN /\ bytes' = None /\ pos'[file'] = 0
                              /\ SubSeq(content'[file'], 1, sent') = whole
                         ELSE IF WantBrigade' THEN brigade' = start' \o whole
                                              ELSE bytes' = whole
    BY DEF ResultExact, Whole
  <2>1. Handed
    BY <1>1, OkHanded
  <2>2. /\ UNCHANGED <<argVars, content, sent>> /\ i' = i
        /\ requiredLength >= 0 => total_bytes' = requiredLength
    BY <1>1 DEF get_ok, Failed
  <2>3. WantBrigade' = WantBrigade /\ Whole' = Whole
    BY <2>2 DEF WantBrigade, Whole, argVars
  <2> QED BY <2>1, <2>2, <2>3 DEF Handed, argVars
<1>2. CASE rv' = "error"
  BY <1>2 DEF ResultExact
<1>3. CASE UNCHANGED vars
  BY <1>3 DEF ResultExact, WantBrigade, vars, argVars, outVars, bufVars
<1>4. CASE UNCHANGED rv /\ pc # "returned"
  BY <1>2, <1>4 DEF Safe, Called
<1> QED
  BY <1>1, <1>2, <1>3, <1>4 DEF Next, got_paths, no_paths, null_bytes, bad_url, good_url,
     no_connection, begin_get, Receive, write_file, append_bucket, open_file, no_slash,
     open_file_fails, get_error, Failed, Ended

\* A download that succeeds returns the whole body of the path it stopped at, in
\* exactly one of its outputs and from the first unit, whatever earlier attempts
\* left in the file, the bytes or the brigade (file_download.c:249-305, 319-352).
THEOREM ResultCorrect == Spec => []ResultExact
<1>1. Init => ResultExact
  BY DEF Init, ResultExact
<1> QED BY <1>1, AlwaysSafe, ResultStep, PTL DEF Spec

LEMMA FailureStep == Safe /\ FailureFinal /\ [Next]_vars => FailureFinal'
<1> SUFFICES ASSUME Safe, FailureFinal, [Next]_vars PROVE FailureFinal'
  OBVIOUS
<1> USE DEF FailureFinal, FailureRestoresBrigade, EveryPathTried
<1>1. CASE no_paths
  BY <1>1 DEF no_paths, Safe, Called, Between, WantBrigade, argVars, bufVars
<1>2. CASE Failed /\ UNCHANGED <<argVars, path_count>> /\ pc # "returned"
          /\ (WantBrigade => brigade' = start)
  <2>1. pc' = "returned" => i' = i /\ ~(i < path_count)
    BY <1>2 DEF Failed
  <2>2. i \in 0 .. path_count /\ path_count \in Nat
    BY DEF Safe, TypeOK
  <2>3. pc' = "returned" => i' = path_count'
    BY <1>2, <2>1, <2>2
  <2> QED BY <1>2, <2>3 DEF WantBrigade, argVars
<1>3. CASE bad_url
  BY <1>2, <1>3 DEF bad_url, bufVars, Safe, Called, Between
<1>4. CASE no_connection
  BY <1>2, <1>4 DEF no_connection, bufVars, Safe, Called, Between
<1>5. CASE get_error
  <2>1. BrigadeHolds /\ kept <= current_size /\ kept \in Nat /\ current_size \in Nat
    BY <1>5 DEF get_error, Safe, TypeOK, Transfer, Broken, BrigadeHolds
  <2>2. ASSUME WantBrigade PROVE brigade' = start
    <3>1. /\ SubSeq(brigade, 1, Len(start)) = start /\ (kept = 0 => brigade = start)
      BY <2>1, <2>2, BrigadeCut
    <3>2. \/ current_size > 0 /\ brigade' = SubSeq(brigade, 1, Len(start))
          \/ current_size = 0 /\ brigade' = brigade
      BY <1>5, <2>1, <2>2 DEF get_error, Safe, Called
    <3> QED BY <2>1, <3>1, <3>2
  <2> QED BY <1>2, <1>5, <2>2 DEF get_error
<1>6. CASE get_ok
  <2>1. CASE Failed
    <3>1. ~WantBrigade
      BY <1>6, <2>1 DEF get_ok, Failed, Safe, Called, WantBrigade
    <3> QED BY <1>2, <1>6, <2>1, <3>1 DEF get_ok
  <2>2. CASE rv' = "success"
    BY <2>2
  <2> QED BY <1>6, <2>1, <2>2 DEF get_ok
<1>7. CASE pc' # "returned"
  BY <1>7
<1>8. CASE UNCHANGED vars
  BY <1>8 DEF WantBrigade, vars, argVars, outVars, bufVars
<1> QED
  BY <1>1, <1>3, <1>4, <1>5, <1>6, <1>7, <1>8 DEF Next, got_paths, null_bytes, good_url,
     begin_get, Receive, write_file, append_bucket, open_file, no_slash, open_file_fails, Ended

\* A download gives up only when no path is left, and the brigade of its caller
\* is then as it was (file_download.c:262-274, 320-353).
THEOREM FailureCorrect == Spec => []FailureFinal
<1>1. Init => FailureFinal
  BY DEF Init, FailureFinal, FailureRestoresBrigade, EveryPathTried
<1> QED BY <1>1, AlwaysSafe, FailureStep, PTL DEF Spec
================================================================================
