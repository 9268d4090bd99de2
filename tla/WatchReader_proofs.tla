--------------------------- MODULE WatchReader_proofs ---------------------------
(*****************************************************************************)
(* Proofs about the buffers of sock_readline, for every size of both, every  *)
(* stream of bytes, every way recv cuts it, and any stops and failures.      *)
(*****************************************************************************)
EXTENDS WatchReader, SequenceTheorems, WellFoundedInduction, TLAPS

USE SizesAssumption

\* The caller's buffer holds a sequence of bytes, whatever they are.
Stored == \E S : buf \in Seq(S)

Bounded ==
    /\ off \in Nat
    /\ buf_pointer \in Nat /\ cnt \in 0 .. BufSize
    /\ cnt > 0 => buf_pointer + cnt <= BufSize + 1

Safe == Bounded /\ Stored /\ CallerBufferSafe

LEMMA SafeInit == Init => Safe
<1> SUFFICES ASSUME Init PROVE Safe
  OBVIOUS
<1>1. buf \in Seq({})
  BY DEF Init
<1>2. Len(buf) = 0
  BY DEF Init
<1> QED BY <1>1, <1>2 DEF Init, Safe, Bounded, Stored, CallerBufferSafe

\* One more byte is stored.
LEMMA Longer ==
    ASSUME Stored, Len(buf) < BufLen - 1, NEW x, buf' = Append(buf, x)
    PROVE  Stored' /\ CallerBufferSafe'
<1>1. PICK S : buf \in Seq(S)
  BY DEF Stored
<1>2. buf \in Seq(S \cup {x})
  BY <1>1, SeqDef
<1>3. Append(buf, x) \in Seq(S \cup {x}) /\ Len(Append(buf, x)) = Len(buf) + 1 /\ Len(buf) \in Nat
  BY <1>2
<1> QED BY <1>3 DEF Stored, CallerBufferSafe

\* A byte is taken at index p with c bytes left, the first of them after p and the
\* last within the buffer or just after it.
LEMMA Taken ==
    ASSUME Safe, Room, NEW b, NEW p \in Nat, NEW c \in 0 .. BufSize,
           c > 0 => p + 1 + c <= BufSize + 1, off' \in Nat, Take(b, p, c)
    PROVE  Safe'
<1>1. buf' = Append(buf, b[p])
  BY DEF Take
<1>2. Stored' /\ CallerBufferSafe'
  BY <1>1, Longer DEF Safe, Room
<1>3. \E skip \in 0 .. c : buf_pointer' = p + 1 + skip /\ cnt' = c - skip
  BY DEF Take
<1>4. Bounded'
  BY <1>3 DEF Bounded
<1> QED BY <1>2, <1>4 DEF Safe

LEMMA SafeStep == Safe /\ [Next]_vars => Safe'
<1> SUFFICES ASSUME Safe, [Next]_vars PROVE Safe'
  OBVIOUS
<1> DEFINE Same == UNCHANGED <<off, buf_pointer, cnt, buf>>
<1> USE DEF streamVars, watchVars, flagVars
<1>1. ASSUME Same PROVE Safe'
  BY <1>1 DEF Safe, Bounded, Stored, CallerBufferSafe
<1>2. CASE stop_watching \/ enable_watching \/ call \/ stopped \/ connect_fails \/ wake
  BY <1>1, <1>2 DEF stop_watching, enable_watching, call, stopped, connect_fails, wake
<1>3. CASE connect \/ reuse
  <2>1. off' \in Nat /\ UNCHANGED <<buf_pointer, cnt>> /\ buf' = <<>>
    BY <1>3 DEF connect, reuse, Safe, Bounded
  <2>2. buf' \in Seq({}) /\ Len(buf') = 0
    BY <2>1
  <2> QED BY <2>1, <2>2 DEF Safe, Bounded, Stored, CallerBufferSafe
<1>4. CASE read_buffered
  <2>1. /\ Room /\ cnt > 0 /\ UNCHANGED off
        /\ Take(read_buf, buf_pointer, cnt - 1)
    BY <1>4 DEF read_buffered
  <2>2. cnt - 1 \in 0 .. BufSize /\ buf_pointer + 1 + (cnt - 1) <= BufSize + 1
    BY <2>1 DEF Safe, Bounded
  <2>3. buf_pointer \in Nat /\ off' \in Nat
    BY <2>1 DEF Safe, Bounded
  <2> QED BY <2>1, <2>2, <2>3, Taken
<1>5. CASE refill
  <2>1. PICK e \in off + 1 .. Len(Stream), beyond \in Byte :
           recv(e) /\ Take(Filled(e, beyond), 0, e - off)
    BY <1>5 DEF refill
  <2>2. Room /\ e - off \in 0 .. BufSize /\ off' \in Nat
    BY <1>5, <2>1 DEF refill, recv, Safe, Bounded
  <2> QED BY <2>1, <2>2, Taken
<1>6. CASE timeout \/ give_up \/ recv_fails
  BY <1>1, <1>6 DEF timeout, give_up, recv_fails, vars
<1>7. CASE UNCHANGED vars
  BY <1>1, <1>7 DEF vars
<1> QED BY <1>2, <1>3, <1>4, <1>5, <1>6, <1>7 DEF Next, Reader

\* The bytes sock_readline counts as unread never reach further than one byte
\* after read_buf, although the count is one too high after every recv and a
\* broken connection leaves bytes in the buffer, and no line, however long, is
\* stored beyond the caller's buffer (watch.c:59-104).
THEOREM BuffersCorrect == Spec => []BuffersSafe
<1>1. Safe => BuffersSafe
  BY DEF Safe, Bounded, BuffersSafe, ReadsAtMostOneBeyond
<1> QED BY <1>1, SafeInit, SafeStep, PTL DEF Spec
-------------------------------------------------------------------------------
(* The stream.  Induction over the lines goes by the least one for which a   *)
(* statement fails.                                                          *)

\* A set of numbers that is not empty has a least element.
LEMMA Least ==
    ASSUME NEW T, T \subseteq Nat, T # {}
    PROVE  \E x \in T : \A y \in T : x <= y
<1>1. PICK x \in T : \A y \in T : ~(<<y, x>> \in OpToRel(<, Nat))
  BY WFMin, NatLessThanWellFounded
<1>2. \A y \in T : <<y, x>> \in OpToRel(<, Nat) <=> y < x
  BY DEF OpToRel
<1>3. \A y \in T : ~(y < x)
  BY <1>1, <1>2
<1>4. \A y \in T : x \in Nat /\ y \in Nat
  OBVIOUS
<1> HIDE <1>1, <1>2
<1> QED BY <1>3, <1>4

LEMMA MinIsLeast ==
    ASSUME NEW T, T \subseteq Nat, T # {}
    PROVE  Min(T) \in T /\ \A y \in T : Min(T) <= y
BY Least DEF Min

\* A line with what ends it.
Line(n) == Text(n) \o <<CR, LF>>

Scripted == script \in [1 .. Lines -> Kinds]

Plain == Byte \ {NUL, LF, CR}

LEMMA TextType ==
    ASSUME Scripted, NEW n \in 1 .. Lines
    PROVE  Text(n) \in Seq(Plain)
<1>1. {1, 2, 3, 4, Payload(n)} \subseteq Plain
  BY DEF Plain, Byte, Payload, NUL, LF, CR
<1>2. CASE script[n] = "long"
  <2> DEFINE l == IF BufLen >= 2 THEN BufLen - 2 ELSE 0
  <2>1. l \in Nat /\ 1 .. BufLen - 2 = 1 .. l
    OBVIOUS
  <2>2. Text(n) = [k \in 1 .. l |-> Payload(n)]
    BY <1>2, <2>1 DEF Text
  <2> HIDE DEF l
  <2> QED BY <1>1, <2>1, <2>2
<1>3. CASE script[n] # "long"
  <2>1. \/ Text(n) = <<1, 2, 3, Payload(n)>> \/ Text(n) = <<1, 2, 4, Payload(n)>>
        \/ Text(n) = <<Payload(n)>>
    BY <1>3 DEF Scripted, Kinds, Text
  <2>2. 1 \in Plain /\ 2 \in Plain /\ 3 \in Plain /\ 4 \in Plain /\ Payload(n) \in Plain
    BY <1>1
  <2>3. /\ <<1, 2, 3, Payload(n)>> \in Seq(Plain) /\ <<1, 2, 4, Payload(n)>> \in Seq(Plain)
        /\ <<Payload(n)>> \in Seq(Plain)
    BY <2>2
  <2> QED BY <2>1, <2>3
<1> QED BY <1>2, <1>3

\* The recursion that defines Sent has a solution.
LEMMA SentExists ==
    \A N \in Nat : \E g : g = [n \in 0 .. N |->
        IF n = 0 THEN <<>> ELSE g[n - 1] \o Text(n) \o <<CR, LF>>]
<1> DEFINE F(g, n) == IF n = 0 THEN <<>> ELSE g[n - 1] \o Text(n) \o <<CR, LF>>
           T == {N \in Nat : ~ \E g : g = [n \in 0 .. N |-> F(g, n)]}
<1>1. SUFFICES ASSUME T # {} PROVE FALSE
  OBVIOUS
<1>2. PICK N \in T : \A y \in T : N <= y
  BY <1>1, Least
<1>3. N # 0
  <2> DEFINE g == [n \in 0 .. 0 |-> <<>>]
  <2>1. g = [n \in 0 .. 0 |-> F(g, n)]
    OBVIOUS
  <2> QED BY <2>1
<1>4. N - 1 \in Nat /\ N - 1 \notin T
  <2>1. N \in Nat /\ N - 1 \in Nat /\ ~(N <= N - 1)
    BY <1>2, <1>3
  <2> HIDE DEF T
  <2> QED BY <1>2, <2>1
<1>5. PICK g : g = [n \in 0 .. N - 1 |-> F(g, n)]
  BY <1>4
<1> DEFINE h == [n \in 0 .. N |-> IF n = N THEN F(g, N) ELSE g[n]]
<1>6. ASSUME NEW n \in 0 .. N PROVE h[n] = F(h, n)
  <2>1. n # 0 => h[n - 1] = g[n - 1]
    OBVIOUS
  <2>2. F(h, n) = F(g, n)
    BY <2>1
  <2>3. n # N => g[n] = F(g, n)
    <3>1. n # N => n \in 0 .. N - 1
      BY <1>4
    <3> HIDE DEF F
    <3> QED BY <1>5, <3>1
  <2> QED BY <2>2, <2>3
<1>7. h = [n \in 0 .. N |-> F(h, n)]
  BY <1>6
<1> QED BY <1>2, <1>7

LEMMA SentIs ==
    Sent = [n \in 0 .. Lines |-> IF n = 0 THEN <<>> ELSE Sent[n - 1] \o Text(n) \o <<CR, LF>>]
BY SentExists DEF Sent

\* A line ends with CR LF, and has neither before.
LEMMA LineIs ==
    ASSUME Scripted, NEW n \in 1 .. Lines
    PROVE  /\ Line(n) \in Seq(Byte \ {NUL}) /\ Len(Line(n)) \in Nat
           /\ Len(Text(n)) \in Nat /\ Len(Line(n)) = Len(Text(n)) + 2
           /\ \A i \in 1 .. Len(Text(n)) : Line(n)[i] = Text(n)[i] /\ Text(n)[i] \in Plain
           /\ Line(n)[Len(Line(n)) - 1] = CR /\ Line(n)[Len(Line(n))] = LF
<1> DEFINE S == Byte \ {NUL}
           E == <<CR, LF>>
<1>1. Text(n) \in Seq(Plain)
  BY TextType
<1>2. Len(Text(n)) \in Nat /\ \A i \in 1 .. Len(Text(n)) : Text(n)[i] \in Plain
  BY <1>1
<1>3. Text(n) \in Seq(S)
  BY <1>1, SeqMonotonic DEF Plain
<1>4. E \in Seq(S) /\ Len(E) = 2 /\ E[1] = CR /\ E[2] = LF
  <2>1. CR \in S /\ LF \in S
    BY DEF Byte, NUL, CR, LF
  <2> HIDE DEF S
  <2> QED BY <2>1
<1> DEFINE t == Text(n)
<1>5. Line(n) = t \o E
  BY DEF Line
<1> HIDE DEF S, E, t
<1>6. /\ Line(n) \in Seq(S) /\ Len(Line(n)) = Len(t) + 2
      /\ \A i \in 1 .. Len(t) + 2 : Line(n)[i] = IF i <= Len(t) THEN t[i] ELSE E[i - Len(t)]
  <2>1. t \in Seq(S)
    BY <1>3 DEF t
  <2>2. /\ t \o E \in Seq(S) /\ Len(t \o E) = Len(t) + Len(E)
        /\ \A i \in 1 .. Len(t) + Len(E) :
              (t \o E)[i] = IF i <= Len(t) THEN t[i] ELSE E[i - Len(t)]
    BY <1>4, <2>1, ConcatProperties
  <2> QED BY <1>4, <1>5, <2>2
<1> USE DEF t
<1>7. Line(n)[Len(Line(n)) - 1] = CR /\ Line(n)[Len(Line(n))] = LF
  BY <1>2, <1>4, <1>6
<1> QED BY <1>2, <1>6, <1>7 DEF S

LEMMA SentType ==
    ASSUME Scripted
    PROVE  /\ Sent[0] = <<>>
           /\ \A n \in 0 .. Lines : Sent[n] \in Seq(Byte \ {NUL})
           /\ \A n \in 1 .. Lines : Sent[n] = Sent[n - 1] \o Line(n)
<1> DEFINE S == Byte \ {NUL}
           T == {n \in 0 .. Lines : Sent[n] \notin Seq(S)}
<1>1. Sent[0] = <<>>
  BY SentIs
<1>2. ASSUME NEW n \in 1 .. Lines, Sent[n - 1] \in Seq(S)
      PROVE  Sent[n] = Sent[n - 1] \o Line(n) /\ Sent[n] \in Seq(S)
  <2>1. Sent[n] = (Sent[n - 1] \o Text(n)) \o <<CR, LF>>
    <3>1. n \in 0 .. Lines /\ n # 0
      OBVIOUS
    <3> QED BY <3>1, SentIs
  <2>2. Text(n) \in Seq(S)
    BY TextType, SeqMonotonic DEF Plain
  <2>3. <<CR, LF>> \in Seq(S)
    <3>1. CR \in S /\ LF \in S
      BY DEF Byte, NUL, CR, LF
    <3> HIDE DEF S
    <3> QED BY <3>1
  <2>4. Sent[n] = Sent[n - 1] \o Line(n)
    <3>1. \A f, g, h \in Seq(S) : (f \o g) \o h = f \o (g \o h)
      BY ConcatAssociative
    <3> HIDE DEF S
    <3> QED BY <1>2, <2>1, <2>2, <2>3, <3>1 DEF Line
  <2> QED BY <1>2, <2>4, LineIs, ConcatProperties
<1> HIDE DEF S
<1>3. T = {}
  <2>1. SUFFICES ASSUME T # {} PROVE FALSE
    OBVIOUS
  <2>2. PICK n \in T : \A y \in T : n <= y
    <3>1. T \subseteq Nat
      OBVIOUS
    <3> HIDE DEF T
    <3> QED BY <2>1, <3>1, Least
  <2>3. n # 0
    BY <1>1, EmptySeq
  <2>4. n \in 1 .. Lines /\ n - 1 \in 0 .. Lines /\ ~(n <= n - 1)
    BY <2>3
  <2>5. n - 1 \notin T
    BY <2>2, <2>4
  <2>6. Sent[n - 1] \in Seq(S)
    BY <2>4, <2>5
  <2> QED BY <1>2, <2>4, <2>6
<1>4. \A n \in 0 .. Lines : Sent[n] \in Seq(S)
  BY <1>3
<1>5. \A n \in 1 .. Lines : n - 1 \in 0 .. Lines
  OBVIOUS
<1> QED BY <1>1, <1>2, <1>4, <1>5 DEF S

\* What was sent stays as it is.
LEMMA SentPrefix ==
    ASSUME Scripted, NEW m \in 0 .. Lines, NEW n \in m .. Lines
    PROVE  /\ Len(Sent[m]) \in Nat /\ Len(Sent[n]) \in Nat /\ Len(Sent[m]) <= Len(Sent[n])
           /\ \A k \in 1 .. Len(Sent[m]) : Sent[n][k] = Sent[m][k]
<1> DEFINE S == Byte \ {NUL}
           Good(i) == /\ Len(Sent[m]) <= Len(Sent[i])
                      /\ \A k \in 1 .. Len(Sent[m]) : Sent[i][k] = Sent[m][k]
           T == {i \in m .. Lines : ~Good(i)}
<1>1. \A i \in 0 .. Lines : Sent[i] \in Seq(S) /\ Len(Sent[i]) \in Nat
  BY SentType
<1>2. T = {}
  <2>1. SUFFICES ASSUME T # {} PROVE FALSE
    OBVIOUS
  <2>2. PICK i \in T : \A y \in T : i <= y
    <3>1. T \subseteq Nat
      OBVIOUS
    <3> HIDE DEF T
    <3> QED BY <2>1, <3>1, Least
  <2>3. i # m
    BY <1>1
  <2>4. i - 1 \in m .. Lines /\ i \in 1 .. Lines /\ i - 1 \in 0 .. Lines /\ ~(i <= i - 1)
    BY <2>3
  <2>5. Good(i - 1)
    <3>1. i - 1 \notin T
      BY <2>2, <2>4
    <3> QED BY <2>4, <3>1
  <2>6. /\ Len(Sent[i]) = Len(Sent[i - 1]) + Len(Line(i)) /\ Len(Line(i)) \in Nat
        /\ \A k \in 1 .. Len(Sent[i - 1]) : Sent[i][k] = Sent[i - 1][k]
    <3>1. Sent[i] = Sent[i - 1] \o Line(i) /\ Sent[i - 1] \in Seq(S) /\ Line(i) \in Seq(S)
      BY <1>1, <2>4, SentType, LineIs
    <3>2. \A k \in 1 .. Len(Sent[i - 1]) + Len(Line(i)) :
             Sent[i][k] = IF k <= Len(Sent[i - 1]) THEN Sent[i - 1][k]
                                                   ELSE Line(i)[k - Len(Sent[i - 1])]
      BY <3>1, ConcatProperties
    <3>3. Len(Sent[i]) = Len(Sent[i - 1]) + Len(Line(i)) /\ Len(Line(i)) \in Nat
      BY <2>4, <3>1, ConcatProperties, LineIs
    <3>4. Len(Sent[i - 1]) \in Nat
      BY <1>1, <2>4
    <3>5. \A k \in 1 .. Len(Sent[i - 1]) : k \in 1 .. Len(Sent[i - 1]) + Len(Line(i))
      BY <3>3, <3>4
    <3> QED BY <3>2, <3>3, <3>5
  <2>7. Good(i)
    <3>1. Len(Sent[m]) \in Nat /\ Len(Sent[i - 1]) \in Nat
      BY <1>1, <2>4
    <3> QED BY <2>5, <2>6, <3>1
  <2> QED BY <2>7
<1>3. Good(n)
  BY <1>2
<1> QED BY <1>1, <1>3

\* Line n takes the place after line n - 1 in the stream.
LEMMA StreamIs ==
    ASSUME Scripted
    PROVE  /\ Stream \in Seq(Byte \ {NUL}) /\ Len(Stream) = End(Lines)
           /\ End(0) = 0 /\ \A n \in 0 .. Lines : End(n) \in Nat
           /\ \A n \in 1 .. Lines :
                 /\ End(n) = End(n - 1) + Len(Line(n))
                 /\ \A i \in 1 .. Len(Line(n)) : Stream[End(n - 1) + i] = Line(n)[i]
           /\ \A m, n \in 0 .. Lines : m < n => End(m) + 2 <= End(n)
<1>1. /\ Stream \in Seq(Byte \ {NUL}) /\ Len(Stream) = End(Lines)
      /\ End(0) = 0 /\ \A n \in 0 .. Lines : End(n) \in Nat
  BY SentType DEF Stream, End
<1>2. ASSUME NEW n \in 1 .. Lines
      PROVE  /\ End(n) = End(n - 1) + Len(Line(n))
             /\ \A i \in 1 .. Len(Line(n)) : Stream[End(n - 1) + i] = Line(n)[i]
  <2> DEFINE S == Byte \ {NUL}
             L == Line(n)
             B == Sent[n - 1]
  <2>1. Sent[n] = B \o L /\ B \in Seq(S) /\ L \in Seq(S) /\ Len(B) \in Nat /\ Len(L) \in Nat
    <3>1. n - 1 \in 0 .. Lines
      OBVIOUS
    <3>2. Sent[n - 1] \in Seq(S) /\ Sent[n] = Sent[n - 1] \o Line(n)
      BY <3>1, SentType
    <3>3. Line(n) \in Seq(S) /\ Len(Line(n)) \in Nat
      BY LineIs
    <3> HIDE DEF S
    <3> QED BY <3>2, <3>3
  <2> HIDE DEF S, L, B
  <2>2. /\ Len(Sent[n]) = Len(B) + Len(L)
        /\ \A k \in 1 .. Len(B) + Len(L) :
              Sent[n][k] = IF k <= Len(B) THEN B[k] ELSE L[k - Len(B)]
    BY <2>1, ConcatProperties
  <2>3. \A i \in 1 .. Len(L) : Sent[n][Len(B) + i] = L[i] /\ Len(B) + i \in 1 .. Len(Sent[n])
    BY <2>1, <2>2
  <2>4. \A k \in 1 .. Len(Sent[n]) : Stream[k] = Sent[n][k]
    BY SentPrefix DEF Stream
  <2>5. End(n) = End(n - 1) + Len(L) /\ \A i \in 1 .. Len(L) : Stream[End(n - 1) + i] = L[i]
    BY <2>2, <2>3, <2>4 DEF End, B
  <2> QED BY <2>5 DEF L
<1>3. ASSUME NEW m \in 0 .. Lines, NEW n \in 0 .. Lines, m < n
      PROVE  End(m) + 2 <= End(n)
  <2>1. n \in 1 .. Lines /\ n - 1 \in m .. Lines /\ n - 1 \in 0 .. Lines
    BY <1>3
  <2>2. End(m) <= End(n - 1)
    BY <2>1, SentPrefix DEF End
  <2>3. End(n) = End(n - 1) + Len(Line(n)) /\ Len(Line(n)) \in Nat /\ Len(Line(n)) >= 2
    BY <1>2, <2>1, LineIs
  <2>4. End(m) \in Nat /\ End(n - 1) \in Nat /\ End(n) \in Nat
    BY <1>1, <2>1
  <2> QED BY <2>2, <2>3, <2>4
<1> QED BY <1>1, <1>2, <1>3

\* Only the last byte of a line is LF.
LEMMA LineEnds ==
    ASSUME Scripted, NEW e \in 1 .. Len(Stream), Stream[e] = LF
    PROVE  \E n \in 1 .. Lines : e = End(n)
<1> DEFINE T == {n \in 0 .. Lines : e <= End(n)}
<1>1. Lines \in T
  BY StreamIs
<1>2. PICK n \in T : \A y \in T : n <= y
  <2>1. T \subseteq Nat
    OBVIOUS
  <2> HIDE DEF T
  <2> QED BY <1>1, <2>1, Least
<1>3. n # 0
  BY StreamIs
<1>4. n \in 1 .. Lines /\ n - 1 \in 0 .. Lines /\ ~(n <= n - 1)
  BY <1>3
<1>5. ~(e <= End(n - 1)) /\ e <= End(n)
  BY <1>2, <1>4
<1>6. /\ End(n - 1) \in Nat /\ End(n) = End(n - 1) + Len(Line(n)) /\ Len(Line(n)) \in Nat
      /\ \A i \in 1 .. Len(Line(n)) : Stream[End(n - 1) + i] = Line(n)[i]
  BY <1>4, StreamIs, LineIs
<1> DEFINE i == e - End(n - 1)
<1>7. i \in 1 .. Len(Line(n)) /\ Stream[e] = Line(n)[i]
  BY <1>5, <1>6
<1>8. i = Len(Line(n))
  <2>1. /\ Len(Text(n)) \in Nat /\ Len(Line(n)) = Len(Text(n)) + 2
        /\ \A j \in 1 .. Len(Text(n)) : Line(n)[j] \in Plain
        /\ Line(n)[Len(Line(n)) - 1] = CR
    BY <1>4, LineIs
  <2>2. LF \notin Plain /\ LF # CR
    BY DEF Plain, LF, CR
  <2>3. i \notin 1 .. Len(Text(n)) /\ i # Len(Line(n)) - 1
    BY <1>7, <2>1, <2>2
  <2> QED BY <1>7, <2>1, <2>3
<1> QED BY <1>4, <1>6, <1>8
-------------------------------------------------------------------------------
(* What the functions give their caller.                                     *)

LEMMA AsStringType ==
    ASSUME NEW S, NEW b \in Seq(S) PROVE AsString(b) \in Seq(S)
<1> DEFINE n == Len(b)
           s == IF n > 1 /\ b[n - 1] = CR THEN SubSeq(b, 1, n - 2) ELSE b
           nuls == {k \in 1 .. Len(s) : s[k] = NUL}
<1>1. s \in Seq(S)
  <2>1. n \in Nat /\ \A i \in 1 .. n : b[i] \in S
    OBVIOUS
  <2>2. n > 1 => \A i \in 1 .. n - 2 : b[i] \in S
    BY <2>1
  <2>3. n > 1 => SubSeq(b, 1, n - 2) \in Seq(S)
    BY <2>1, <2>2, SubSeqProperties
  <2> QED BY <2>3
<1> HIDE DEF s
<1>2. CASE nuls = {}
  <2>1. AsString(b) = s
    BY <1>2 DEF AsString, s
  <2> QED BY <1>1, <2>1
<1>3. CASE nuls # {}
  <2>1. nuls \subseteq Nat /\ Len(s) \in Nat /\ \A i \in 1 .. Len(s) : s[i] \in S
    BY <1>1
  <2>2. Min(nuls) \in nuls
    BY <1>3, <2>1, MinIsLeast
  <2>3. AsString(b) = SubSeq(s, 1, Min(nuls) - 1)
    BY <1>3 DEF AsString, s
  <2>4. Min(nuls) \in 1 .. Len(s)
    BY <2>2
  <2> HIDE DEF nuls
  <2>5. Min(nuls) - 1 \in Int /\ \A i \in 1 .. Min(nuls) - 1 : s[i] \in S
    BY <2>1, <2>4
  <2> QED BY <2>3, <2>5, SubSeqProperties
<1> QED BY <1>2, <1>3

LEMMA CacheLineType ==
    ASSUME NEW S, NEW s \in Seq(S) PROVE CacheLine(s) \in Seq(Seq(S))
<1> DEFINE marks == {k \in 1 .. Len(s) - 1 : s[k] = 1 /\ s[k + 1] = 2}
           id == Min(marks) + 2
<1>1. CASE CacheLine(s) = <<>>
  BY <1>1
<1>2. CASE CacheLine(s) # <<>>
  <2>1. marks # {} /\ CacheLine(s) = <<SubSeq(s, id + 1, Len(s))>>
    BY <1>2 DEF CacheLine
  <2>2. marks \subseteq Nat /\ Len(s) \in Nat /\ \A i \in 1 .. Len(s) : s[i] \in S
    OBVIOUS
  <2>3. Min(marks) \in Nat
    BY <2>1, <2>2, MinIsLeast
  <2> HIDE DEF marks
  <2>4. id + 1 \in Int /\ \A i \in id + 1 .. Len(s) : s[i] \in S
    BY <2>2, <2>3
  <2>5. SubSeq(s, id + 1, Len(s)) \in Seq(S)
    BY <2>2, <2>4, SubSeqProperties
  <2> QED BY <2>1, <2>5
<1> QED BY <1>1, <1>2

LEMMA FilledType ==
    ASSUME TypeOK, NEW e \in off + 1 .. Len(Stream), NEW beyond \in Byte
    PROVE  Filled(e, beyond) \in [0 .. BufSize -> Byte]
<1> DEFINE bytes == SubSeq(Stream, off + 1, e)
<1>1. Stream \in Seq(Byte) /\ off \in Nat /\ e \in Nat
  <2>1. Stream \in Seq(Byte \ {NUL})
    BY StreamIs DEF TypeOK, Scripted
  <2>2. Byte \ {NUL} \subseteq Byte
    OBVIOUS
  <2> QED BY <2>1, <2>2, SeqMonotonic DEF TypeOK
<1>2. \A i \in off + 1 .. e : Stream[i] \in Byte
  BY <1>1
<1>3. Len(bytes) = e - off /\ \A i \in 1 .. e - off : bytes[i] \in Byte
  <2>1. bytes \in Seq(Byte) /\ Len(bytes) = e - off
    BY <1>1, <1>2, SubSeqProperties
  <2> HIDE DEF bytes
  <2> QED BY <2>1
<1>4. \A k \in 0 .. BufSize : k < e - off => k + 1 \in 1 .. e - off
  BY <1>1
<1>5. \A k \in 0 .. BufSize : read_buf[k] \in Byte
  BY DEF TypeOK
<1> DEFINE v(k) == IF k = BufSize /\ e - off = BufSize THEN beyond
                   ELSE IF k < e - off THEN bytes[k + 1] ELSE read_buf[k]
<1> HIDE DEF bytes
<1>6. \A k \in 0 .. BufSize : v(k) \in Byte
  BY <1>3, <1>4, <1>5
<1>7. Filled(e, beyond) = [k \in 0 .. BufSize |-> v(k)]
  BY DEF Filled, bytes
<1> HIDE DEF v
<1> QED BY <1>6, <1>7

\* Everything but what recv and the other thread change keeps its type when a byte
\* is taken.
LEMMA TakenType ==
    ASSUME TypeOK, NEW b \in [0 .. BufSize -> Byte], NEW p \in 0 .. BufSize,
           NEW c \in 0 .. BufSize, c > 0 => p + 1 + c <= BufSize + 1, Take(b, p, c),
           pc = "read"
    PROVE  /\ pc' \in {"idle", "top", "read", "sleep"}
           /\ read_buf' \in [0 .. BufSize -> Byte]
           /\ buf_pointer' \in 0 .. BufSize + 1 /\ cnt' \in 0 .. BufSize
           /\ buf' \in Seq(Byte) /\ got' \in Seq(Seq(Byte))
<1>1. \E skip \in 0 .. c : buf_pointer' = p + 1 + skip /\ cnt' = c - skip
  <2>1. CASE b[p] = LF
    BY <2>1 DEF Take
  <2>2. CASE b[p] # LF
    <3>1. 0 \in 0 .. c /\ p + 1 + 0 = p + 1 /\ c - 0 = c
      OBVIOUS
    <3> QED BY <2>2, <3>1 DEF Take
  <2> QED BY <2>1, <2>2
<1>2. buf_pointer' \in 0 .. BufSize + 1 /\ cnt' \in 0 .. BufSize
  BY <1>1
<1>3. buf' \in Seq(Byte)
  <2>1. b[p] \in Byte /\ buf \in Seq(Byte)
    BY DEF TypeOK
  <2> QED BY <2>1 DEF Take
<1>4. got' \in Seq(Seq(Byte))
  <2> DEFINE out == IF api = "line" THEN <<AsString(buf')>> ELSE CacheLine(AsString(buf'))
  <2>1. out \in Seq(Seq(Byte))
    <3>1. AsString(buf') \in Seq(Byte)
      BY <1>3, AsStringType
    <3> QED BY <3>1, CacheLineType
  <2>2. got' = got \/ got' = got \o out
    BY DEF Take
  <2>3. got \in Seq(Seq(Byte))
    BY DEF TypeOK
  <2> HIDE DEF out
  <2>4. got \o out \in Seq(Seq(Byte))
    BY <2>1, <2>3, ConcatProperties
  <2> QED BY <2>2, <2>3, <2>4
<1>5. read_buf' = b /\ pc' \in {"idle", "top", "read", "sleep"}
  BY DEF Take
<1> QED BY <1>2, <1>3, <1>4, <1>5

LEMMA TypeStep == TypeOK /\ Safe /\ [Next]_vars => TypeOK'
<1> SUFFICES ASSUME TypeOK, Safe, [Next]_vars PROVE TypeOK'
  OBVIOUS
<1> USE DEF streamVars, watchVars, flagVars
<1>1. CASE stop_watching \/ enable_watching
  <2>1. allow_watching' \in BOOLEAN
    BY <1>1 DEF stop_watching, enable_watching
  <2>2. stops' \in 0 .. MaxStops
    BY <1>1 DEF stop_watching, enable_watching, TypeOK
  <2> QED BY <1>1, <2>1, <2>2 DEF stop_watching, enable_watching, TypeOK
<1>2. CASE call \/ stopped \/ connect_fails \/ wake \/ give_up \/ recv_fails
  <2>1. breaks' \in 0 .. MaxBreaks
    BY <1>2 DEF call, stopped, connect_fails, wake, give_up, recv_fails, TypeOK
  <2>2. connection' \in BOOLEAN
    BY <1>2 DEF call, stopped, connect_fails, wake, give_up, recv_fails, TypeOK
  <2> QED BY <1>2, <2>1, <2>2
        DEF call, stopped, connect_fails, wake, give_up, recv_fails, TypeOK
<1>3. CASE connect \/ reuse
  <2>1. off' \in Nat /\ buf' = <<>>
    BY <1>3, StreamIs DEF connect, reuse, TypeOK
  <2>2. buf' \in Seq(Byte)
    BY <2>1
  <2> QED BY <1>3, <2>1, <2>2 DEF connect, reuse, TypeOK
<1>4. CASE read_buffered
  <2>1. cnt > 0 /\ Take(read_buf, buf_pointer, cnt - 1) /\ pc = "read"
    BY <1>4 DEF read_buffered
  <2>2. /\ buf_pointer \in 0 .. BufSize /\ cnt - 1 \in 0 .. BufSize
        /\ buf_pointer + 1 + (cnt - 1) <= BufSize + 1
    BY <2>1 DEF Safe, Bounded
  <2>3. read_buf \in [0 .. BufSize -> Byte]
    BY DEF TypeOK
  <2>4. /\ pc' \in {"idle", "top", "read", "sleep"}
        /\ read_buf' \in [0 .. BufSize -> Byte]
        /\ buf_pointer' \in 0 .. BufSize + 1 /\ cnt' \in 0 .. BufSize
        /\ buf' \in Seq(Byte) /\ got' \in Seq(Seq(Byte))
    BY <2>1, <2>2, <2>3, TakenType
  <2> QED BY <1>4, <2>4 DEF read_buffered, TypeOK
<1>5. CASE refill
  <2>1. PICK e \in off + 1 .. Len(Stream), beyond \in Byte :
           recv(e) /\ Take(Filled(e, beyond), 0, e - off)
    BY <1>5 DEF refill
  <2>2. e - off \in 0 .. BufSize /\ pc = "read" /\ 0 \in 0 .. BufSize /\ 0 + 1 + (e - off) <= BufSize + 1
    BY <1>5, <2>1 DEF refill, recv, TypeOK
  <2>3. Filled(e, beyond) \in [0 .. BufSize -> Byte]
    BY FilledType
  <2>4. /\ pc' \in {"idle", "top", "read", "sleep"}
        /\ read_buf' \in [0 .. BufSize -> Byte]
        /\ buf_pointer' \in 0 .. BufSize + 1 /\ cnt' \in 0 .. BufSize
        /\ buf' \in Seq(Byte) /\ got' \in Seq(Seq(Byte))
    BY <2>1, <2>2, <2>3, TakenType
  <2>5. off' \in Nat /\ last' \in Nat /\ split' \in BOOLEAN
    <3>1. e \in Nat
      BY <2>1 DEF TypeOK
    <3> QED BY <2>1, <3>1 DEF recv, TypeOK
  <2>6. received' \subseteq 1 .. Lines
    BY <2>1 DEF recv, TypeOK
  <2> QED BY <1>5, <2>4, <2>5, <2>6 DEF refill, TypeOK
<1>6. CASE timeout \/ UNCHANGED vars
  BY <1>6 DEF timeout, vars, TypeOK
<1> QED BY <1>1, <1>2, <1>3, <1>4, <1>5, <1>6 DEF Next, Reader

\* Every variable keeps its type: in particular the indices that sock_readline
\* uses stay in read_buf or just after it, and what the callers get is bytes that
\* were in it, for any sizes of the buffers and any lines (watch.c:59-158).
THEOREM TypeCorrect == Spec => []TypeOK
<1>1. Init => TypeOK
  <2>1. ASSUME Init PROVE <<>> \in Seq(Byte) /\ <<>> \in Seq(Seq(Byte)) /\ NUL \in Byte
    BY DEF Byte
  <2>2. ASSUME Init PROVE /\ split \in BOOLEAN /\ allow_watching \in BOOLEAN
                         /\ connection \in BOOLEAN /\ api \in Apis
    BY <2>2 DEF Init
  <2>3. ASSUME Init
        PROVE  /\ script \in [1 .. Lines -> Kinds] /\ off \in Nat /\ received \subseteq 1 .. Lines
               /\ last \in Nat /\ stops \in 0 .. MaxStops /\ breaks \in 0 .. MaxBreaks
               /\ pc \in {"idle", "top", "read", "sleep"}
    BY <2>3 DEF Init
  <2>4. ASSUME Init
        PROVE  /\ read_buf \in [0 .. BufSize -> Byte]
               /\ buf_pointer \in 0 .. BufSize + 1 /\ cnt \in 0 .. BufSize
    <3>1. buf_pointer \in 0 .. BufSize + 1 /\ cnt \in 0 .. BufSize
      BY <2>4 DEF Init
    <3>2. read_buf \in [0 .. BufSize -> Byte]
      BY <2>1, <2>4, Zenon DEF Init
    <3> QED BY <3>1, <3>2
  <2>5. ASSUME Init PROVE buf = <<>> /\ got = <<>>
    BY <2>5 DEF Init
  <2> QED BY <2>1, <2>2, <2>3, <2>4, <2>5 DEF TypeOK
<1> QED BY <1>1, SafeInit, SafeStep, TypeStep, PTL DEF Spec
-------------------------------------------------------------------------------
(* What is left in the buffer, wherever each recv ended.                     *)

\* The stream does not change.
LEMMA StreamStays ==
    ASSUME UNCHANGED script
    PROVE  /\ UNCHANGED Stream /\ \A n \in 0 .. Lines : UNCHANGED End(n)
           /\ \A n : UNCHANGED Line(n)
<1>1. \A n : UNCHANGED Text(n)
  BY DEF Text
<1>2. UNCHANGED Sent
  BY <1>1 DEF Sent
<1> QED BY <1>1, <1>2 DEF Stream, End, Line

\* Of c bytes counted in b from index p, the first was received at position s + 1.
InOrder(b, p, c, s) == \A t \in 1 .. c - 1 : b[p + t - 1] = Stream[s + t]

\* The byte taken, and the NULs skipped after a line, leave the others in place.
LEMMA TakenInOrder ==
    ASSUME Scripted, NEW b, NEW p \in Nat, NEW c \in Nat, NEW s \in Int,
           Take(b, p, c), InOrder(b, p + 1, c, s)
    PROVE  \E d \in 0 .. c : cnt' = c - d /\ InOrder(b, buf_pointer', cnt', s + d) /\ read_buf' = b
<1>1. PICK d \in 0 .. c : buf_pointer' = p + 1 + d /\ cnt' = c - d /\ read_buf' = b
  <2>1. CASE b[p] # LF
    <3>1. 0 \in 0 .. c /\ p + 1 + 0 = p + 1 /\ c - 0 = c
      OBVIOUS
    <3> QED BY <2>1, <3>1 DEF Take
  <2>2. CASE b[p] = LF
    BY <2>2 DEF Take
  <2> QED BY <2>1, <2>2
<1>2. ASSUME NEW t \in 1 .. cnt' - 1 PROVE b[buf_pointer' + t - 1] = Stream[s + d + t]
  <2>1. /\ d + t \in 1 .. c - 1 /\ s + (d + t) = s + d + t
        /\ p + 1 + (d + t) - 1 = buf_pointer' + t - 1
    BY <1>1
  <2>2. b[p + 1 + (d + t) - 1] = Stream[s + (d + t)]
    BY <2>1 DEF InOrder
  <2> QED BY <2>1, <2>2
<1> QED BY <1>1, <1>2 DEF InOrder

\* Wherever a recv ends, whatever connections break with bytes in the buffer and
\* whatever the sizes: the bytes that sock_readline still counts are the rest of
\* the last recv in its order, none of them left out or read twice, and behind them
\* exactly one byte that was not received (watch.c:65-98).
THEOREM UnreadCorrect == Spec => []UnreadInOrder
<1> DEFINE I == InOrder(read_buf, buf_pointer, cnt, last - cnt + 1)
<1>1. UnreadInOrder <=> I
  BY DEF UnreadInOrder, InOrder
<1>2. Init => I
  <2> SUFFICES ASSUME Init PROVE I
    OBVIOUS
  <2>1. 1 .. cnt - 1 = {}
    BY DEF Init
  <2> QED BY <2>1 DEF InOrder
<1>3. ASSUME TypeOK, Safe, I, [Next]_vars PROVE I'
  <2> USE DEF streamVars, watchVars, flagVars
  <2>1. Scripted /\ cnt \in Nat /\ buf_pointer \in Nat /\ last \in Nat /\ off \in Nat
    BY <1>3 DEF TypeOK, Scripted
  <2>2. CASE read_buffered
    <3>1. /\ cnt > 0 /\ Take(read_buf, buf_pointer, cnt - 1)
          /\ UNCHANGED <<script, last>>
      BY <2>2 DEF read_buffered
    <3>2. cnt - 1 \in Nat /\ last - cnt + 2 \in Int
      BY <2>1, <3>1
    <3>3. InOrder(read_buf, buf_pointer + 1, cnt - 1, last - cnt + 2)
      <4>1. ASSUME NEW t \in 1 .. cnt - 1 - 1
            PROVE  read_buf[buf_pointer + 1 + t - 1] = Stream[last - cnt + 2 + t]
        <5>1. /\ t + 1 \in 1 .. cnt - 1 /\ last - cnt + 1 + (t + 1) = last - cnt + 2 + t
              /\ buf_pointer + (t + 1) - 1 = buf_pointer + 1 + t - 1
          BY <2>1
        <5>2. read_buf[buf_pointer + (t + 1) - 1] = Stream[last - cnt + 1 + (t + 1)]
          BY <1>3, <5>1 DEF InOrder
        <5> QED BY <5>1, <5>2
      <4> QED BY <4>1 DEF InOrder
    <3>4. PICK d \in 0 .. cnt - 1 : /\ cnt' = cnt - 1 - d /\ read_buf' = read_buf
                                  /\ InOrder(read_buf, buf_pointer', cnt', last - cnt + 2 + d)
      BY <2>1, <3>1, <3>2, <3>3, TakenInOrder
    <3>5. last - cnt + 2 + d = last' - cnt' + 1 /\ Stream' = Stream
      BY <2>1, <3>1, <3>4, StreamStays
    <3> QED BY <3>4, <3>5 DEF InOrder
  <2>3. CASE refill
    <3>1. PICK e \in off + 1 .. Len(Stream), beyond \in Byte :
             recv(e) /\ Take(Filled(e, beyond), 0, e - off)
      BY <2>3 DEF refill
    <3> DEFINE b == Filled(e, beyond)
               bytes == SubSeq(Stream, off + 1, e)
    <3>2. /\ script' = script /\ last' = e /\ e \in Nat /\ e - off \in Nat
          /\ e - off <= BufSize /\ off \in Int
      BY <2>1, <2>3, <3>1 DEF refill, recv
    <3>3. InOrder(b, 0 + 1, e - off, off + 1)
      <4>1. ASSUME NEW t \in 1 .. e - off - 1 PROVE b[0 + 1 + t - 1] = Stream[off + 1 + t]
        <5>1. 0 + 1 + t - 1 = t /\ t \in 0 .. BufSize /\ t < e - off /\ t # BufSize
          BY <2>1, <3>2, SizesAssumption
        <5>2. b[t] = bytes[t + 1]
          BY <5>1 DEF Filled
        <5>3. \A x \in off + 1 .. e : Stream[x] \in Byte
          <6>1. Stream \in Seq(Byte \ {NUL})
            BY <2>1, StreamIs
          <6> QED BY <2>1, <3>1, <6>1
        <5>4. \A x \in 1 .. e - (off + 1) + 1 : bytes[x] = Stream[off + 1 + x - 1]
          BY <2>1, <3>2, <5>3, SubSeqProperties
        <5>5. t + 1 \in 1 .. e - (off + 1) + 1 /\ off + 1 + (t + 1) - 1 = off + 1 + t
          BY <2>1, <3>2
        <5> HIDE DEF b, bytes
        <5> QED BY <5>1, <5>2, <5>4, <5>5
      <4> QED BY <4>1 DEF InOrder
    <3>4. PICK d \in 0 .. e - off : /\ cnt' = e - off - d /\ read_buf' = b
                                  /\ InOrder(b, buf_pointer', cnt', off + 1 + d)
      <4> DEFINE c == e - off
                 s == off + 1
                 p == 0
      <4>1. Take(b, p, c) /\ p \in Nat /\ c \in Nat /\ s \in Int /\ InOrder(b, p + 1, c, s)
        BY <2>1, <3>1, <3>2, <3>3
      <4> HIDE DEF b, c, s, p
      <4>2. \E d \in 0 .. c : /\ cnt' = c - d /\ InOrder(b, buf_pointer', cnt', s + d)
                             /\ read_buf' = b
        BY <2>1, <4>1, TakenInOrder
      <4> QED BY <4>2 DEF c, s
    <3> HIDE DEF b
    <3>5. off + 1 + d = last' - cnt' + 1 /\ Stream' = Stream
      BY <2>1, <3>2, <3>4, StreamStays
    <3> QED BY <3>4, <3>5 DEF InOrder
  <2>4. CASE UNCHANGED <<script, last, read_buf, buf_pointer, cnt>>
    <3>1. Stream' = Stream
      BY <2>4, StreamStays
    <3> QED BY <1>3, <2>4, <3>1 DEF InOrder
  <2>5. read_buffered \/ refill \/ UNCHANGED <<script, last, read_buf, buf_pointer, cnt>>
    BY <1>3 DEF Next, Reader, stop_watching, enable_watching, call, stopped, connect,
                connect_fails, reuse, wake, timeout, give_up, recv_fails, vars
  <2> QED BY <2>2, <2>3, <2>4, <2>5
<1>4. I => UnreadInOrder
  BY <1>1
<1> HIDE DEF I
<1> QED BY <1>2, <1>3, <1>4, TypeCorrect, SafeInit, SafeStep, PTL DEF Spec
-------------------------------------------------------------------------------
(* The cache lines.  The reader has consumed m lines of the stream and i     *)
(* bytes of the next, and holds the bytes up to the end of line r, then one  *)
(* stale byte; lines after r may have come and gone between connections.     *)

\* Bytes of the stream that are left in the buffer.
Unread == IF cnt = 0 THEN 0 ELSE cnt - 1

\* Lines m + 1 to r, and none after r, have come in.
Came(m, r) ==
    /\ received \subseteq 1 .. r /\ m + 1 .. r \subseteq received
    /\ \E f \in r .. Lines : off = End(f)

Position(m, r, i) ==
    /\ m <= r /\ (i = 0 \/ (m < r /\ i < Len(Line(m + 1))))
    /\ End(m) + i + Unread = End(r)
    /\ \A t \in 0 .. cnt - 2 : read_buf[buf_pointer + t] = Stream[End(m) + i + 1 + t]
    /\ cnt = 1 => read_buf[buf_pointer] # NUL
    /\ Came(m, r)

\* The call under way has taken h stale bytes, at most one, and the bytes of line
\* m + 1 after the first j.
Collected(m, i, j, h) ==
    /\ j <= i
    /\ pc # "read" => j = i
    /\ j > 0 /\ stops = 0 => script[m + 1] = "long"
    /\ pc = "read" =>
          /\ Len(buf) = h + i - j
          /\ \A k \in 1 .. i - j : buf[h + k] = Line(m + 1)[j + k]
          /\ h = 1 => j = 0 /\ cnt # 1 /\ buf[1] \notin {NUL, LF}

\* What was given to the caller comes from the first m lines.
Delivered(m) ==
    api = "cache" =>
        /\ \A k \in 1 .. Len(got) :
              \E n \in received : n <= m /\ script[n] = "other" /\ got[k] = <<Payload(n)>>
        /\ \A j, k \in 1 .. Len(got) : j < k => got[j][1] < got[k][1]
        /\ stops = 0 =>
              \A n \in received : n <= m /\ script[n] = "other" =>
                  \E k \in 1 .. Len(got) : got[k] = <<Payload(n)>>

Tracked ==
    /\ stops = 0 => allow_watching
    /\ \E m, r \in 0 .. Lines : \E i, j \in Nat : \E h \in {0, 1} :
          Position(m, r, i) /\ Collected(m, i, j, h) /\ Delivered(m)

\* The bytes of a text.
LEMMA TextIs ==
    ASSUME Scripted, NEW n \in 1 .. Lines
    PROVE  /\ script[n] = "other" => Text(n) = <<1, 2, 4, Payload(n)>>
           /\ script[n] = "own" => Text(n) = <<1, 2, 3, Payload(n)>>
           /\ script[n] \notin {"own", "other"} =>
                 \A k \in 1 .. Len(Text(n)) : Text(n)[k] = Payload(n)
           /\ script[n] # "long" => Len(Text(n)) <= 4
<1>1. script[n] = "event" => Text(n) = <<Payload(n)>>
  BY DEF Text
<1>2. script[n] = "other" => Text(n) = <<1, 2, 4, Payload(n)>>
  BY DEF Text
<1>3. script[n] = "own" => Text(n) = <<1, 2, 3, Payload(n)>>
  BY DEF Text
<1>4. script[n] = "long" => \A k \in 1 .. Len(Text(n)) : Text(n)[k] = Payload(n)
  <2> DEFINE l == IF BufLen >= 2 THEN BufLen - 2 ELSE 0
  <2>1. l \in Nat /\ 1 .. BufLen - 2 = 1 .. l
    OBVIOUS
  <2> HIDE DEF l
  <2>2. script[n] = "long" => Text(n) = [k \in 1 .. l |-> Payload(n)]
    BY <2>1 DEF Text
  <2> QED BY <2>1, <2>2
<1>5. script[n] \in Kinds
  BY DEF Scripted
<1>6. \A P : Len(<<P>>) = 1 /\ <<P>>[1] = P /\ Len(<<1, 2, 4, P>>) = 4 /\ Len(<<1, 2, 3, P>>) = 4
  OBVIOUS
<1>7. script[n] \notin {"own", "other"} => \A k \in 1 .. Len(Text(n)) : Text(n)[k] = Payload(n)
  BY <1>1, <1>4, <1>5, <1>6 DEF Kinds
<1>8. script[n] # "long" => Len(Text(n)) <= 4
  <2>1. /\ script[n] = "event" => Len(Text(n)) = 1
        /\ script[n] = "other" => Len(Text(n)) = 4
        /\ script[n] = "own" => Len(Text(n)) = 4
    BY <1>1, <1>2, <1>3, <1>6
  <2>2. script[n] # "long" => Len(Text(n)) = 1 \/ Len(Text(n)) = 4
    BY <1>5, <2>1 DEF Kinds
  <2>3. Len(Text(n)) \in Nat
    BY LineIs
  <2>4. \A l \in Nat : l = 1 \/ l = 4 => l <= 4
    OBVIOUS
  <2> QED BY <2>2, <2>3, <2>4
<1> QED BY <1>2, <1>3, <1>7, <1>8

LEMMA AsStringOfLine ==
    ASSUME NEW b \in Seq(Byte), Len(b) >= 2, b[Len(b) - 1] = CR,
           \A k \in 1 .. Len(b) : b[k] # NUL
    PROVE  AsString(b) = SubSeq(b, 1, Len(b) - 2)
<1> DEFINE s == SubSeq(b, 1, Len(b) - 2)
           nuls == {k \in 1 .. Len(s) : s[k] = NUL}
<1>1. Len(b) \in Nat /\ \A k \in 1 .. Len(b) - 2 : b[k] \in Byte
  OBVIOUS
<1>2. Len(s) = Len(b) - 2 /\ \A k \in 1 .. Len(b) - 2 : s[k] = b[k]
  <2>1. Len(s) = IF 1 <= Len(b) - 2 THEN Len(b) - 2 - 1 + 1 ELSE 0
    BY <1>1, SubSeqProperties
  <2>2. \A k \in 1 .. Len(b) - 2 - 1 + 1 : s[k] = b[1 + k - 1]
    BY <1>1, SubSeqProperties
  <2>3. \A k \in 1 .. Len(b) - 2 : k \in 1 .. Len(b) - 2 - 1 + 1 /\ 1 + k - 1 = k
    BY <1>1
  <2> HIDE DEF s
  <2>4. \A k \in 1 .. Len(b) - 2 : s[k] = b[k]
    BY <2>2, <2>3
  <2>5. Len(s) = Len(b) - 2
    <3>1. \A l \in Nat : l >= 2 => l - 2 = IF 1 <= l - 2 THEN l - 2 - 1 + 1 ELSE 0
      OBVIOUS
    <3> QED BY <1>1, <2>1, <3>1
  <2> QED BY <2>4, <2>5
<1> HIDE DEF s
<1>3. nuls = {}
  BY <1>1, <1>2
<1> QED BY <1>1, <1>3 DEF AsString, s

LEMMA NoMark ==
    ASSUME NEW s \in Seq(Byte), \A k \in 1 .. Len(s) - 1 : ~(s[k] = 1 /\ s[k + 1] = 2)
    PROVE  CacheLine(s) = <<>>
BY DEF CacheLine

LEMMA Marked ==
    ASSUME NEW s \in Seq(Byte), NEW q \in 1 .. Len(s) - 3, s[q] = 1, s[q + 1] = 2,
           \A k \in 1 .. Len(s) - 1 : s[k] = 1 /\ s[k + 1] = 2 => k = q
    PROVE  CacheLine(s) = IF s[q + 2] = 3 THEN <<>> ELSE <<SubSeq(s, q + 3, Len(s))>>
<1> DEFINE marks == {k \in 1 .. Len(s) - 1 : s[k] = 1 /\ s[k + 1] = 2}
<1>1. marks = {q}
  OBVIOUS
<1>2. Min(marks) = q
  <2>1. marks \subseteq Nat /\ marks # {}
    BY <1>1
  <2> HIDE DEF marks
  <2> QED BY <1>1, <2>1, MinIsLeast
<1>3. q + 2 <= Len(s) /\ (q + 2) + 1 = q + 3
  OBVIOUS
<1>4. marks # {}
  BY <1>1
<1>5. CacheLine(s) = IF marks = {} \/ (Min(marks) + 2 <= Len(s) /\ s[Min(marks) + 2] = 3)
                     THEN <<>> ELSE <<SubSeq(s, (Min(marks) + 2) + 1, Len(s))>>
  BY DEF CacheLine
<1> HIDE DEF marks
<1> QED BY <1>2, <1>3, <1>4, <1>5

\* What get_next_watch_cache_line makes of the bytes b that a call stored up to the
\* end of line n, having started after j bytes of it, with or without a stale byte
\* in front: the line if it is another client's and all of it is there.
LEMMA CacheLineOf ==
    ASSUME Scripted, NEW n \in 1 .. Lines, NEW b \in Seq(Byte), NEW h \in {0, 1}, NEW j \in Nat,
           j < Len(Line(n)), Len(b) = h + Len(Line(n)) - j,
           \A k \in 1 .. Len(Line(n)) - j : b[h + k] = Line(n)[j + k],
           h = 1 => j = 0 /\ b[1] \notin {NUL, LF}
    PROVE  CacheLine(AsString(b)) = IF j = 0 /\ script[n] = "other" THEN <<<<Payload(n)>>>>
                                                                    ELSE <<>>
<1> DEFINE l == Len(Text(n))
           g == Len(Line(n))
           P == Payload(n)
           s == AsString(b)
           d == Len(b)
<1>1. l \in Nat /\ g = l + 2 /\ d \in Nat /\ h \in Nat
  BY LineIs
<1>2. \A i \in 1 .. l : Line(n)[i] = Text(n)[i] /\ Text(n)[i] \in Plain
  BY LineIs
<1>3. Line(n)[l + 1] = CR /\ Line(n)[l + 2] = LF
  <2>1. Line(n)[g - 1] = CR /\ Line(n)[g] = LF
    BY LineIs
  <2> HIDE DEF l, g
  <2>2. g = l + 2 /\ g - 1 = l + 1
    BY <1>1
  <2> QED BY <2>1, <2>2
<1>4. P \notin {1, 2, 3, 4} /\ NUL \notin Plain /\ CR \notin {1, 2, NUL, LF} /\ LF \notin {1, 2, NUL}
  BY DEF Payload, Plain, CR, LF, NUL
<1>5. /\ j < g /\ d = h + g - j
      /\ \A k \in 1 .. g - j : b[h + k] = Line(n)[j + k]
  OBVIOUS
<1> HIDE DEF l, g, d, P
<1>6. CASE j = l + 1
  <2>1. h = 0 /\ d = 1
    BY <1>1, <1>5, <1>6
  <2>2. b[0 + 1] = Line(n)[l + 2]
    BY <1>1, <1>5, <1>6, <2>1
  <2>3. Len(b) = 1 /\ b[1] = LF
    <3>1. 0 + 1 = 1
      OBVIOUS
    <3> QED BY <1>3, <2>1, <2>2, <3>1 DEF d
  <2>4. s = b
    <3>1. ~(d > 1)
      BY <2>1
    <3>2. \A k \in 1 .. 1 : b[k] # NUL
      BY <1>4, <2>3
    <3> QED BY <2>3, <3>1, <3>2 DEF AsString, d
  <2>5. CacheLine(b) = <<>>
    BY <2>3, NoMark
  <2>6. j # 0
    BY <1>1, <1>6
  <2> QED BY <2>4, <2>5, <2>6
<1>7. CASE j # l + 1
  <2> DEFINE u == h + (l - j)
  <2>1. j <= l /\ l - j \in Nat /\ u \in Nat /\ d = u + 2
    <3>1. j <= l
      BY <1>1, <1>5, <1>7
    <3>2. d = h + (l + 2) - j
      BY <1>1, <1>5
    <3> QED BY <1>1, <3>1, <3>2
  <2>2. /\ \A k \in 1 .. l - j : b[h + k] = Text(n)[j + k] /\ Text(n)[j + k] \in Plain
        /\ b[u + 1] = CR /\ b[u + 2] = LF
    <3>1. ASSUME NEW k \in 1 .. l - j
          PROVE  b[h + k] = Text(n)[j + k] /\ Text(n)[j + k] \in Plain
      <4>1. k \in 1 .. g - j /\ j + k \in 1 .. l
        BY <1>1, <2>1
      <4> QED BY <1>2, <1>5, <4>1
    <3>2. b[h + (l - j + 1)] = Line(n)[j + (l - j + 1)] /\ b[h + (l - j + 2)] = Line(n)[j + (l - j + 2)]
      <4>1. l - j + 1 \in 1 .. g - j /\ l - j + 2 \in 1 .. g - j
        BY <1>1, <2>1
      <4> QED BY <1>5, <4>1
    <3>3. /\ j + (l - j + 1) = l + 1 /\ j + (l - j + 2) = l + 2
          /\ h + (l - j + 1) = u + 1 /\ h + (l - j + 2) = u + 2
      BY <1>1, <2>1
    <3> QED BY <1>3, <3>1, <3>2, <3>3
  <2>3. Len(b) >= 2 /\ Len(b) - 1 = u + 1 /\ Len(b) - 2 = u
    <3>1. d >= 2 /\ d - 1 = u + 1 /\ d - 2 = u
      BY <1>1, <2>1
    <3> QED BY <3>1 DEF d
  <2>4. \A k \in 1 .. Len(b) : b[k] # NUL
    <3> SUFFICES ASSUME NEW k \in 1 .. d PROVE b[k] # NUL
      BY DEF d
    <3>1. CASE k <= h
      <4>1. h = 1 /\ k = 1
        BY <3>1
      <4> QED BY <4>1
    <3>2. CASE k > h /\ k <= u
      <4>1. k = h + (k - h) /\ k - h \in 1 .. l - j
        BY <1>1, <2>1, <3>2
      <4>2. b[h + (k - h)] = Text(n)[j + (k - h)] /\ Text(n)[j + (k - h)] \in Plain
        BY <2>2, <4>1
      <4> QED BY <1>4, <4>1, <4>2
    <3>3. CASE k > u
      <4>1. k = u + 1 \/ k = u + 2
        BY <1>1, <2>1, <3>3
      <4> QED BY <1>4, <2>2, <4>1
    <3> QED BY <1>1, <2>1, <3>1, <3>2, <3>3
  <2>5. s = SubSeq(b, 1, Len(b) - 2)
    BY <2>2, <2>3, <2>4, AsStringOfLine
  <2>6. s \in Seq(Byte) /\ Len(s) = u /\ \A k \in 1 .. u : s[k] = b[k]
    <3>1. u \in Nat /\ u <= d /\ s = SubSeq(b, 1, u)
      BY <1>1, <2>1, <2>3, <2>5
    <3> HIDE DEF u, s
    <3>2. \A k \in 1 .. u : b[k] \in Byte
      <4>1. \A k \in 1 .. u : k \in 1 .. d
        BY <1>1, <3>1
      <4> QED BY <4>1 DEF d
    <3>3. /\ s \in Seq(Byte) /\ Len(s) = IF 1 <= u THEN u - 1 + 1 ELSE 0
          /\ \A k \in 1 .. u - 1 + 1 : s[k] = b[1 + k - 1]
      BY <3>1, <3>2, SubSeqProperties
    <3>4. (IF 1 <= u THEN u - 1 + 1 ELSE 0) = u /\ \A k \in 1 .. u : k \in 1 .. u - 1 + 1 /\ 1 + k - 1 = k
      BY <3>1
    <3>5. Len(s) = u /\ \A k \in 1 .. u : s[k] = b[k]
      BY <3>3, <3>4
    <3> QED BY <3>3, <3>5
  <2> HIDE DEF s
  <2>7. \A k \in 1 .. l - j : s[h + k] = Text(n)[j + k]
    BY <1>1, <2>1, <2>2, <2>6
  <2>8. CASE script[n] \notin {"own", "other"} \/ j > 0
    <3>1. SUFFICES ASSUME NEW k \in 1 .. u - 1, s[k] = 1, s[k + 1] = 2 PROVE FALSE
      <4>1. (\A k \in 1 .. u - 1 : ~(s[k] = 1 /\ s[k + 1] = 2)) => CacheLine(s) = <<>>
        BY <2>6, NoMark
      <4>2. ~(j = 0 /\ script[n] = "other")
        BY <2>8
      <4> QED BY <4>1, <4>2 DEF s
    <3>2. k + 1 - h \in 1 .. l - j /\ k + 1 = h + (k + 1 - h)
      BY <1>1, <2>1
    <3>3. Text(n)[j + (k + 1 - h)] = 2 /\ j + (k + 1 - h) \in 1 .. l
      <4>1. s[h + (k + 1 - h)] = Text(n)[j + (k + 1 - h)]
        BY <2>7, <3>2
      <4> QED BY <1>1, <2>1, <3>1, <3>2, <4>1
    <3>4. script[n] \in {"own", "other"}
      <4>1. script[n] \notin {"own", "other"} => \A i \in 1 .. l : Text(n)[i] = P
        BY TextIs DEF l, P
      <4> QED BY <1>4, <3>3, <4>1
    <3>5. j > 0 /\ h = 0
      BY <2>8, <3>4
    <3>6. Text(n)[j + k] = 1 /\ j + k \in 2 .. l
      <4>1. k \in 1 .. l - j /\ h + k = k /\ j + k \in 2 .. l
        BY <1>1, <2>1, <3>2, <3>5
      <4> QED BY <2>7, <3>1, <4>1
    <3>7. l = 4 /\ Text(n)[2] # 1 /\ Text(n)[3] # 1 /\ Text(n)[4] # 1
      <4>1. Text(n) = <<1, 2, 3, P>> \/ Text(n) = <<1, 2, 4, P>>
        BY <3>4, TextIs DEF P
      <4>2. \A x : /\ Len(<<1, 2, x, P>>) = 4 /\ <<1, 2, x, P>>[2] = 2
                   /\ <<1, 2, x, P>>[3] = x /\ <<1, 2, x, P>>[4] = P
        OBVIOUS
      <4> QED BY <1>4, <4>1, <4>2 DEF l
    <3>8. j + k = 2 \/ j + k = 3 \/ j + k = 4
      BY <3>6, <3>7
    <3> QED BY <3>6, <3>7, <3>8
  <2>9. CASE script[n] \in {"own", "other"} /\ j = 0
    <3>1. /\ l = 4 /\ Text(n)[1] = 1 /\ Text(n)[2] = 2 /\ Text(n)[4] = P
          /\ Text(n)[3] = IF script[n] = "other" THEN 4 ELSE 3
      <4> DEFINE x == IF script[n] = "other" THEN 4 ELSE 3
      <4>1. Text(n) = <<1, 2, x, P>>
        BY <2>9, TextIs DEF P
      <4> HIDE DEF x
      <4>2. /\ Len(<<1, 2, x, P>>) = 4 /\ <<1, 2, x, P>>[1] = 1 /\ <<1, 2, x, P>>[2] = 2
            /\ <<1, 2, x, P>>[3] = x /\ <<1, 2, x, P>>[4] = P
        OBVIOUS
      <4> QED BY <4>1, <4>2 DEF l, x
    <3>2. Len(s) = h + 4
      BY <2>6, <2>9, <3>1
    <3>3. s[h + 1] = 1 /\ s[h + 2] = 2 /\ s[h + 3] = Text(n)[3] /\ s[h + 4] = P
      BY <2>7, <2>9, <3>1
    <3>4. \A k \in 1 .. Len(s) - 1 : s[k] = 1 /\ s[k + 1] = 2 => k = h + 1
      <4> SUFFICES ASSUME NEW k \in 1 .. Len(s) - 1, s[k] = 1, s[k + 1] = 2 PROVE k = h + 1
        OBVIOUS
      <4>1. k + 1 = h + 1 \/ k = h + 1 \/ k = h + 2 \/ k = h + 3
        BY <3>2
      <4>2. s[h + 3] # 1
        BY <3>1, <3>3
      <4> QED BY <3>3, <4>1, <4>2
    <3>5. h + 1 \in 1 .. Len(s) - 3 /\ (h + 1) + 1 = h + 2 /\ (h + 1) + 2 = h + 3 /\ (h + 1) + 3 = h + 4
      BY <3>2
    <3>6. CacheLine(s) = IF s[h + 3] = 3 THEN <<>> ELSE <<SubSeq(s, h + 4, Len(s))>>
      <4>1. ASSUME NEW q \in 1 .. Len(s) - 3, s[q] = 1, s[q + 1] = 2,
                   \A k \in 1 .. Len(s) - 1 : s[k] = 1 /\ s[k + 1] = 2 => k = q
            PROVE  CacheLine(s) = IF s[q + 2] = 3 THEN <<>> ELSE <<SubSeq(s, q + 3, Len(s))>>
        BY <2>6, <4>1, Marked
      <4> QED BY <3>3, <3>4, <3>5, <4>1
    <3>7. SubSeq(s, h + 4, h + 4) = <<P>>
      <4>1. h + 4 \in Int /\ P \in Byte /\ \A i \in h + 4 .. h + 4 : s[i] \in Byte
        BY <1>1, <2>6, <3>2, <3>3
      <4>2. /\ SubSeq(s, h + 4, h + 4) \in Seq(Byte) /\ Len(SubSeq(s, h + 4, h + 4)) = 1
            /\ \A i \in 1 .. 1 : SubSeq(s, h + 4, h + 4)[i] = s[h + 4]
        BY <4>1, SubSeqProperties
      <4>3. <<P>> \in Seq(Byte) /\ Len(<<P>>) = 1 /\ \A i \in 1 .. 1 : <<P>>[i] = P
        BY <4>1
      <4>4. \A f, g1 \in Seq(Byte) :
               Len(f) = 1 /\ Len(g1) = 1 /\ (\A i \in 1 .. 1 : f[i] = g1[i]) => f = g1
        BY SeqEqual
      <4> DEFINE f == SubSeq(s, h + 4, h + 4)
                 t == <<P>>
      <4> HIDE DEF f, t
      <4>5. f \in Seq(Byte) /\ Len(f) = 1 /\ t \in Seq(Byte) /\ Len(t) = 1 /\ \A i \in 1 .. 1 : f[i] = t[i]
        BY <3>3, <4>2, <4>3 DEF f, t
      <4>6. f = t
        BY <4>4, <4>5
      <4> QED BY <4>6 DEF f, t
    <3>8. CASE script[n] = "other"
      <4>1. s[h + 3] # 3
        BY <3>1, <3>3, <3>8
      <4> QED BY <2>9, <3>2, <3>6, <3>7, <3>8, <4>1 DEF s, P
    <3>9. CASE script[n] # "other"
      BY <3>1, <3>3, <3>6, <3>9 DEF s
    <3> QED BY <3>8, <3>9
  <2> QED BY <2>1, <2>8, <2>9
<1> QED BY <1>6, <1>7

\* With nothing left in the buffer the reader is at the end of a line.
LEMMA AtLineEnd ==
    ASSUME Scripted, NEW m \in 0 .. Lines, NEW r \in 0 .. Lines, NEW i \in Nat, m <= r,
           i = 0 \/ (m < r /\ i < Len(Line(m + 1))), End(m) + i = End(r)
    PROVE  m = r /\ i = 0
<1>1. End(m) \in Nat /\ End(r) \in Nat
  BY StreamIs
<1>2. ASSUME m < r PROVE FALSE
  <2>1. m + 1 \in 1 .. Lines /\ m + 1 \in 0 .. Lines /\ (m + 1) - 1 = m
    BY <1>2
  <2>2. /\ End(m) + 2 <= End(r) /\ End(m + 1) = End(m) + Len(Line(m + 1)) /\ End(m + 1) \in Nat
        /\ m + 1 < r => End(m + 1) + 2 <= End(r)
    BY <1>2, <2>1, StreamIs
  <2>3. Len(Line(m + 1)) \in Nat
    BY <2>1, LineIs
  <2>4. End(m + 1) <= End(r)
    BY <1>1, <1>2, <2>2
  <2> QED BY <1>1, <2>2, <2>3, <2>4
<1> QED BY <1>1, <1>2

\* Otherwise the next byte is the next of a line, and the last one left ends it.
LEMMA NextByte ==
    ASSUME Scripted, NEW m \in 0 .. Lines, NEW r \in 0 .. Lines, NEW i \in Nat, m <= r,
           i = 0 \/ (m < r /\ i < Len(Line(m + 1))), NEW u \in Nat \ {0}, End(m) + i + u = End(r)
    PROVE  /\ m < r /\ m + 1 \in 1 .. Lines /\ i + 1 <= Len(Line(m + 1))
           /\ End(m + 1) = End(m) + Len(Line(m + 1))
           /\ Stream[End(m) + i + 1] = Line(m + 1)[i + 1]
           /\ Line(m + 1)[i + 1] = LF <=> i + 1 = Len(Line(m + 1))
           /\ u = 1 => i + 1 = Len(Line(m + 1))
<1>1. End(m) \in Nat /\ End(r) \in Nat
  BY StreamIs
<1>2. m < r
  BY <1>1
<1>3. m + 1 \in 1 .. Lines /\ m + 1 \in 0 .. Lines /\ (m + 1) - 1 = m
  BY <1>2
<1> DEFINE L == Line(m + 1)
           g == Len(Line(m + 1))
           l == Len(Text(m + 1))
<1>4. /\ g \in Nat /\ l \in Nat /\ g = l + 2 /\ L[g - 1] = CR /\ L[g] = LF
      /\ \A k \in 1 .. l : L[k] \in Plain
  BY <1>3, LineIs
<1>5. /\ End(m + 1) = End(m) + g
      /\ \A k \in 1 .. g : Stream[End(m) + k] = L[k]
  BY <1>3, StreamIs
<1>6. End(m + 1) \in Nat /\ (m + 1 < r => End(m + 1) + 2 <= End(r))
  BY <1>3, StreamIs
<1> HIDE DEF g, l, L
<1>7. i + 1 \in 1 .. g
  <2>1. i = 0 \/ i < g
    BY DEF g
  <2> QED BY <1>4, <2>1
<1>8. Stream[End(m) + (i + 1)] = L[i + 1] /\ End(m) + (i + 1) = End(m) + i + 1
  BY <1>1, <1>5, <1>7
<1>9. L[i + 1] = LF <=> i + 1 = g
  <2>1. LF \notin Plain /\ LF # CR
    BY DEF Plain, LF, CR
  <2>2. i + 1 \in 1 .. l \/ i + 1 = g - 1 \/ i + 1 = g
    BY <1>4, <1>7
  <2>3. i + 1 = g - 1 => i + 1 # g
    BY <1>4
  <2>4. i + 1 \in 1 .. l => i + 1 # g
    BY <1>4
  <2> QED BY <1>4, <2>1, <2>2, <2>3, <2>4
<1>10. u = 1 => i + 1 = g
  <2>1. End(m + 1) <= End(r)
    BY <1>1, <1>2, <1>6
  <2> QED BY <1>1, <1>4, <1>5, <1>7, <2>1
<1> QED BY <1>2, <1>3, <1>5, <1>7, <1>8, <1>9, <1>10 DEF g, L

\* After a stale byte if h is 1, the bytes b of a call are those of line L from j + 1 to i.
Part(b, L, i, j, h) ==
    /\ j <= i /\ Len(b) = h + i - j
    /\ \A k \in 1 .. i - j : b[h + k] = L[j + k]
    /\ h = 1 => b[1] \notin {NUL, LF}

\* A byte x of line L is added to the bytes b of a call.
LEMMA OneMore ==
    ASSUME NEW b \in Seq(Byte), NEW L, NEW i \in Nat, NEW j \in Nat, NEW h \in {0, 1},
           NEW x \in Byte, x = L[i + 1], Part(b, L, i, j, h)
    PROVE  Append(b, x) \in Seq(Byte) /\ Part(Append(b, x), L, i + 1, j, h)
<1> USE DEF Part
<1> DEFINE d == Len(b)
<1>1. /\ Append(b, x) \in Seq(Byte) /\ Len(Append(b, x)) = d + 1 /\ d \in Nat
      /\ \A k \in 1 .. d : Append(b, x)[k] = b[k]
      /\ Append(b, x)[d + 1] = x
  BY AppendProperties
<1>2. d = h + i - j /\ h \in Nat
  OBVIOUS
<1> HIDE DEF d
<1>3. d + 1 = h + (i + 1) - j /\ (h = 1 => 1 \in 1 .. d)
  BY <1>1, <1>2
<1>4. ASSUME NEW k \in 1 .. (i + 1) - j PROVE Append(b, x)[h + k] = L[j + k]
  <2>1. CASE k = i + 1 - j
    <3>1. h + k = d + 1 /\ j + k = i + 1
      BY <1>2, <2>1
    <3> QED BY <1>1, <3>1
  <2>2. CASE k # i + 1 - j
    <3>1. k \in 1 .. i - j
      BY <2>2
    <3>2. h + k \in 1 .. d
      BY <1>2, <3>1
    <3> QED BY <1>1, <3>1, <3>2
  <2> QED BY <2>1, <2>2
<1>5. h = 1 => Append(b, x)[1] \notin {NUL, LF}
  BY <1>1, <1>3
<1>6. j <= i + 1 /\ Len(Append(b, x)) = h + (i + 1) - j
  BY <1>1, <1>3
<1> QED BY <1>1, <1>4, <1>5, <1>6

\* The byte at p, before the last of line m + 1, and the c - 1 after it are those of
\* the stream up to the end of line r.
Within(b, p, c, m, r, i) ==
    /\ m < r /\ i + 1 < Len(Line(m + 1)) /\ End(m) + i + c = End(r)
    /\ p \in Nat /\ c \in Nat \ {0, 1}
    /\ b[p] = Line(m + 1)[i + 1] /\ b[p] \in Byte \ {LF}
    /\ \A t \in 1 .. c - 1 : b[p + t] = Stream[End(m) + i + 1 + t]

LEMMA TakeWithin ==
    ASSUME TypeOK, UNCHANGED <<script, stops>>, pc = "read",
           NEW m \in 0 .. Lines, NEW r \in 0 .. Lines, NEW i \in Nat, NEW j \in Nat,
           NEW h \in {0, 1}, NEW b, NEW p, NEW c,
           Within(b, p, c, m, r, i), Take(b, p, c), Collected(m, i, j, h),
           Came(m, r)'
    PROVE  Position(m, r, i + 1)' /\ Collected(m, i + 1, j, h)'
<1> USE DEF Within
<1>1. /\ Stream' = Stream /\ \A n \in 0 .. Lines : End(n)' = End(n)
      /\ \A n : Line(n)' = Line(n)
  BY StreamStays
<1>2. End(m) \in Nat /\ End(r) \in Nat
  BY StreamIs DEF TypeOK, Scripted
<1>3. /\ read_buf' = b /\ buf' = Append(buf, b[p]) /\ buf_pointer' = p + 1 /\ cnt' = c
      /\ pc' = "read"
  BY DEF Take
<1>4. Position(m, r, i + 1)'
  <2> DEFINE E == End(m)
             F == End(r)
  <2>1. End(m)' + (i + 1) + Unread' = End(r)'
    <3>1. E \in Nat /\ F \in Nat /\ E + i + c = F /\ Unread' = c - 1
      BY <1>2, <1>3 DEF Unread
    <3> HIDE DEF E, F
    <3>2. E + (i + 1) + (c - 1) = F
      <4>1. c \in Nat
        OBVIOUS
      <4> HIDE DEF Within
      <4> QED BY <3>1, <4>1
    <3> QED BY <1>1, <3>1, <3>2 DEF E, F
  <2>2. \A t \in 0 .. c - 2 : b[(p + 1) + t] = Stream[End(m) + (i + 1) + 1 + t]
    <3> SUFFICES ASSUME NEW t \in 0 .. c - 2
                 PROVE  b[(p + 1) + t] = Stream[End(m) + (i + 1) + 1 + t]
      OBVIOUS
    <3>1. t + 1 \in 1 .. c - 1 /\ (p + 1) + t = p + (t + 1)
      OBVIOUS
    <3>2. End(m) + i + 1 + (t + 1) = End(m) + (i + 1) + 1 + t
      <4>1. \A x \in Nat : x + i + 1 + (t + 1) = x + (i + 1) + 1 + t
        OBVIOUS
      <4> QED BY <1>2, <4>1
    <3>3. b[p + (t + 1)] = Stream[End(m) + i + 1 + (t + 1)]
      BY <3>1
    <3> QED BY <3>1, <3>2, <3>3
  <2>4. i + 1 < Len(Line(m + 1))'
    BY <1>1
  <2>5. \A t \in 0 .. cnt' - 2 : read_buf'[buf_pointer' + t] = Stream'[End(m)' + (i + 1) + 1 + t]
    BY <1>1, <1>3, <2>2
  <2>6. m <= r /\ cnt' # 1
    BY <1>3
  <2> QED BY <2>1, <2>4, <2>5, <2>6 DEF Position
<1>5. Collected(m, i + 1, j, h)'
  <2>1. /\ j <= i /\ (j > 0 /\ stops = 0 => script[m + 1] = "long") /\ Len(buf) = h + i - j
        /\ \A k \in 1 .. i - j : buf[h + k] = Line(m + 1)[j + k]
        /\ h = 1 => j = 0 /\ buf[1] \notin {NUL, LF}
    BY DEF Collected
  <2>2. b[p] \in Byte /\ b[p] = Line(m + 1)[i + 1] /\ buf \in Seq(Byte)
    BY DEF TypeOK
  <2> HIDE DEF Within
  <2>5. Part(buf, Line(m + 1), i, j, h)
    BY <2>1 DEF Part
  <2>6. Part(buf', Line(m + 1), i + 1, j, h)
    <3> DEFINE L == Line(m + 1)
               x == b[p]
    <3>1. x \in Byte /\ x = L[i + 1] /\ Part(buf, L, i, j, h)
      BY <2>2, <2>5
    <3> HIDE DEF L, x
    <3>2. Part(Append(buf, x), L, i + 1, j, h)
      BY <2>2, <3>1, OneMore
    <3> QED BY <1>3, <3>2 DEF L, x
  <2>3. /\ Len(buf') = h + (i + 1) - j /\ (h = 1 => buf'[1] \notin {NUL, LF})
        /\ \A k \in 1 .. (i + 1) - j : buf'[h + k] = Line(m + 1)[j + k]
    BY <2>6 DEF Part
  <2>4. j <= i + 1 /\ cnt' # 1
    BY <1>3, <2>1 DEF Within
  <2> QED BY <1>1, <1>3, <2>1, <2>3, <2>4 DEF Collected
<1> QED BY <1>4, <1>5

\* The last byte of line m + 1 is taken, and the line handed over or dropped.
LEMMA TakeLineEnd ==
    ASSUME TypeOK, pc = "read", cnt >= 2, Take(read_buf, buf_pointer, cnt - 1),
           UNCHANGED <<script, off, received, stops, api>>,
           NEW m \in 0 .. Lines, NEW r \in 0 .. Lines, NEW i \in Nat, NEW j \in Nat,
           NEW h \in {0, 1}, m < r, i + 1 = Len(Line(m + 1)), read_buf[buf_pointer] = LF,
           End(m + 1) = End(m) + Len(Line(m + 1)),
           Position(m, r, i), Collected(m, i, j, h), Delivered(m)
    PROVE  Position(m + 1, r, 0)' /\ Collected(m + 1, 0, 0, 0)' /\ Delivered(m + 1)'
<1>1. /\ Stream' = Stream /\ \A n \in 0 .. Lines : End(n)' = End(n)
      /\ \A n : Line(n)' = Line(n)
  BY StreamStays
<1> DEFINE E == End(m)
           F == End(r)
           N == End(Lines)
           c == cnt - 1
           p == buf_pointer
<1>2. /\ E \in Nat /\ F \in Nat /\ N \in Nat /\ F <= N /\ End(m + 1) = E + (i + 1)
      /\ \A k \in 1 .. N : Stream[k] # NUL
  <2>1. /\ E \in Nat /\ F \in Nat /\ N \in Nat /\ Len(Stream) = N /\ Stream \in Seq(Byte \ {NUL})
        /\ r < Lines => F + 2 <= N
    <3>1. Scripted /\ Lines \in 0 .. Lines
      BY DEF TypeOK, Scripted
    <3> QED BY <3>1, StreamIs
  <2>2. F <= N
    <3>1. r = Lines \/ r < Lines
      OBVIOUS
    <3>2. r = Lines => F = N
      OBVIOUS
    <3> HIDE DEF F, N
    <3> QED BY <2>1, <3>1, <3>2
  <2>3. \A k \in 1 .. N : Stream[k] \in Byte \ {NUL}
    <3>1. \A k \in 1 .. Len(Stream) : Stream[k] \in Byte \ {NUL}
      BY <2>1, ElementOfSeq
    <3> QED BY <2>1, <3>1
  <2> QED BY <2>1, <2>2, <2>3
<1>3. c \in Nat /\ c >= 1 /\ p \in Nat /\ cnt = c + 1
  BY DEF TypeOK
<1>4. /\ E + i + c = F
      /\ \A t \in 0 .. c - 1 : read_buf[p + t] = Stream[E + i + 1 + t]
  <2>1. E + i + Unread = F /\ Unread = c /\ cnt - 2 = c - 1
    BY <1>3 DEF Position, Unread
  <2> QED BY <2>1 DEF Position
<1>5. PICK skip \in 0 .. c :
         /\ \A k \in 1 .. skip : read_buf[p + k] = NUL
         /\ skip < c => read_buf[p + skip + 1] # NUL
         /\ buf_pointer' = p + 1 + skip /\ cnt' = c - skip
  BY DEF Take
<1>6. read_buf' = read_buf /\ buf' = Append(buf, LF) /\ pc' # "read"
  BY DEF Take
<1> HIDE DEF E, F, N, c, p
<1>7. c >= 2 => skip = 0
  <2>1. ASSUME c >= 2, skip >= 1 PROVE FALSE
    <3>1. read_buf[p + 1] = NUL
      BY <1>3, <1>5, <2>1
    <3>2. read_buf[p + 1] = Stream[E + i + 1 + 1] /\ E + i + 1 + 1 \in 1 .. N
      <4>1. 1 \in 0 .. c - 1 /\ E + i + 1 + 1 <= E + i + c
        BY <1>2, <1>3, <2>1
      <4>2. E + i + 1 + 1 \in Nat /\ E + i + 1 + 1 <= N
        BY <1>2, <1>4, <4>1
      <4> QED BY <1>2, <1>4, <4>1, <4>2
    <3> QED BY <1>2, <3>1, <3>2
  <2> QED BY <1>3, <2>1
<1>8. Position(m + 1, r, 0)'
  <2>1. E + (i + 1) + 0 + Unread' = F
    <3>1. c >= 2 => cnt' = c /\ Unread' = c - 1
      BY <1>3, <1>5, <1>7 DEF Unread
    <3>2. c = 1 => Unread' = 0
      BY <1>5 DEF Unread
    <3>3. c = 1 \/ c >= 2
      BY <1>3
    <3>4. Unread' = c - 1
      BY <3>1, <3>2, <3>3
    <3>5. E + (i + 1) + 0 + (c - 1) = F
      <4>1. \A x, y, z \in Nat : x + (y + 1) + 0 + (z - 1) = x + y + z
        OBVIOUS
      <4>2. E \in Nat /\ i \in Nat /\ c \in Nat /\ E + i + c = F
        BY <1>2, <1>3, <1>4
      <4> QED BY <4>1, <4>2
    <3> QED BY <3>4, <3>5
  <2>2. ASSUME NEW t \in 0 .. cnt' - 2
        PROVE  read_buf[buf_pointer' + t] = Stream[E + (i + 1) + 0 + 1 + t]
    <3>1. c >= 2 /\ skip = 0
      BY <1>3, <1>5, <1>7
    <3>2. t + 1 \in 0 .. c - 1 /\ buf_pointer' + t = p + (t + 1)
      BY <1>3, <1>5, <3>1
    <3>3. E + i + 1 + (t + 1) = E + (i + 1) + 0 + 1 + t
      BY <1>2
    <3>4. read_buf[p + (t + 1)] = Stream[E + i + 1 + (t + 1)]
      BY <1>4, <3>2
    <3> QED BY <3>2, <3>3, <3>4
  <2>3. cnt' = 1 => read_buf[buf_pointer'] # NUL
    <3>1. cnt' = 1 => skip < c /\ buf_pointer' = p + skip + 1
      BY <1>3, <1>5
    <3> QED BY <1>5, <3>1
  <2>4. Came(m, r)
    BY DEF Position
  <2>5. m + 1 \in 0 .. Lines /\ m + 1 <= r /\ (m + 1) + 1 .. r \subseteq m + 1 .. r
    OBVIOUS
  <2>6. End(m + 1)' = E + (i + 1) /\ End(r)' = F
    BY <1>1, <1>2, <2>5 DEF F
  <2>7. End(m + 1)' + 0 + Unread' = End(r)'
    BY <2>1, <2>6
  <2>8. \A t \in 0 .. cnt' - 2 : read_buf'[buf_pointer' + t] = Stream'[End(m + 1)' + 0 + 1 + t]
    BY <1>1, <1>6, <2>2, <2>6
  <2>9. cnt' = 1 => read_buf'[buf_pointer'] # NUL
    BY <1>6, <2>3
  <2>10. Came(m + 1, r)'
    BY <1>1, <2>4, <2>5 DEF Came
  <2> QED BY <2>5, <2>7, <2>8, <2>9, <2>10 DEF Position
<1>9. Collected(m + 1, 0, 0, 0)'
  BY <1>6 DEF Collected
<1>10. Delivered(m + 1)'
  <2> SUFFICES ASSUME api = "cache" PROVE Delivered(m + 1)'
    BY DEF Delivered
  <2> DEFINE n == m + 1
             b == buf'
  <2>1. n \in 1 .. Lines /\ n \in received /\ Scripted
    <3>1. m + 1 .. r \subseteq received /\ Scripted
      BY DEF Position, Came, TypeOK, Scripted
    <3>2. m + 1 \in m + 1 .. r /\ m + 1 \in 1 .. Lines
      OBVIOUS
    <3> QED BY <3>1, <3>2
  <2>2. /\ j <= i /\ (j > 0 /\ stops = 0 => script[n] = "long") /\ Len(buf) = h + i - j
        /\ \A k \in 1 .. i - j : buf[h + k] = Line(n)[j + k]
        /\ h = 1 => j = 0 /\ buf[1] \notin {NUL, LF}
    BY DEF Collected
  <2>3. CacheLine(AsString(b)) = IF j = 0 /\ script[n] = "other" THEN <<<<Payload(n)>>>> ELSE <<>>
    <3>1. LF \in Byte /\ buf \in Seq(Byte) /\ Line(n)[i + 1] = LF
      BY <2>1, LineIs DEF TypeOK, Byte
    <3>2. /\ b \in Seq(Byte) /\ Len(b) = h + (i + 1) - j /\ (h = 1 => b[1] \notin {NUL, LF})
          /\ \A k \in 1 .. (i + 1) - j : b[h + k] = Line(n)[j + k]
      <4> DEFINE L == Line(n)
                 x == LF
      <4>1. x \in Byte /\ x = L[i + 1] /\ Part(buf, L, i, j, h)
        BY <2>2, <3>1 DEF Part
      <4> HIDE DEF L, x
      <4>2. Append(buf, x) \in Seq(Byte) /\ Part(Append(buf, x), L, i + 1, j, h)
        BY <3>1, <4>1, OneMore
      <4>3. b = Append(buf, x)
        BY <1>6 DEF x
      <4> HIDE DEF b
      <4> QED BY <4>2, <4>3 DEF L, Part
    <3>3. /\ j < Len(Line(n)) /\ Len(b) = h + Len(Line(n)) - j
          /\ \A k \in 1 .. Len(Line(n)) - j : b[h + k] = Line(n)[j + k]
      <4>1. j < i + 1
        BY <2>2
      <4> QED BY <3>2, <4>1
    <3>4. h = 1 => j = 0 /\ b[1] \notin {NUL, LF}
      BY <2>2, <3>2
    <3> HIDE DEF n, b
    <3> QED BY <2>1, <3>2, <3>3, <3>4, CacheLineOf
  <2>4. got' = got \o CacheLine(AsString(b)) /\ got \in Seq(Seq(Byte))
    BY DEF Take, TypeOK
  <2> DEFINE G(k, x) == \E y \in received : y <= x /\ script[y] = "other" /\ got[k] = <<Payload(y)>>
             q == Len(got)
  <2>5. /\ \A k \in 1 .. q : G(k, m)
        /\ \A k, l \in 1 .. q : k < l => got[k][1] < got[l][1]
        /\ stops = 0 => \A y \in received : y <= m /\ script[y] = "other" =>
                            \E k \in 1 .. q : got[k] = <<Payload(y)>>
    BY DEF Delivered
  <2>6. \A y \in received : y \in Nat
    BY DEF TypeOK
  <2>7. \A y \in Nat : (y <= m => y <= n /\ 100 + y < 100 + n) /\ (y <= n => y <= m \/ y = n)
    OBVIOUS
  <2>8. CASE j = 0 /\ script[n] = "other"
    <3> DEFINE P == Payload(n)
    <3>1. got' = got \o <<<<P>>>>
      BY <2>3, <2>4, <2>8
    <3>2. /\ Len(got') = q + 1 /\ q \in Nat /\ (\A k \in 1 .. q : got'[k] = got[k])
          /\ got'[q + 1] = <<P>>
      <4>1. <<P>> \in Seq({P}) /\ <<<<P>>>> \in Seq(Seq({P})) /\ Len(<<<<P>>>>) = 1 /\ <<<<P>>>>[1] = <<P>>
        OBVIOUS
      <4>2. got \in Seq(Seq(Byte \cup {P})) /\ <<<<P>>>> \in Seq(Seq(Byte \cup {P}))
        BY <2>4, <4>1
      <4> QED BY <3>1, <4>1, <4>2, ConcatProperties
    <3> HIDE DEF P, q
    <3>3. ASSUME NEW k \in 1 .. q + 1
          PROVE  \E y \in received : y <= n /\ script[y] = "other" /\ got'[k] = <<Payload(y)>>
      <4>1. CASE k = q + 1
        BY <2>1, <2>8, <3>2, <4>1 DEF P
      <4>2. CASE k # q + 1
        <5>1. k \in 1 .. q
          <6>1. \A x \in Nat : \A y \in 1 .. x + 1 : y # x + 1 => y \in 1 .. x
            OBVIOUS
          <6> QED BY <3>2, <4>2, <6>1
        <5>2. PICK y \in received : y <= m /\ script[y] = "other" /\ got[k] = <<Payload(y)>>
          BY <2>5, <5>1
        <5>3. y <= n
          BY <2>6, <2>7, <5>2
        <5>4. got'[k] = got[k]
          BY <3>2, <5>1
        <5> QED BY <5>2, <5>3, <5>4
      <4> QED BY <4>1, <4>2
    <3>4. ASSUME NEW k \in 1 .. q + 1, NEW l \in 1 .. q + 1, k < l
          PROVE  got'[k][1] < got'[l][1]
      <4>1. k \in 1 .. q
        BY <3>2, <3>4
      <4>2. CASE l = q + 1
        <5>1. PICK y \in received : y <= m /\ got[k] = <<Payload(y)>>
          BY <2>5, <4>1
        <5>2. got'[k][1] = 100 + y /\ got'[l][1] = 100 + n
          BY <3>2, <4>1, <4>2, <5>1 DEF P, Payload
        <5>3. 100 + y < 100 + n
          BY <2>6, <2>7, <5>1
        <5> QED BY <5>2, <5>3
      <4>3. CASE l # q + 1
        <5>1. l \in 1 .. q
          <6>1. \A x \in Nat : \A y \in 1 .. x + 1 : y # x + 1 => y \in 1 .. x
            OBVIOUS
          <6> QED BY <3>2, <4>3, <6>1
        <5> QED BY <2>5, <3>2, <3>4, <4>1, <5>1
      <4> QED BY <4>2, <4>3
    <3>5. ASSUME stops = 0, NEW y \in received, y <= n, script[y] = "other"
          PROVE  \E k \in 1 .. q + 1 : got'[k] = <<Payload(y)>>
      <4>1. CASE y = n
        <5>1. q + 1 \in 1 .. q + 1
          BY <3>2
        <5> QED BY <3>2, <4>1, <5>1 DEF P
      <4>2. CASE y <= m
        <5>1. PICK k \in 1 .. q : got[k] = <<Payload(y)>>
          BY <2>5, <3>5, <4>2
        <5>2. k \in 1 .. q + 1
          BY <3>2
        <5> QED BY <3>2, <5>1, <5>2
      <4> QED BY <2>6, <2>7, <3>5, <4>1, <4>2
    <3> QED BY <3>2, <3>3, <3>4, <3>5 DEF Delivered
  <2>9. CASE ~(j = 0 /\ script[n] = "other")
    <3>1. got' = got
      BY <2>3, <2>4, <2>9, ConcatEmptySeq
    <3>2. stops = 0 => script[n] # "other"
      BY <2>2, <2>9
    <3>3. \A k \in 1 .. q : G(k, n)
      BY <2>5, <2>6, <2>7
    <3>4. stops = 0 => \A y \in received : y <= n /\ script[y] = "other" =>
                           \E k \in 1 .. q : got[k] = <<Payload(y)>>
      BY <2>5, <2>6, <2>7, <3>2
    <3> QED BY <2>5, <3>1, <3>3, <3>4 DEF Delivered
  <2> QED BY <2>8, <2>9
<1> QED BY <1>8, <1>9, <1>10

\* A byte is taken from the buffer: of the stream, or the stale one.
LEMMA TrackedRead ==
    ASSUME TypeOK, read_buffered, stops = 0 => allow_watching,
           NEW m \in 0 .. Lines, NEW r \in 0 .. Lines, NEW i \in Nat, NEW j \in Nat,
           NEW h \in {0, 1}, Position(m, r, i), Collected(m, i, j, h), Delivered(m)
    PROVE  Tracked'
<1>1. /\ pc = "read" /\ cnt > 0 /\ Take(read_buf, buf_pointer, cnt - 1)
      /\ UNCHANGED <<script, off, received, allow_watching, stops, api>>
  BY DEF read_buffered, streamVars, flagVars
<1>2. /\ m <= r /\ (i = 0 \/ (m < r /\ i < Len(Line(m + 1))))
      /\ End(m) + i + Unread = End(r) /\ Scripted /\ cnt \in Nat /\ buf_pointer \in Nat
  BY DEF Position, TypeOK, Scripted
<1>3. stops' = 0 => allow_watching'
  BY <1>1
<1>4. CASE cnt = 1
  <2>1. m = r /\ i = 0
    <3>1. End(m) + i = End(r)
      <4>1. Unread = 0 /\ End(m) \in Nat
        BY <1>2, <1>4, StreamIs DEF Unread
      <4> QED BY <1>2, <4>1
    <3> QED BY <1>2, <3>1, AtLineEnd
  <2>2. j = 0 /\ h = 0 /\ Len(buf) = 0
    BY <1>1, <1>4, <2>1 DEF Collected
  <2> DEFINE x == read_buf[buf_pointer]
  <2>3. x # NUL /\ buf' = Append(buf, x) /\ buf = <<>>
    BY <1>1, <1>4, <2>2 DEF Position, Take, TypeOK
  <2>4. buf' = <<x>>
    BY <2>3
  <2>5. cnt' = 0
    <3> DEFINE c == cnt - 1
    <3>1. c = 0 /\ Take(read_buf, buf_pointer, c)
      BY <1>1, <1>2, <1>4
    <3> HIDE DEF c
    <3>2. PICK skip \in 0 .. c : cnt' = c - skip
      BY <3>1 DEF Take
    <3>3. skip = 0
      BY <3>1
    <3> QED BY <3>1, <3>2, <3>3
  <2>6. Position(m, r, 0)'
    <3>1. /\ \A n \in 0 .. Lines : End(n)' = End(n)
          /\ Came(m, r)
      BY <1>1, StreamStays DEF Position
    <3>4. Came(m, r)'
      BY <1>1, <3>1 DEF Came
    <3>2. Unread' = 0 /\ End(m) + 0 + 0 = End(r)
      BY <1>2, <2>1, <2>5, StreamIs DEF Unread
    <3>3. 0 .. cnt' - 2 = {}
      BY <2>5
    <3> QED BY <1>2, <2>5, <3>1, <3>2, <3>3, <3>4 DEF Position
  <2>7. CASE x # LF
    <3>1. pc' = "read" /\ UNCHANGED got
      BY <1>1, <2>7 DEF Take
    <3>2. Collected(m, 0, 0, 1)'
      <4>1. Len(buf') = 1 /\ buf'[1] = x
        BY <2>4
      <4> QED BY <2>3, <2>5, <2>7, <3>1, <4>1 DEF Collected
    <3>3. Delivered(m)'
      BY <1>1, <3>1 DEF Delivered
    <3> QED BY <1>3, <2>6, <3>2, <3>3 DEF Tracked
  <2>8. CASE x = LF
    <3>1. pc' # "read"
      BY <1>1, <2>8 DEF Take
    <3>2. Collected(m, 0, 0, 0)'
      BY <3>1 DEF Collected
    <3>3. api = "cache" => got' = got
      <4>1. buf' \in Seq(Byte) /\ Len(buf') = 1 /\ buf'[1] = LF
        BY <2>4, <2>8 DEF Byte
      <4>2. AsString(buf') = buf'
        <5>1. \A k \in 1 .. 1 : buf'[k] # NUL
          BY <4>1 DEF LF, NUL
        <5>2. ~(1 > 1)
          OBVIOUS
        <5> QED BY <4>1, <5>1, <5>2 DEF AsString
      <4>3. CacheLine(buf') = <<>>
        BY <4>1, NoMark
      <4>4. api = "cache" => got' = got \o <<>>
        BY <1>1, <2>8, <4>2, <4>3 DEF Take
      <4> QED BY <4>4, ConcatEmptySeq DEF TypeOK
    <3>4. Delivered(m)'
      BY <1>1, <3>3 DEF Delivered
    <3> QED BY <1>3, <2>6, <3>2, <3>4 DEF Tracked
  <2> QED BY <2>7, <2>8
<1>5. CASE cnt # 1
  <2> DEFINE c == cnt - 1
  <2>1. cnt >= 2 /\ c \in Nat \ {0} /\ Unread = c
    BY <1>1, <1>2, <1>5 DEF Unread
  <2>2. End(m) + i + c = End(r)
    BY <1>2, <2>1
  <2>3. /\ m < r /\ m + 1 \in 1 .. Lines /\ i + 1 <= Len(Line(m + 1))
        /\ End(m + 1) = End(m) + Len(Line(m + 1))
        /\ Stream[End(m) + i + 1] = Line(m + 1)[i + 1]
        /\ Line(m + 1)[i + 1] = LF <=> i + 1 = Len(Line(m + 1))
        /\ c = 1 => i + 1 = Len(Line(m + 1))
    <3> HIDE DEF c
    <3> QED BY <1>2, <2>1, <2>2, NextByte
  <2>4. \A t \in 0 .. c - 1 : read_buf[buf_pointer + t] = Stream[End(m) + i + 1 + t]
    <3>1. cnt - 2 = c - 1
      BY <1>2
    <3> QED BY <3>1 DEF Position
  <2>5. read_buf[buf_pointer] = Line(m + 1)[i + 1]
    <3>1. read_buf[buf_pointer + 0] = Stream[End(m) + i + 1 + 0]
      <4>1. \A k \in Nat \ {0} : 0 \in 0 .. k - 1
        OBVIOUS
      <4> HIDE DEF c
      <4> QED BY <2>1, <2>4, <4>1
    <3>2. buf_pointer + 0 = buf_pointer /\ End(m) + i + 1 + 0 = End(m) + i + 1
      BY <1>2, StreamIs
    <3> QED BY <2>3, <3>1, <3>2
  <2>6. CASE i + 1 = Len(Line(m + 1))
    <3>1. Position(m + 1, r, 0)' /\ Collected(m + 1, 0, 0, 0)' /\ Delivered(m + 1)'
      BY <1>1, <2>1, <2>3, <2>5, <2>6, TakeLineEnd
    <3> QED BY <1>3, <2>3, <3>1 DEF Tracked
  <2>7. CASE i + 1 # Len(Line(m + 1))
    <3>1. Len(Line(m + 1)) \in Nat /\ Line(m + 1) \in Seq(Byte \ {NUL})
      BY <1>2, <2>3, LineIs
    <3>2. i + 1 < Len(Line(m + 1)) /\ Line(m + 1)[i + 1] \in Byte
      BY <2>3, <2>7, <3>1
    <3>3. read_buf[buf_pointer] # LF /\ c # 1
      BY <2>3, <2>5, <2>7
    <3>4. Within(read_buf, buf_pointer, c, m, r, i)
      <4>1. \A t \in 1 .. c - 1 : read_buf[buf_pointer + t] = Stream[End(m) + i + 1 + t]
        BY <2>1, <2>4
      <4> HIDE DEF c
      <4> QED BY <1>2, <2>1, <2>2, <2>3, <2>5, <3>2, <3>3, <4>1 DEF Within
    <3>5. Came(m, r)'
      BY <1>1, StreamStays DEF Position, Came
    <3>6. Take(read_buf, buf_pointer, c) /\ UNCHANGED <<script, stops>> /\ pc = "read"
      BY <1>1
    <3>7. Position(m, r, i + 1)' /\ Collected(m, i + 1, j, h)'
      <4> HIDE DEF c
      <4> QED BY <3>4, <3>5, <3>6, TakeWithin
    <3>8. got' = got
      BY <1>1, <3>3 DEF Take
    <3>9. Delivered(m)'
      BY <1>1, <3>8 DEF Delivered
    <3>10. i + 1 \in Nat
      OBVIOUS
    <3> QED BY <1>3, <3>7, <3>9, <3>10 DEF Tracked
  <2> QED BY <2>6, <2>7
<1> QED BY <1>4, <1>5

\* The buffer is filled up to the end of a line, from the line after those that
\* came in or were lost before.
LEMMA TrackedRefill ==
    ASSUME ~split', TypeOK, refill, stops = 0 => allow_watching,
           NEW m \in 0 .. Lines, NEW r \in 0 .. Lines, NEW i \in Nat, NEW j \in Nat,
           NEW h \in {0, 1}, Position(m, r, i), Collected(m, i, j, h), Delivered(m)
    PROVE  Tracked'
<1>1. /\ pc = "read" /\ cnt = 0 /\ Scripted /\ off \in Nat
      /\ UNCHANGED <<script, allow_watching, stops, api>>
  BY DEF refill, flagVars, TypeOK, Scripted
<1>2. PICK e \in off + 1 .. Len(Stream), beyond \in Byte :
         recv(e) /\ Take(Filled(e, beyond), 0, e - off)
  BY DEF refill
<1>3. PICK f \in r .. Lines : off = End(f)
  BY DEF Position, Came
<1>4. PICK n \in 1 .. Lines : e = End(n)
  <2>1. split' = (split \/ Stream[e] # LF) /\ e \in 1 .. Len(Stream)
    BY <1>1, <1>2 DEF recv
  <2>2. Stream[e] = LF
    BY <2>1
  <2> QED BY <1>1, <2>1, <2>2, LineEnds
<1>5. f \in 0 .. Lines /\ n \in 0 .. Lines /\ f <= n /\ f < n /\ e \in Nat /\ off < e
  <2>1. off < e /\ e \in Nat
    BY <1>1, <1>2
  <2>2. n < f => End(n) + 2 <= End(f)
    BY <1>1, StreamIs
  <2>3. n < f => e + 2 <= off
    BY <1>3, <1>4, <2>2
  <2>4. n # f
    BY <1>3, <1>4, <2>1
  <2> QED BY <1>1, <2>1, <2>3, <2>4
<1> DEFINE b == Filled(e, beyond)
           c == e - off
<1>6. m = r /\ i = 0 /\ j = 0 /\ received \subseteq 1 .. r
  <2>1. /\ m <= r /\ (i = 0 \/ (m < r /\ i < Len(Line(m + 1))))
        /\ End(m) + i + Unread = End(r) /\ received \subseteq 1 .. r /\ j <= i
    BY DEF Position, Came, Collected
  <2>2. End(m) + i = End(r)
    <3>1. Unread = 0 /\ End(m) \in Nat
      BY <1>1, StreamIs DEF Unread
    <3> QED BY <2>1, <3>1
  <2>3. m = r /\ i = 0
    BY <1>1, <2>1, <2>2, AtLineEnd
  <2> QED BY <2>1, <2>3
<1>7. c \in Nat \ {0} /\ c <= BufSize /\ End(f) + i + c = End(n)
  <2>1. c \in Nat \ {0} /\ off + i + c = e
    BY <1>1, <1>5, <1>6
  <2>2. c <= BufSize
    BY <1>2 DEF recv
  <2> QED BY <1>3, <1>4, <2>1, <2>2
<1>8. ASSUME NEW k \in 0 .. c - 1 PROVE b[k] = Stream[off + 1 + k]
  <2> DEFINE bytes == SubSeq(Stream, off + 1, e)
  <2>1. k \in 0 .. BufSize /\ k < c /\ k # BufSize
    BY <1>7
  <2>2. b[k] = bytes[k + 1]
    BY <2>1 DEF Filled
  <2>3. \A x \in off + 1 .. e : Stream[x] \in Byte
    <3>1. Stream \in Seq(Byte \ {NUL})
      BY <1>1, StreamIs
    <3> QED BY <1>1, <1>2, <3>1
  <2>4. \A x \in 1 .. e - (off + 1) + 1 : bytes[x] = Stream[off + 1 + x - 1]
    BY <1>1, <1>5, <2>3, SubSeqProperties
  <2>5. k + 1 \in 1 .. e - (off + 1) + 1 /\ off + 1 + (k + 1) - 1 = off + 1 + k
    BY <1>1, <1>5
  <2> HIDE DEF bytes, b
  <2> QED BY <2>2, <2>4, <2>5
<1> HIDE DEF c, b
<1>9. /\ f + 1 \in 1 .. Lines /\ Stream[End(f) + i + 1] = Line(f + 1)[i + 1]
      /\ Line(f + 1)[i + 1] = LF <=> i + 1 = Len(Line(f + 1))
      /\ c = 1 => i + 1 = Len(Line(f + 1))
  <2>1. i = 0 \/ (f < n /\ i < Len(Line(f + 1)))
    BY <1>6
  <2>2. f \in 0 .. Lines /\ n \in 0 .. Lines /\ f <= n /\ Scripted
    BY <1>1, <1>5
  <2> QED BY <1>7, <2>1, <2>2, NextByte
<1>10. i + 1 < Len(Line(f + 1)) /\ Line(f + 1)[i + 1] \in Byte
  <2>1. /\ Len(Text(f + 1)) \in Nat /\ Len(Line(f + 1)) = Len(Text(f + 1)) + 2
        /\ Line(f + 1) \in Seq(Byte \ {NUL})
    BY <1>1, <1>9, LineIs
  <2>2. \A l \in Nat : i + 1 < l + 2 /\ i + 1 \in 1 .. l + 2
    BY <1>6
  <2>3. i + 1 < Len(Line(f + 1)) /\ i + 1 \in 1 .. Len(Line(f + 1))
    BY <2>1, <2>2
  <2> QED BY <2>1, <2>3
<1>11. Within(b, 0, c, f, n, i)
  <2>1. i + 1 # Len(Line(f + 1))
    <3>1. \A l : i + 1 < l => i + 1 # l
      OBVIOUS
    <3> QED BY <1>10, <3>1
  <2>2. c # 1 /\ Line(f + 1)[i + 1] # LF
    BY <1>9, <2>1
  <2>3. b[0] = Line(f + 1)[i + 1]
    <3>1. b[0] = Stream[off + 1 + 0]
      BY <1>7, <1>8
    <3>2. off + 1 + 0 = End(f) + i + 1
      BY <1>1, <1>3, <1>6
    <3> QED BY <1>9, <3>1, <3>2
  <2>4. ASSUME NEW t \in 1 .. c - 1 PROVE b[0 + t] = Stream[End(f) + i + 1 + t]
    <3>1. t \in 0 .. c - 1 /\ 0 + t = t /\ End(f) + i + 1 + t = off + 1 + t
      BY <1>1, <1>3, <1>6, <1>7
    <3> QED BY <1>8, <3>1
  <2> QED BY <1>5, <1>7, <1>10, <2>2, <2>3, <2>4 DEF Within
<1>12. Collected(f, i, j, h)
  <2>1. Len(buf) = h + i - j /\ (h = 1 => buf[1] \notin {NUL, LF})
    BY <1>1, <1>6 DEF Collected
  <2> QED BY <1>1, <1>6, <2>1 DEF Collected
<1>13. received' = received \cup f + 1 .. n
  <2>1. received' = received \cup {x \in 1 .. Lines : End(x) \in off + 1 .. e}
    BY <1>2 DEF recv
  <2>2. ASSUME NEW x \in 1 .. Lines PROVE End(x) \in off + 1 .. e <=> x \in f + 1 .. n
    <3> DEFINE X == End(x)
    <3>1. /\ X \in Nat /\ (x < f => X + 2 <= off) /\ (f < x => off + 2 <= X)
          /\ (x < n => X + 2 <= e) /\ (n < x => e + 2 <= X)
      <4>1. x \in 0 .. Lines
        OBVIOUS
      <4> QED BY <1>1, <1>3, <1>4, <1>5, <4>1, StreamIs
    <3>2. (x = f => X = off) /\ (x = n => X = e)
      BY <1>3, <1>4
    <3> HIDE DEF X
    <3>3. X \in off + 1 .. e <=> x \in f + 1 .. n
      BY <1>1, <1>5, <3>1, <3>2
    <3> QED BY <3>3 DEF X
  <2>3. f + 1 .. n \subseteq 1 .. Lines
    BY <1>5
  <2> QED BY <2>1, <2>2, <2>3
<1>14. received' \subseteq 1 .. n /\ f + 1 .. n \subseteq received'
  BY <1>5, <1>6, <1>13
<1>15. \E x \in n .. Lines : off' = End(x)
  BY <1>2, <1>4 DEF recv
<1>20. Came(f, n)'
  BY <1>1, <1>5, <1>14, <1>15, StreamStays DEF Came
<1>16. Position(f, n, i + 1)' /\ Collected(f, i + 1, j, h)'
  <2> DEFINE p == 0
  <2>1. Within(b, p, c, f, n, i) /\ Take(b, p, c) /\ UNCHANGED <<script, stops>> /\ pc = "read"
    BY <1>1, <1>2, <1>11 DEF b, c
  <2>2. f \in 0 .. Lines /\ n \in 0 .. Lines
    BY <1>5
  <2> HIDE DEF p
  <2> QED BY <1>12, <1>20, <2>1, <2>2, TakeWithin
<1>17. Delivered(f)'
  <2>1. got' = got
    <3>1. b[0] # LF /\ Take(b, 0, c)
      BY <1>2, <1>11 DEF Within, b, c
    <3> QED BY <3>1 DEF Take
  <2>2. \A x \in received : x \in received' /\ (x <= m => x <= f)
    BY <1>6, <1>13
  <2>3. \A x \in received' : x <= f => x \in received /\ x <= m
    BY <1>5, <1>6, <1>13
  <2> QED BY <1>1, <2>1, <2>2, <2>3 DEF Delivered
<1>18. stops' = 0 => allow_watching'
  BY <1>1
<1> QED BY <1>5, <1>16, <1>17, <1>18 DEF Tracked

LEMMA TrackedInit == Init => Tracked
<1> SUFFICES ASSUME Init PROVE Tracked
  OBVIOUS
<1>1. Position(0, 0, 0)
  <2>1. Scripted /\ Unread = 0 /\ cnt = 0 /\ off = 0 /\ received = {}
    BY DEF Init, Scripted, Unread
  <2>2. End(0) = 0 /\ 0 \in 0 .. Lines
    BY <2>1, StreamIs
  <2>3. Came(0, 0)
    BY <2>1, <2>2 DEF Came
  <2> QED BY <2>1, <2>2, <2>3 DEF Position
<1>2. Collected(0, 0, 0, 0)
  BY DEF Init, Collected
<1>3. Delivered(0)
  BY DEF Init, Delivered
<1>4. 0 \in 0 .. Lines /\ (stops = 0 => allow_watching)
  BY DEF Init
<1> QED BY <1>1, <1>2, <1>3, <1>4 DEF Tracked

LEMMA TrackedStep ==
    ASSUME ~split', BufLen >= 8, TypeOK, Tracked, [Next]_vars
    PROVE  Tracked'
<1>1. PICK m \in 0 .. Lines, r \in 0 .. Lines, i \in Nat, j \in Nat, h \in {0, 1} :
         Position(m, r, i) /\ Collected(m, i, j, h) /\ Delivered(m)
  BY DEF Tracked
<1>2. (stops = 0 => allow_watching) /\ stops \in Nat
  BY DEF Tracked, TypeOK
<1> USE DEF streamVars, watchVars, flagVars
<1>3. CASE read_buffered
  BY <1>1, <1>2, <1>3, TrackedRead
<1>4. CASE refill
  BY <1>1, <1>2, <1>4, TrackedRefill
<1> DEFINE Others ==
        \/ stop_watching \/ enable_watching \/ call \/ stopped \/ connect \/ connect_fails
        \/ reuse \/ wake \/ timeout \/ give_up \/ recv_fails \/ UNCHANGED vars
<1>5. CASE Others
  <2>1. UNCHANGED <<script, received, read_buf, buf_pointer, cnt, got, api>>
    BY <1>5 DEF stop_watching, enable_watching, call, stopped, connect, connect_fails, reuse,
                wake, timeout, give_up, recv_fails, vars
  <2>2. /\ Stream' = Stream /\ \A n \in 0 .. Lines : End(n)' = End(n)
        /\ \A n : Line(n)' = Line(n)
    BY <2>1, StreamStays
  <2>3. \E f \in r .. Lines : off' = End(f)
    <3>1. PICK f \in r .. Lines : off = End(f)
      BY <1>1 DEF Position, Came
    <3>2. CASE UNCHANGED off
      BY <3>1, <3>2
    <3>3. CASE connect
      <4>1. PICK n \in 0 .. Lines : off' = End(n)
        <5>1. Scripted
          BY DEF TypeOK, Scripted
        <5>2. CASE off' = 0
          BY <5>1, <5>2, StreamIs
        <5>3. CASE off' \in 1 .. Len(Stream) /\ Stream[off'] = LF
          BY <5>1, <5>3, LineEnds
        <5> QED BY <3>3, <5>2, <5>3 DEF connect
      <4>2. off' >= off /\ f \in 0 .. Lines
        BY <3>3 DEF connect
      <4>3. (n < f => End(n) + 2 <= End(f)) /\ End(n) \in Nat /\ End(f) \in Nat
        BY <4>2, StreamIs DEF TypeOK, Scripted
      <4>4. ~(n < f)
        BY <3>1, <4>1, <4>2, <4>3
      <4>5. n \in r .. Lines
        BY <4>2, <4>4
      <4> QED BY <4>1, <4>5
    <3> QED BY <1>5, <3>2, <3>3
          DEF stop_watching, enable_watching, call, stopped, connect_fails, reuse, wake, timeout,
              give_up, recv_fails, vars
  <2>4. Position(m, r, i)'
    <3>1. Unread' = Unread
      BY <2>1 DEF Unread
    <3>2. Came(m, r)'
      BY <1>1, <2>1, <2>2, <2>3 DEF Position, Came
    <3> QED BY <1>1, <2>1, <2>2, <3>1, <3>2 DEF Position
  <2>5. stops' = 0 => stops = 0 /\ allow_watching'
    <3>1. CASE stop_watching
      BY <1>2, <3>1 DEF stop_watching
    <3>2. CASE enable_watching
      BY <3>2 DEF enable_watching
    <3>3. CASE UNCHANGED <<stops, allow_watching>>
      BY <1>2, <3>3
    <3> QED BY <1>5, <3>1, <3>2, <3>3
          DEF call, stopped, connect, connect_fails, reuse, wake, timeout, give_up, recv_fails, vars
  <2>6. Delivered(m)'
    BY <1>1, <2>1, <2>5 DEF Delivered
  <2>7. CASE UNCHANGED <<pc, buf>>
    <3>1. Collected(m, i, j, h)'
      BY <1>1, <2>1, <2>2, <2>5, <2>7 DEF Collected
    <3> QED BY <2>4, <2>5, <2>6, <3>1 DEF Tracked
  <2>8. CASE pc # "read" /\ (pc' # "read" \/ buf' = <<>>)
    <3>1. j = i
      BY <1>1, <2>8 DEF Collected
    <3>2. 1 .. i - j = {} /\ 0 + i - j = 0
      BY <3>1
    <3>3. pc' = "read" => Len(buf') = 0
      BY <2>8
    <3>4. j > 0 /\ stops' = 0 => script'[m + 1] = "long"
      BY <1>1, <2>1, <2>5 DEF Collected
    <3>5. j <= i
      BY <3>1
    <3>6. Collected(m, i, j, 0)'
      BY <3>1, <3>2, <3>3, <3>4, <3>5 DEF Collected
    <3> QED BY <2>4, <2>5, <2>6, <3>6 DEF Tracked
  <2>9. CASE recv_fails \/ give_up
    <3>1. pc = "read" /\ pc' # "read"
      BY <2>9 DEF recv_fails, give_up
    <3>2. ASSUME i > 0, stops' = 0 PROVE script[m + 1] = "long"
      <4>1. Scripted /\ stops = 0 /\ allow_watching /\ cnt \in Nat
        BY <1>2, <2>5, <3>2 DEF TypeOK, Scripted
      <4>2. /\ m <= r /\ m < r /\ i < Len(Line(m + 1)) /\ End(m) + i + Unread = End(r)
            /\ (i = 0 \/ (m < r /\ i < Len(Line(m + 1))))
        BY <1>1, <3>2 DEF Position
      <4>3. cnt # 0
        <5>1. ASSUME cnt = 0 PROVE FALSE
          <6>1. Unread = 0 /\ End(m) \in Nat
            BY <4>1, <5>1, StreamIs DEF Unread
          <6>2. End(m) + i = End(r)
            BY <4>2, <6>1
          <6>3. m = r
            BY <4>1, <4>2, <6>2, AtLineEnd
          <6> QED BY <4>2, <6>3
        <5> QED BY <5>1
      <4>4. ~Room
        BY <2>9, <4>1, <4>3 DEF recv_fails, give_up
      <4>5. Len(buf) = h + i - j /\ j <= i /\ (j > 0 => script[m + 1] = "long")
        BY <1>1, <3>1, <4>1 DEF Collected
      <4>6. i >= 6 \/ j > 0
        <5> DEFINE d == Len(buf)
        <5>1. d = h + i - j /\ d \in Nat /\ ~(d < BufLen - 1)
          BY <4>4, <4>5 DEF Room, TypeOK
        <5> HIDE DEF d
        <5> QED BY <5>1
      <4>7. m + 1 \in 1 .. Lines
        BY <4>2
      <4>8. i >= 6 => script[m + 1] = "long"
        <5> DEFINE l == Len(Text(m + 1))
        <5>1. l \in Nat /\ Len(Line(m + 1)) = l + 2 /\ (script[m + 1] # "long" => l <= 4)
          BY <4>1, <4>7, LineIs, TextIs
        <5>2. i < l + 2
          BY <4>2, <5>1
        <5> HIDE DEF l
        <5> QED BY <5>1, <5>2
      <4> QED BY <4>5, <4>6, <4>8
    <3>3. Collected(m, i, i, 0)'
      BY <2>1, <3>1, <3>2 DEF Collected
    <3> QED BY <2>4, <2>5, <2>6, <3>3 DEF Tracked
  <2> QED BY <1>5, <2>7, <2>8, <2>9
        DEF stop_watching, enable_watching, call, stopped, connect, connect_fails, reuse, wake,
            timeout, vars
<1> QED BY <1>3, <1>4, <1>5 DEF Next, Reader

LEMMA TrackedExact == ASSUME TypeOK, Tracked PROVE CacheLinesGenuine /\ CacheLinesComplete
<1>1. PICK m \in 0 .. Lines, r \in 0 .. Lines, i \in Nat :
         Position(m, r, i) /\ Delivered(m)
  BY DEF Tracked
<1>2. CacheLinesGenuine
  BY <1>1 DEF Delivered, CacheLinesGenuine
<1>3. CacheLinesComplete
  <2> SUFFICES ASSUME api = "cache", stops = 0, cnt = 0
               PROVE  \A n \in received :
                          script[n] = "other" => \E k \in 1 .. Len(got) : got[k] = <<Payload(n)>>
    BY DEF CacheLinesComplete
  <2>1. /\ m <= r /\ (i = 0 \/ (m < r /\ i < Len(Line(m + 1))))
        /\ End(m) + i + Unread = End(r) /\ received \subseteq 1 .. r /\ Scripted
    BY <1>1 DEF Position, Came, TypeOK, Scripted
  <2>2. End(m) + i = End(r)
    <3>1. Unread = 0 /\ End(m) \in Nat
      BY <2>1, StreamIs DEF Unread
    <3> QED BY <2>1, <3>1
  <2>3. m = r
    BY <2>1, <2>2, AtLineEnd
  <2>4. \A n \in received : n <= m
    BY <2>1, <2>3
  <2> QED BY <1>1, <2>4 DEF Delivered
<1> QED BY <1>2, <1>3

\* Up to the first recv that ends within a line, and with a caller's buffer that has
\* room for a cache line after a stale byte, the caller of get_next_watch_cache_line
\* gets the cache lines of other clients, whole, in their order and each once, and
\* with watching never stopped it gets all of those that came in: neither the byte
\* that is read after each recv without having been received (watch.c:65-83), nor a
\* line given up because it is too long, with its rest left in the buffer
\* (watch.c:103, 120-124), nor a connection that broke between lines costs one or
\* adds one.  After such a recv the stale byte comes to stand within a line: then
\* UnreadCorrect says what is left of this.
THEOREM CacheLinesCorrect == BufLen >= 8 /\ Spec => []CacheLinesExact
<1> SUFFICES ASSUME BufLen >= 8 PROVE Spec => []CacheLinesExact
  OBVIOUS
<1> DEFINE I == ~split => Tracked
<1>1. ASSUME TypeOK, I, [Next]_vars PROVE I'
  <2> SUFFICES ASSUME ~split' PROVE Tracked'
    OBVIOUS
  <2>1. ~split
    BY <1>1 DEF Next, Reader, stop_watching, enable_watching, call, stopped, connect,
                connect_fails, reuse, wake, timeout, give_up, recv_fails, read_buffered,
                refill, recv, vars, streamVars
  <2> QED BY <1>1, <2>1, TrackedStep
<1>2. TypeOK /\ I => CacheLinesExact
  BY TrackedExact DEF CacheLinesExact
<1>3. Init => I
  BY TrackedInit
<1> HIDE DEF I
<1> QED BY <1>1, <1>2, <1>3, TypeCorrect, PTL DEF Spec
================================================================================
