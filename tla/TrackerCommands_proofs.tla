------------------------ MODULE TrackerCommands_proofs ------------------------
(*****************************************************************************)
(* A command from its call to its outputs, for any number of attempts, of    *)
(* extra parameters and of metadata, any limits on lists, and any pieces a   *)
(* reply arrives in: a tracker reads from the request what the caller meant, *)
(* a command reads from the reply what the tracker wrote, and the status and *)
(* the outputs it returns are those of that reply.                           *)
(*                                                                           *)
(* What a recursive function computes is proved by way of a least            *)
(* counterexample (Least, UpTo).  First come the operators of                *)
(* TrackerProtocol, then the invariants of the steps.                        *)
(*****************************************************************************)
EXTENDS TrackerCommands, SequenceTheorems, FiniteSetTheorems, WellFoundedInduction, TLAPS
-------------------------------------------------------------------------------
(* Induction, sequences and FlattenSeq.                                      *)

\* A set of numbers that is not empty has a least element.
LEMMA Least ==
    ASSUME NEW T, T \subseteq Nat, T # {}
    PROVE  \E x \in T : \A y \in T : x <= y
<1>1. PICK x \in T : \A y \in T : ~(<<y, x>> \in OpToRel(<, Nat))
  BY WFMin, NatLessThanWellFounded
<1>2. \A y \in T : <<y, x>> \in OpToRel(<, Nat) <=> y < x
  BY DEF OpToRel
<1>3. \A y \in T : ~(y < x)
  BY <1>1, <1>2
<1>4. \A y \in T : x \in Nat /\ y \in Nat
  OBVIOUS
<1> HIDE <1>1, <1>2
<1> QED BY <1>3, <1>4

\* Induction up to N over a set.
LEMMA UpTo ==
    ASSUME NEW N \in Nat, NEW A, 0 \in A, \A n \in 1 .. N : n - 1 \in A => n \in A
    PROVE  \A n \in 0 .. N : n \in A
<1> DEFINE T == (0 .. N) \ A
<1>1. T \subseteq Nat
  OBVIOUS
<1>2. SUFFICES ASSUME T # {} PROVE FALSE
  OBVIOUS
<1> HIDE DEF T
<1>3. PICK x \in T : \A y \in T : x <= y
  BY <1>1, <1>2, Least
<1>4. x \in 0 .. N /\ x \notin A
  BY DEF T
<1>5. x # 0
  BY <1>4
<1>6. x \in 1 .. N /\ x - 1 \in 0 .. N /\ ~(x <= x - 1)
  BY <1>4, <1>5
<1>7. x - 1 \notin T
  BY <1>3, <1>6
<1>8. x - 1 \in A
  BY <1>6, <1>7 DEF T
<1> QED BY <1>4, <1>6, <1>8
-------------------------------------------------------------------------------
\* What a concatenation holds.
LEMMA ConcatAt ==
    ASSUME NEW S, NEW s \in Seq(S), NEW t \in Seq(S)
    PROVE  /\ s \o t \in Seq(S) /\ Len(s \o t) = Len(s) + Len(t)
           /\ Len(s) \in Nat /\ Len(t) \in Nat
           /\ \A q \in 1 .. Len(s) : (s \o t)[q] = s[q]
           /\ \A j \in 1 .. Len(t) : (s \o t)[Len(s) + j] = t[j]
<1> DEFINE l == Len(s)
           k == Len(t)
           c == s \o t
<1>1. /\ c \in Seq(S) /\ Len(c) = l + k /\ l \in Nat /\ k \in Nat
      /\ \A i \in 1 .. l + k : c[i] = IF i <= l THEN s[i] ELSE t[i - l]
  BY ConcatProperties
<1> HIDE DEF l, k, c
<1>2. \A q \in 1 .. l : c[q] = s[q]
  BY <1>1
<1>3. ASSUME NEW j \in 1 .. k PROVE c[l + j] = t[j]
  <2>1. l + j \in 1 .. l + k /\ ~(l + j <= l) /\ (l + j) - l = j
    BY <1>1
  <2> QED BY <1>1, <2>1
<1> QED BY <1>1, <1>2, <1>3 DEF l, k, c

Flattened(g, ss) ==
    g = [i \in 1 .. Len(ss) |-> IF i = 1 THEN ss[i] ELSE g[i - 1] \o ss[i]]

\* FlattenSeq is defined by a recursive function: there is one ...
LEMMA FlattenExists ==
    ASSUME NEW S, NEW ss \in Seq(S)
    PROVE  \E g : Flattened(g, ss)
<1> DEFINE F(g, i) == IF i = 1 THEN ss[i] ELSE g[i - 1] \o ss[i]
           A == {n \in Nat : \E g : g = [i \in 1 .. n |-> F(g, i)]}
<1>1. 0 \in A
  <2> DEFINE g == [i \in 1 .. 0 |-> 0]
  <2>1. g = [i \in 1 .. 0 |-> F(g, i)]
    OBVIOUS
  <2> QED BY <2>1
<1>2. ASSUME NEW n \in 1 .. Len(ss), n - 1 \in A PROVE n \in A
  <2>1. PICK g : g = [i \in 1 .. n - 1 |-> F(g, i)]
    BY <1>2
  <2> DEFINE h == [i \in 1 .. n |-> F(g, i)]
  <2>2. \A i \in 1 .. n - 1 : h[i] = g[i]
    <3>1. \A i \in 1 .. n - 1 : h[i] = F(g, i)
      OBVIOUS
    <3>2. \A i \in 1 .. n - 1 : g[i] = F(g, i)
      BY <2>1
    <3> HIDE DEF F
    <3> QED BY <3>1, <3>2
  <2>3. ASSUME NEW i \in 1 .. n PROVE F(g, i) = F(h, i)
    <3>1. i # 1 => i - 1 \in 1 .. n - 1
      OBVIOUS
    <3> HIDE DEF h
    <3> QED BY <2>2, <3>1
  <2> HIDE DEF F
  <2>4. h = [i \in 1 .. n |-> F(h, i)]
    BY <2>3
  <2>5. n \in Nat
    OBVIOUS
  <2> HIDE DEF h
  <2> QED BY <2>4, <2>5
<1> HIDE DEF A
<1>3. Len(ss) \in A
  <2>1. Len(ss) \in Nat /\ Len(ss) \in 0 .. Len(ss)
    OBVIOUS
  <2>2. \A n \in 1 .. Len(ss) : n - 1 \in A => n \in A
    BY <1>2
  <2> QED BY <1>1, <2>1, <2>2, UpTo
<1> QED BY <1>3 DEF A, Flattened

\* ... and its last value is what FlattenSeq returns.
LEMMA FlattenIs ==
    ASSUME NEW S, NEW ss \in Seq(S), ss # <<>>
    PROVE  \E g : Flattened(g, ss) /\ FlattenSeq(ss) = g[Len(ss)]
<1> DEFINE g == CHOOSE g : Flattened(g, ss)
<1>1. Flattened(g, ss)
  BY FlattenExists
<1>2. FlattenSeq(ss) = g[Len(ss)]
  BY DEF FlattenSeq, Flattened
<1> QED BY <1>1, <1>2

\* The last element of part i of a sequence laid out as the parts ss, and what the
\* sequence is: part after part.
Ends(E, ss) ==
    /\ E \in [0 .. Len(ss) -> Nat] /\ E[0] = 0
    /\ \A i \in 1 .. Len(ss) : E[i] = E[i - 1] + Len(ss[i])

LaidOut(s, E, ss) ==
    /\ Ends(E, ss) /\ Len(s) = E[Len(ss)]
    /\ \A i \in 1 .. Len(ss) : \A j \in 1 .. Len(ss[i]) : s[E[i - 1] + j] = ss[i][j]

\* FlattenSeq lays its arguments out one after the other.
LEMMA FlattenLaidOut ==
    ASSUME NEW S, NEW ss \in Seq(Seq(S))
    PROVE  FlattenSeq(ss) \in Seq(S) /\ \E E : LaidOut(FlattenSeq(ss), E, ss)
<1>1. CASE ss = <<>>
  <2>1. FlattenSeq(ss) = <<>>
    BY <1>1 DEF FlattenSeq
  <2>2. LaidOut(<<>>, [i \in 0 .. 0 |-> 0], <<>>)
    BY DEF LaidOut, Ends
  <2> QED BY <1>1, <2>1, <2>2
<1>2. CASE ss # <<>>
  <2> DEFINE N == Len(ss)
  <2>1. N \in Nat /\ N >= 1 /\ \A i \in 1 .. N : ss[i] \in Seq(S)
    BY <1>2
  <2>2. PICK g : Flattened(g, ss) /\ FlattenSeq(ss) = g[N]
    BY <1>2, FlattenIs
  <2>3. g[1] = ss[1] /\ \A i \in 2 .. N : g[i] = g[i - 1] \o ss[i]
    <3>1. \A i \in 1 .. N : g[i] = IF i = 1 THEN ss[i] ELSE g[i - 1] \o ss[i]
      BY <2>2 DEF Flattened
    <3>2. 1 \in 1 .. N /\ \A i \in 2 .. N : i \in 1 .. N /\ i # 1
      BY <2>1
    <3> HIDE DEF N
    <3> QED BY <3>1, <3>2
  <2> DEFINE E == [i \in 0 .. N |-> IF i = 0 THEN 0 ELSE Len(g[i])]
             Good(n) ==
                /\ g[n] \in Seq(S) /\ E[n] = E[n - 1] + Len(ss[n])
                /\ \A i \in 1 .. n : \A j \in 1 .. Len(ss[i]) :
                      E[i - 1] + j \in 1 .. Len(g[n]) /\ g[n][E[i - 1] + j] = ss[i][j]
             A == {n \in Nat : n >= 1 => Good(n)}
  <2> HIDE DEF N
  <2>4. ASSUME NEW n \in 1 .. N, n - 1 \in A PROVE n \in A
    <3>1. CASE n = 1
      <4>1. E[0] = 0 /\ E[1] = Len(ss[1]) /\ g[1] \in Seq(S) /\ Len(g[1]) = Len(ss[1]) /\ Len(ss[1]) \in Nat
        BY <2>1, <2>3
      <4> HIDE DEF E
      <4> QED BY <2>3, <3>1, <4>1
    <3>2. CASE n # 1
      <4> DEFINE p == g[n - 1]
                 x == ss[n]
                 l == Len(g[n - 1])
                 k == Len(ss[n])
      <4>1. n - 1 \in 1 .. N /\ n \in 2 .. N /\ n - 1 >= 1 /\ n \in Nat
        BY <2>1, <3>2
      <4>2. /\ p \in Seq(S) /\ x \in Seq(S) /\ g[n] = p \o x
            /\ \A i \in 1 .. n - 1 : \A j \in 1 .. Len(ss[i]) :
                   E[i - 1] + j \in 1 .. l /\ p[E[i - 1] + j] = ss[i][j]
        BY <2>1, <2>3, <2>4, <4>1
      <4>3. E[n - 1] = l /\ E[n] = Len(g[n])
        BY <4>1
      <4> HIDE DEF E
      <4>4. /\ g[n] \in Seq(S) /\ Len(g[n]) = l + k /\ l \in Nat /\ k \in Nat
            /\ \A q \in 1 .. l : g[n][q] = p[q]
            /\ \A j \in 1 .. k : g[n][l + j] = x[j]
        <5> HIDE DEF p, x
        <5>1. /\ p \o x \in Seq(S) /\ Len(p \o x) = Len(p) + Len(x) /\ Len(p) \in Nat /\ Len(x) \in Nat
              /\ \A q \in 1 .. Len(p) : (p \o x)[q] = p[q]
              /\ \A j \in 1 .. Len(x) : (p \o x)[Len(p) + j] = x[j]
          BY <4>2, ConcatAt
        <5>2. Len(p) = l /\ Len(x) = k
          BY DEF p, x
        <5> QED BY <4>2, <5>1, <5>2
      <4>5. ASSUME NEW i \in 1 .. n, NEW j \in 1 .. Len(ss[i])
            PROVE  E[i - 1] + j \in 1 .. Len(g[n]) /\ g[n][E[i - 1] + j] = ss[i][j]
        <5>1. CASE i = n
          <6>1. j \in 1 .. k /\ E[i - 1] = l /\ ss[i] = x
            BY <4>3, <5>1
          <6> HIDE DEF l, k, x
          <6>2. l + j \in 1 .. l + k
            BY <4>4, <6>1
          <6> QED BY <4>4, <6>1, <6>2
        <5>2. CASE i # n
          <6>1. i \in 1 .. n - 1
            BY <4>1, <5>2
          <6>2. E[i - 1] + j \in 1 .. l /\ p[E[i - 1] + j] = ss[i][j]
            BY <4>2, <6>1
          <6> HIDE DEF l, k, p, x
          <6>3. E[i - 1] + j \in 1 .. l + k
            BY <4>4, <6>2
          <6> QED BY <4>4, <6>2, <6>3
        <5> QED BY <5>1, <5>2
      <4>6. E[n] = E[n - 1] + Len(ss[n])
        BY <4>3, <4>4
      <4> QED BY <4>1, <4>4, <4>5, <4>6
    <3> QED BY <3>1, <3>2
  <2>5. ASSUME NEW n \in 0 .. N PROVE n \in A
    <3>1. 0 \in A
      OBVIOUS
    <3> HIDE DEF A
    <3> QED BY <2>1, <2>4, <3>1, UpTo
  <2>6. ASSUME NEW i \in 1 .. N PROVE E[i] = E[i - 1] + Len(ss[i])
    <3> HIDE DEF A, E
    <3>1. i \in 0 .. N /\ i >= 1
      BY <2>1
    <3>2. i \in A
      BY <2>5, <3>1
    <3> QED BY <3>1, <3>2 DEF A
  <2>7. /\ g[N] \in Seq(S)
        /\ \A i \in 1 .. N : \A j \in 1 .. Len(ss[i]) : g[N][E[i - 1] + j] = ss[i][j]
    <3> HIDE DEF A, E
    <3>2. N \in 0 .. N
      BY <2>1
    <3>1. N \in A
      BY <2>5, <3>2
    <3> USE DEF A
    <3> QED BY <2>1, <3>1
  <2>8. E \in [0 .. N -> Nat] /\ E[0] = 0 /\ E[N] = Len(g[N])
    <3>1. \A i \in 1 .. N : Len(g[i]) \in Nat
      BY <2>5
    <3> QED BY <2>1, <3>1
  <2> HIDE DEF E
  <2>9. LaidOut(g[N], E, ss)
    BY <2>6, <2>7, <2>8 DEF LaidOut, Ends, N
  <2> QED BY <2>2, <2>7, <2>9
<1> QED BY <1>1, <1>2
-------------------------------------------------------------------------------
(* The url encoding (tracker.c:229-267).                                     *)

\* The characters the encoding writes besides those it leaves alone.
Marks == {"%", "+", "0", "2", "3", "5", "6", "a", "b", "d"}

\* Special characters have two digits each, and no two have the same.
LEMMA HexFacts ==
    /\ Special = {"&", "=", "%", "+", "CR", "LF"}
    /\ \A c \in Special : Hex[c] = <<Hex[c][1], Hex[c][2]>> /\ Hex[c][1] \in Marks /\ Hex[c][2] \in Marks
    /\ \A c, d \in Special : Hex[c] = Hex[d] => c = d
<1>1. Special = {"&", "=", "%", "+", "CR", "LF"}
  BY DEF Special, Hex
<1>2. /\ Hex["&"] = <<"2", "6">> /\ Hex["="] = <<"3", "d">> /\ Hex["%"] = <<"2", "5">>
      /\ Hex["+"] = <<"2", "b">> /\ Hex["CR"] = <<"0", "d">> /\ Hex["LF"] = <<"0", "a">>
  BY DEF Hex
<1>3. \A c \in Special : Hex[c] = <<Hex[c][1], Hex[c][2]>> /\ Hex[c][1] \in Marks /\ Hex[c][2] \in Marks
  BY <1>1, <1>2 DEF Marks
<1>4. \A c, d \in Special : Hex[c] = Hex[d] => c = d
  BY <1>1, <1>2
<1> QED BY <1>1, <1>3, <1>4

\* The three cases of Code (tracker.c:233-243).
LEMMA CodeIs ==
    ASSUME NEW c
    PROVE  /\ c \in Special => Code(c) = <<"%", Hex[c][1], Hex[c][2]>>
           /\ c = "SP" => Code(c) = <<"+">>
           /\ c \notin Special \cup {"SP"} => Code(c) = <<c>>
<1>1. "SP" \notin Special
  BY HexFacts
<1>2. c \in Special => Code(c) = <<"%", Hex[c][1], Hex[c][2]>>
  BY <1>1 DEF Code
<1>3. c = "SP" => Code(c) = <<"+">>
  BY <1>1 DEF Code
<1>4. c \notin Special \cup {"SP"} => Code(c) = <<c>>
  BY <1>1 DEF Code
<1> QED BY <1>2, <1>3, <1>4

\* A code is one token or three, and none of them has a meaning in a line.
LEMMA CodeType ==
    ASSUME NEW S, NEW c \in S
    PROVE  /\ Code(c) \in Seq((S \cup Marks) \ {"&", "=", "CR", "LF", "SP"})
           /\ Len(Code(c)) = (IF c \in Special THEN 3 ELSE 1)
<1> DEFINE T == (S \cup Marks) \ {"&", "=", "CR", "LF", "SP"}
<1>1. Marks \subseteq T
  BY DEF Marks
<1>2. CASE c \in Special
  <2> DEFINE a == Hex[c][1]
             b == Hex[c][2]
  <2>1. Code(c) = <<"%", a, b>> /\ "%" \in T /\ a \in T /\ b \in T
    BY <1>1, <1>2, CodeIs, HexFacts DEF Marks
  <2> HIDE DEF T, a, b
  <2>2. <<"%", a, b>> \in Seq(T) /\ Len(<<"%", a, b>>) = 3
    BY <2>1
  <2> QED BY <1>2, <2>1, <2>2 DEF T
<1>3. CASE c = "SP"
  <2>1. Code(c) = <<"+">> /\ "+" \in T /\ c \notin Special
    BY <1>1, <1>3, CodeIs, HexFacts DEF Marks
  <2> HIDE DEF T
  <2>2. <<"+">> \in Seq(T) /\ Len(<<"+">>) = 1
    BY <2>1
  <2> QED BY <1>3, <2>1, <2>2 DEF T
<1>4. CASE c \notin Special \cup {"SP"}
  <2>1. Code(c) = <<c>> /\ c \in T
    BY <1>4, CodeIs, HexFacts
  <2> HIDE DEF T
  <2>2. <<c>> \in Seq(T) /\ Len(<<c>>) = 1
    BY <2>1
  <2> QED BY <1>4, <2>1, <2>2 DEF T
<1> QED BY <1>2, <1>3, <1>4
-------------------------------------------------------------------------------
\* The character that two digits stand for.
Unhex(a, b) == CHOOSE c \in Special : Hex[c] = <<a, b>>

\* What decoding yields from position i on, if f is what it yields from later ones.
DecodeFrom(f, e, i) ==
    LET n == Len(e)
    IN  CASE i > n -> << >>
          [] i <= n /\ e[i] = "%" /\ i + 2 <= n ->
                <<Unhex(e[i + 1], e[i + 2])>> \o f[i + 3]
          [] i <= n /\ e[i] = "%" /\ i + 2 > n -> f[i + 1]
          [] i <= n /\ e[i] = "+" -> <<"SP">> \o f[i + 1]
          [] OTHER -> <<e[i]>> \o f[i + 1]

Decoding(f, e) == f = [i \in 1 .. Len(e) + 3 |-> DecodeFrom(f, e, i)]

\* Decoding from a position looks only at positions after it ...
LEMMA DecodeFromLater ==
    ASSUME NEW f, NEW h, NEW e, NEW i \in Nat, Len(e) \in Nat,
           i <= Len(e) => f[i + 1] = h[i + 1],
           i + 2 <= Len(e) => f[i + 3] = h[i + 3]
    PROVE  DecodeFrom(f, e, i) = DecodeFrom(h, e, i)
<1> DEFINE n == Len(e)
<1> HIDE DEF n
<1>1. CASE i > n
  BY <1>1 DEF DecodeFrom, n
<1>2. CASE i <= n /\ e[i] = "%" /\ i + 2 <= n
  BY <1>2 DEF DecodeFrom, n
<1>3. CASE i <= n /\ e[i] = "%" /\ i + 2 > n
  BY <1>3 DEF DecodeFrom, n
<1>4. CASE i <= n /\ e[i] = "+"
  BY <1>4 DEF DecodeFrom, n
<1>5. CASE i <= n /\ e[i] \notin {"%", "+"}
  BY <1>5 DEF DecodeFrom, n
<1> QED BY <1>1, <1>2, <1>3, <1>4, <1>5 DEF n

\* ... so the recursive function of mfs_tracker_url_decode exists ...
LEMMA DecodingExists ==
    ASSUME NEW e, Len(e) \in Nat
    PROVE  \E f : Decoding(f, e)
<1> DEFINE m == Len(e) + 3
           A == {k \in Nat : \E f : f = [i \in m + 1 - k .. m |-> DecodeFrom(f, e, i)]}
<1>0. m \in Nat /\ Len(e) = m - 3 /\ m >= 3
  OBVIOUS
<1>1. 0 \in A
  <2> DEFINE f == [i \in m + 1 - 0 .. m |-> 0]
  <2> HIDE DEF m
  <2>0. m + 1 - 0 .. m = {}
    BY <1>0
  <2>1. f = [i \in m + 1 - 0 .. m |-> DecodeFrom(f, e, i)]
    BY <2>0
  <2> QED BY <2>1
<1> HIDE DEF m
<1>2. ASSUME NEW k \in 1 .. m, k - 1 \in A PROVE k \in A
  <2>1. PICK f : f = [i \in m + 1 - (k - 1) .. m |-> DecodeFrom(f, e, i)]
    BY <1>2
  <2> DEFINE h == [i \in m + 1 - k .. m |-> DecodeFrom(f, e, i)]
  <2>2. \A i \in m + 1 - (k - 1) .. m : h[i] = f[i]
    <3>1. \A i \in m + 1 - (k - 1) .. m : i \in m + 1 - k .. m
      BY <1>0
    <3> QED BY <2>1, <3>1
  <2>3. ASSUME NEW i \in m + 1 - k .. m PROVE DecodeFrom(f, e, i) = DecodeFrom(h, e, i)
    <3>1. /\ i \in Nat /\ (i <= Len(e) => i + 1 \in m + 1 - (k - 1) .. m)
          /\ (i + 2 <= Len(e) => i + 3 \in m + 1 - (k - 1) .. m)
      BY <1>0
    <3> HIDE DEF h
    <3> QED BY <2>2, <3>1, DecodeFromLater
  <2>4. h = [i \in m + 1 - k .. m |-> DecodeFrom(h, e, i)]
    BY <2>3
  <2>5. k \in Nat
    OBVIOUS
  <2> HIDE DEF h
  <2> QED BY <2>4, <2>5
<1>3. m \in A
  <2>2. \A k \in 1 .. m : k - 1 \in A => k \in A
    BY <1>2
  <2> HIDE DEF A
  <2>3. m \in 0 .. m
    BY <1>0
  <2> QED BY <1>0, <1>1, <2>2, <2>3, UpTo
<1>4. m + 1 - m = 1
  BY <1>0
<1> QED BY <1>3, <1>4 DEF Decoding, m

\* ... and the function returns its first value (tracker.c:250-267).
LEMMA DecodeIs ==
    ASSUME NEW e, Len(e) \in Nat
    PROVE  \E f : Decoding(f, e) /\ mfs_tracker_url_decode(e) = f[1]
<1> DEFINE f == CHOOSE f : Decoding(f, e)
<1>1. Decoding(f, e)
  BY DecodingExists
<1>2. mfs_tracker_url_decode(e) = f[1]
  BY Zenon DEF mfs_tracker_url_decode, Decoding, DecodeFrom, Unhex
<1> QED BY <1>1, <1>2
-------------------------------------------------------------------------------
\* Ends do not decrease.
LEMMA EndsGrow ==
    ASSUME NEW ss, Len(ss) \in Nat, NEW E, Ends(E, ss), \A i \in 1 .. Len(ss) : Len(ss[i]) \in Nat,
           NEW k \in 0 .. Len(ss)
    PROVE  E[k] <= E[Len(ss)]
<1> DEFINE N == Len(ss)
           A == {j \in Nat : j <= N => E[N - j] <= E[N]}
<1>1. /\ N \in Nat /\ \A i \in 0 .. N : E[i] \in Nat
      /\ \A i \in 1 .. N : E[i - 1] <= E[i]
  <2>1. N \in Nat /\ \A i \in 0 .. N : E[i] \in Nat
    BY DEF Ends
  <2>2. ASSUME NEW i \in 1 .. N PROVE E[i - 1] <= E[i]
    <3>1. E[i] = E[i - 1] + Len(ss[i]) /\ Len(ss[i]) \in Nat /\ i - 1 \in 0 .. N
      BY <2>1 DEF Ends
    <3> QED BY <2>1, <3>1
  <2> QED BY <2>1, <2>2
<1> HIDE DEF N
<1>2. 0 \in A
  <2>1. N - 0 = N /\ E[N] <= E[N]
    BY <1>1
  <2> QED BY <2>1
<1>3. ASSUME NEW j \in 1 .. N, j - 1 \in A PROVE j \in A
  <2>1. N - (j - 1) \in 1 .. N /\ (N - (j - 1)) - 1 = N - j /\ N - j \in 0 .. N /\ j - 1 <= N /\ j \in Nat
        /\ N \in 0 .. N /\ N - (j - 1) \in 0 .. N
    BY <1>1
  <2>2. E[N - (j - 1)] <= E[N]
    BY <1>3, <2>1
  <2>3. E[N - j] <= E[N - (j - 1)]
    BY <1>1, <2>1
  <2>4. E[N - j] \in Nat /\ E[N] \in Nat /\ E[N - (j - 1)] \in Nat
    BY <1>1, <2>1
  <2>5. E[N - j] <= E[N]
    BY <2>2, <2>3, <2>4
  <2> QED BY <2>1, <2>5
<1>4. N - k \in A
  <2>1. N - k \in 0 .. N
    BY <1>1 DEF N
  <2> HIDE DEF A
  <2> QED BY <1>1, <1>2, <1>3, <2>1, UpTo
<1>5. N - (N - k) = k /\ N - k <= N
  BY <1>1 DEF N
<1> QED BY <1>4, <1>5 DEF N

\* The encoded string holds no character that has a meaning in a line.
LEMMA EncodeLaidOut ==
    ASSUME NEW S, NEW raw \in Seq(S)
    PROVE  /\ mfs_tracker_url_encode(raw) \in Seq((S \cup Marks) \ {"&", "=", "CR", "LF", "SP"})
           /\ \E E : LaidOut(mfs_tracker_url_encode(raw), E, [i \in 1 .. Len(raw) |-> Code(raw[i])])
<1> DEFINE T == (S \cup Marks) \ {"&", "=", "CR", "LF", "SP"}
           ss == [i \in 1 .. Len(raw) |-> Code(raw[i])]
<1>1. Len(raw) \in Nat /\ DOMAIN raw = 1 .. Len(raw) /\ \A i \in 1 .. Len(raw) : raw[i] \in S
  OBVIOUS
<1>2. \A i \in 1 .. Len(raw) : Code(raw[i]) \in Seq(T)
  BY <1>1, CodeType
<1> HIDE DEF T
<1>3. ss \in Seq(Seq(T))
  BY <1>1, <1>2
<1>4. mfs_tracker_url_encode(raw) = FlattenSeq(ss)
  BY <1>1 DEF mfs_tracker_url_encode
<1> HIDE DEF ss
<1>5. FlattenSeq(ss) \in Seq(T) /\ \E E : LaidOut(FlattenSeq(ss), E, ss)
  BY <1>3, FlattenLaidOut
<1> QED BY <1>4, <1>5 DEF ss, T

Codes(raw) == [i \in 1 .. Len(raw) |-> Code(raw[i])]

\* Decoding the code of one character gives the character and goes on after it.
LEMMA Undone ==
    ASSUME NEW S, NEW raw \in Seq(S), NEW e, NEW E, NEW f, Decoding(f, e), Len(e) \in Nat,
           LaidOut(e, E, Codes(raw)), NEW k \in 1 .. Len(raw)
    PROVE  f[E[k - 1] + 1] = <<raw[k]>> \o f[E[k] + 1] /\ E[k - 1] \in Nat /\ E[k] \in Nat
<1> DEFINE ss == [i \in 1 .. Len(raw) |-> Code(raw[i])]
           N == Len(raw)
           c == raw[k]
           p == E[k - 1]
           n == Len(e)
<1>1. /\ N \in Nat /\ N = Len(ss) /\ c \in S /\ ss[k] = Code(c)
      /\ \A i \in 1 .. N : raw[i] \in S /\ ss[i] = Code(raw[i])
  OBVIOUS
<1>2. \A i \in 1 .. N : Len(ss[i]) \in Nat
  BY <1>1, CodeType
<1>3. Ends(E, ss) /\ n = E[N] /\ \A j \in 1 .. Len(Code(c)) : e[p + j] = Code(c)[j]
  <2>1. LaidOut(e, E, ss)
    BY DEF Codes
  <2> QED BY <1>1, <2>1 DEF LaidOut
<1>4. p \in Nat /\ E[k] \in Nat /\ E[k] = p + Len(Code(c))
  <2>1. k - 1 \in 0 .. Len(ss) /\ k \in 0 .. Len(ss) /\ k \in 1 .. Len(ss)
    BY <1>1
  <2> HIDE DEF ss
  <2> QED BY <1>1, <1>3, <2>1 DEF Ends
<1>5. E[k] <= n
  <2> HIDE DEF ss
  <2>1. k \in 0 .. Len(ss) /\ Len(ss) \in Nat /\ \A i \in 1 .. Len(ss) : Len(ss[i]) \in Nat
    BY <1>1, <1>2
  <2>2. E[k] <= E[Len(ss)]
    BY <1>3, <2>1, EndsGrow
  <2> QED BY <1>1, <1>3, <2>2
<1> HIDE DEF ss, N, c, p, n
<1>6. \A i \in 1 .. n + 3 : f[i] = DecodeFrom(f, e, i)
  BY DEF Decoding, n
<1>7. n \in Nat /\ Len(e) = n
  BY DEF n
<1>8. CASE c \in Special
  <2> DEFINE a == Hex[c][1]
             b == Hex[c][2]
  <2>1. Code(c) = <<"%", a, b>> /\ Hex[c] = <<a, b>>
    BY <1>8, CodeIs, HexFacts
  <2> HIDE DEF a, b
  <2>2. /\ Len(Code(c)) = 3 /\ Code(c)[1] = "%" /\ Code(c)[2] = a /\ Code(c)[3] = b
    BY <2>1
  <2>3. e[p + 1] = "%" /\ e[p + 2] = a /\ e[p + 3] = b /\ E[k] = p + 3
    BY <1>3, <1>4, <2>2
  <2>4. Unhex(a, b) = c
    BY <1>8, <2>1, HexFacts DEF Unhex
  <2> DEFINE q == p + 1
  <2>5. q \in 1 .. n + 3 /\ q <= n /\ q + 2 <= n /\ q + 1 = p + 2 /\ q + 2 = p + 3 /\ q + 3 = E[k] + 1
    BY <1>4, <1>5, <1>7, <2>3
  <2>6. e[q] = "%" /\ e[q + 1] = a /\ e[q + 2] = b
    BY <2>3, <2>5
  <2> HIDE DEF q
  <2>7. DecodeFrom(f, e, q) = <<c>> \o f[q + 3]
    <3>1. DecodeFrom(f, e, q) = <<Unhex(e[q + 1], e[q + 2])>> \o f[q + 3]
      <4>1. /\ q \in Nat /\ Len(e) \in Nat /\ q <= Len(e) /\ ~(q > Len(e))
            /\ q + 2 <= Len(e) /\ ~(q + 2 > Len(e)) /\ e[q] = "%" /\ e[q] # "+"
        BY <1>7, <2>5, <2>6
      <4> QED BY ONLY <4>1 DEF DecodeFrom
    <3> QED BY <2>4, <2>6, <3>1
  <2>8. f[q] = DecodeFrom(f, e, q)
    BY <1>6, <2>5
  <2> QED BY <1>4, <2>5, <2>7, <2>8 DEF q, c, p
<1>9. CASE c \notin Special
  <2>1. CASE c = "SP"
    <3>1. Code(c) = <<"+">> /\ Len(<<"+">>) = 1 /\ <<"+">>[1] = "+"
      BY <2>1, CodeIs
    <3>2. e[p + 1] = "+" /\ E[k] = p + 1
      BY <1>3, <1>4, <3>1
    <3>3. p + 1 \in 1 .. n + 3 /\ p + 1 <= n /\ (p + 1) + 1 = E[k] + 1
      BY <1>4, <1>5, <1>7, <3>2
    <3>4. DecodeFrom(f, e, p + 1) = <<"SP">> \o f[(p + 1) + 1]
      <4> DEFINE q == p + 1
      <4>1. q \in Nat /\ q <= Len(e) /\ ~(q > Len(e)) /\ e[q] = "+" /\ e[q] # "%"
        BY <1>7, <3>2, <3>3
      <4> HIDE DEF q
      <4>2. DecodeFrom(f, e, q) = <<"SP">> \o f[q + 1]
        BY ONLY <4>1 DEF DecodeFrom
      <4> QED BY <4>2 DEF q
    <3> QED BY <1>4, <1>6, <2>1, <3>3, <3>4 DEF c, p
  <2>2. CASE c # "SP"
    <3>1. Code(c) = <<c>> /\ Len(<<c>>) = 1 /\ <<c>>[1] = c
      BY <1>9, <2>2, CodeIs
    <3>2. e[p + 1] = c /\ E[k] = p + 1 /\ c \notin {"%", "+"}
      BY <1>3, <1>4, <1>9, <3>1, HexFacts
    <3>3. p + 1 \in 1 .. n + 3 /\ p + 1 <= n /\ (p + 1) + 1 = E[k] + 1
      BY <1>4, <1>5, <1>7, <3>2
    <3>4. DecodeFrom(f, e, p + 1) = <<c>> \o f[(p + 1) + 1]
      BY <1>7, <3>2, <3>3 DEF DecodeFrom
    <3> QED BY <1>4, <1>6, <3>3, <3>4 DEF c, p
  <2> QED BY <2>1, <2>2
<1> QED BY <1>8, <1>9

\* Whatever characters a string holds, decoding what mfs_tracker_url_encode made of
\* it gives the string back (tracker.c:229-267).
THEOREM RoundTrip ==
    ASSUME NEW S, NEW raw \in Seq(S)
    PROVE  mfs_tracker_url_decode(mfs_tracker_url_encode(raw)) = raw
<1> DEFINE e == mfs_tracker_url_encode(raw)
           N == Len(raw)
           ss == [i \in 1 .. N |-> Code(raw[i])]
<1>1. PICK E : LaidOut(e, E, ss)
  BY EncodeLaidOut
<1>2. Len(e) \in Nat
  BY EncodeLaidOut
<1>3. PICK f : Decoding(f, e) /\ mfs_tracker_url_decode(e) = f[1]
  BY <1>2, DecodeIs
<1>4. N \in Nat /\ Len(ss) = N
  OBVIOUS
<1>5. E[0] = 0 /\ Len(e) = E[N]
  BY <1>1, <1>4 DEF LaidOut, Ends
<1>6. ASSUME NEW k \in 1 .. N PROVE f[E[k - 1] + 1] = <<raw[k]>> \o f[E[k] + 1]
  <2>1. LaidOut(e, E, Codes(raw)) /\ k \in 1 .. Len(raw)
    BY <1>1 DEF Codes
  <2> HIDE DEF e, ss, N
  <2> QED BY <1>2, <1>3, <2>1, Undone
<1> HIDE DEF e, ss
<1> DEFINE A == {j \in Nat : j <= N => f[E[N - j] + 1] = SubSeq(raw, (N - j) + 1, N)}
<1> HIDE DEF N
<1>7. 0 \in A
  <2> DEFINE q == Len(e) + 1
  <2>1. q \in 1 .. Len(e) + 3 /\ q > Len(e)
    BY <1>2
  <2>2. f[q] = DecodeFrom(f, e, q)
    BY <1>3, <2>1 DEF Decoding
  <2>3. DecodeFrom(f, e, q) = <<>>
    BY <2>1 DEF DecodeFrom
  <2>4. SubSeq(raw, N + 1, N) = <<>>
    <3>1. N + 1 \in Int /\ N \in Int /\ N < N + 1
      BY <1>4
    <3> QED BY <3>1, SubSeqEmpty
  <2>5. N - 0 = N
    BY <1>4
  <2> QED BY <1>5, <2>2, <2>3, <2>4, <2>5
<1>8. ASSUME NEW j \in 1 .. N, j - 1 \in A PROVE j \in A
  <2> DEFINE k == N - (j - 1)
  <2>1. k \in 1 .. N /\ N - j = k - 1 /\ (k - 1) + 1 = k /\ j - 1 <= N /\ j \in Nat /\ N \in k .. N
    BY <1>4
  <2>2. f[E[k] + 1] = SubSeq(raw, k + 1, N)
    BY <1>8, <2>1
  <2> HIDE DEF k
  <2>3. f[E[k - 1] + 1] = <<raw[k]>> \o SubSeq(raw, k + 1, N)
    BY <1>6, <2>1, <2>2
  <2>4. SubSeq(raw, k, N) = <<raw[k]>> \o SubSeq(raw, k + 1, N)
    BY <2>1, SubSeqRecursiveFirst DEF N
  <2> QED BY <2>1, <2>3, <2>4
<1>9. N \in A
  <2> HIDE DEF A
  <2>1. N \in 0 .. N
    BY <1>4
  <2> QED BY <1>4, <1>7, <1>8, <2>1, UpTo
<1>10. f[E[0] + 1] = SubSeq(raw, 1, N)
  <2>1. N - N = 0 /\ 0 + 1 = 1 /\ N <= N
    BY <1>4
  <2>2. f[E[N - N] + 1] = SubSeq(raw, (N - N) + 1, N)
    BY <1>9, <2>1
  <2> QED BY <2>1, <2>2
<1>11. SubSeq(raw, 1, N) = raw
  BY SubSeqFull DEF N
<1>12. E[0] + 1 = 1
  BY <1>5
<1> QED BY <1>3, <1>10, <1>11, <1>12 DEF e

\* The length mfs_tracker_url_encode counts apart is that of the string it writes, so
\* mfs_tracker_build_request, which copies the string and advances by that length,
\* goes on exactly where the string ends (tracker.c:229-248, 295-299).
THEOREM EncodeLength ==
    ASSUME NEW S, NEW raw \in Seq(S)
    PROVE  Len(mfs_tracker_url_encode(raw)) = url_encode_length(raw)
<1> DEFINE e == mfs_tracker_url_encode(raw)
           N == Len(raw)
           ss == [i \in 1 .. N |-> Code(raw[i])]
           Q(n) == {i \in 1 .. n : raw[i] \in Special}
<1>1. PICK E : LaidOut(e, E, ss)
  BY EncodeLaidOut
<1>2. N \in Nat /\ Len(ss) = N /\ DOMAIN raw = 1 .. N /\ \A i \in 1 .. N : raw[i] \in S /\ ss[i] = Code(raw[i])
  OBVIOUS
<1>3. E[0] = 0 /\ Len(e) = E[N] /\ \A i \in 1 .. N : E[i] = E[i - 1] + Len(Code(raw[i]))
  BY <1>1, <1>2 DEF LaidOut, Ends
<1>4. \A i \in 1 .. N : Len(Code(raw[i])) = (IF raw[i] \in Special THEN 3 ELSE 1)
  BY <1>2, CodeType
<1> HIDE DEF e, N, ss, Q
<1> DEFINE A == {n \in Nat : IsFiniteSet(Q(n)) /\ E[n] = n + 2 * Cardinality(Q(n))}
<1>5. 0 \in A
  <2>1. Q(0) = {}
    BY DEF Q
  <2>2. IsFiniteSet(Q(0)) /\ Cardinality(Q(0)) = 0
    BY <2>1, FS_EmptySet
  <2> QED BY <1>3, <2>2
<1>6. ASSUME NEW n \in 1 .. N, n - 1 \in A PROVE n \in A
  <2> DEFINE x == Cardinality(Q(n - 1))
             p == E[n - 1]
  <2>1. IsFiniteSet(Q(n - 1)) /\ p = (n - 1) + 2 * x /\ x \in Nat /\ n \in Nat
    BY <1>2, <1>6, FS_CardinalityType
  <2>2. CASE raw[n] \in Special
    <3>1. Q(n) = Q(n - 1) \cup {n} /\ n \notin Q(n - 1)
      BY <2>1, <2>2 DEF Q
    <3>4. IsFiniteSet(Q(n - 1) \cup {n}) /\ Cardinality(Q(n - 1) \cup {n}) = Cardinality(Q(n - 1)) + 1
      BY <2>1, <3>1, FS_AddElement
    <3>2. IsFiniteSet(Q(n)) /\ Cardinality(Q(n)) = x + 1
      BY <3>1, <3>4
    <3>3. E[n] = p + 3
      BY <1>3, <1>4, <2>2
    <3> HIDE DEF x, p
    <3> QED BY <2>1, <3>2, <3>3
  <2>3. CASE raw[n] \notin Special
    <3>1. Q(n) = Q(n - 1)
      BY <2>1, <2>3 DEF Q
    <3>3. E[n] = p + 1
      BY <1>3, <1>4, <2>3
    <3> HIDE DEF p
    <3> QED BY <2>1, <3>1, <3>3
  <2> QED BY <2>2, <2>3
<1>7. N \in A
  <2>1. N \in 0 .. N
    BY <1>2
  <2> HIDE DEF A
  <2> QED BY <1>2, <1>5, <1>6, <2>1, UpTo
<1> QED BY <1>2, <1>3, <1>7 DEF url_encode_length, e, N, Q

\* A string of characters that are not encoded stays as it is.
LEMMA EncodePlain ==
    ASSUME NEW S, NEW raw \in Seq(S), \A i \in 1 .. Len(raw) : raw[i] \notin Special \cup {"SP"}
    PROVE  mfs_tracker_url_encode(raw) = raw
<1> DEFINE e == mfs_tracker_url_encode(raw)
           N == Len(raw)
           ss == [i \in 1 .. N |-> Code(raw[i])]
           T == (S \cup Marks) \ {"&", "=", "CR", "LF", "SP"}
<1>1. PICK E : LaidOut(e, E, ss)
  BY EncodeLaidOut
<1>2. N \in Nat /\ Len(ss) = N /\ \A i \in 1 .. N : raw[i] \in S /\ ss[i] = Code(raw[i])
  OBVIOUS
<1>3. ASSUME NEW i \in 1 .. N PROVE Code(raw[i]) = <<raw[i]>> /\ Len(<<raw[i]>>) = 1 /\ <<raw[i]>>[1] = raw[i]
  BY CodeIs
<1>4. /\ E[0] = 0 /\ Len(e) = E[N]
      /\ \A i \in 1 .. N : E[i] = E[i - 1] + Len(ss[i])
      /\ \A i \in 1 .. N : \A j \in 1 .. Len(ss[i]) : e[E[i - 1] + j] = ss[i][j]
  BY <1>1, <1>2 DEF LaidOut, Ends
<1>5. e \in Seq(T)
  BY EncodeLaidOut
<1> HIDE DEF e, N, ss, T
<1>6. ASSUME NEW i \in 1 .. N PROVE E[i] = E[i - 1] + 1 /\ e[E[i - 1] + 1] = raw[i]
  <2>1. Len(ss[i]) = 1 /\ ss[i][1] = raw[i]
    BY <1>2, <1>3
  <2>2. 1 \in 1 .. Len(ss[i])
    BY <2>1
  <2> QED BY <1>4, <2>1, <2>2
<1> DEFINE A == {n \in Nat : E[n] = n}
<1>7. 0 \in A
  BY <1>4
<1>8. ASSUME NEW n \in 1 .. N, n - 1 \in A PROVE n \in A
  BY <1>2, <1>6, <1>8
<1>9. \A n \in 0 .. N : n \in A
  <2> HIDE DEF A
  <2> QED BY <1>2, <1>7, <1>8, UpTo
<1>10. \A n \in 0 .. N : E[n] = n
  BY <1>9
<1>11. Len(e) = N
  <2>1. N \in 0 .. N
    BY <1>2
  <2> QED BY <1>4, <1>10, <2>1
<1>12. ASSUME NEW i \in 1 .. N PROVE e[i] = raw[i]
  <2>1. i - 1 \in 0 .. N /\ (i - 1) + 1 = i
    BY <1>2
  <2>2. E[i - 1] = i - 1
    BY <1>10, <2>1
  <2> QED BY <1>6, <2>1, <2>2
<1> QED BY <1>5, <1>11, <1>12, SeqEqual DEF e, N

\* Nor does decoding change such a string.
LEMMA DecodePlain ==
    ASSUME NEW S, NEW raw \in Seq(S), \A i \in 1 .. Len(raw) : raw[i] \notin Special \cup {"SP"}
    PROVE  mfs_tracker_url_decode(raw) = raw
BY EncodePlain, RoundTrip
-------------------------------------------------------------------------------
(* Parts between separators: strtok.                                         *)

PartEnds(s, i, j) ==
    /\ \A k \in i .. j : s[k] # "&"
    /\ j = Len(s) \/ s[j + 1] = "&"

\* PartEnd is the only place where a part may end.
LEMMA PartEndIs ==
    ASSUME NEW s, Len(s) \in Nat, NEW i \in 1 .. Len(s), NEW j \in i .. Len(s), PartEnds(s, i, j)
    PROVE  PartEnd(s, i) = j
<1> DEFINE n == Len(s)
<1>1. ASSUME NEW x \in i .. n, NEW y \in i .. n, PartEnds(s, i, x), PartEnds(s, i, y), x < y PROVE FALSE
  <2> HIDE DEF n
  <2>1. n = Len(s) /\ n \in Nat /\ i \in 1 .. n
    BY DEF n
  <2>2. x + 1 \in i .. y /\ x # n
    BY <1>1, <2>1
  <2> QED BY <1>1, <2>1, <2>2 DEF PartEnds
<1>2. \A x \in i .. n : PartEnds(s, i, x) => x = j
  <2>1. SUFFICES ASSUME NEW x \in i .. n, PartEnds(s, i, x), x # j PROVE FALSE
    OBVIOUS
  <2>2. x < j \/ j < x
    BY <2>1
  <2> HIDE DEF n
  <2>3. j \in i .. n
    BY DEF n
  <2> QED BY <1>1, <2>1, <2>2, <2>3
<1>3. PartEnd(s, i) = CHOOSE x \in i .. n : PartEnds(s, i, x)
  BY DEF PartEnd, PartEnds
<1> HIDE DEF n
<1>4. j \in i .. n
  BY DEF n
<1> QED BY <1>2, <1>3, <1>4

\* A part that has begun ends.
LEMMA PartEndType ==
    ASSUME NEW s, Len(s) \in Nat, NEW i \in 1 .. Len(s), s[i] # "&"
    PROVE  PartEnd(s, i) \in i .. Len(s)
<1> DEFINE n == Len(s)
           T == {j \in i .. n : j = n \/ s[j + 1] = "&"}
<1>1. T \subseteq Nat /\ n \in T
  OBVIOUS
<1> HIDE DEF T
<1>2. PICK x \in T : \A y \in T : x <= y
  BY <1>1, Least
<1>3. x \in i .. n /\ (x = n \/ s[x + 1] = "&")
  BY <1>2 DEF T
<1>4. ASSUME NEW k \in i .. x PROVE s[k] # "&"
  <2> HIDE DEF n
  <2>0. n \in Nat /\ i \in 1 .. n
    BY DEF n
  <2>1. CASE k = i
    BY <2>1
  <2>2. CASE k # i
    <3>1. k - 1 \in i .. n /\ (k - 1) + 1 = k /\ ~(x <= k - 1)
      BY <1>3, <2>0, <2>2
    <3>2. k - 1 \notin T
      BY <1>2, <3>1
    <3>3. k - 1 \in T <=> k - 1 \in i .. n /\ (k - 1 = n \/ s[(k - 1) + 1] = "&")
      BY DEF T
    <3> QED BY <3>1, <3>2, <3>3
  <2> QED BY <2>1, <2>2
<1>5. PartEnds(s, i, x)
  BY <1>3, <1>4 DEF PartEnds
<1> QED BY <1>3, <1>5, PartEndIs

\* The parts from position i on, if f are those from later ones.
PartsFrom(f, s, i) ==
    IF i > Len(s) THEN << >>
    ELSE IF s[i] = "&" THEN f[i + 1]
    ELSE <<SubSeq(s, i, PartEnd(s, i))>> \o f[PartEnd(s, i) + 1]

Splitting(f, s) == f = [i \in 1 .. Len(s) + 1 |-> PartsFrom(f, s, i)]

\* The parts from a position depend only on positions after it ...
LEMMA PartsFromLater ==
    ASSUME NEW f, NEW h, NEW s, Len(s) \in Nat, NEW i \in Nat, i >= 1,
           \A k \in i + 1 .. Len(s) + 1 : f[k] = h[k]
    PROVE  PartsFrom(f, s, i) = PartsFrom(h, s, i)
<1>1. CASE i > Len(s)
  BY <1>1 DEF PartsFrom
<1>2. CASE i <= Len(s) /\ s[i] = "&"
  <2>1. i + 1 \in i + 1 .. Len(s) + 1
    BY <1>2
  <2> QED BY <1>2, <2>1 DEF PartsFrom
<1>3. CASE i <= Len(s) /\ s[i] # "&"
  <2>1. PartEnd(s, i) \in i .. Len(s)
    BY <1>3, PartEndType
  <2>2. PartEnd(s, i) + 1 \in i + 1 .. Len(s) + 1
    BY <2>1
  <2>3. f[PartEnd(s, i) + 1] = h[PartEnd(s, i) + 1]
    BY <2>2
  <2> QED BY <1>3, <2>3 DEF PartsFrom
<1> QED BY <1>1, <1>2, <1>3

\* ... so the recursive function of strtok exists ...
LEMMA SplittingExists ==
    ASSUME NEW s, Len(s) \in Nat
    PROVE  \E f : Splitting(f, s)
<1> DEFINE m == Len(s) + 1
           A == {k \in Nat : \E f : f = [i \in m + 1 - k .. m |-> PartsFrom(f, s, i)]}
<1>0. m \in Nat /\ Len(s) = m - 1 /\ m >= 1
  OBVIOUS
<1>1. 0 \in A
  <2> DEFINE f == [i \in m + 1 - 0 .. m |-> 0]
  <2> HIDE DEF m
  <2>0. m + 1 - 0 .. m = {}
    BY <1>0
  <2>1. f = [i \in m + 1 - 0 .. m |-> PartsFrom(f, s, i)]
    BY <2>0
  <2> QED BY <2>1
<1> HIDE DEF m
<1>2. ASSUME NEW k \in 1 .. m, k - 1 \in A PROVE k \in A
  <2>1. PICK f : f = [i \in m + 1 - (k - 1) .. m |-> PartsFrom(f, s, i)]
    BY <1>2
  <2> DEFINE h == [i \in m + 1 - k .. m |-> PartsFrom(f, s, i)]
  <2>2. \A i \in m + 1 - (k - 1) .. m : h[i] = f[i]
    <3>1. \A i \in m + 1 - (k - 1) .. m : i \in m + 1 - k .. m
      BY <1>0
    <3> QED BY <2>1, <3>1
  <2>3. ASSUME NEW i \in m + 1 - k .. m PROVE PartsFrom(f, s, i) = PartsFrom(h, s, i)
    <3>1. i \in Nat /\ i >= 1 /\ \A j \in i + 1 .. Len(s) + 1 : j \in m + 1 - (k - 1) .. m
      BY <1>0
    <3> HIDE DEF h
    <3>2. \A j \in i + 1 .. Len(s) + 1 : f[j] = h[j]
      BY <2>2, <3>1
    <3>3. i \in Nat /\ i >= 1 /\ Len(s) \in Nat
      BY <1>0, <3>1
    <3> QED BY ONLY <3>2, <3>3, PartsFromLater
  <2>4. h = [i \in m + 1 - k .. m |-> PartsFrom(h, s, i)]
    BY <2>3
  <2>5. k \in Nat
    OBVIOUS
  <2> HIDE DEF h
  <2> QED BY <2>4, <2>5
<1>3. m \in A
  <2>2. \A k \in 1 .. m : k - 1 \in A => k \in A
    BY <1>2
  <2> HIDE DEF A
  <2>3. m \in 0 .. m
    BY <1>0
  <2> QED BY <1>0, <1>1, <2>2, <2>3, UpTo
<1>4. m + 1 - m = 1
  BY <1>0
<1> QED BY <1>3, <1>4 DEF Splitting, m

\* ... and strtok returns its first value.
LEMMA StrtokIs ==
    ASSUME NEW s, Len(s) \in Nat
    PROVE  \E f : Splitting(f, s) /\ strtok(s) = f[1]
<1> DEFINE f == CHOOSE f : Splitting(f, s)
<1>1. Splitting(f, s)
  BY SplittingExists
<1>2. strtok(s) = f[1]
  BY Zenon DEF strtok, Splitting, PartsFrom
<1> QED BY <1>1, <1>2
-------------------------------------------------------------------------------
\* The string s is the parts ps with one separator between each two, and perhaps
\* one before the first; B[i] is the place after part i.
Parted(s, B, ps) ==
    /\ Len(ps) >= 1
    /\ \A i \in 1 .. Len(ps) : Len(ps[i]) >= 1 /\ \A j \in 1 .. Len(ps[i]) : ps[i][j] # "&"
    /\ B \in [0 .. Len(ps) -> Nat]
    /\ B[0] = 0 \/ (B[0] = 1 /\ s[1] = "&")
    /\ \A i \in 1 .. Len(ps) : B[i] = B[i - 1] + Len(ps[i]) + 1
    /\ \A i \in 1 .. Len(ps) - 1 : s[B[i]] = "&"
    /\ \A i \in 1 .. Len(ps) : \A j \in 1 .. Len(ps[i]) : s[B[i - 1] + j] = ps[i][j]
    /\ B[Len(ps)] = Len(s) + 1

Parts(s, ps) == \E B : Parted(s, B, ps)

\* Separators come one after the other.
LEMMA PartedGrow ==
    ASSUME NEW s, NEW ps, NEW B, Parted(s, B, ps), Len(ps) \in Nat,
           \A i \in 1 .. Len(ps) : Len(ps[i]) \in Nat, NEW k \in 0 .. Len(ps)
    PROVE  B[k] <= B[Len(ps)]
<1> DEFINE N == Len(ps)
           A == {j \in Nat : j <= N => B[N - j] <= B[N]}
<1>1. /\ N \in Nat /\ \A i \in 0 .. N : B[i] \in Nat
      /\ \A i \in 1 .. N : B[i - 1] <= B[i]
  <2>1. N \in Nat /\ \A i \in 0 .. N : B[i] \in Nat
    BY DEF Parted
  <2>2. ASSUME NEW i \in 1 .. N PROVE B[i - 1] <= B[i]
    <3>1. B[i] = B[i - 1] + Len(ps[i]) + 1 /\ Len(ps[i]) \in Nat /\ i - 1 \in 0 .. N
      BY <2>1 DEF Parted
    <3> QED BY <2>1, <3>1
  <2> QED BY <2>1, <2>2
<1> HIDE DEF N
<1>2. 0 \in A
  <2>1. N - 0 = N /\ B[N] <= B[N]
    BY <1>1
  <2> QED BY <2>1
<1>3. ASSUME NEW j \in 1 .. N, j - 1 \in A PROVE j \in A
  <2>1. N - (j - 1) \in 1 .. N /\ (N - (j - 1)) - 1 = N - j /\ N - j \in 0 .. N /\ j - 1 <= N /\ j \in Nat
        /\ N \in 0 .. N /\ N - (j - 1) \in 0 .. N
    BY <1>1
  <2>2. B[N - (j - 1)] <= B[N]
    BY <1>3, <2>1
  <2>3. B[N - j] <= B[N - (j - 1)]
    BY <1>1, <2>1
  <2>4. B[N - j] \in Nat /\ B[N] \in Nat /\ B[N - (j - 1)] \in Nat
    BY <1>1, <2>1
  <2>5. B[N - j] <= B[N]
    BY <2>2, <2>3, <2>4
  <2> QED BY <2>1, <2>5
<1>4. N - k \in A
  <2>1. N - k \in 0 .. N
    BY <1>1 DEF N
  <2> HIDE DEF A
  <2> QED BY <1>1, <1>2, <1>3, <2>1, UpTo
<1>5. N - (N - k) = k /\ N - k <= N
  BY <1>1 DEF N
<1> QED BY <1>4, <1>5 DEF N

\* strtok takes one part and goes on at the separator after it.
LEMMA PartTaken ==
    ASSUME NEW S, NEW s \in Seq(S), NEW ps \in Seq(Seq(S)), NEW B, Parted(s, B, ps),
           NEW f, Splitting(f, s), NEW k \in 1 .. Len(ps)
    PROVE  f[B[k - 1] + 1] = <<ps[k]>> \o f[B[k]]
<1> DEFINE M == Len(ps)
           n == Len(s)
           x == ps[k]
           l == Len(ps[k])
           p == B[k - 1]
           q == B[k]
<1>1. /\ M \in Nat /\ n \in Nat /\ k \in 1 .. M /\ x \in Seq(S) /\ l \in Nat /\ l >= 1
      /\ \A i \in 1 .. M : Len(ps[i]) \in Nat
  <2>1. M \in Nat /\ n \in Nat /\ k \in 1 .. M /\ \A i \in 1 .. M : ps[i] \in Seq(S)
    OBVIOUS
  <2>2. \A i \in 1 .. M : Len(ps[i]) \in Nat
    BY <2>1
  <2>3. l >= 1
    BY DEF Parted
  <2> HIDE DEF M, n
  <2> QED BY <2>1, <2>2, <2>3
<1>2. /\ p \in Nat /\ q \in Nat /\ q = p + l + 1 /\ k - 1 \in 0 .. M /\ k \in 0 .. M
      /\ \A j \in 1 .. l : s[p + j] = x[j] /\ x[j] # "&"
      /\ k \in 1 .. M - 1 => s[q] = "&"
      /\ B[M] = n + 1
  <2>1. k - 1 \in 0 .. M /\ k \in 0 .. M
    BY <1>1
  <2> QED BY <1>1, <2>1 DEF Parted
<1>3. q <= n + 1
  <2>1. B[k] <= B[Len(ps)]
    BY <1>1, <1>2, PartedGrow
  <2> QED BY <1>2, <2>1
<1>4. k \in 1 .. M - 1 \/ q = n + 1
  <2>1. k \in 1 .. M - 1 \/ k = M
    BY <1>1
  <2> QED BY <1>2, <2>1
<1>5. Len(s) = n /\ Len(x) = l
  OBVIOUS
<1> HIDE DEF M, n, x, l, p, q
<1>6. p + 1 \in 1 .. n /\ q - 1 \in p + 1 .. n /\ (q - 1) + 1 = q /\ q - 1 = p + l
  BY <1>1, <1>2, <1>3
<1>7. s[p + 1] # "&"
  <2>1. 1 \in 1 .. l
    BY <1>1
  <2> QED BY <1>2, <2>1
<1>8. ASSUME NEW j \in p + 1 .. q - 1 PROVE s[j] # "&"
  <2>1. j - p \in 1 .. l /\ p + (j - p) = j
    BY <1>1, <1>2
  <2> QED BY <1>2, <2>1
<1>9. PartEnds(s, p + 1, q - 1)
  <2>1. q - 1 = Len(s) \/ s[(q - 1) + 1] = "&"
    <3>1. CASE k \in 1 .. M - 1
      BY <1>2, <1>6, <3>1
    <3>2. CASE q = n + 1
      BY <1>1, <1>5, <3>2
    <3> QED BY <1>4, <3>1, <3>2
  <2> QED BY <1>8, <2>1 DEF PartEnds
<1>10. PartEnd(s, p + 1) = q - 1
  BY <1>1, <1>5, <1>6, <1>9, PartEndIs
<1>11. SubSeq(s, p + 1, q - 1) = x
  <2> DEFINE t == SubSeq(s, p + 1, q - 1)
  <2>1. t \in Seq(S) /\ Len(t) = l /\ \A j \in 1 .. l : t[j] = s[p + j]
    <3>1. p + 1 \in 1 .. Len(s) + 1 /\ q - 1 \in p + 1 - 1 .. Len(s)
      BY <1>1, <1>2, <1>5, <1>6
    <3>2. t \in Seq(S) /\ Len(t) = (q - 1) - (p + 1) + 1 /\ \A j \in 1 .. (q - 1) - (p + 1) + 1 : t[j] = s[p + 1 + j - 1]
      <4> DEFINE a == p + 1
                 b == q - 1
      <4>1. a \in 1 .. Len(s) + 1 /\ b \in a - 1 .. Len(s) /\ ~(b < a) /\ a \in Nat /\ b \in Nat
        BY <1>1, <1>2, <3>1
      <4> HIDE DEF a, b
      <4>2. /\ SubSeq(s, a, b) \in Seq(S) /\ Len(SubSeq(s, a, b)) = b - a + 1
            /\ \A j \in 1 .. b - a + 1 : SubSeq(s, a, b)[j] = s[a + j - 1]
        BY <4>1, SubSeqProperties
      <4> QED BY <4>2 DEF a, b
    <3>3. (q - 1) - (p + 1) + 1 = l /\ \A j \in 1 .. l : p + 1 + j - 1 = p + j
      BY <1>1, <1>2
    <3> HIDE DEF t
    <3> QED BY <3>2, <3>3
  <2> HIDE DEF t
  <2>2. Len(t) = Len(x) /\ \A j \in 1 .. Len(t) : t[j] = x[j]
    BY <1>2, <1>5, <2>1
  <2>3. t = x
    BY <1>1, <2>1, <2>2, SeqEqual
  <2> QED BY <2>3 DEF t
<1>12. f[p + 1] = PartsFrom(f, s, p + 1)
  <2>1. p + 1 \in 1 .. Len(s) + 1
    BY <1>1, <1>5, <1>6
  <2> QED BY <2>1 DEF Splitting
<1>13. PartsFrom(f, s, p + 1) = <<x>> \o f[q]
  <2>1. ~(p + 1 > Len(s))
    BY <1>1, <1>2, <1>5, <1>6
  <2> QED BY <1>6, <1>7, <1>10, <1>11, <2>1 DEF PartsFrom
<1> QED BY <1>12, <1>13 DEF x, p, q

\* strtok gives back the parts a line was made of.
LEMMA StrtokParts ==
    ASSUME NEW S, NEW s \in Seq(S), NEW ps \in Seq(Seq(S)), Parts(s, ps)
    PROVE  strtok(s) = ps
<1> DEFINE M == Len(ps)
<1>1. PICK B : Parted(s, B, ps)
  BY DEF Parts
<1>2. PICK f : Splitting(f, s) /\ strtok(s) = f[1]
  BY StrtokIs
<1>3. \A k \in 1 .. M : f[B[k - 1] + 1] = <<ps[k]>> \o f[B[k]]
  BY <1>1, <1>2, PartTaken
<1>4. /\ M \in Nat /\ M >= 1 /\ Len(s) \in Nat /\ B[M] = Len(s) + 1
      /\ \A i \in 0 .. M : B[i] \in Nat /\ B[i] <= Len(s) + 1
      /\ \A i \in 1 .. M - 1 : s[B[i]] = "&"
      /\ \A i \in 1 .. M : B[i] >= 1
      /\ \A i \in 1 .. M - 1 : B[i] <= Len(s)
      /\ B[0] = 0 \/ (B[0] = 1 /\ s[1] = "&")
  <2>1. M \in Nat /\ M >= 1 /\ Len(s) \in Nat /\ B[M] = Len(s) + 1 /\ \A i \in 1 .. M : Len(ps[i]) \in Nat
    BY <1>1 DEF Parted
  <2>2. \A i \in 0 .. M : B[i] \in Nat
    BY <1>1 DEF Parted
  <2>3. \A i \in 0 .. M : B[i] <= Len(s) + 1
    BY <1>1, <2>1, PartedGrow
  <2>4. ASSUME NEW i \in 1 .. M PROVE B[i] >= 1 /\ B[i - 1] <= B[i] - 2
    <3>1. B[i] = B[i - 1] + Len(ps[i]) + 1 /\ i - 1 \in 0 .. M /\ i \in 0 .. M /\ Len(ps[i]) >= 1
      BY <1>1, <2>1 DEF Parted
    <3>2. B[i] \in Nat /\ B[i - 1] \in Nat /\ Len(ps[i]) \in Nat
      BY <2>1, <2>2, <3>1
    <3> QED BY <3>1, <3>2
  <2>5. ASSUME NEW i \in 1 .. M - 1 PROVE B[i] <= Len(s)
    <3>1. i + 1 \in 1 .. M /\ (i + 1) - 1 = i /\ i + 1 \in 0 .. M /\ i \in 0 .. M
      BY <2>1
    <3>2. B[i] <= B[i + 1] - 2 /\ B[i + 1] <= Len(s) + 1 /\ B[i + 1] \in Nat /\ B[i] \in Nat
      BY <2>2, <2>3, <2>4, <3>1
    <3>3. Len(s) \in Nat
      BY <2>1
    <3>4. \A a, b, c \in Nat : a <= b - 2 /\ b <= c + 1 => a <= c
      OBVIOUS
    <3> QED BY <3>2, <3>3, <3>4
  <2>6. /\ \A i \in 1 .. M - 1 : s[B[i]] = "&"
        /\ B[0] = 0 \/ (B[0] = 1 /\ s[1] = "&")
    BY <1>1 DEF Parted
  <2> QED BY <2>1, <2>2, <2>3, <2>4, <2>5, <2>6
<1> HIDE DEF M
<1>5. \A i \in 1 .. Len(s) + 1 : f[i] = PartsFrom(f, s, i)
  BY <1>2 DEF Splitting
<1>6. ASSUME NEW i \in 1 .. M - 1 PROVE f[B[i]] = f[B[i] + 1]
  <2>1. i \in 0 .. M /\ i \in 1 .. M
    BY <1>4
  <2>2. B[i] \in 1 .. Len(s) + 1 /\ ~(B[i] > Len(s)) /\ s[B[i]] = "&"
    BY <1>4, <2>1
  <2> QED BY <1>5, <2>2 DEF PartsFrom
<1>7. f[B[M]] = <<>>
  <2>1. B[M] \in 1 .. Len(s) + 1 /\ B[M] > Len(s)
    BY <1>4
  <2> QED BY <1>5, <2>1 DEF PartsFrom
<1> DEFINE A == {j \in Nat : j <= M - 1 => f[B[M - j]] = SubSeq(ps, (M - j) + 1, M)}
<1>8. 0 \in A
  <2>1. SubSeq(ps, M + 1, M) = <<>>
    <3>1. M + 1 \in Int /\ M \in Int /\ M < M + 1
      BY <1>4
    <3> QED BY <3>1, SubSeqEmpty
  <2>2. M - 0 = M
    BY <1>4
  <2> QED BY <1>7, <2>1, <2>2
<1>9. ASSUME NEW j \in 1 .. M - 1, j - 1 \in A PROVE j \in A
  <2> DEFINE k == M - (j - 1)
  <2>1. /\ k \in 1 .. M /\ M - j = k - 1 /\ (k - 1) + 1 = k /\ j - 1 <= M - 1 /\ j \in Nat
        /\ M \in k .. M /\ k - 1 \in 1 .. M - 1
    BY <1>4
  <2>2. f[B[k]] = SubSeq(ps, k + 1, M)
    BY <1>9, <2>1
  <2> HIDE DEF k
  <2>3. f[B[k - 1]] = <<ps[k]>> \o SubSeq(ps, k + 1, M)
    BY <1>3, <1>6, <2>1, <2>2
  <2>4. SubSeq(ps, k, M) = <<ps[k]>> \o SubSeq(ps, k + 1, M)
    BY <2>1, SubSeqRecursiveFirst DEF M
  <2> QED BY <2>1, <2>3, <2>4
<1>10. M - 1 \in A
  <2> HIDE DEF A
  <2>1. M - 1 \in 0 .. M - 1 /\ M - 1 \in Nat
    BY <1>4
  <2> QED BY <1>8, <1>9, <2>1, UpTo
<1>11. f[B[1]] = SubSeq(ps, 2, M)
  <2>1. M - (M - 1) = 1 /\ 1 + 1 = 2 /\ M - 1 <= M - 1
    BY <1>4
  <2>2. f[B[M - (M - 1)]] = SubSeq(ps, (M - (M - 1)) + 1, M)
    BY <1>10, <2>1
  <2> QED BY <2>1, <2>2
<1>12. f[B[0] + 1] = ps
  <2>1. 1 \in 1 .. M /\ 1 - 1 = 0 /\ M \in 1 .. M /\ 1 + 1 = 2
    BY <1>4
  <2>2. f[B[0] + 1] = <<ps[1]>> \o SubSeq(ps, 2, M)
    BY <1>3, <1>11, <2>1
  <2>3. SubSeq(ps, 1, M) = <<ps[1]>> \o SubSeq(ps, 1 + 1, M)
    BY <2>1, SubSeqRecursiveFirst DEF M
  <2>4. SubSeq(ps, 1, M) = ps
    BY SubSeqFull DEF M
  <2> QED BY <2>1, <2>2, <2>3, <2>4
<1>13. f[1] = f[B[0] + 1]
  <2>1. CASE B[0] = 0
    BY <2>1
  <2>2. CASE B[0] = 1 /\ s[1] = "&"
    <3>1. 0 \in 0 .. M
      BY <1>4
    <3>2. 1 \in 1 .. Len(s) + 1
      BY <1>4
    <3>3. ~(1 > Len(s))
      <4>1. 1 \in 1 .. M /\ B[0] + 1 <= B[1] - 1
        <5>1. 1 \in 1 .. M /\ 1 - 1 = 0 /\ 1 \in 0 .. M
          BY <1>4
        <5>2. B[1] = B[0] + Len(ps[1]) + 1 /\ Len(ps[1]) >= 1 /\ Len(ps[1]) \in Nat
          BY <1>1, <5>1 DEF Parted, M
        <5> QED BY <2>2, <5>1, <5>2
      <4>2. B[1] <= Len(s) + 1 /\ B[1] \in Nat
        BY <1>4, <4>1
      <4> QED BY <1>4, <2>2, <4>1, <4>2
    <3> QED BY <1>5, <2>2, <3>2, <3>3 DEF PartsFrom
  <2> QED BY <1>4, <2>1, <2>2
<1> QED BY <1>2, <1>12, <1>13

\* A part: not empty, without a separator.
Part(x) == Len(x) >= 1 /\ \A j \in 1 .. Len(x) : x[j] # "&"

\* One part alone.
LEMMA PartsOne ==
    ASSUME NEW S, NEW x \in Seq(S), Part(x)
    PROVE  Parts(x, <<x>>)
<1> DEFINE n == Len(x)
           B == [i \in 0 .. 1 |-> IF i = 0 THEN 0 ELSE n + 1]
           ps == <<x>>
<1>1. n \in Nat /\ Len(ps) = 1 /\ ps[1] = x
  OBVIOUS
<1>2. 1 .. 1 = {1} /\ 1 .. 1 - 1 = {} /\ 1 - 1 = 0
  OBVIOUS
<1>3. B \in [0 .. 1 -> Nat] /\ B[0] = 0 /\ B[1] = n + 1
  BY <1>1
<1> HIDE DEF B, ps, n
<1>4. Len(x) = n /\ \A j \in 1 .. n : 0 + j = j
  BY <1>1 DEF n
<1>5. Parted(x, B, ps)
  BY <1>1, <1>2, <1>3, <1>4 DEF Parted, Part
<1> QED BY <1>5 DEF Parts, ps

\* A separator before the first part does not matter.
LEMMA PartsLed ==
    ASSUME NEW S, NEW x \in Seq(S), Part(x), "&" \in S
    PROVE  Parts(<<"&">> \o x, <<x>>)
<1> DEFINE n == Len(x)
           B == [i \in 0 .. 1 |-> IF i = 0 THEN 1 ELSE n + 2]
           ps == <<x>>
           s == <<"&">> \o x
<1>1. n \in Nat /\ Len(ps) = 1 /\ ps[1] = x
  OBVIOUS
<1>2. 1 .. 1 = {1} /\ 1 .. 1 - 1 = {} /\ 1 - 1 = 0
  OBVIOUS
<1>3. B \in [0 .. 1 -> Nat] /\ B[0] = 1 /\ B[1] = n + 2
  BY <1>1
<1>4. Len(s) = n + 1 /\ s[1] = "&" /\ \A j \in 1 .. n : s[1 + j] = x[j]
  <2>1. <<"&">> \in Seq(S) /\ Len(<<"&">>) = 1 /\ <<"&">>[1] = "&" /\ 1 \in 1 .. 1
    OBVIOUS
  <2>2. Len(s) = Len(<<"&">>) + Len(x) /\ (\A q \in 1 .. Len(<<"&">>) : s[q] = <<"&">>[q])
        /\ \A j \in 1 .. Len(x) : s[Len(<<"&">>) + j] = x[j]
    BY <2>1, ConcatAt
  <2> HIDE DEF s
  <2> QED BY <1>1, <2>1, <2>2
<1> HIDE DEF B, ps, n, s
<1>5. Len(x) = n /\ n + 2 = (n + 1) + 1 /\ n + 2 = 1 + n + 1
  BY <1>1 DEF n
<1>6. Parted(s, B, ps)
  BY <1>1, <1>2, <1>3, <1>4, <1>5 DEF Parted, Part
<1> QED BY <1>6 DEF Parts, ps, s

\* Another part after a separator.
LEMMA PartsSnoc ==
    ASSUME NEW S, NEW s \in Seq(S), NEW ps \in Seq(Seq(S)), Parts(s, ps),
           NEW x \in Seq(S), Part(x), "&" \in S
    PROVE  Parts(s \o <<"&">> \o x, Append(ps, x)) /\ s \o <<"&">> \o x \in Seq(S)
<1> DEFINE M == Len(ps)
           n == Len(s)
           l == Len(x)
           t == s \o <<"&">>
           u == t \o x
           qs == Append(ps, x)
<1>1. PICK B : Parted(s, B, ps)
  BY DEF Parts
<1> DEFINE C == [i \in 0 .. M + 1 |-> IF i <= M THEN B[i] ELSE B[M] + l + 1]
<1>2. M \in Nat /\ n \in Nat /\ l \in Nat
  OBVIOUS
<1>3. Len(qs) = M + 1 /\ qs[M + 1] = x /\ \A i \in 1 .. M : qs[i] = ps[i]
  BY AppendProperties
<1>4. t \in Seq(S) /\ Len(t) = n + 1 /\ t[n + 1] = "&" /\ \A q \in 1 .. n : t[q] = s[q]
  <2>1. <<"&">> \in Seq(S) /\ Len(<<"&">>) = 1 /\ <<"&">>[1] = "&" /\ 1 \in 1 .. 1
    OBVIOUS
  <2>2. t \in Seq(S) /\ Len(t) = Len(s) + Len(<<"&">>) /\ (\A q \in 1 .. Len(s) : t[q] = s[q])
        /\ \A j \in 1 .. Len(<<"&">>) : t[Len(s) + j] = <<"&">>[j]
    BY <2>1, ConcatAt
  <2> HIDE DEF t
  <2> QED BY <1>2, <2>1, <2>2
<1> HIDE DEF t
<1>5. u \in Seq(S) /\ Len(u) = n + 1 + l /\ (\A q \in 1 .. n + 1 : u[q] = t[q])
      /\ \A j \in 1 .. l : u[n + 1 + j] = x[j]
  <2>2. u \in Seq(S) /\ Len(u) = Len(t) + Len(x) /\ (\A q \in 1 .. Len(t) : u[q] = t[q])
        /\ \A j \in 1 .. Len(x) : u[Len(t) + j] = x[j]
    <3>1. t \in Seq(S)
      BY <1>4
    <3> QED BY <3>1, ConcatAt
  <2> HIDE DEF u
  <2> QED BY <1>2, <1>4, <2>2
<1>6. /\ M >= 1 /\ B[M] = n + 1 /\ (\A i \in 0 .. M : B[i] \in Nat)
      /\ B[0] = 0 \/ (B[0] = 1 /\ s[1] = "&")
      /\ \A i \in 1 .. M : Len(ps[i]) >= 1 /\ \A j \in 1 .. Len(ps[i]) : ps[i][j] # "&"
      /\ \A i \in 1 .. M : B[i] = B[i - 1] + Len(ps[i]) + 1
      /\ \A i \in 1 .. M - 1 : s[B[i]] = "&"
      /\ \A i \in 1 .. M : \A j \in 1 .. Len(ps[i]) : s[B[i - 1] + j] = ps[i][j]
  BY <1>1 DEF Parted
<1>7. \A i \in 1 .. M : Len(ps[i]) \in Nat
  <2>1. \A i \in 1 .. M : ps[i] \in Seq(S)
    OBVIOUS
  <2> QED BY <2>1
<1>8. \A i \in 0 .. M : B[i] <= B[M]
  BY <1>1, <1>2, <1>7, PartedGrow
<1>9. \A i \in 1 .. M : B[i - 1] + Len(ps[i]) <= n /\ B[i] >= 1
  <2>1. SUFFICES ASSUME NEW i \in 1 .. M PROVE B[i - 1] + Len(ps[i]) <= n /\ B[i] >= 1
    OBVIOUS
  <2> HIDE DEF M, n
  <2>2. i \in 0 .. M /\ i - 1 \in 0 .. M
    BY <1>2
  <2>3. B[i] = B[i - 1] + Len(ps[i]) + 1 /\ B[i] <= n + 1 /\ B[i - 1] \in Nat /\ Len(ps[i]) \in Nat
    BY <1>6, <1>7, <1>8, <2>2
  <2>4. \A b, w \in Nat : b + w + 1 <= n + 1 => b + w <= n /\ b + w + 1 >= 1
    BY <1>2
  <2> QED BY <2>3, <2>4
<1>14. l >= 1 /\ \A j \in 1 .. l : x[j] # "&"
  BY DEF Part
<1>10. (\A i \in 0 .. M : C[i] = B[i]) /\ C[M + 1] = n + 1 + l + 1 /\ C \in [0 .. M + 1 -> Nat]
  <2> HIDE DEF M, n, l
  <2>1. \A i \in 0 .. M : C[i] = B[i]
    <3>1. \A i \in 0 .. M : i \in 0 .. M + 1 /\ i <= M
      BY <1>2
    <3> QED BY <3>1
  <2>2. C[M + 1] = n + 1 + l + 1
    <3>1. M + 1 \in 0 .. M + 1 /\ ~(M + 1 <= M)
      BY <1>2
    <3>2. C[M + 1] = B[M] + l + 1
      BY <3>1
    <3> QED BY <1>6, <3>2
  <2> QED BY <1>2, <1>6, <2>1, <2>2
<1> HIDE DEF C, qs, u, M, n, l
<1>11. \A i \in 1 .. M + 1 : (Len(qs[i]) >= 1 /\ \A j \in 1 .. Len(qs[i]) : qs[i][j] # "&")
                          /\ C[i] = C[i - 1] + Len(qs[i]) + 1
  <2>1. SUFFICES ASSUME NEW i \in 1 .. M + 1
        PROVE  (Len(qs[i]) >= 1 /\ \A j \in 1 .. Len(qs[i]) : qs[i][j] # "&") /\ C[i] = C[i - 1] + Len(qs[i]) + 1
    OBVIOUS
  <2>2. CASE i = M + 1
    <3>1. (M + 1) - 1 = M /\ M \in 0 .. M
      BY <1>2
    <3>2. qs[i] = x /\ Len(x) = l /\ C[i - 1] = n + 1 /\ C[i] = n + 1 + l + 1
      BY <1>3, <1>6, <1>10, <2>2, <3>1 DEF l
    <3> QED BY <1>14, <3>2
  <2>3. CASE i # M + 1
    <3>1. i \in 1 .. M /\ i - 1 \in 0 .. M /\ i \in 0 .. M
      BY <1>2, <2>3
    <3>2. qs[i] = ps[i] /\ C[i] = B[i] /\ C[i - 1] = B[i - 1]
      BY <1>3, <1>10, <3>1
    <3>3. Len(ps[i]) >= 1 /\ (\A j \in 1 .. Len(ps[i]) : ps[i][j] # "&") /\ B[i] = B[i - 1] + Len(ps[i]) + 1
      BY <1>6, <3>1
    <3> QED BY <3>2, <3>3
  <2> QED BY <2>2, <2>3
<1>12. ASSUME NEW i \in 1 .. (M + 1) - 1 PROVE u[C[i]] = "&"
  <2>1. i \in 1 .. M /\ i \in 0 .. M
    BY <1>2
  <2>2. C[i] = B[i] /\ B[i] >= 1 /\ B[i] \in Nat
    BY <1>9, <1>10, <2>1, <1>6
  <2>3. CASE i = M
    <3>1. B[i] = n + 1 /\ n + 1 \in 1 .. n + 1
      BY <1>2, <1>6, <2>3
    <3> QED BY <1>4, <1>5, <2>2, <3>1
  <2>4. CASE i # M
    <3>1. i \in 1 .. M - 1 /\ i + 1 \in 1 .. M /\ (i + 1) - 1 = i
      BY <1>2, <2>1, <2>4
    <3>2. B[i] + Len(ps[i + 1]) <= n /\ Len(ps[i + 1]) \in Nat
      BY <1>7, <1>9, <3>1
    <3>3. B[i] \in 1 .. n /\ B[i] \in 1 .. n + 1
      BY <1>2, <2>2, <3>2
    <3> QED BY <1>4, <1>5, <1>6, <2>2, <3>1, <3>3
  <2> QED BY <2>3, <2>4
<1>13. ASSUME NEW i \in 1 .. M + 1, NEW j \in 1 .. Len(qs[i]) PROVE u[C[i - 1] + j] = qs[i][j]
  <2>2. CASE i = M + 1
    <3>1. (M + 1) - 1 = M /\ M \in 0 .. M
      BY <1>2
    <3>2. qs[i] = x /\ Len(x) = l /\ C[i - 1] = n + 1
      BY <1>3, <1>6, <1>10, <2>2, <3>1 DEF l
    <3> QED BY <1>5, <3>2
  <2>3. CASE i # M + 1
    <3>1. i \in 1 .. M /\ i - 1 \in 0 .. M
      BY <1>2, <2>3
    <3>2. qs[i] = ps[i] /\ C[i - 1] = B[i - 1] /\ B[i - 1] \in Nat /\ Len(ps[i]) \in Nat
          /\ B[i - 1] + Len(ps[i]) <= n
      BY <1>3, <1>6, <1>7, <1>9, <1>10, <3>1
    <3>7. j \in 1 .. Len(ps[i])
      BY <3>2
    <3>8. \A b, w \in Nat : \A k \in 1 .. w : b + w <= n => b + k \in 1 .. n /\ b + k \in 1 .. n + 1
      BY <1>2
    <3>3. B[i - 1] + j \in 1 .. n /\ B[i - 1] + j \in 1 .. n + 1 /\ j \in 1 .. Len(ps[i])
      BY <3>2, <3>7, <3>8
    <3>4. s[B[i - 1] + j] = ps[i][j]
      BY <1>6, <3>1, <3>3
    <3>5. u[B[i - 1] + j] = s[B[i - 1] + j]
      BY <1>4, <1>5, <3>3
    <3> QED BY <3>2, <3>4, <3>5
  <2> QED BY <2>2, <2>3
<1>15. C[0] = 0 \/ (C[0] = 1 /\ u[1] = "&")
  <2>1. 0 \in 0 .. M /\ 1 \in 1 .. M
    BY <1>2, <1>6
  <2>2. CASE B[0] = 1 /\ s[1] = "&"
    <3>1. B[1 - 1] + Len(ps[1]) <= n /\ 1 - 1 = 0 /\ Len(ps[1]) \in Nat
      BY <1>7, <1>9, <2>1
    <3>2. 1 \in 1 .. n /\ 1 \in 1 .. n + 1
      BY <1>2, <2>2, <3>1
    <3> QED BY <1>4, <1>5, <1>10, <2>1, <2>2, <3>2
  <2> QED BY <1>6, <1>10, <2>1, <2>2
<1>16. Len(qs) >= 1 /\ C[Len(qs)] = Len(u) + 1
  BY <1>2, <1>3, <1>5, <1>10
<1>17. Parted(u, C, qs)
  BY <1>3, <1>10, <1>11, <1>12, <1>13, <1>15, <1>16 DEF Parted
<1> QED BY <1>5, <1>17 DEF Parts, u, t, qs
-------------------------------------------------------------------------------
\* First finds the first occurrence of a token.
LEMMA FirstIs ==
    ASSUME NEW s, NEW token, Len(s) \in Nat
    PROVE  /\ (\A i \in 1 .. Len(s) : s[i] # token) => First(s, token) = 0
           /\ \A i \in 1 .. Len(s) : s[i] = token /\ (\A j \in 1 .. i - 1 : s[j] # token) => First(s, token) = i
<1> DEFINE n == Len(s)
           I == {i \in 1 .. n : s[i] = token}
<1>1. First(s, token) = IF I # {} THEN Min(I) ELSE 0
  BY DEF First, SelectInSeq
<1>2. (\A i \in 1 .. n : s[i] # token) => First(s, token) = 0
  BY <1>1
<1>3. ASSUME NEW i \in 1 .. n, s[i] = token, \A j \in 1 .. i - 1 : s[j] # token
      PROVE  First(s, token) = i
  <2>1. i \in I
    BY <1>3
  <2>2. \A j \in I : i <= j
    BY <1>3
  <2>3. \A j \in I : j \in Nat
    OBVIOUS
  <2> HIDE DEF I
  <2>4. Min(I) = i
    <3>1. \A x \in I : (\A y \in I : x =< y) => x = i
      BY <2>1, <2>2, <2>3
    <3> QED BY <2>1, <2>2, <3>1 DEF Min
  <2> QED BY <1>1, <2>1, <2>4
<1> QED BY <1>2, <1>3

\* A pair as it is written.
Pair(key, text) == key \o <<"=">> \o text

\* A pair whose key has no "=" is split where it was joined.
LEMMA PairSplit ==
    ASSUME NEW S, NEW key \in Seq(S), NEW text \in Seq(S), "=" \in S,
           \A i \in 1 .. Len(key) : key[i] # "="
    PROVE  /\ Pair(key, text) \in Seq(S)
           /\ HasEquals(Pair(key, text))
           /\ KeyOf(Pair(key, text)) = key /\ ValueOf(Pair(key, text)) = text
<1> DEFINE n == Len(key)
           l == Len(text)
           t == key \o <<"=">>
           u == t \o text
<1>2. n \in Nat /\ l \in Nat
  OBVIOUS
<1>4. t \in Seq(S) /\ Len(t) = n + 1 /\ t[n + 1] = "=" /\ \A q \in 1 .. n : t[q] = key[q]
  <2>1. <<"=">> \in Seq(S) /\ Len(<<"=">>) = 1 /\ <<"=">>[1] = "=" /\ 1 \in 1 .. 1
    OBVIOUS
  <2>2. t \in Seq(S) /\ Len(t) = Len(key) + Len(<<"=">>) /\ (\A q \in 1 .. Len(key) : t[q] = key[q])
        /\ \A j \in 1 .. Len(<<"=">>) : t[Len(key) + j] = <<"=">>[j]
    BY <2>1, ConcatAt
  <2> HIDE DEF t
  <2> QED BY <1>2, <2>1, <2>2
<1> HIDE DEF t
<1>5. u \in Seq(S) /\ Len(u) = n + 1 + l /\ (\A q \in 1 .. n + 1 : u[q] = t[q])
      /\ \A j \in 1 .. l : u[n + 1 + j] = text[j]
  <2>2. u \in Seq(S) /\ Len(u) = Len(t) + Len(text) /\ (\A q \in 1 .. Len(t) : u[q] = t[q])
        /\ \A j \in 1 .. Len(text) : u[Len(t) + j] = text[j]
    <3>1. t \in Seq(S)
      BY <1>4
    <3> QED BY <3>1, ConcatAt
  <2> HIDE DEF u
  <2> QED BY <1>2, <1>4, <2>2
<1> HIDE DEF u, n, l
<1>6. /\ n + 1 \in 1 .. n + 1 + l /\ (\A j \in 1 .. n : j \in 1 .. n + 1) /\ n + 1 \in 1 .. n + 1
      /\ (n + 1) - 1 = n
  BY <1>2
<1>7. (\A j \in 1 .. n : u[j] = key[j]) /\ u[n + 1] = "="
  BY <1>4, <1>5, <1>6
<1>8. First(u, "=") = n + 1
  <2>1. Len(u) \in Nat /\ n + 1 \in 1 .. Len(u)
    BY <1>2, <1>5
  <2>2. \A j \in 1 .. n : u[j] # "="
    BY <1>7 DEF n
  <2>3. \A j \in 1 .. (n + 1) - 1 : u[j] # "="
    BY <1>6, <2>2
  <2> QED BY <1>7, <2>1, <2>3, FirstIs
<1>9. HasEquals(u)
  <2>1. n + 1 \in DOMAIN u
    BY <1>5, <1>6
  <2> QED BY <1>7, <2>1 DEF HasEquals
<1>10. KeyOf(u) = key
  <2> DEFINE v == SubSeq(u, 1, n)
  <2>1. v \in Seq(S) /\ Len(v) = n /\ \A j \in 1 .. n : v[j] = u[j]
    BY <1>2, <1>5
  <2>2. v = key
    <3> HIDE DEF v
    <3>1. Len(v) = Len(key) /\ \A j \in 1 .. Len(v) : v[j] = key[j]
      BY <1>7, <2>1 DEF n
    <3> QED BY <2>1, <3>1, SeqEqual
  <2> QED BY <1>6, <1>8, <2>2 DEF KeyOf
<1>11. ValueOf(u) = text
  <2> DEFINE a == n + 2
             b == n + 1 + l
             v == SubSeq(u, a, b)
  <2>1. a \in Nat /\ b \in Nat /\ b - a + 1 = l /\ (\A j \in 1 .. l : a + j - 1 = n + 1 + j)
        /\ (\A j \in a .. b : j \in 1 .. n + 1 + l) /\ (a <= b \/ l = 0)
    BY <1>2
  <2> HIDE DEF a, b
  <2>3. b = Len(u)
    BY <1>5 DEF b
  <2>2. v \in Seq(S) /\ Len(v) = l /\ \A j \in 1 .. l : v[j] = u[n + 1 + j]
    <3>1. \A j \in a .. b : u[j] \in S
      <4>1. \A j \in 1 .. n + 1 + l : u[j] \in S
        BY <1>5
      <4> QED BY <2>1, <4>1
    <3>2. v \in Seq(S) /\ Len(v) = (IF a <= b THEN b - a + 1 ELSE 0) /\ \A j \in 1 .. b - a + 1 : v[j] = u[a + j - 1]
      BY <2>1, <3>1, SubSeqProperties
    <3> HIDE DEF v
    <3> QED BY <1>2, <2>1, <3>2
  <2> HIDE DEF v
  <2>4. v = text
    <3>1. Len(v) = Len(text) /\ \A j \in 1 .. Len(v) : v[j] = text[j]
      BY <1>5, <2>2 DEF l
    <3> QED BY <2>2, <3>1, SeqEqual
  <2>5. Len(KeyOf(u)) + 2 = a
    BY <1>10 DEF a, n
  <2> QED BY <2>3, <2>4, <2>5 DEF ValueOf, v
<1> QED BY <1>5, <1>9, <1>10, <1>11 DEF Pair, u, t
-------------------------------------------------------------------------------
(* Pairs joined to a line.                                                   *)

\* What may be skipped before the pairs of an OK reply.
Skipped == {"SP"} \cup Range(Digit)

\* Pairs whose keys are written as they are: not empty, no separator, and nothing
\* that is skipped at the start.
Sayable(S, pairs) ==
    /\ pairs \in Seq(Seq(S) \X Seq(S))
    /\ \A i \in 1 .. Len(pairs) :
          /\ Len(pairs[i][1]) >= 1 /\ pairs[i][1][1] \notin Skipped
          /\ \A j \in 1 .. Len(pairs[i][1]) : pairs[i][1][j] \notin {"&", "="}

\* The pairs as they are written.
Text(pairs) == [i \in 1 .. Len(pairs) |-> Pair(pairs[i][1], mfs_tracker_url_encode(pairs[i][2]))]
Written(S) == S \cup Marks \cup {"&", "="}

\* What Sayable says of one pair.
LEMMA SayableAt ==
    ASSUME NEW S, NEW pairs, Sayable(S, pairs), NEW i \in 1 .. Len(pairs)
    PROVE  /\ pairs[i][1] \in Seq(S) /\ pairs[i][2] \in Seq(S) /\ Len(pairs[i][1]) \in Nat
           /\ Len(pairs[i][1]) >= 1 /\ pairs[i][1][1] \notin Skipped
           /\ \A j \in 1 .. Len(pairs[i][1]) : pairs[i][1][j] \notin {"&", "="}
<1>1. pairs[i] \in Seq(S) \X Seq(S)
  BY DEF Sayable
<1>2. pairs[i][1] \in Seq(S) /\ pairs[i][2] \in Seq(S)
  BY <1>1
<1> QED BY <1>2 DEF Sayable

\* No character with a meaning in a line is in an encoded string.
LEMMA EncodeType ==
    ASSUME NEW S, NEW raw \in Seq(S)
    PROVE  /\ mfs_tracker_url_encode(raw) \in Seq(Written(S))
           /\ \A j \in 1 .. Len(mfs_tracker_url_encode(raw)) :
                 mfs_tracker_url_encode(raw)[j] \notin {"&", "=", "CR", "LF", "SP"}
<1> DEFINE e == mfs_tracker_url_encode(raw)
           T == (S \cup Marks) \ {"&", "=", "CR", "LF", "SP"}
<1>1. e \in Seq(T)
  BY EncodeLaidOut
<1> HIDE DEF e
<1>2. \A j \in 1 .. Len(e) : e[j] \in T
  <2> HIDE DEF T
  <2> QED BY <1>1
<1>3. T \subseteq Written(S)
  BY DEF Written
<1>4. e \in Seq(Written(S))
  <2> HIDE DEF T
  <2> QED BY <1>1, <1>3, SeqMonotonic
<1>5. \A j \in 1 .. Len(e) : e[j] \notin {"&", "=", "CR", "LF", "SP"}
  BY <1>2
<1> QED BY <1>4, <1>5 DEF e

\* A pair as it is written is a part.
LEMMA PairPart ==
    ASSUME NEW S, NEW key \in Seq(S), NEW raw \in Seq(S), Len(key) >= 1,
           \A j \in 1 .. Len(key) : key[j] \notin {"&", "="}
    PROVE  LET p == Pair(key, mfs_tracker_url_encode(raw)) IN
           /\ p \in Seq(Written(S)) /\ Part(p) /\ HasEquals(p) /\ p[1] = key[1] /\ Len(p) >= 1
           /\ KeyOf(p) = key /\ mfs_tracker_url_decode(ValueOf(p)) = raw
<1> DEFINE T == Written(S)
           e == mfs_tracker_url_encode(raw)
           p == Pair(key, e)
           t == key \o <<"=">>
<1>1. /\ e \in Seq(T) /\ \A j \in 1 .. Len(e) : e[j] # "&"
  BY EncodeType
<1>2. key \in Seq(T) /\ "=" \in T
  <2>1. S \subseteq T /\ "=" \in T
    BY DEF Written
  <2> QED BY <2>1, SeqMonotonic
<1>3. mfs_tracker_url_decode(e) = raw
  BY RoundTrip
<1> HIDE DEF e, T
<1>4. /\ p \in Seq(T) /\ HasEquals(p) /\ KeyOf(p) = key /\ ValueOf(p) = e
  BY <1>1, <1>2, PairSplit
<1>5. /\ t \in Seq(T) /\ Len(t) = Len(key) + Len(<<"=">>) /\ (\A q \in 1 .. Len(key) : t[q] = key[q])
      /\ (\A j \in 1 .. Len(<<"=">>) : t[Len(key) + j] = <<"=">>[j])
  <2>1. <<"=">> \in Seq(T)
    BY <1>2
  <2> QED BY <1>2, <2>1, ConcatAt
<1> DEFINE n == Len(key)
           l == Len(e)
<1>7. n \in Nat /\ l \in Nat /\ n >= 1 /\ Len(key) = n /\ Len(e) = l
  BY <1>1
<1> HIDE DEF t, n, l
<1>6. Len(t) = n + 1 /\ t[n + 1] = "=" /\ \A q \in 1 .. n : t[q] = key[q]
  <2>1. Len(<<"=">>) = 1 /\ <<"=">>[1] = "=" /\ 1 \in 1 .. 1
    OBVIOUS
  <2> QED BY <1>5, <1>7, <2>1
<1>8. /\ Len(t \o e) = Len(t) + Len(e) /\ (\A q \in 1 .. Len(t) : (t \o e)[q] = t[q])
      /\ (\A j \in 1 .. Len(e) : (t \o e)[Len(t) + j] = e[j])
  <2>1. t \in Seq(T)
    BY <1>5
  <2>2. e \in Seq(T)
    BY <1>1
  <2> QED BY <2>1, <2>2, ConcatAt
<1>9. p = t \o e
  BY DEF Pair, t
<1> HIDE DEF p
<1>10. /\ Len(p) = n + 1 + l /\ (\A q \in 1 .. n + 1 : p[q] = t[q]) /\ (\A j \in 1 .. l : p[n + 1 + j] = e[j])
  BY <1>6, <1>7, <1>8, <1>9
<1>11. ASSUME NEW j \in 1 .. n + 1 + l PROVE p[j] # "&"
  <2>1. CASE j \in 1 .. n
    <3>1. j \in 1 .. n + 1
      BY <1>7, <2>1
    <3> QED BY <1>6, <1>7, <1>10, <2>1, <3>1
  <2>2. CASE j = n + 1
    <3>1. j \in 1 .. n + 1
      BY <1>7, <2>2
    <3> QED BY <1>6, <1>10, <2>2, <3>1
  <2>3. CASE j > n + 1
    <3>1. j - (n + 1) \in 1 .. l /\ n + 1 + (j - (n + 1)) = j
      BY <1>7, <2>3
    <3>2. p[j] = e[j - (n + 1)]
      BY <1>10, <3>1
    <3> QED BY <1>1, <1>7, <3>1, <3>2
  <2>4. j \in 1 .. n \/ j = n + 1 \/ j > n + 1
    BY <1>7
  <2> QED BY <2>1, <2>2, <2>3, <2>4
<1>12. p[1] = key[1]
  <2>1. 1 \in 1 .. n /\ 1 \in 1 .. n + 1
    BY <1>7
  <2> QED BY <1>6, <1>10, <2>1
<1>13. Len(p) >= 1
  BY <1>7, <1>10
<1>14. Part(p)
  BY <1>10, <1>11, <1>13 DEF Part
<1> QED BY <1>3, <1>4, <1>12, <1>13, <1>14 DEF p, e, T

\* The texts of pairs are parts that are split into the pairs again.
LEMMA TextFacts ==
    ASSUME NEW S, NEW pairs, Sayable(S, pairs)
    PROVE  /\ Text(pairs) \in Seq(Seq(Written(S))) /\ Len(Text(pairs)) = Len(pairs) /\ Len(pairs) \in Nat
           /\ \A i \in 1 .. Len(pairs) :
                 /\ Text(pairs)[i] = Pair(pairs[i][1], mfs_tracker_url_encode(pairs[i][2]))
                 /\ Text(pairs)[i] \in Seq(Written(S)) /\ Part(Text(pairs)[i]) /\ HasEquals(Text(pairs)[i])
                 /\ KeyOf(Text(pairs)[i]) = pairs[i][1]
                 /\ mfs_tracker_url_decode(ValueOf(Text(pairs)[i])) = pairs[i][2]
                 /\ Text(pairs)[i][1] \notin Skipped
<1> DEFINE t == Text(pairs)
<1>1. Len(pairs) \in Nat
  BY DEF Sayable
<1>2. \A i \in 1 .. Len(pairs) : t[i] = Pair(pairs[i][1], mfs_tracker_url_encode(pairs[i][2]))
  BY DEF Text
<1>3. ASSUME NEW i \in 1 .. Len(pairs)
      PROVE  /\ t[i] \in Seq(Written(S)) /\ Part(t[i]) /\ HasEquals(t[i])
             /\ KeyOf(t[i]) = pairs[i][1] /\ mfs_tracker_url_decode(ValueOf(t[i])) = pairs[i][2]
             /\ t[i][1] \notin Skipped
  <2> DEFINE k == pairs[i][1]
             v == pairs[i][2]
  <2>1. /\ k \in Seq(S) /\ v \in Seq(S) /\ Len(k) >= 1 /\ k[1] \notin Skipped
        /\ \A j \in 1 .. Len(k) : k[j] \notin {"&", "="}
    BY SayableAt
  <2>2. t[i] = Pair(k, mfs_tracker_url_encode(v))
    BY <1>2
  <2> HIDE DEF k, v, t
  <2> DEFINE p == Pair(k, mfs_tracker_url_encode(v))
  <2>3. /\ p \in Seq(Written(S)) /\ Part(p) /\ HasEquals(p) /\ p[1] = k[1]
        /\ KeyOf(p) = k /\ mfs_tracker_url_decode(ValueOf(p)) = v
    BY <2>1, PairPart
  <2> QED BY <2>1, <2>2, <2>3 DEF k, v
<1>4. t \in Seq(Seq(Written(S))) /\ Len(t) = Len(pairs)
  BY <1>1, <1>3 DEF Text
<1> QED BY <1>1, <1>2, <1>3, <1>4

\* Concatenation, to be reasoned about by its laws only.
Cat(s, t) == s \o t

Associates(T) ==
    /\ \A s, t \in Seq(T) : Cat(s, t) \in Seq(T)
    /\ \A s, t, u \in Seq(T) : Cat(Cat(s, t), u) = Cat(s, Cat(t, u))

\* Concatenation is associative; Cat keeps the provers from expanding it.
LEMMA OneAssociates ==
    ASSUME NEW T, NEW s \in Seq(T), NEW t \in Seq(T), NEW u \in Seq(T)
    PROVE  (s \o t) \o u = s \o (t \o u)
BY ConcatAssociative

\* The same for every set of tokens.
LEMMA ConcatAssociates == \A T : Associates(T)
<1> SUFFICES ASSUME NEW T PROVE Associates(T)
  OBVIOUS
<1>1. \A s, t \in Seq(T) : Cat(s, t) \in Seq(T)
  BY ConcatProperties DEF Cat
<1>2. \A s, t, u \in Seq(T) : Cat(Cat(s, t), u) = Cat(s, Cat(t, u))
  BY OneAssociates DEF Cat
<1> QED BY <1>1, <1>2 DEF Associates

\* The text of a pair after a separator, however it was put together.
LEMMA Regroup ==
    ASSUME NEW T, NEW s \in Seq(T), NEW key \in Seq(T), NEW e \in Seq(T), "&" \in T, "=" \in T
    PROVE  Cat(s, <<"&">> \o key \o <<"=">> \o e) = Cat(Cat(s, <<"&">>), Pair(key, e))
<1> DEFINE a == <<"&">>
           q == <<"=">>
<1>0. Associates(T)
  BY ConcatAssociates
<1>1. a \in Seq(T) /\ q \in Seq(T)
  OBVIOUS
<1> HIDE DEF a, q
<1>2. Cat(s, Cat(Cat(Cat(a, key), q), e)) = Cat(Cat(s, a), Cat(Cat(key, q), e))
  BY <1>0, <1>1 DEF Associates
<1> QED BY <1>2, Zenon DEF Pair, Cat, a, q

Regroups(T) ==
    \A s, key, e \in Seq(T) : Cat(s, <<"&">> \o key \o <<"=">> \o e) = Cat(Cat(s, <<"&">>), Pair(key, e))

\* The same for every set of tokens.
LEMMA ConcatRegroups == ASSUME NEW T, "&" \in T, "=" \in T PROVE Regroups(T)
<1>1. ASSUME NEW s \in Seq(T), NEW key \in Seq(T), NEW e \in Seq(T)
      PROVE  Cat(s, <<"&">> \o key \o <<"=">> \o e) = Cat(Cat(s, <<"&">>), Pair(key, e))
  BY Regroup
<1> QED BY <1>1, Zenon DEF Regroups

\* A tracker's pairs joined are the parts of the reply.
LEMMA JoinedParts ==
    ASSUME NEW S, NEW pairs, Sayable(S, pairs), pairs # <<>>
    PROVE  Joined(pairs) \in Seq(Written(S)) /\ Parts(Joined(pairs), Text(pairs))
<1> DEFINE T == Written(S)
           t == Text(pairs)
           N == Len(pairs)
           W(i) == (IF i > 1 THEN <<"&">> ELSE << >>)
                       \o pairs[i][1] \o <<"=">> \o mfs_tracker_url_encode(pairs[i][2])
           ss == [i \in 1 .. N |-> W(i)]
<1>1. N \in Nat /\ N >= 1 /\ DOMAIN pairs = 1 .. N
  BY DEF Sayable
<1>2. "&" \in T /\ "=" \in T /\ S \subseteq T
  BY DEF Written
<1>3. ASSUME NEW i \in 1 .. N
      PROVE  /\ pairs[i][1] \in Seq(T) /\ mfs_tracker_url_encode(pairs[i][2]) \in Seq(T)
             /\ t[i] = Pair(pairs[i][1], mfs_tracker_url_encode(pairs[i][2]))
             /\ t[i] \in Seq(T) /\ Part(t[i])
  <2>1. pairs[i][1] \in Seq(S) /\ pairs[i][2] \in Seq(S)
    BY SayableAt
  <2>2. mfs_tracker_url_encode(pairs[i][2]) \in Seq(T)
    BY <2>1, EncodeType
  <2>3. pairs[i][1] \in Seq(T)
    BY <1>2, <2>1, SeqMonotonic
  <2> QED BY <2>2, <2>3, TextFacts
<1>4. t \in Seq(Seq(T)) /\ Len(t) = N
  BY TextFacts
<1> HIDE DEF T, t
<1>5. ASSUME NEW i \in 1 .. N PROVE ss[i] \in Seq(T)
  <2> DEFINE k == pairs[i][1]
             e == mfs_tracker_url_encode(pairs[i][2])
             a == IF i > 1 THEN <<"&">> ELSE << >>
  <2>1. k \in Seq(T) /\ e \in Seq(T)
    BY <1>3
  <2>2. a \in Seq(T) /\ <<"=">> \in Seq(T)
    BY <1>2
  <2>3. ss[i] = a \o k \o <<"=">> \o e
    OBVIOUS
  <2> HIDE DEF a, k, e
  <2>4. a \o k \in Seq(T)
    BY <2>1, <2>2, ConcatProperties
  <2>5. a \o k \o <<"=">> \in Seq(T)
    BY <2>2, <2>4, ConcatProperties
  <2>6. a \o k \o <<"=">> \o e \in Seq(T)
    BY <2>1, <2>5, ConcatProperties
  <2> QED BY <2>3, <2>6
<1>6. ss \in Seq(Seq(T)) /\ Len(ss) = N /\ ss # <<>>
  <2> HIDE DEF W
  <2>1. \A i \in 1 .. N : W(i) \in Seq(T)
    BY <1>5
  <2> HIDE DEF N
  <2> QED BY <1>1, <2>1
<1>7. Joined(pairs) = FlattenSeq(ss)
  BY <1>1 DEF Joined
<1>8. ss[1] = t[1]
  <2> DEFINE k == pairs[1][1]
             e == mfs_tracker_url_encode(pairs[1][2])
  <2>0. 1 \in 1 .. N
    BY <1>1
  <2>1. ss[1] = << >> \o k \o <<"=">> \o e
    <3>1. W(1) = << >> \o k \o <<"=">> \o e
      <4>1. ~(1 > 1)
        OBVIOUS
      <4> QED BY <4>1, Zenon
    <3> HIDE DEF W, k, e
    <3> QED BY <2>0, <3>1
  <2>2. k \in Seq(T) /\ t[1] = k \o <<"=">> \o e
    BY <1>3, <2>0 DEF Pair
  <2> HIDE DEF k, e
  <2>3. << >> \o k = k
    BY <2>2, ConcatEmptySeq
  <2> QED BY <2>1, <2>2, <2>3
<1>9. ASSUME NEW i \in 2 .. N, NEW g \in Seq(T) PROVE g \o ss[i] = g \o <<"&">> \o t[i]
  <2> DEFINE k == pairs[i][1]
             e == mfs_tracker_url_encode(pairs[i][2])
  <2>0. i \in 1 .. N /\ i > 1
    BY <1>1
  <2>1. ss[i] = <<"&">> \o k \o <<"=">> \o e
    BY <2>0
  <2>2. k \in Seq(T) /\ e \in Seq(T) /\ t[i] = Pair(k, e)
    BY <1>3, <2>0
  <2> HIDE DEF k, e, ss
  <2>3. g \o (<<"&">> \o k \o <<"=">> \o e) = g \o <<"&">> \o Pair(k, e)
    <3>1. k \in Seq(T) /\ e \in Seq(T) /\ g \in Seq(T)
      BY <2>2
    <3>2. Regroups(T)
      BY <1>2, ConcatRegroups
    <3> QED BY <3>1, <3>2, Zenon DEF Regroups, Cat
  <2> QED BY <2>1, <2>2, <2>3
<1> HIDE DEF ss
<1>10. PICK g : Flattened(g, ss) /\ FlattenSeq(ss) = g[Len(ss)]
  BY <1>6, FlattenIs
<1>11. g[1] = ss[1] /\ \A i \in 2 .. N : g[i] = g[i - 1] \o ss[i]
  <2>1. \A i \in 1 .. N : g[i] = IF i = 1 THEN ss[i] ELSE g[i - 1] \o ss[i]
    BY <1>6, <1>10 DEF Flattened
  <2>2. 1 \in 1 .. N /\ \A i \in 2 .. N : i \in 1 .. N /\ i # 1
    BY <1>1
  <2> HIDE DEF N
  <2> QED BY <2>1, <2>2
<1> HIDE DEF N
<1> DEFINE A == {n \in Nat : n >= 1 => g[n] \in Seq(T) /\ Parts(g[n], SubSeq(t, 1, n))}
<1>12. ASSUME NEW n \in 1 .. N, n - 1 \in A PROVE n \in A
  <2>0. n \in Nat
    BY <1>1
  <2>1. CASE n = 1
    <3>1. 1 \in 1 .. N
      BY <1>1
    <3>2. t[1] \in Seq(T) /\ Part(t[1])
      BY <1>3, <3>1 DEF N
    <3>3. SubSeq(t, 1, 1) = <<t[1]>>
      <4>1. t \in Seq(Seq(T))
        BY <1>4
      <4>2. 1 \in 1 .. Len(t)
        BY <1>4, <3>1
      <4>3. SubSeq(t, 1, 1) = SubSeq(t, 1, 1 - 1) \o <<t[1]>>
        BY <4>1, <4>2, SubSeqRecursiveSecond
      <4>4. SubSeq(t, 1, 1 - 1) = <<>>
        BY SubSeqEmpty
      <4>5. <<t[1]>> \in Seq(Seq(T))
        BY <3>2
      <4> QED BY <4>3, <4>4, <4>5, ConcatEmptySeq
    <3>4. Parts(t[1], <<t[1]>>)
      BY <3>2, PartsOne
    <3> QED BY <1>8, <1>11, <2>1, <3>2, <3>3, <3>4
  <2>2. CASE n # 1
    <3>1. n \in 2 .. N /\ n - 1 >= 1 /\ n - 1 \in Nat
      BY <1>1, <2>2
    <3>2. g[n - 1] \in Seq(T) /\ Parts(g[n - 1], SubSeq(t, 1, n - 1))
      BY <1>12, <3>1
    <3>3. g[n] = g[n - 1] \o <<"&">> \o t[n]
      BY <1>9, <1>11, <3>1, <3>2 DEF N
    <3>4. t[n] \in Seq(T) /\ Part(t[n])
      BY <1>3 DEF N
    <3>5. SubSeq(t, 1, n - 1) \in Seq(Seq(T)) /\ SubSeq(t, 1, n) = Append(SubSeq(t, 1, n - 1), t[n])
      <4>1. n \in 1 .. Len(t)
        BY <1>4
      <4> HIDE <1>4
      <4>2. t \in Seq(Seq(T))
        BY <1>4
      <4> QED BY <1>1, <4>1, <4>2
    <3>6. Parts(g[n - 1] \o <<"&">> \o t[n], Append(SubSeq(t, 1, n - 1), t[n])) /\ g[n - 1] \o <<"&">> \o t[n] \in Seq(T)
      BY <1>2, <3>2, <3>4, <3>5, PartsSnoc
    <3> QED BY <2>0, <3>3, <3>5, <3>6
  <2> QED BY <2>1, <2>2
<1>13. N \in A
  <2>1. 0 \in A
    OBVIOUS
  <2>2. N \in 0 .. N
    BY <1>1
  <2> HIDE DEF A
  <2> QED BY <1>1, <1>12, <2>1, <2>2, UpTo
<1>14. g[N] \in Seq(T) /\ Parts(g[N], SubSeq(t, 1, N))
  BY <1>1, <1>13
<1>15. SubSeq(t, 1, N) = t
  BY <1>4, SubSeqFull
<1> QED BY <1>6, <1>7, <1>10, <1>14, <1>15 DEF T, t
-------------------------------------------------------------------------------
(* Pairs set in a hash (tracker.c:375-385).                                  *)

\* SkipWhile skips a prefix of what is to be skipped and nothing more.
LEMMA SkipStart ==
    ASSUME NEW S, NEW d \in Seq(S), NEW s \in Seq(S), NEW sk,
           \A i \in 1 .. Len(d) : d[i] \in sk, s = <<>> \/ s[1] \notin sk
    PROVE  SkipWhile(d \o s, sk) = s
<1> DEFINE n == Len(d)
           l == Len(s)
           t == d \o s
           stop == {i \in DOMAIN t : t[i] \notin sk}
<1>1. /\ t \in Seq(S) /\ Len(t) = n + l /\ n \in Nat /\ l \in Nat
      /\ \A q \in 1 .. n : t[q] = d[q]
      /\ \A j \in 1 .. l : t[n + j] = s[j]
  BY ConcatAt
<1> HIDE DEF t
<1>2. DOMAIN t = 1 .. n + l
  BY <1>1
<1>3. CASE s = <<>>
  <2>1. l = 0
    BY <1>3
  <2> HIDE DEF l
  <2>2. \A i \in 1 .. n + l : t[i] \in sk
    <3>1. \A i \in 1 .. n + l : i \in 1 .. n
      BY <1>1, <2>1
    <3> QED BY <1>1, <3>1
  <2>3. stop = {}
    BY <1>2, <2>2
  <2> QED BY <1>3, <2>3 DEF SkipWhile, t
<1>4. CASE s # <<>>
  <2>1. l >= 1 /\ s[1] \notin sk
    BY <1>4
  <2>5. Len(s) = l
    OBVIOUS
  <2> HIDE DEF l, n
  <2>2. n + 1 \in 1 .. n + l /\ 1 \in 1 .. l /\ n + 1 \in Nat
    BY <1>1, <2>1
  <2>3. n + 1 \in stop
    BY <1>1, <1>2, <2>1, <2>2
  <2>4. ASSUME NEW j \in stop PROVE n + 1 <= j /\ j \in Nat
    <3>1. j \in 1 .. n + l /\ t[j] \notin sk
      BY <1>2
    <3>2. j \notin 1 .. n
      BY <1>1, <3>1 DEF n
    <3> QED BY <1>1, <3>1, <3>2
  <2> HIDE DEF stop
  <2>6. (CHOOSE i \in stop : \A j \in stop : i <= j) = n + 1
    <3>1. \A i \in stop : (\A j \in stop : i <= j) => i = n + 1
      BY <2>2, <2>3, <2>4
    <3>2. \A j \in stop : n + 1 <= j
      BY <2>4
    <3> QED BY <2>3, <3>1, <3>2
  <2>7. SubSeq(t, n + 1, Len(t)) = s
    <3> DEFINE a == n + 1
               b == n + l
               v == SubSeq(t, a, b)
    <3>1. /\ a \in Nat /\ b \in Nat /\ b - a + 1 = l /\ (\A j \in 1 .. l : a + j - 1 = n + j)
          /\ (\A j \in a .. b : j \in 1 .. n + l) /\ a <= b
      BY <1>1, <2>1
    <3>2. \A j \in a .. b : t[j] \in S
      <4>1. \A j \in 1 .. n + l : t[j] \in S
        BY <1>1, <1>2
      <4> HIDE DEF a, b
      <4> QED BY <3>1, <4>1
    <3> HIDE DEF a, b
    <3>3. v \in Seq(S) /\ Len(v) = (IF a <= b THEN b - a + 1 ELSE 0) /\ \A j \in 1 .. b - a + 1 : v[j] = t[a + j - 1]
      BY <3>1, <3>2, SubSeqProperties
    <3> HIDE DEF v
    <3>4. v \in Seq(S) /\ Len(v) = l /\ \A j \in 1 .. l : v[j] = s[j]
      BY <1>1, <3>1, <3>3
    <3>5. v = s
      BY <2>5, <3>4, SeqEqual
    <3> QED BY <1>1, <3>5 DEF v, a, b
  <2> QED BY <2>3, <2>6, <2>7 DEF SkipWhile, stop, t
<1> QED BY <1>3, <1>4

\* A line of parts begins with the first token of the first part.
LEMMA PartsStart ==
    ASSUME NEW S, NEW s \in Seq(S), NEW ps \in Seq(Seq(S)), Parts(s, ps)
    PROVE  s # <<>> /\ (s[1] = "&" \/ s[1] = ps[1][1])
<1>1. PICK B : Parted(s, B, ps)
  BY DEF Parts
<1>2. Len(ps) \in Nat /\ Len(ps) >= 1 /\ 1 \in 1 .. Len(ps) /\ 1 - 1 = 0 /\ 0 \in 0 .. Len(ps) /\ Len(ps) \in 0 .. Len(ps)
  BY <1>1 DEF Parted
<1>3. \A i \in 1 .. Len(ps) : Len(ps[i]) \in Nat
  <2>1. \A i \in 1 .. Len(ps) : ps[i] \in Seq(S)
    OBVIOUS
  <2> QED BY <2>1
<1>4. B[1] = B[0] + Len(ps[1]) + 1 /\ Len(ps[1]) >= 1 /\ Len(ps[1]) \in Nat /\ B[0] \in Nat /\ B[1] \in Nat
  <2>1. 1 \in 0 .. Len(ps)
    BY <1>2
  <2>2. B[1] = B[1 - 1] + Len(ps[1]) + 1 /\ Len(ps[1]) >= 1 /\ B[0] \in Nat /\ B[1] \in Nat
    BY <1>1, <1>2, <2>1 DEF Parted
  <2> QED BY <1>2, <1>3, <2>2
<1>5. B[1] <= B[Len(ps)] /\ B[Len(ps)] = Len(s) + 1
  <2>1. 1 \in 0 .. Len(ps)
    BY <1>2
  <2>2. B[1] <= B[Len(ps)]
    BY <1>1, <1>2, <1>3, <2>1, PartedGrow
  <2> QED BY <1>1, <2>2 DEF Parted
<1>6. Len(s) >= 1
  <2>1. Len(s) \in Nat
    OBVIOUS
  <2> QED BY <1>4, <1>5, <2>1
<1>7. CASE B[0] = 0
  <2>1. 1 \in 1 .. Len(ps[1]) /\ 0 + 1 = 1
    BY <1>4
  <2>2. s[B[1 - 1] + 1] = ps[1][1]
    BY <1>1, <1>2, <2>1 DEF Parted
  <2> QED BY <1>2, <1>6, <1>7, <2>1, <2>2
<1>8. CASE B[0] = 1 /\ s[1] = "&"
  BY <1>6, <1>8
<1> QED BY <1>1, <1>7, <1>8 DEF Parted

\* If every pair has "=", all are taken.
LEMMA GoodAll ==
    ASSUME NEW ps, Len(ps) \in Nat, \A i \in 1 .. Len(ps) : HasEquals(ps[i])
    PROVE  GoodPairs(ps) = ps
<1> DEFINE I == {i \in 1 .. Len(ps) : ~HasEquals(ps[i])}
<1>1. I = {}
  OBVIOUS
<1>2. SelectInSeq(ps, LAMBDA p : ~HasEquals(p)) = IF I # {} THEN Min(I) ELSE 0
  BY DEF SelectInSeq
<1>3. SelectInSeq(ps, LAMBDA p : ~HasEquals(p)) = 0
  BY <1>1, <1>2
<1> QED BY <1>3 DEF GoodPairs

\* If the last one has none, those before it are taken (tracker.c:375-385).
LEMMA GoodBefore ==
    ASSUME NEW S, NEW ws \in Seq(S), NEW x \in S, \A i \in 1 .. Len(ws) : HasEquals(ws[i]), ~HasEquals(x)
    PROVE  GoodPairs(Append(ws, x)) = ws /\ ws # Append(ws, x)
<1> DEFINE ps == Append(ws, x)
           n == Len(ws)
           I == {i \in 1 .. Len(ps) : ~HasEquals(ps[i])}
           bad == SelectInSeq(ps, LAMBDA p : ~HasEquals(p))
<1>1. ps \in Seq(S) /\ Len(ps) = n + 1 /\ (\A i \in 1 .. n : ps[i] = ws[i]) /\ ps[n + 1] = x /\ n \in Nat
  BY AppendProperties
<1>2. bad = IF I # {} THEN Min(I) ELSE 0
  BY DEF SelectInSeq
<1> HIDE DEF ps, bad
<1>7. Len(ws) = n
  OBVIOUS
<1> HIDE DEF n
<1>3. n + 1 \in I /\ \A i \in I : i = n + 1
  <2>1. n + 1 \in 1 .. Len(ps)
    BY <1>1
  <2>2. ASSUME NEW i \in I PROVE i = n + 1
    <3>1. i \in 1 .. n + 1 /\ ~HasEquals(ps[i])
      BY <1>1
    <3>2. i \notin 1 .. n
      BY <1>1, <1>7, <3>1
    <3> QED BY <1>1, <3>1, <3>2
  <2> QED BY <1>1, <2>1, <2>2
<1> HIDE DEF I
<1>4. Min(I) = n + 1
  <2>1. n + 1 =< n + 1
    BY <1>1
  <2> QED BY <1>3, <2>1 DEF Min
<1>5. bad = n + 1 /\ bad # 0 /\ bad - 1 = n
  BY <1>1, <1>2, <1>3, <1>4
<1>6. SubSeq(ps, 1, n) = ws
  <2> DEFINE v == SubSeq(ps, 1, n)
  <2>1. v \in Seq(S) /\ Len(v) = n /\ \A j \in 1 .. n : v[j] = ps[j]
    BY <1>1
  <2> HIDE DEF v
  <2>2. Len(v) = Len(ws) /\ \A j \in 1 .. Len(v) : v[j] = ws[j]
    BY <1>1, <1>7, <2>1
  <2>3. v = ws
    BY <2>1, <2>2, SeqEqual
  <2> QED BY <2>3 DEF v
<1>8. GoodPairs(ps) = ws
  BY <1>5, <1>6 DEF GoodPairs, bad
<1>9. ws # ps
  <2>1. Len(ps) # Len(ws)
    BY <1>1, <1>7
  <2> QED BY <2>1
<1> QED BY <1>8, <1>9 DEF ps
-------------------------------------------------------------------------------
SetFrom(f, hash, ps, n) ==
    IF n = 0 THEN hash
    ELSE apr_hash_set(f[n - 1], KeyOf(ps[n]), mfs_tracker_url_decode(ValueOf(ps[n])))

Setting(f, hash, ps) == f = [n \in 0 .. Len(ps) |-> SetFrom(f, hash, ps, n)]

\* The recursive function of SetPairs exists ...
LEMMA SettingExists ==
    ASSUME NEW hash, NEW ps, Len(ps) \in Nat
    PROVE  \E f : Setting(f, hash, ps)
<1> DEFINE F(g, i) == SetFrom(g, hash, ps, i)
           A == {n \in Nat : \E g : g = [i \in 0 .. n |-> F(g, i)]}
<1>1. 0 \in A
  <2> DEFINE g == [i \in 0 .. 0 |-> hash]
  <2>1. \A i \in 0 .. 0 : i = 0
    OBVIOUS
  <2>2. g = [i \in 0 .. 0 |-> F(g, i)]
    BY <2>1 DEF SetFrom
  <2> QED BY <2>2
<1>2. ASSUME NEW n \in 1 .. Len(ps), n - 1 \in A PROVE n \in A
  <2>1. PICK g : g = [i \in 0 .. n - 1 |-> F(g, i)]
    BY <1>2
  <2> DEFINE h == [i \in 0 .. n |-> F(g, i)]
  <2>2. \A i \in 0 .. n - 1 : h[i] = g[i]
    <3> HIDE DEF F
    <3>1. \A i \in 0 .. n - 1 : h[i] = F(g, i)
      OBVIOUS
    <3>2. \A i \in 0 .. n - 1 : g[i] = F(g, i)
      BY <2>1
    <3> QED BY <3>1, <3>2
  <2>3. ASSUME NEW i \in 0 .. n PROVE F(g, i) = F(h, i)
    <3>1. i # 0 => i - 1 \in 0 .. n - 1
      OBVIOUS
    <3> HIDE DEF h
    <3>2. CASE i = 0
      BY <3>2 DEF SetFrom
    <3>3. CASE i # 0
      <4>1. g[i - 1] = h[i - 1]
        BY <2>2, <3>1, <3>3
      <4> QED BY <3>3, <4>1 DEF SetFrom
    <3> QED BY <3>2, <3>3
  <2> HIDE DEF F
  <2>4. h = [i \in 0 .. n |-> F(h, i)]
    BY <2>3
  <2>5. n \in Nat
    OBVIOUS
  <2> HIDE DEF h
  <2> QED BY <2>4, <2>5
<1>3. Len(ps) \in A
  <2> HIDE DEF A
  <2>1. Len(ps) \in 0 .. Len(ps)
    OBVIOUS
  <2>2. \A n \in 1 .. Len(ps) : n - 1 \in A => n \in A
    BY <1>2
  <2> QED BY <1>1, <2>1, <2>2, UpTo
<1> QED BY <1>3 DEF Setting

\* ... and SetPairs returns its last value.
LEMMA SetPairsIs ==
    ASSUME NEW hash, NEW ps, Len(ps) \in Nat
    PROVE  \E f : Setting(f, hash, ps) /\ SetPairs(hash, ps) = f[Len(ps)]
<1> DEFINE f == CHOOSE f : Setting(f, hash, ps)
<1>1. Setting(f, hash, ps)
  BY SettingExists
<1>2. SetPairs(hash, ps) = f[Len(ps)]
  BY Zenon DEF SetPairs, Setting, SetFrom
<1> QED BY <1>1, <1>2

\* The hash h is hash with what the pairs say.
Says(h, hash, pairs) ==
    /\ DOMAIN h = DOMAIN HashOf(pairs) \cup DOMAIN hash
    /\ \A k \in DOMAIN h : h[k] = IF k \in DOMAIN HashOf(pairs) THEN HashOf(pairs)[k] ELSE hash[k]

\* What HashOf says of a key: the value of its last pair.
LEMMA HashOfIs ==
    ASSUME NEW pairs, NEW n \in Nat, DOMAIN pairs = 1 .. n
    PROVE  /\ DOMAIN HashOf(pairs) = {pairs[i][1] : i \in 1 .. n}
           /\ \A i \in 1 .. n : (\A j \in i + 1 .. n : pairs[j][1] # pairs[i][1])
                 => HashOf(pairs)[pairs[i][1]] = pairs[i][2]
<1>1. DOMAIN HashOf(pairs) = {pairs[i][1] : i \in 1 .. n}
  BY DEF HashOf
<1>2. ASSUME NEW i \in 1 .. n, \A j \in i + 1 .. n : pairs[j][1] # pairs[i][1]
      PROVE  HashOf(pairs)[pairs[i][1]] = pairs[i][2]
  <2> DEFINE k == pairs[i][1]
             I == {j \in DOMAIN pairs : pairs[j][1] = k}
  <2>1. HashOf(pairs)[k] = pairs[Max(I)][2]
    <3>1. k \in {pairs[j][1] : j \in DOMAIN pairs}
      OBVIOUS
    <3> HIDE DEF k
    <3> QED BY <3>1 DEF HashOf
  <2>2. i \in I
    OBVIOUS
  <2>3. ASSUME NEW j \in I PROVE i >= j /\ j \in Nat /\ i \in Nat
    <3>1. j \in 1 .. n /\ j \notin i + 1 .. n
      BY <1>2
    <3> QED BY <3>1
  <2> HIDE DEF I
  <2>4. Max(I) = i
    <3>1. \A x \in I : (\A y \in I : x >= y) => x = i
      BY <2>2, <2>3
    <3>2. \A y \in I : i >= y
      BY <2>3
    <3> QED BY <2>2, <3>1, <3>2 DEF Max
  <2> QED BY <2>1, <2>4
<1> QED BY <1>1, <1>2

\* Setting the pairs one after the other leaves the last value of each key.
LEMMA SetPairsSays ==
    ASSUME NEW pairs, NEW n \in Nat, DOMAIN pairs = 1 .. n, NEW ps, Len(ps) = n, NEW hash,
           \A i \in 1 .. n : KeyOf(ps[i]) = pairs[i][1] /\ mfs_tracker_url_decode(ValueOf(ps[i])) = pairs[i][2]
    PROVE  Says(SetPairs(hash, ps), hash, pairs)
<1>1. PICK f : Setting(f, hash, ps) /\ SetPairs(hash, ps) = f[n]
  BY SetPairsIs
<1>2. f[0] = hash /\ \A m \in 1 .. n : f[m] = apr_hash_set(f[m - 1], pairs[m][1], pairs[m][2])
  <2>1. \A m \in 0 .. n : f[m] = SetFrom(f, hash, ps, m)
    BY <1>1 DEF Setting
  <2>2. f[0] = hash
    BY <2>1 DEF SetFrom
  <2>3. ASSUME NEW m \in 1 .. n PROVE f[m] = apr_hash_set(f[m - 1], pairs[m][1], pairs[m][2])
    <3>1. m \in 0 .. n /\ m # 0
      OBVIOUS
    <3>2. f[m] = SetFrom(f, hash, ps, m)
      BY <2>1, <3>1
    <3> QED BY <3>1, <3>2 DEF SetFrom
  <2> QED BY <2>2, <2>3
<1> DEFINE LastOf(i, m, k) == pairs[i][1] = k /\ \A j \in i + 1 .. m : pairs[j][1] # k
           Here(m, k) == \E i \in 1 .. m : LastOf(i, m, k) /\ f[m][k] = pairs[i][2]
           Before(m, k) == k \in DOMAIN hash /\ f[m][k] = hash[k] /\ \A j \in 1 .. m : pairs[j][1] # k
           Q(m) == /\ DOMAIN f[m] = DOMAIN hash \cup {pairs[i][1] : i \in 1 .. m}
                   /\ \A k \in DOMAIN f[m] : Here(m, k) \/ Before(m, k)
           A == {m \in Nat : Q(m)}
<1>3. 0 \in A
  BY <1>2
<1>4. ASSUME NEW m \in 1 .. n, m - 1 \in A PROVE m \in A
  <2> DEFINE x == pairs[m][1]
  <2>1. m \in Nat /\ (m - 1) + 1 = m /\ Q(m - 1)
    BY <1>4
  <2>2. /\ DOMAIN f[m] = DOMAIN f[m - 1] \cup {x} /\ f[m][x] = pairs[m][2]
        /\ \A k \in DOMAIN f[m - 1] : k # x => f[m][k] = f[m - 1][k]
    <3> DEFINE g == f[m - 1]
               v == pairs[m][2]
    <3>1. f[m] = apr_hash_set(g, x, v)
      BY <1>2
    <3> HIDE DEF g, v, x
    <3> QED BY <3>1 DEF apr_hash_set, g, v
  <2>3. {pairs[i][1] : i \in 1 .. m} = {pairs[i][1] : i \in 1 .. m - 1} \cup {x}
    BY <2>1
  <2>4. DOMAIN f[m] = DOMAIN hash \cup {pairs[i][1] : i \in 1 .. m}
    BY <2>1, <2>2, <2>3
  <2>5. ASSUME NEW k \in DOMAIN f[m] PROVE Here(m, k) \/ Before(m, k)
    <3>1. CASE k = x
      <4>1. m \in 1 .. m /\ m + 1 .. m = {}
        BY <2>1
      <4>2. LastOf(m, m, k) /\ f[m][k] = pairs[m][2]
        BY <2>2, <3>1, <4>1
      <4> QED BY <4>1, <4>2
    <3>2. CASE k # x
      <4>1. k \in DOMAIN f[m - 1] /\ f[m][k] = f[m - 1][k]
        BY <2>2, <3>2
      <4>2. CASE Here(m - 1, k)
        <5>1. PICK i \in 1 .. m - 1 : LastOf(i, m - 1, k) /\ f[m - 1][k] = pairs[i][2]
          BY <4>2
        <5>2. i \in 1 .. m /\ \A j \in i + 1 .. m : j \in i + 1 .. m - 1 \/ j = m
          BY <2>1
        <5>3. LastOf(i, m, k)
          BY <3>2, <5>1, <5>2
        <5> QED BY <4>1, <5>1, <5>2, <5>3
      <4>3. CASE Before(m - 1, k)
        <5>1. \A j \in 1 .. m : j \in 1 .. m - 1 \/ j = m
          BY <2>1
        <5> QED BY <3>2, <4>1, <4>3, <5>1
      <4> HIDE DEF Here, Before
      <4> QED BY <2>1, <4>1, <4>2, <4>3
    <3> QED BY <3>1, <3>2
  <2> HIDE DEF Here, Before
  <2> QED BY <2>1, <2>4, <2>5
<1>5. n \in A
  <2> HIDE DEF A
  <2>1. n \in 0 .. n
    OBVIOUS
  <2> QED BY <1>3, <1>4, <2>1, UpTo
<1>6. Q(n)
  BY <1>5
<1> DEFINE h == f[n]
           H == HashOf(pairs)
<1>11. n \in Nat /\ DOMAIN pairs = 1 .. n
  OBVIOUS
<1>7. DOMAIN H = {pairs[i][1] : i \in 1 .. n}
  BY ONLY <1>11, HashOfIs
<1>8. \A i \in 1 .. n : (\A j \in i + 1 .. n : pairs[j][1] # pairs[i][1]) => H[pairs[i][1]] = pairs[i][2]
  BY ONLY <1>11, HashOfIs
<1> HIDE DEF H
<1>9. DOMAIN h = DOMAIN H \cup DOMAIN hash
  BY <1>6, <1>7
<1>10. ASSUME NEW k \in DOMAIN h PROVE h[k] = IF k \in DOMAIN H THEN H[k] ELSE hash[k]
  <2>1. CASE Here(n, k)
    <3>1. PICK i \in 1 .. n : LastOf(i, n, k) /\ f[n][k] = pairs[i][2]
      BY <2>1
    <3>2. k \in DOMAIN H
      BY <1>7, <3>1
    <3>3. H[k] = pairs[i][2]
      BY <1>8, <3>1
    <3> QED BY <3>1, <3>2, <3>3
  <2>2. CASE Before(n, k)
    <3>1. k \notin DOMAIN H
      BY <1>7, <2>2
    <3> QED BY <2>2, <3>1
  <2> HIDE DEF Here, Before
  <2> QED BY <1>6, <2>1, <2>2
<1> QED BY <1>1, <1>9, <1>10 DEF Says, H
-------------------------------------------------------------------------------
(* What a tracker's replies are made of.                                     *)

\* The tokens of the pairs in replies.
ReplyTokens ==
    {"paths", "path", "nid", "files", "file", ".", "mtime", "type", "link", "size", "mb_total",
     "mb_used", "fixed", "total", "0", "1", "2", "3", "4", "5", "6", "7", "8", "9",
     "x", "u", "&", "%", "SP", "a", "=", "b", "l", "D", "L", "F",
     "w", "ERROR_CODE", "ERROR_DESC", "unknown_key", "path_not_found", "directory_not_empty", "failed"}

\* A pair that can be said.
Pairs ==
    {p \in Seq(ReplyTokens) \X Seq(ReplyTokens) :
        /\ Len(p[1]) >= 1 /\ p[1][1] \notin Skipped
        /\ \A j \in 1 .. Len(p[1]) : p[1][j] \notin {"&", "="}}

\* A sequence of such pairs can be said.
LEMMA PairsSayable ==
    ASSUME NEW pairs \in Seq(Pairs) PROVE Sayable(ReplyTokens, pairs)
<1>1. Pairs \subseteq Seq(ReplyTokens) \X Seq(ReplyTokens)
  BY DEF Pairs
<1>2. \A i \in 1 .. Len(pairs) : pairs[i] \in Pairs
  OBVIOUS
<1>3. pairs \in Seq(Seq(ReplyTokens) \X Seq(ReplyTokens))
  BY <1>1, SeqMonotonic
<1>4. \A p \in Pairs : /\ Len(p[1]) >= 1 /\ p[1][1] \notin Skipped
                       /\ \A j \in 1 .. Len(p[1]) : p[1][j] \notin {"&", "="}
  BY DEF Pairs
<1> QED BY <1>2, <1>3, <1>4 DEF Sayable

\* What is skipped after OK.
LEMMA SkippedIs == Skipped = {"SP", "0", "1", "2", "3", "4", "5", "6", "7", "8", "9"}
<1> DEFINE d == Digit
<1>1. /\ d[1] = "0" /\ d[2] = "1" /\ d[3] = "2" /\ d[4] = "3" /\ d[5] = "4" /\ d[6] = "5"
      /\ d[7] = "6" /\ d[8] = "7" /\ d[9] = "8" /\ d[10] = "9" /\ DOMAIN d = 1 .. 10
  BY DEF Digit
<1>2. 1 .. 10 = {1, 2, 3, 4, 5, 6, 7, 8, 9, 10}
  OBVIOUS
<1> HIDE DEF d
<1>3. Range(d) = {"0", "1", "2", "3", "4", "5", "6", "7", "8", "9"}
  BY <1>1, <1>2 DEF Range
<1> QED BY <1>3 DEF Skipped, d

\* A key of one token, of two, and of three with another.
KeyTokens == {"paths", "path", "nid", "files", "file", "mtime", "type", "link", "size", "mb_total",
              "mb_used", "fixed", "total", "ERROR_CODE", "ERROR_DESC"}

\* When a key and a value make a pair that can be said.
LEMMA PairIn ==
    ASSUME NEW s \in Seq(ReplyTokens), NEW v \in Seq(ReplyTokens), Len(s) >= 1, s[1] \notin Skipped,
           \A j \in 1 .. Len(s) : s[j] \notin {"&", "="}
    PROVE  <<s, v>> \in Pairs
<1> DEFINE p == <<s, v>>
<1>1. p[1] = s /\ p[2] = v
  OBVIOUS
<1>2. p \in Seq(ReplyTokens) \X Seq(ReplyTokens)
  OBVIOUS
<1> HIDE DEF p
<1>3. Len(p[1]) >= 1 /\ p[1][1] \notin Skipped /\ \A j \in 1 .. Len(p[1]) : p[1][j] \notin {"&", "="}
  BY <1>1
<1>4. p \in Pairs
  BY <1>2, <1>3 DEF Pairs
<1> QED BY <1>4 DEF p

\* A key of one token.
LEMMA OnePair ==
    ASSUME NEW k \in KeyTokens, NEW v \in Seq(ReplyTokens)
    PROVE  << <<k>>, v>> \in Pairs
<1>1. k \in ReplyTokens /\ k \notin Skipped /\ k \notin {"&", "="}
  BY SkippedIs DEF KeyTokens, ReplyTokens
<1> DEFINE s == <<k>>
<1>2. s \in Seq(ReplyTokens) /\ Len(s) = 1 /\ s[1] = k /\ 1 .. 1 = {1} /\ 1 >= 1
  BY <1>1
<1> HIDE DEF s
<1>3. \A j \in 1 .. Len(s) : s[j] \notin {"&", "="}
  BY <1>1, <1>2
<1>4. <<s, v>> \in Pairs
  BY <1>1, <1>2, <1>3, PairIn
<1> QED BY <1>4 DEF s

\* A key with a number.
LEMMA TwoPair ==
    ASSUME NEW k \in KeyTokens, NEW c \in {"0", "1", "2"}, NEW v \in Seq(ReplyTokens)
    PROVE  << <<k, c>>, v>> \in Pairs
<1>1. k \in ReplyTokens /\ k \notin Skipped /\ k \notin {"&", "="} /\ c \in ReplyTokens /\ c \notin {"&", "="}
  BY SkippedIs DEF KeyTokens, ReplyTokens
<1> DEFINE s == <<k, c>>
<1>2. s \in Seq(ReplyTokens) /\ Len(s) = 2 /\ s[1] = k /\ s[2] = c /\ 1 .. 2 = {1, 2} /\ 2 >= 1
  BY <1>1
<1> HIDE DEF s
<1>3. \A j \in 1 .. Len(s) : s[j] \notin {"&", "="}
  BY <1>1, <1>2
<1>4. <<s, v>> \in Pairs
  BY <1>1, <1>2, <1>3, PairIn
<1> QED BY <1>4 DEF s

\* A key with the prefix of a directory entry.
LEMMA NodePair ==
    ASSUME NEW prefix \in Seq(ReplyTokens), NEW f \in KeyTokens, NEW v \in Seq(ReplyTokens),
           prefix = <<>> \/ prefix[1] \notin Skipped,
           \A j \in 1 .. Len(prefix) : prefix[j] \notin {"&", "="}
    PROVE  <<prefix \o <<f>>, v>> \in Pairs
<1>1. f \in ReplyTokens /\ f \notin Skipped /\ f \notin {"&", "="}
  BY SkippedIs DEF KeyTokens, ReplyTokens
<1> DEFINE t == <<f>>
           n == Len(prefix)
           s == prefix \o t
<1>2. t \in Seq(ReplyTokens) /\ Len(t) = 1 /\ t[1] = f /\ 1 \in 1 .. 1
  BY <1>1
<1> HIDE DEF t
<1>3. /\ s \in Seq(ReplyTokens) /\ Len(s) = n + Len(t) /\ n \in Nat
      /\ (\A q \in 1 .. n : s[q] = prefix[q])
      /\ (\A j \in 1 .. Len(t) : s[n + j] = t[j])
  <2>1. t \in Seq(ReplyTokens)
    BY <1>2
  <2> QED BY <2>1, ConcatAt
<1> HIDE DEF s
<1>4. Len(s) = n + 1 /\ s[n + 1] = f /\ Len(s) >= 1
  BY <1>2, <1>3
<1>5. s[1] \notin Skipped
  <2>1. CASE prefix = <<>>
    <3>1. n = 0 /\ 0 + 1 = 1
      BY <2>1
    <3> HIDE DEF n
    <3> QED BY <1>1, <1>4, <3>1
  <2>2. CASE prefix # <<>>
    <3>1. 1 \in 1 .. n /\ prefix[1] \notin Skipped
      BY <2>2
    <3> HIDE DEF n
    <3> QED BY <1>3, <3>1
  <2> QED BY <2>1, <2>2
<1>6. ASSUME NEW j \in 1 .. Len(s) PROVE s[j] \notin {"&", "="}
  <2>1. j \in 1 .. n \/ j = n + 1
    BY <1>3, <1>4
  <2> QED BY <1>1, <1>3, <1>4, <2>1
<1>7. <<s, v>> \in Pairs
  BY <1>3, <1>4, <1>5, <1>6, PairIn
<1> QED BY <1>7 DEF s, t

\* The pairs of a directory entry can be said.
LEMMA NodePairs ==
    ASSUME NEW prefix \in Seq(ReplyTokens), NEW type \in Seq(ReplyTokens),
           prefix = <<>> \/ prefix[1] \notin Skipped,
           \A j \in 1 .. Len(prefix) : prefix[j] \notin {"&", "="}
    PROVE  FileNode(prefix, type) \in Seq(Pairs)
<1>1. /\ {"mtime", "nid", "type", "link", "size"} \subseteq KeyTokens
      /\ <<"1", "2">> \in Seq(ReplyTokens) /\ <<"4">> \in Seq(ReplyTokens)
      /\ <<"l", "SP">> \in Seq(ReplyTokens) /\ <<"9">> \in Seq(ReplyTokens)
  <2>1. {"mtime", "nid", "type", "link", "size"} \subseteq KeyTokens
    BY DEF KeyTokens
  <2>2. {"1", "2", "4", "l", "SP", "9"} \subseteq ReplyTokens
    BY DEF ReplyTokens
  <2> QED BY <2>1, <2>2
<1> DEFINE Field(name, value) == <<prefix \o <<name>>, value>>
<1>2. /\ Field("mtime", <<"1", "2">>) \in Pairs /\ Field("nid", <<"4">>) \in Pairs
      /\ Field("type", type) \in Pairs /\ Field("link", <<"l", "SP">>) \in Pairs
      /\ Field("size", <<"9">>) \in Pairs
  BY <1>1, NodePair
<1>3. FileNode(prefix, type) =
        <<Field("mtime", <<"1", "2">>), Field("nid", <<"4">>), Field("type", type),
          Field("link", <<"l", "SP">>), Field("size", <<"9">>)>>
  BY DEF FileNode
<1> HIDE DEF Field
<1> QED BY <1>2, <1>3

\* The strings of replies.
LEMMA TokenStrings ==
    /\ Counts \subseteq Seq(ReplyTokens) /\ NodeTypes \subseteq Seq(ReplyTokens)
    /\ \A t \in TypePairs : t[1] \in Seq(ReplyTokens) /\ t[2] \in Seq(ReplyTokens)
    /\ <<"u", "&">> \in Seq(ReplyTokens) /\ <<"%", "SP">> \in Seq(ReplyTokens)
    /\ <<"a", "=">> \in Seq(ReplyTokens) /\ <<"b">> \in Seq(ReplyTokens)
    /\ <<"4">> \in Seq(ReplyTokens) /\ <<"8">> \in Seq(ReplyTokens) /\ <<"5">> \in Seq(ReplyTokens)
    /\ <<"1">> \in Seq(ReplyTokens) /\ <<"6">> \in Seq(ReplyTokens)
    /\ <<"w", "SP">> \in Seq(ReplyTokens) /\ \A e \in ErrorCodes : <<e>> \in Seq(ReplyTokens)
<1>1. {"0", "1", "2", "3", "4", "5", "6", "8", "x", "u", "&", "%", "SP", "a", "=", "b", "D", "L", "F", "w"} \subseteq ReplyTokens
      /\ ErrorCodes \subseteq ReplyTokens
  BY DEF ReplyTokens, ErrorCodes
<1>2. Counts \subseteq Seq(ReplyTokens)
  BY <1>1 DEF Counts
<1>3. NodeTypes \subseteq Seq(ReplyTokens)
  BY <1>1 DEF NodeTypes
<1>4. \A t \in TypePairs : t[1] \in Seq(ReplyTokens) /\ t[2] \in Seq(ReplyTokens)
  <2>1. /\ <<"D">> \in Seq(ReplyTokens) /\ <<"L">> \in Seq(ReplyTokens) /\ <<"F">> \in Seq(ReplyTokens)
        /\ << >> \in Seq(ReplyTokens)
    BY <1>1
  <2> DEFINE a == <<"D">>
             b == <<"L">>
             c == <<"F">>
             d == << >>
  <2>2. TypePairs = {<<a, b>>, <<b, c>>, <<c, d>>}
    BY DEF TypePairs
  <2>3. a \in Seq(ReplyTokens) /\ b \in Seq(ReplyTokens) /\ c \in Seq(ReplyTokens) /\ d \in Seq(ReplyTokens)
    BY <2>1
  <2> HIDE DEF a, b, c, d
  <2> QED BY <2>2, <2>3
<1>5. /\ <<"u", "&">> \in Seq(ReplyTokens) /\ <<"%", "SP">> \in Seq(ReplyTokens)
      /\ <<"a", "=">> \in Seq(ReplyTokens) /\ <<"b">> \in Seq(ReplyTokens)
      /\ <<"4">> \in Seq(ReplyTokens) /\ <<"8">> \in Seq(ReplyTokens) /\ <<"5">> \in Seq(ReplyTokens)
      /\ <<"1">> \in Seq(ReplyTokens) /\ <<"6">> \in Seq(ReplyTokens)
      /\ <<"w", "SP">> \in Seq(ReplyTokens)
  BY <1>1
<1>6. \A e \in ErrorCodes : <<e>> \in Seq(ReplyTokens)
  BY <1>1
<1> QED BY <1>2, <1>3, <1>4, <1>5, <1>6

\* The pairs of every complete reply can be said ...
LEMMA CompleteSayable ==
    ASSUME NEW cmd, NEW p \in CompletePairs(cmd)
    PROVE  p \in Seq(Pairs)
<1>1. CASE cmd = "get_paths"
  <2>1. PICK n \in Counts : p = <<P("paths", n), << <<"path", "1">>, <<"u", "&">> >>,
                                  << <<"path", "2">>, <<"%", "SP">> >> >>
    BY <1>1 DEF CompletePairs
  <2>2. "paths" \in KeyTokens /\ "path" \in KeyTokens
    BY DEF KeyTokens
  <2>3. /\ P("paths", n) \in Pairs /\ << <<"path", "1">>, <<"u", "&">> >> \in Pairs
        /\ << <<"path", "2">>, <<"%", "SP">> >> \in Pairs
    BY <2>2, TokenStrings, OnePair, TwoPair DEF P
  <2> QED BY <2>1, <2>3
<1>2. CASE cmd = "plugin_filepaths_create_node"
  <2>1. p = <<P("nid", <<"4">>)>>
    BY <1>2 DEF CompletePairs
  <2>2. "nid" \in KeyTokens
    BY DEF KeyTokens
  <2>3. P("nid", <<"4">>) \in Pairs
    BY <2>2, TokenStrings, OnePair DEF P
  <2> QED BY <2>1, <2>3
<1>3. CASE cmd = "plugin_filepaths_list_directory"
  <2> DEFINE Listing(n, t) == <<P("files", n), << <<"file", "0">>, <<"a", "=">> >> >>
                \o FileNode(<<"file", "0", ".">>, t[1])
                \o << << <<"file", "1">>, <<"b">> >> >>
                \o FileNode(<<"file", "1", ".">>, t[2])
  <2>1. PICK n \in Counts, t \in TypePairs : p = Listing(n, t)
    <3>1. CompletePairs(cmd) = {Listing(n, t) : n \in Counts, t \in TypePairs}
      BY <1>3 DEF CompletePairs
    <3> HIDE DEF Listing
    <3> QED BY <3>1
  <2>2. "files" \in KeyTokens /\ "file" \in KeyTokens
    BY DEF KeyTokens
  <2>3. P("files", n) \in Pairs /\ << <<"file", "0">>, <<"a", "=">> >> \in Pairs
        /\ << <<"file", "1">>, <<"b">> >> \in Pairs
    BY <2>2, TokenStrings, OnePair, TwoPair DEF P
  <2>4. \A c \in {"0", "1"} : \A u \in Seq(ReplyTokens) : FileNode(<<"file", c, ".">>, u) \in Seq(Pairs)
    <3> SUFFICES ASSUME NEW c \in {"0", "1"}, NEW u \in Seq(ReplyTokens)
                 PROVE  FileNode(<<"file", c, ".">>, u) \in Seq(Pairs)
      OBVIOUS
    <3> DEFINE s == <<"file", c, ".">>
    <3>1. "file" \in ReplyTokens /\ c \in ReplyTokens /\ "." \in ReplyTokens /\ "file" \notin Skipped
          /\ "file" \notin {"&", "="} /\ c \notin {"&", "="} /\ "." \notin {"&", "="}
      BY SkippedIs DEF ReplyTokens
    <3>2. s \in Seq(ReplyTokens) /\ Len(s) = 3 /\ s[1] = "file" /\ s[2] = c /\ s[3] = "." /\ 1 .. 3 = {1, 2, 3}
      BY <3>1
    <3> HIDE DEF s
    <3>3. s[1] \notin Skipped /\ \A j \in 1 .. Len(s) : s[j] \notin {"&", "="}
      BY <3>1, <3>2
    <3>4. FileNode(s, u) \in Seq(Pairs)
      BY <3>2, <3>3, NodePairs
    <3> QED BY <3>4 DEF s
  <2> DEFINE a == <<P("files", n), << <<"file", "0">>, <<"a", "=">> >> >>
             b == FileNode(<<"file", "0", ".">>, t[1])
             c == << << <<"file", "1">>, <<"b">> >> >>
             d == FileNode(<<"file", "1", ".">>, t[2])
  <2>5. a \in Seq(Pairs) /\ c \in Seq(Pairs)
    BY <2>3
  <2>6. b \in Seq(Pairs) /\ d \in Seq(Pairs)
    BY <2>4, TokenStrings
  <2>7. p = a \o b \o c \o d
    BY <2>1
  <2> HIDE DEF a, b, c, d
  <2>8. a \o b \in Seq(Pairs)
    BY <2>5, <2>6, ConcatProperties
  <2>9. a \o b \o c \in Seq(Pairs)
    BY <2>5, <2>8, ConcatProperties
  <2>10. a \o b \o c \o d \in Seq(Pairs)
    BY <2>6, <2>9, ConcatProperties
  <2> QED BY <2>7, <2>10
<1>4. CASE cmd = "plugin_filepaths_path_info"
  <2>1. PICK t \in NodeTypes : p = FileNode(<< >>, t)
    BY <1>4 DEF CompletePairs
  <2>2. << >> \in Seq(ReplyTokens) /\ \A j \in 1 .. Len(<< >>) : << >>[j] \notin {"&", "="}
    OBVIOUS
  <2> QED BY <2>1, <2>2, TokenStrings, NodePairs
<1>5. CASE cmd = "plugin_filepaths_stats"
  <2>1. p = <<P("mb_total", <<"8">>), P("mb_used", <<"5">>)>>
    BY <1>5 DEF CompletePairs
  <2>2. "mb_total" \in KeyTokens /\ "mb_used" \in KeyTokens
    BY DEF KeyTokens
  <2>3. P("mb_total", <<"8">>) \in Pairs /\ P("mb_used", <<"5">>) \in Pairs
    BY <2>2, TokenStrings, OnePair DEF P
  <2> QED BY <2>1, <2>3
<1>6. CASE cmd = "plugin_filepaths_check_fs"
  <2>1. p = <<P("fixed", <<"1">>), P("total", <<"6">>)>>
    BY <1>6 DEF CompletePairs
  <2>2. "fixed" \in KeyTokens /\ "total" \in KeyTokens
    BY DEF KeyTokens
  <2>3. P("fixed", <<"1">>) \in Pairs /\ P("total", <<"6">>) \in Pairs
    BY <2>2, TokenStrings, OnePair DEF P
  <2> QED BY <2>1, <2>3
<1>7. CASE cmd \notin {"get_paths", "plugin_filepaths_create_node", "plugin_filepaths_list_directory",
                       "plugin_filepaths_path_info", "plugin_filepaths_stats", "plugin_filepaths_check_fs"}
  <2>1. p = << >>
    BY <1>7 DEF CompletePairs
  <2> QED BY <2>1
<1> QED BY <1>1, <1>2, <1>3, <1>4, <1>5, <1>6, <1>7

\* ... with one of them left out ...
LEMMA OkSayable ==
    ASSUME NEW cmd, NEW p \in OkPairs(cmd) PROVE p \in Seq(Pairs)
<1>1. PICK q \in CompletePairs(cmd) : p = q \/ \E i \in DOMAIN q : p = RemoveAt(q, i)
  BY DEF OkPairs
<1>2. q \in Seq(Pairs)
  BY CompleteSayable
<1>3. ASSUME NEW i \in DOMAIN q PROVE RemoveAt(q, i) \in Seq(Pairs)
  <2>1. i \in 1 .. Len(q) /\ Len(q) \in Nat
    BY <1>2
  <2>2. SubSeq(q, 1, i - 1) \in Seq(Pairs) /\ SubSeq(q, i + 1, Len(q)) \in Seq(Pairs)
    BY <1>2, <2>1
  <2> QED BY <2>2, ConcatProperties DEF RemoveAt
<1> QED BY <1>1, <1>2, <1>3

\* ... and the first ones of them.
LEMMA BrokenSayable ==
    ASSUME NEW cmd, NEW c \in CompletePairs(cmd), NEW p \in Prefixes(c) PROVE p \in Seq(Pairs)
<1>1. PICK l \in 0 .. Len(c) : p = SubSeq(c, 1, l)
  BY DEF Prefixes
<1>2. c \in Seq(Pairs)
  BY CompleteSayable
<1> QED BY <1>1, <1>2
-------------------------------------------------------------------------------
(* Replies parsed (tracker.c:339-428).                                       *)

\* The tokens of a reply but for the last.
BodyTokens == Written(ReplyTokens) \cup {"OK", "ERR", "HELLO", "CR"}
LineTokens == BodyTokens \cup {"LF"}

\* The tokens of replies.
LEMMA BodyFacts ==
    /\ "LF" \notin BodyTokens /\ Written(ReplyTokens) \subseteq BodyTokens /\ BodyTokens \subseteq LineTokens
    /\ ReplyTokens \subseteq Written(ReplyTokens)
    /\ {"OK", "ERR", "HELLO", "CR", "SP", "&", "x", "=", "7", "w", "+", "failed"} \subseteq BodyTokens
    /\ ErrorCodes \subseteq BodyTokens /\ {"SP", "&", "x", "=", "7", "w"} \subseteq ReplyTokens
    /\ "LF" \in LineTokens /\ "&" \in Written(ReplyTokens) /\ "=" \in Written(ReplyTokens)
    /\ ErrorCodes \subseteq ReplyTokens
BY DEF BodyTokens, LineTokens, Written, ReplyTokens, Marks, ErrorCodes

\* A line of a reply: LF ends it and is nowhere else.
Ended(line) ==
    /\ line \in Seq(LineTokens) /\ Len(line) >= 1 /\ line[Len(line)] = "LF"
    /\ \A i \in 1 .. Len(line) - 1 : line[i] # "LF"

\* A line has its LF at the end.
LEMMA OneEnd ==
    ASSUME NEW x \in Seq(BodyTokens)
    PROVE  Ended(x \o <<"LF">>)
<1> DEFINE n == Len(x)
           t == <<"LF">>
           s == x \o t
<1>1. x \in Seq(LineTokens) /\ \A i \in 1 .. n : x[i] # "LF"
  <2>1. x \in Seq(LineTokens)
    BY BodyFacts, SeqMonotonic
  <2>2. \A i \in 1 .. n : x[i] \in BodyTokens
    OBVIOUS
  <2> QED BY <2>1, <2>2, BodyFacts
<1>2. t \in Seq(LineTokens) /\ Len(t) = 1 /\ t[1] = "LF" /\ 1 \in 1 .. 1
  BY BodyFacts
<1> HIDE DEF t
<1>3. /\ s \in Seq(LineTokens) /\ Len(s) = n + Len(t) /\ n \in Nat
      /\ (\A q \in 1 .. n : s[q] = x[q])
      /\ (\A j \in 1 .. Len(t) : s[n + j] = t[j])
  <2>1. t \in Seq(LineTokens) /\ x \in Seq(LineTokens)
    BY <1>1, <1>2
  <2> QED BY <2>1, ConcatAt
<1> HIDE DEF s, n
<1>4. Len(s) = n + 1 /\ s[n + 1] = "LF" /\ Len(s) >= 1 /\ Len(s) - 1 = n
  BY <1>2, <1>3
<1> QED BY <1>1, <1>3, <1>4 DEF Ended, s, t

\* Two tokens, one after the other.
LEMMA TwoTokens ==
    ASSUME NEW a, NEW b PROVE <<a>> \o <<b>> = <<a, b>>
<1> DEFINE S == {a, b}
           s == <<a>>
           t == <<b>>
           u == <<a, b>>
           c == s \o t
<1>1. /\ s \in Seq(S) /\ t \in Seq(S) /\ u \in Seq(S) /\ Len(s) = 1 /\ Len(t) = 1 /\ Len(u) = 2
      /\ s[1] = a /\ t[1] = b /\ u[1] = a /\ u[2] = b
  OBVIOUS
<1> HIDE DEF S, s, t, u
<1>2. /\ c \in Seq(S) /\ Len(c) = Len(s) + Len(t)
      /\ (\A q \in 1 .. Len(s) : c[q] = s[q])
      /\ (\A j \in 1 .. Len(t) : c[Len(s) + j] = t[j])
  <2>1. s \in Seq(S) /\ t \in Seq(S)
    BY <1>1
  <2> QED BY <2>1, ConcatAt
<1> HIDE DEF c
<1>3. Len(c) = 2 /\ c[1] = a /\ c[2] = b
  BY <1>1, <1>2
<1>4. Len(c) = Len(u) /\ \A j \in 1 .. Len(c) : c[j] = u[j]
  <2>1. 1 .. 2 = {1, 2}
    OBVIOUS
  <2> QED BY <1>1, <1>3, <2>1
<1>5. c = u
  BY <1>1, <1>2, <1>4, SeqEqual
<1> QED BY <1>5 DEF c, u, s, t

\* CR LF is cut off a line that ends in it (tracker.c:207-213).
LEMMA CrLf ==
    ASSUME NEW x \in Seq(BodyTokens)
    PROVE  LET line == x \o <<"CR", "LF">> IN
           Ended(line) /\ Terminated(line) /\ Unterminated(line) = x
<1> DEFINE n == Len(x)
           t == <<"CR", "LF">>
           s == x \o t
           y == x \o <<"CR">>
<1>1. x \in Seq(LineTokens)
  BY BodyFacts, SeqMonotonic
<1>2. t \in Seq(LineTokens) /\ Len(t) = 2 /\ t[1] = "CR" /\ t[2] = "LF" /\ 1 \in 1 .. 2 /\ 2 \in 1 .. 2
  BY BodyFacts
<1>3. s = y \o <<"LF">>
  <2> DEFINE c == <<"CR">>
             d == <<"LF">>
  <2>1. c \in Seq(LineTokens) /\ d \in Seq(LineTokens) /\ c \o d = t
    <3>1. "CR" \in LineTokens /\ "LF" \in LineTokens
      BY BodyFacts
    <3>2. c \o d = t
      BY TwoTokens
    <3> QED BY <3>1, <3>2
  <2>2. Associates(LineTokens)
    BY ConcatAssociates
  <2> HIDE DEF c, d, t
  <2>3. Cat(Cat(x, c), d) = Cat(x, Cat(c, d))
    BY <1>1, <2>1, <2>2 DEF Associates
  <2>4. (x \o c) \o d = x \o (c \o d)
    BY <2>3 DEF Cat
  <2> QED BY <2>1, <2>4 DEF c, d
<1>4. Ended(y \o <<"LF">>)
  <2>1. <<"CR">> \in Seq(BodyTokens)
    BY BodyFacts
  <2>2. y \in Seq(BodyTokens)
    BY <2>1, ConcatProperties
  <2> HIDE DEF y
  <2> QED BY <2>2, OneEnd
<1> HIDE DEF t, y
<1>5. /\ s \in Seq(LineTokens) /\ Len(s) = n + Len(t) /\ n \in Nat
      /\ (\A q \in 1 .. n : s[q] = x[q])
      /\ (\A j \in 1 .. Len(t) : s[n + j] = t[j])
  <2>1. t \in Seq(LineTokens) /\ x \in Seq(LineTokens)
    BY <1>1, <1>2
  <2> QED BY <2>1, ConcatAt
<1>8. Len(x) = n
  OBVIOUS
<1> HIDE DEF s, n
<1>6. Len(s) = n + 2 /\ Len(s) > 1 /\ Len(s) - 1 = n + 1 /\ Len(s) - 2 = n /\ s[n + 1] = "CR"
  BY <1>2, <1>5
<1>7. SubSeq(s, 1, n) = x
  <2> DEFINE v == SubSeq(s, 1, n)
  <2>1. v \in Seq(LineTokens) /\ Len(v) = n /\ \A j \in 1 .. n : v[j] = s[j]
    BY <1>5, <1>6
  <2> HIDE DEF v
  <2>2. Len(v) = Len(x) /\ \A j \in 1 .. Len(v) : v[j] = x[j]
    BY <1>5, <1>8, <2>1
  <2>3. v = x
    BY <1>1, <2>1, <2>2, SeqEqual
  <2> QED BY <2>3 DEF v
<1>9. Terminated(s) /\ Unterminated(s) = x
  BY <1>6, <1>7 DEF Terminated, Unterminated
<1> QED BY <1>3, <1>4, <1>9 DEF s, t

\* The rest of a line after its first word.
LEMMA BodyOf ==
    ASSUME NEW word, NEW T, word \in T, "SP" \in T, NEW y \in Seq(T)
    PROVE  LET line == <<word, "SP">> \o y IN
           Len(line) >= 2 /\ line[1] = word /\ line[2] = "SP" /\ SubSeq(line, 3, Len(line)) = y
<1> DEFINE t == <<word, "SP">>
           s == t \o y
           l == Len(y)
<1>1. t \in Seq(T) /\ Len(t) = 2 /\ t[1] = word /\ t[2] = "SP" /\ 1 \in 1 .. 2 /\ 2 \in 1 .. 2
  OBVIOUS
<1> HIDE DEF t
<1>2. /\ s \in Seq(T) /\ Len(s) = Len(t) + l /\ l \in Nat
      /\ (\A q \in 1 .. Len(t) : s[q] = t[q])
      /\ (\A j \in 1 .. l : s[Len(t) + j] = y[j])
  <2>1. t \in Seq(T)
    BY <1>1
  <2> QED BY <2>1, ConcatAt
<1>5. Len(y) = l
  OBVIOUS
<1> HIDE DEF s, l
<1>3. Len(s) = 2 + l /\ Len(s) >= 2 /\ s[1] = word /\ s[2] = "SP" /\ \A j \in 1 .. l : s[2 + j] = y[j]
  BY <1>1, <1>2
<1>4. SubSeq(s, 3, Len(s)) = y
  <2> DEFINE a == 3
             b == 2 + l
             v == SubSeq(s, a, b)
  <2>1. /\ a \in Nat /\ b \in Nat /\ b - a + 1 = l /\ (\A j \in 1 .. l : a + j - 1 = 2 + j)
        /\ (\A j \in a .. b : j \in 1 .. 2 + l) /\ (a <= b \/ l = 0)
    BY <1>2
  <2>2. \A j \in 1 .. 2 + l : s[j] \in T
    BY <1>2, <1>3
  <2> HIDE DEF a, b
  <2>3. \A j \in a .. b : s[j] \in T
    BY <2>1, <2>2
  <2>4. v \in Seq(T) /\ Len(v) = (IF a <= b THEN b - a + 1 ELSE 0) /\ \A j \in 1 .. b - a + 1 : v[j] = s[a + j - 1]
    BY <2>1, <2>3, SubSeqProperties
  <2> HIDE DEF v
  <2>5. v \in Seq(T) /\ Len(v) = l /\ \A j \in 1 .. l : v[j] = y[j]
    BY <1>2, <1>3, <2>1, <2>4
  <2>6. v = y
    BY <1>5, <2>5, SeqEqual
  <2> QED BY <1>3, <2>6 DEF v, a, b
<1> QED BY <1>3, <1>4 DEF s, t

\* What is made of a line.
ParsedAs(line, hash) ==
    IF Terminated(line) THEN mfs_tracker_parse_response(Unterminated(line), hash) ELSE Invalid(hash)

\* A line that begins with OK is parsed as an OK reply (tracker.c:346-370).
LEMMA OkParsed ==
    ASSUME NEW y \in Seq(BodyTokens), NEW hash
    PROVE  LET line == <<"OK", "SP">> \o y \o <<"CR", "LF">> IN
           Ended(line) /\ ParsedAs(line, hash) = ParseOk(y, hash)
<1> DEFINE x == <<"OK", "SP">> \o y
           line == x \o <<"CR", "LF">>
<1>0. "OK" \in BodyTokens /\ "SP" \in BodyTokens
  BY BodyFacts
<1>1. x \in Seq(BodyTokens)
  <2>1. <<"OK", "SP">> \in Seq(BodyTokens)
    BY <1>0
  <2> QED BY <2>1, ConcatProperties
<1>2. Len(x) >= 2 /\ x[1] = "OK" /\ x[2] = "SP" /\ SubSeq(x, 3, Len(x)) = y
  BY <1>0, BodyOf
<1> HIDE DEF x
<1>3. Ended(line) /\ Terminated(line) /\ Unterminated(line) = x
  BY <1>1, CrLf
<1>4. mfs_tracker_parse_response(x, hash) = ParseOk(y, hash)
  BY <1>2 DEF mfs_tracker_parse_response
<1> HIDE DEF line
<1>5. Ended(line) /\ ParsedAs(line, hash) = ParseOk(y, hash)
  BY <1>3, <1>4 DEF ParsedAs
<1> QED BY <1>5 DEF line, x
\* A line of nothing has no parts.
LEMMA NothingParts == strtok(<< >>) = << >>
<1>1. Len(<< >>) \in Nat /\ Len(<< >>) = 0
  OBVIOUS
<1>2. PICK f : Splitting(f, << >>) /\ strtok(<< >>) = f[1]
  BY <1>1, StrtokIs
<1>3. f[1] = PartsFrom(f, << >>, 1)
  <2>1. 1 \in 1 .. Len(<< >>) + 1
    BY <1>1
  <2> QED BY <1>2, <2>1 DEF Splitting
<1>4. PartsFrom(f, << >>, 1) = << >>
  <2>1. 1 > Len(<< >>)
    BY <1>1
  <2> QED BY <2>1 DEF PartsFrom
<1> QED BY <1>2, <1>3, <1>4

\* A number after OK is skipped.
LEMMA NumberSkipped ==
    ASSUME NEW number \in Numbers
    PROVE  number \in Seq(ReplyTokens) /\ \A i \in 1 .. Len(number) : number[i] \in Skipped
<1> DEFINE t == <<"7", "SP">>
<1>1. "7" \in ReplyTokens /\ "SP" \in ReplyTokens /\ "7" \in Skipped /\ "SP" \in Skipped
  BY SkippedIs DEF ReplyTokens
<1>2. t \in Seq(ReplyTokens) /\ Len(t) = 2 /\ t[1] = "7" /\ t[2] = "SP" /\ 1 .. 2 = {1, 2}
  BY <1>1
<1>3. number = << >> \/ number = t
  BY DEF Numbers
<1> HIDE DEF t
<1>4. CASE number = t
  BY <1>1, <1>2, <1>4
<1>5. CASE number = << >>
  BY <1>5
<1> QED BY <1>3, <1>4, <1>5

\* No pairs joined are nothing.
LEMMA JoinedNothing == Joined(<< >>) = << >>
<1> DEFINE F(i) == (IF i > 1 THEN <<"&">> ELSE << >>)
            \o << >>[i][1] \o <<"=">> \o mfs_tracker_url_encode(<< >>[i][2])
           ss == [i \in DOMAIN << >> |-> F(i)]
<1>1. Joined(<< >>) = FlattenSeq(ss)
  BY DEF Joined
<1>2. ss = << >>
  <2> HIDE DEF F
  <2> QED OBVIOUS
<1>3. FlattenSeq(<< >>) = << >>
  BY DEF FlattenSeq
<1> QED BY <1>1, <1>2, <1>3

\* A complete OK reply is parsed into the tracker's pairs (tracker.c:371-386).
LEMMA GoodParsed ==
    ASSUME NEW pairs \in Seq(Pairs), NEW number \in Numbers, NEW hash
    PROVE  /\ number \o Joined(pairs) \in Seq(BodyTokens)
           /\ \E h : Says(h, hash, pairs)
                     /\ ParseOk(number \o Joined(pairs), hash) = [rv |-> "SUCCESS", ok |-> TRUE, result |-> h]
<1> DEFINE T == Written(ReplyTokens)
           J == Joined(pairs)
           t == Text(pairs)
           n == Len(pairs)
<1>1. Sayable(ReplyTokens, pairs) /\ n \in Nat /\ DOMAIN pairs = 1 .. n
  BY PairsSayable
<1>2. number \in Seq(T) /\ \A i \in 1 .. Len(number) : number[i] \in Skipped
  BY NumberSkipped, BodyFacts, SeqMonotonic
<1>3. /\ t \in Seq(Seq(T)) /\ Len(t) = n
      /\ \A i \in 1 .. n : /\ HasEquals(t[i]) /\ KeyOf(t[i]) = pairs[i][1] /\ t[i][1] \notin Skipped
                           /\ mfs_tracker_url_decode(ValueOf(t[i])) = pairs[i][2]
  <2>1. Sayable(ReplyTokens, pairs)
    BY <1>1
  <2> QED BY <2>1, TextFacts
<1> HIDE DEF t
<1>4. J \in Seq(T) /\ (J = <<>> \/ J[1] \notin Skipped) /\ strtok(J) = t
  <2>1. CASE pairs = <<>>
    <3>1. n = 0
      BY <2>1
    <3>2. t = <<>>
      <4> HIDE DEF n
      <4> QED BY <1>3, <3>1
    <3>3. J = <<>>
      BY <2>1, JoinedNothing
    <3> HIDE DEF J
    <3> QED BY <3>2, <3>3, NothingParts
  <2>2. CASE pairs # <<>>
    <3>1. J \in Seq(T) /\ Parts(J, t)
      BY <1>1, <2>2, JoinedParts DEF t
    <3> HIDE DEF J, T
    <3>2. strtok(J) = t
      BY <1>3, <3>1, StrtokParts
    <3>3. J # <<>> /\ (J[1] = "&" \/ J[1] = t[1][1])
      BY <1>3, <3>1, PartsStart
    <3>4. "&" \notin Skipped
      BY SkippedIs
    <3>5. 1 \in 1 .. n
      BY <2>2
    <3> HIDE DEF n
    <3>6. t[1][1] \notin Skipped
      BY <1>3, <3>5
    <3> QED BY <3>1, <3>2, <3>3, <3>4, <3>6
  <2> QED BY <2>1, <2>2
<1> HIDE DEF J, T
<1>5. SkipWhile(number \o J, Skipped) = J
  BY <1>2, <1>4, SkipStart
<1>6. GoodPairs(t) = t
  <2>1. Len(t) \in Nat /\ \A i \in 1 .. Len(t) : HasEquals(t[i])
    BY <1>1, <1>3
  <2> QED BY <2>1, GoodAll
<1>7. Says(SetPairs(hash, t), hash, pairs)
  <2> HIDE DEF n
  <2> QED BY <1>1, <1>3, SetPairsSays
<1>8. ParseOk(number \o J, hash) = [rv |-> "SUCCESS", ok |-> TRUE, result |-> SetPairs(hash, t)]
  BY <1>4, <1>5, <1>6 DEF ParseOk, Skipped
<1>9. number \o J \in Seq(BodyTokens)
  <2>1. number \o J \in Seq(T)
    BY <1>2, <1>4, ConcatProperties
  <2>2. T \subseteq BodyTokens
    BY BodyFacts DEF T
  <2> QED BY <2>1, <2>2, SeqMonotonic
<1> QED BY <1>7, <1>8, <1>9 DEF J

\* One that broke off is refused, with the pairs before the break set.
LEMMA BrokenParsed ==
    ASSUME NEW pairs \in Seq(Pairs), NEW hash
    PROVE  /\ Joined(pairs) \o <<"&", "x">> \in Seq(BodyTokens)
           /\ \E h : Says(h, hash, pairs) /\ ParseOk(Joined(pairs) \o <<"&", "x">>, hash) = Invalid(h)
<1> DEFINE T == Written(ReplyTokens)
           J == Joined(pairs)
           t == Text(pairs)
           n == Len(pairs)
           x == <<"x">>
           K == J \o <<"&", "x">>
<1>1. Sayable(ReplyTokens, pairs) /\ n \in Nat /\ DOMAIN pairs = 1 .. n
  BY PairsSayable
<1>2. x \in Seq(T) /\ Part(x) /\ ~HasEquals(x) /\ <<"&">> \in Seq(T) /\ x[1] \notin Skipped
  <2>1. "x" \in T /\ "&" \in T /\ "x" \notin Skipped
    BY BodyFacts, SkippedIs
  <2> HIDE DEF T
  <2>2. x \in Seq(T) /\ Len(x) = 1 /\ x[1] = "x" /\ 1 .. 1 = {1} /\ DOMAIN x = 1 .. 1 /\ <<"&">> \in Seq(T)
    BY <2>1
  <2> HIDE DEF x
  <2>3. Part(x)
    BY <2>2 DEF Part
  <2>4. ~HasEquals(x)
    BY <2>2 DEF HasEquals
  <2> QED BY <2>1, <2>2, <2>3, <2>4
<1>3. /\ t \in Seq(Seq(T)) /\ Len(t) = n
      /\ \A i \in 1 .. n : /\ HasEquals(t[i]) /\ KeyOf(t[i]) = pairs[i][1] /\ t[i][1] \notin Skipped
                           /\ mfs_tracker_url_decode(ValueOf(t[i])) = pairs[i][2]
  <2>1. Sayable(ReplyTokens, pairs)
    BY <1>1
  <2> QED BY <2>1, TextFacts
<1>10. "&" \in T /\ "&" \notin Skipped
  BY SkippedIs DEF Written
<1>11. <<"&", "x">> = <<"&">> \o x
  BY TwoTokens
<1> HIDE DEF t, x, T
<1>4. K \in Seq(T) /\ Parts(K, Append(t, x))
  <2>1. CASE pairs = <<>>
    <3>1. n = 0
      BY <2>1
    <3>2. t = <<>>
      <4> HIDE DEF n
      <4> QED BY <1>3, <3>1
    <3>3. J = <<>>
      BY <2>1, JoinedNothing
    <3> HIDE DEF J
    <3>4. <<"&">> \o x \in Seq(T)
      BY <1>2, ConcatProperties
    <3>5. K = <<"&">> \o x
      BY <1>11, <3>3, <3>4, ConcatEmptySeq
    <3>6. Append(t, x) = <<x>>
      BY <3>2
    <3>7. Parts(<<"&">> \o x, <<x>>)
      BY <1>2, <1>10, PartsLed
    <3> QED BY <3>4, <3>5, <3>6, <3>7
  <2>2. CASE pairs # <<>>
    <3>1. J \in Seq(T) /\ Parts(J, t)
      BY <1>1, <2>2, JoinedParts DEF t, T
    <3> HIDE DEF J
    <3>2. Parts(J \o <<"&">> \o x, Append(t, x)) /\ J \o <<"&">> \o x \in Seq(T)
      BY <1>2, <1>3, <1>10, <3>1, PartsSnoc
    <3>3. J \o <<"&">> \o x = J \o (<<"&">> \o x)
      <4> DEFINE a == <<"&">>
      <4>1. a \in Seq(T) /\ x \in Seq(T)
        BY <1>2
      <4>2. Associates(T)
        BY ConcatAssociates
      <4> HIDE DEF a
      <4>3. Cat(Cat(J, a), x) = Cat(J, Cat(a, x))
        BY <3>1, <4>1, <4>2 DEF Associates
      <4> QED BY <4>3 DEF Cat, a
    <3> QED BY <1>11, <3>2, <3>3
  <2> QED BY <2>1, <2>2
<1> HIDE DEF J, K
<1> DEFINE ps == Append(t, x)
<1>5. ps \in Seq(Seq(T)) /\ Len(ps) = n + 1 /\ (\A i \in 1 .. n : ps[i] = t[i]) /\ ps[n + 1] = x
  <2> HIDE DEF n
  <2> QED BY <1>2, <1>3, AppendProperties
<1>6. strtok(K) = ps /\ K # <<>> /\ K[1] \notin Skipped
  <2> HIDE DEF ps
  <2>1. Parts(K, ps)
    BY <1>4 DEF ps
  <2>2. strtok(K) = ps
    BY <1>4, <1>5, <2>1, StrtokParts
  <2>3. K # <<>> /\ (K[1] = "&" \/ K[1] = ps[1][1])
    BY <1>4, <1>5, <2>1, PartsStart
  <2> HIDE DEF n
  <2>4. ps[1][1] \notin Skipped
    <3>1. CASE n = 0
      BY <1>2, <1>5, <3>1
    <3>2. CASE n # 0
      <4>1. 1 \in 1 .. n
        BY <1>1, <3>2
      <4> QED BY <1>3, <1>5, <4>1
    <3> QED BY <3>1, <3>2
  <2> QED BY <1>10, <2>2, <2>3, <2>4
<1>7. SkipWhile(K, Skipped) = K
  <2>1. << >> \in Seq(T) /\ \A i \in 1 .. Len(<< >>) : << >>[i] \in Skipped
    OBVIOUS
  <2>2. SkipWhile(<< >> \o K, Skipped) = K
    BY <1>4, <1>6, <2>1, SkipStart
  <2> QED BY <1>4, <2>2, ConcatEmptySeq
<1>8. GoodPairs(ps) = t /\ t # ps
  <2>1. \A i \in 1 .. Len(t) : HasEquals(t[i])
    BY <1>3
  <2> QED BY <1>2, <1>3, <2>1, GoodBefore
<1>9. Says(SetPairs(hash, t), hash, pairs)
  <2> HIDE DEF n
  <2> QED BY <1>1, <1>3, SetPairsSays
<1>12. ParseOk(K, hash) = Invalid(SetPairs(hash, t))
  <2> HIDE DEF ps
  <2> QED BY <1>6, <1>7, <1>8 DEF ParseOk, Skipped
<1>13. K \in Seq(BodyTokens)
  <2>2. T \subseteq BodyTokens
    BY BodyFacts DEF T
  <2> QED BY <1>4, <2>2, SeqMonotonic
<1> QED BY <1>9, <1>12, <1>13 DEF K, J

\* The description of an error, decoded.
LEMMA DescDecoded == mfs_tracker_url_decode(<<"w", "+">>) = <<"w", "SP">>
<1> DEFINE raw == <<"w", "SP">>
           S == {"w", "SP"}
           enc == mfs_tracker_url_encode(raw)
           ss == [i \in 1 .. Len(raw) |-> Code(raw[i])]
           u == <<"w", "+">>
<1>1. raw \in Seq(S) /\ Len(raw) = 2 /\ raw[1] = "w" /\ raw[2] = "SP" /\ 1 .. 2 = {1, 2}
  OBVIOUS
<1>10. u \in Seq({"w", "+"}) /\ Len(u) = 2 /\ u[1] = "w" /\ u[2] = "+"
  OBVIOUS
<1> HIDE DEF raw, S, u
<1>2. PICK E : LaidOut(enc, E, ss)
  BY <1>1, EncodeLaidOut
<1>3. enc \in Seq((S \cup Marks) \ {"&", "=", "CR", "LF", "SP"})
  BY <1>1, EncodeLaidOut
<1>4. Code("w") = <<"w">> /\ Code("SP") = <<"+">>
  BY CodeIs, HexFacts
<1>5. ss[1] = <<"w">> /\ ss[2] = <<"+">> /\ Len(ss) = 2
  BY <1>1, <1>4
<1>6. Len(<<"w">>) = 1 /\ <<"w">>[1] = "w" /\ Len(<<"+">>) = 1 /\ <<"+">>[1] = "+" /\ 1 \in 1 .. 1
  OBVIOUS
<1> HIDE DEF ss, enc
<1>7. E[0] = 0 /\ E[1] = E[1 - 1] + 1 /\ E[2] = E[2 - 1] + 1 /\ Len(enc) = E[2]
      /\ enc[E[1 - 1] + 1] = "w" /\ enc[E[2 - 1] + 1] = "+"
  <2>1. 1 \in 1 .. 2 /\ 2 \in 1 .. 2
    OBVIOUS
  <2> QED BY <1>2, <1>5, <1>6, <2>1 DEF LaidOut, Ends
<1>8. Len(enc) = 2 /\ enc[1] = "w" /\ enc[2] = "+"
  <2>1. 1 - 1 = 0 /\ 2 - 1 = 1 /\ 0 + 1 = 1 /\ 1 + 1 = 2
    OBVIOUS
  <2> QED BY <1>7, <2>1
<1>9. enc = u
  <2>1. Len(enc) = Len(u) /\ \A i \in 1 .. Len(enc) : enc[i] = u[i]
    BY <1>1, <1>8, <1>10
  <2> QED BY <1>3, <1>10, <2>1, SeqEqual
<1>11. mfs_tracker_url_decode(enc) = raw
  BY <1>1, RoundTrip DEF enc
<1> QED BY <1>9, <1>11 DEF raw, u

\* An error code is decoded to itself.
LEMMA CodeDecoded ==
    ASSUME NEW e \in ErrorCodes PROVE mfs_tracker_url_decode(<<e>>) = <<e>>
<1>1. e \notin Special \cup {"SP"}
  BY HexFacts DEF ErrorCodes
<1> DEFINE s == <<e>>
<1>2. s \in Seq({e}) /\ Len(s) = 1 /\ s[1] = e /\ 1 .. 1 = {1}
  OBVIOUS
<1> HIDE DEF s
<1>3. \A i \in 1 .. Len(s) : s[i] \notin Special \cup {"SP"}
  BY <1>1, <1>2
<1>4. mfs_tracker_url_decode(s) = s
  BY <1>2, <1>3, DecodePlain
<1> QED BY <1>4 DEF s

\* What an ERR reply puts into the hash.
LEMMA ErrSays ==
    ASSUME NEW e \in ErrorCodes, NEW hash
    PROVE  Says(apr_hash_set(apr_hash_set(hash, <<"ERROR_CODE">>, <<e>>), <<"ERROR_DESC">>, <<"w", "SP">>),
                hash, <<P("ERROR_CODE", <<e>>), ErrDesc>>)
<1> DEFINE k == <<"ERROR_CODE">>
           m == <<"ERROR_DESC">>
           v == <<e>>
           w == <<"w", "SP">>
           p == <<k, v>>
           q == <<m, w>>
           pairs == <<p, q>>
           g == apr_hash_set(hash, k, v)
           h == apr_hash_set(g, m, w)
           H == HashOf(pairs)
<1>1. k # m
  OBVIOUS
<1>2. <<P("ERROR_CODE", <<e>>), ErrDesc>> = pairs
  BY DEF P, ErrDesc
<1>3. p[1] = k /\ p[2] = v /\ q[1] = m /\ q[2] = w
  OBVIOUS
<1> HIDE DEF k, m, v, w, p, q
<1>4. DOMAIN pairs = 1 .. 2 /\ pairs[1] = p /\ pairs[2] = q /\ 1 .. 2 = {1, 2} /\ 1 + 1 .. 2 = {2} /\ 2 + 1 .. 2 = {}
  OBVIOUS
<1> HIDE DEF pairs
<1>5. DOMAIN H = {k, m}
  <2>1. DOMAIN H = {pairs[i][1] : i \in 1 .. 2}
    BY <1>4, HashOfIs
  <2> QED BY <1>3, <1>4, <2>1
<1>6. H[k] = v /\ H[m] = w
  <2>1. \A i \in 1 .. 2 : (\A j \in i + 1 .. 2 : pairs[j][1] # pairs[i][1]) => H[pairs[i][1]] = pairs[i][2]
    BY <1>4, HashOfIs
  <2> QED BY <1>1, <1>3, <1>4, <2>1
<1>7. DOMAIN h = {k, m} \cup DOMAIN hash /\ h[m] = w /\ h[k] = v /\ \A x \in DOMAIN hash : x \notin {k, m} => h[x] = hash[x]
  BY <1>1 DEF apr_hash_set
<1> HIDE DEF H, h, g
<1>8. \A x \in DOMAIN h : h[x] = IF x \in DOMAIN H THEN H[x] ELSE hash[x]
  BY <1>5, <1>6, <1>7
<1>9. Says(h, hash, pairs)
  BY <1>5, <1>7, <1>8 DEF Says, H
<1> QED BY <1>2, <1>9 DEF h, g, k, m, v, w

\* How a part of a sequence is recognised.
LEMMA SubSeqIs ==
    ASSUME NEW T, NEW s \in Seq(T), NEW t \in Seq(T), NEW a \in Nat, NEW b \in Nat, a >= 1, a <= b, b <= Len(s),
           Len(t) = b - a + 1, \A j \in 1 .. Len(t) : t[j] = s[a + j - 1]
    PROVE  SubSeq(s, a, b) = t
<1> DEFINE v == SubSeq(s, a, b)
<1>1. \A j \in a .. b : s[j] \in T
  <2>1. \A j \in 1 .. Len(s) : s[j] \in T
    OBVIOUS
  <2>2. \A j \in a .. b : j \in 1 .. Len(s)
    OBVIOUS
  <2> QED BY <2>1, <2>2
<1>2. v \in Seq(T) /\ Len(v) = b - a + 1 /\ \A j \in 1 .. b - a + 1 : v[j] = s[a + j - 1]
  <2>1. v \in Seq(T) /\ Len(v) = (IF a <= b THEN b - a + 1 ELSE 0) /\ \A j \in 1 .. b - a + 1 : v[j] = s[a + j - 1]
    BY <1>1, SubSeqProperties
  <2> QED BY <2>1
<1> HIDE DEF v
<1>3. v \in Seq(T) /\ Len(v) = Len(t) /\ \A j \in 1 .. Len(v) : v[j] = t[j]
  BY <1>2
<1>4. v = t
  BY <1>3, SeqEqual
<1> QED BY <1>4 DEF v

\* An ERR reply is parsed into its code and its description (tracker.c:387-421).
LEMMA ErrParsed ==
    ASSUME NEW e \in ErrorCodes, NEW hash
    PROVE  /\ Ended(ErrLine(e))
           /\ \E h : /\ Says(h, hash, <<P("ERROR_CODE", <<e>>), ErrDesc>>)
                     /\ ParsedAs(ErrLine(e), hash) = [rv |-> "SUCCESS", ok |-> FALSE, result |-> h]
<1> DEFINE B == BodyTokens
           line == ErrLine(e)
           x == <<"ERR", "SP", e, "SP", "w", "+">>
           y == <<e, "SP", "w", "+">>
           z == <<"w", "+">>
           c == <<e>>
<1>0. {"ERR", "SP", "w", "+", "CR"} \subseteq B /\ e \in B /\ e # "SP" /\ "LF" \in LineTokens /\ B \subseteq LineTokens /\ "LF" \notin B
  BY BodyFacts DEF ErrorCodes
<1> HIDE DEF B
<1>1. /\ x \in Seq(B) /\ Len(x) = 6 /\ x[1] = "ERR" /\ x[2] = "SP" /\ x[3] = e /\ x[4] = "SP" /\ x[5] = "w" /\ x[6] = "+"
      /\ y \in Seq(B) /\ Len(y) = 4 /\ y[1] = e /\ y[2] = "SP" /\ y[3] = "w" /\ y[4] = "+"
      /\ z \in Seq(B) /\ Len(z) = 2 /\ z[1] = "w" /\ z[2] = "+"
      /\ c \in Seq(B) /\ Len(c) = 1 /\ c[1] = e
  BY <1>0
<1>2. /\ line \in Seq(LineTokens) /\ Len(line) = 8 /\ line[8] = "LF" /\ line[7] = "CR"
      /\ line[1] = "ERR" /\ line[2] = "SP" /\ line[3] = e /\ line[4] = "SP" /\ line[5] = "w" /\ line[6] = "+"
  BY <1>0 DEF ErrLine
<1> HIDE DEF line, x, y, z, c
<1>3. Ended(line)
  <2>1. 1 .. 8 - 1 = {1, 2, 3, 4, 5, 6, 7} /\ 8 >= 1
    OBVIOUS
  <2>2. "ERR" # "LF" /\ "SP" # "LF" /\ e # "LF" /\ "w" # "LF" /\ "+" # "LF" /\ "CR" # "LF"
    BY <1>0
  <2> QED BY <1>2, <2>1, <2>2 DEF Ended
<1>4. Terminated(line) /\ Unterminated(line) = x
  <2>1. x \in Seq(LineTokens)
    <3>1. x \in Seq(B)
      BY <1>1
    <3> QED BY <1>0, <3>1, SeqMonotonic
  <2>2. 1 .. 6 = {1, 2, 3, 4, 5, 6} /\ \A j \in 1 .. 6 : 1 + j - 1 = j
    OBVIOUS
  <2>3. Len(x) = 6 - 1 + 1 /\ \A j \in 1 .. Len(x) : x[j] = line[1 + j - 1]
    BY <1>1, <1>2, <2>2
  <2> DEFINE a == 1
             b == 6
  <2>4. a \in Nat /\ b \in Nat /\ a >= 1 /\ a <= b /\ b <= Len(line)
    BY <1>2
  <2>5. line \in Seq(LineTokens) /\ Len(x) = b - a + 1 /\ \A j \in 1 .. Len(x) : x[j] = line[a + j - 1]
    BY <1>2, <2>3
  <2> HIDE DEF a, b
  <2>6. SubSeq(line, a, b) = x
    BY <2>1, <2>4, <2>5, SubSeqIs
  <2>7. 8 > 1 /\ 8 - 1 = 7 /\ 8 - 2 = 6
    OBVIOUS
  <2>8. SubSeq(line, 1, 6) = x
    BY <2>6 DEF a, b
  <2> QED BY <1>2, <2>7, <2>8 DEF Terminated, Unterminated
<1>5. SubSeq(x, 3, Len(x)) = y
  <2>2. 1 .. 4 = {1, 2, 3, 4} /\ 3 + 1 - 1 = 3 /\ 3 + 2 - 1 = 4 /\ 3 + 3 - 1 = 5 /\ 3 + 4 - 1 = 6
    OBVIOUS
  <2>3. Len(y) = 6 - 3 + 1 /\ \A j \in 1 .. Len(y) : y[j] = x[3 + j - 1]
    BY <1>1, <2>2
  <2> DEFINE a == 3
             b == 6
  <2>4. a \in Nat /\ b \in Nat /\ a >= 1 /\ a <= b /\ b <= Len(x)
    BY <1>1
  <2>5. x \in Seq(B) /\ y \in Seq(B) /\ Len(y) = b - a + 1 /\ \A j \in 1 .. Len(y) : y[j] = x[a + j - 1]
    BY <1>1, <2>3
  <2> HIDE DEF a, b
  <2>6. SubSeq(x, a, b) = y
    BY <2>4, <2>5, SubSeqIs
  <2>8. SubSeq(x, 3, 6) = y
    BY <2>6 DEF a, b
  <2> QED BY <1>1, <2>8
<1>6. SkipWhile(y, {"SP"}) = y
  <2>1. << >> \in Seq(B) /\ \A i \in 1 .. Len(<< >>) : << >>[i] \in {"SP"}
    OBVIOUS
  <2>2. y \in Seq(B) /\ y[1] \notin {"SP"}
    BY <1>0, <1>1
  <2>3. SkipWhile(<< >> \o y, {"SP"}) = y
    BY <2>1, <2>2, SkipStart
  <2> QED BY <2>2, <2>3, ConcatEmptySeq
<1>7. First(y, "SP") = 2
  <2>1. 2 \in 1 .. 4 /\ 1 .. 2 - 1 = {1} /\ 4 \in Nat
    OBVIOUS
  <2> QED BY <1>0, <1>1, <2>1, FirstIs
<1>8. SubSeq(y, 2 + 1, Len(y)) = z
  <2>2. 1 .. 2 = {1, 2} /\ 3 + 1 - 1 = 3 /\ 3 + 2 - 1 = 4 /\ 2 + 1 = 3
    OBVIOUS
  <2>3. Len(z) = 4 - 3 + 1 /\ \A j \in 1 .. Len(z) : z[j] = y[3 + j - 1]
    BY <1>1, <2>2
  <2> DEFINE a == 3
             b == 4
  <2>4. a \in Nat /\ b \in Nat /\ a >= 1 /\ a <= b /\ b <= Len(y)
    BY <1>1
  <2>5. y \in Seq(B) /\ z \in Seq(B) /\ Len(z) = b - a + 1 /\ \A j \in 1 .. Len(z) : z[j] = y[a + j - 1]
    BY <1>1, <2>3
  <2> HIDE DEF a, b
  <2>6. SubSeq(y, a, b) = z
    BY <2>4, <2>5, SubSeqIs
  <2>8. SubSeq(y, 3, 4) = z
    BY <2>6 DEF a, b
  <2> QED BY <1>1, <2>2, <2>8
<1>9. SkipWhile(z, {"SP"}) = z
  <2>1. << >> \in Seq(B) /\ \A i \in 1 .. Len(<< >>) : << >>[i] \in {"SP"}
    OBVIOUS
  <2>2. z \in Seq(B) /\ z[1] \notin {"SP"}
    BY <1>1
  <2>3. SkipWhile(<< >> \o z, {"SP"}) = z
    BY <2>1, <2>2, SkipStart
  <2> QED BY <2>2, <2>3, ConcatEmptySeq
<1>10. SubSeq(y, 1, 2 - 1) = c
  <2> DEFINE v == SubSeq(y, 1, 1)
  <2>1. v \in Seq(B) /\ Len(v) = 1 /\ v[1] = y[1]
    BY <1>1
  <2>2. 1 .. 1 = {1} /\ 2 - 1 = 1
    OBVIOUS
  <2> HIDE DEF v
  <2>3. v \in Seq(B) /\ c \in Seq(B) /\ Len(v) = Len(c) /\ \A j \in 1 .. Len(v) : v[j] = c[j]
    BY <1>1, <2>1, <2>2
  <2>4. v = c
    BY <2>3, SeqEqual
  <2> QED BY <2>2, <2>4 DEF v
<1>11. mfs_tracker_url_decode(c) = <<e>> /\ mfs_tracker_url_decode(z) = <<"w", "SP">>
  BY CodeDecoded, DescDecoded DEF c, z
<1> DEFINE h == apr_hash_set(apr_hash_set(hash, <<"ERROR_CODE">>, <<e>>), <<"ERROR_DESC">>, <<"w", "SP">>)
<1>12. ParseErr(y, hash) = [rv |-> "SUCCESS", ok |-> FALSE, result |-> h]
  <2>1. 2 # 0
    OBVIOUS
  <2> DEFINE two == 2
  <2> HIDE DEF two
  <2>2. /\ SkipWhile(y, {"SP"}) = y /\ First(y, "SP") = two /\ two # 0 /\ SubSeq(y, two + 1, Len(y)) = z
        /\ SkipWhile(z, {"SP"}) = z /\ SubSeq(y, 1, two - 1) = c
    BY <1>6, <1>7, <1>8, <1>9, <1>10, <2>1 DEF two
  <2> QED BY <1>11, <2>2, Zenon DEF ParseErr
<1> HIDE DEF h
<1>13. mfs_tracker_parse_response(x, hash) = ParseErr(y, hash)
  <2>1. Len(x) >= 2 /\ x[1] = "ERR" /\ x[2] = "SP" /\ x[1] # "OK"
    BY <1>1
  <2> QED BY <1>5, <2>1 DEF mfs_tracker_parse_response
<1>14. ParsedAs(line, hash) = [rv |-> "SUCCESS", ok |-> FALSE, result |-> h]
  BY <1>4, <1>12, <1>13 DEF ParsedAs
<1>15. Says(h, hash, <<P("ERROR_CODE", <<e>>), ErrDesc>>)
  BY ErrSays DEF h
<1> QED BY <1>3, <1>14, <1>15 DEF line

\* A line without CR is refused ...
LEMMA NoCrParsed ==
    ASSUME NEW hash
    PROVE  Ended(<<"OK", "SP", "x", "=", "LF">>) /\ ParsedAs(<<"OK", "SP", "x", "=", "LF">>, hash) = Invalid(hash)
<1> DEFINE line == <<"OK", "SP", "x", "=", "LF">>
<1>0. {"OK", "SP", "x", "="} \subseteq LineTokens /\ "LF" \in LineTokens
  BY BodyFacts
<1>1. /\ line \in Seq(LineTokens) /\ Len(line) = 5 /\ line[1] = "OK" /\ line[2] = "SP" /\ line[3] = "x" /\ line[4] = "="
      /\ line[5] = "LF"
  BY <1>0
<1> HIDE DEF line
<1>2. 1 .. 5 - 1 = {1, 2, 3, 4} /\ 5 >= 1 /\ 5 - 1 = 4
  OBVIOUS
<1>3. Ended(line)
  BY <1>1, <1>2 DEF Ended
<1>4. ~Terminated(line)
  BY <1>1, <1>2 DEF Terminated
<1> QED BY <1>3, <1>4 DEF ParsedAs, line

\* ... an ERR reply without a description too ...
LEMMA NoDescParsed ==
    ASSUME NEW hash
    PROVE  /\ Ended(<<"ERR", "SP", "failed", "CR", "LF">>)
           /\ ParsedAs(<<"ERR", "SP", "failed", "CR", "LF">>, hash) = Invalid(hash)
<1> DEFINE B == BodyTokens
           line == <<"ERR", "SP", "failed", "CR", "LF">>
           x == SubSeq(line, 1, 3)
           y == SubSeq(x, 3, 3)
<1>0. {"ERR", "SP", "failed", "CR"} \subseteq LineTokens /\ "LF" \in LineTokens
  BY BodyFacts
<1>1. /\ line \in Seq(LineTokens) /\ Len(line) = 5 /\ line[1] = "ERR" /\ line[2] = "SP" /\ line[3] = "failed" /\ line[4] = "CR"
      /\ line[5] = "LF"
  BY <1>0
<1> HIDE DEF line
<1>2. 1 .. 5 - 1 = {1, 2, 3, 4} /\ 5 >= 1 /\ 5 - 1 = 4 /\ 5 - 2 = 3 /\ 5 > 1
  OBVIOUS
<1>3. Ended(line)
  <2>1. \A i \in {1, 2, 3, 4} : line[i] # "LF"
    BY <1>1
  <2> QED BY <1>1, <1>2, <2>1 DEF Ended
<1>4. Terminated(line) /\ Unterminated(line) = x
  <2> HIDE DEF x
  <2>1. Terminated(line)
    BY <1>1, <1>2 DEF Terminated
  <2> QED BY <1>1, <1>2, <2>1 DEF Unterminated, x
<1>5. x \in Seq(LineTokens) /\ Len(x) = 3 /\ x[1] = "ERR" /\ x[2] = "SP" /\ x[3] = "failed"
  <2> DEFINE z == <<"ERR", "SP", "failed">>
  <2>1. z \in Seq(LineTokens) /\ Len(z) = 3 /\ z[1] = "ERR" /\ z[2] = "SP" /\ z[3] = "failed"
    BY <1>0
  <2> HIDE DEF z
  <2>2. 1 .. 3 = {1, 2, 3} /\ 1 + 1 - 1 = 1 /\ 1 + 2 - 1 = 2 /\ 1 + 3 - 1 = 3
    OBVIOUS
  <2>3. \A j \in 1 .. Len(z) : z[j] = line[1 + j - 1]
    BY <1>1, <2>1, <2>2
  <2>4. 1 \in Nat /\ 3 \in Nat /\ 1 >= 1 /\ 1 <= 3 /\ 3 <= Len(line) /\ Len(z) = 3 - 1 + 1
    BY <1>1, <2>1
  <2>5. line \in Seq(LineTokens) /\ z \in Seq(LineTokens)
    BY <1>1, <2>1
  <2>6. x = z
    BY <2>3, <2>4, <2>5, SubSeqIs
  <2> QED BY <2>1, <2>6
<1> HIDE DEF x
<1>6. y \in Seq(LineTokens) /\ Len(y) = 1 /\ y[1] = "failed"
  <2> DEFINE z == <<"failed">>
  <2>1. z \in Seq(LineTokens) /\ Len(z) = 1 /\ z[1] = "failed"
    BY <1>0
  <2> HIDE DEF z
  <2>2. 1 .. 1 = {1} /\ 3 + 1 - 1 = 3
    OBVIOUS
  <2>3. \A j \in 1 .. Len(z) : z[j] = x[3 + j - 1]
    BY <1>5, <2>1, <2>2
  <2>4. 3 \in Nat /\ 3 >= 1 /\ 3 <= 3 /\ 3 <= Len(x) /\ Len(z) = 3 - 3 + 1
    BY <1>5, <2>1
  <2>5. x \in Seq(LineTokens) /\ z \in Seq(LineTokens)
    BY <1>5, <2>1
  <2>6. y = z
    BY <2>3, <2>4, <2>5, SubSeqIs
  <2> QED BY <2>1, <2>6
<1> HIDE DEF y
<1>7. SkipWhile(y, {"SP"}) = y
  <2>1. << >> \in Seq(LineTokens) /\ \A i \in 1 .. Len(<< >>) : << >>[i] \in {"SP"}
    OBVIOUS
  <2>2. y \in Seq(LineTokens) /\ y[1] \notin {"SP"}
    BY <1>6
  <2>3. SkipWhile(<< >> \o y, {"SP"}) = y
    BY <2>1, <2>2, SkipStart
  <2> QED BY <2>2, <2>3, ConcatEmptySeq
<1>8. First(y, "SP") = 0
  <2>1. 1 .. 1 = {1} /\ 1 \in Nat
    OBVIOUS
  <2>2. \A i \in 1 .. Len(y) : y[i] # "SP"
    BY <1>6, <2>1
  <2> QED BY <1>6, <2>1, <2>2, FirstIs
<1>9. ParseErr(y, hash) = Invalid(hash)
  BY <1>7, <1>8 DEF ParseErr
<1>10. mfs_tracker_parse_response(x, hash) = ParseErr(y, hash)
  <2>1. SubSeq(x, 3, Len(x)) = y
    BY <1>5 DEF y
  <2>2. Len(x) >= 2 /\ x[1] = "ERR" /\ x[2] = "SP" /\ x[1] # "OK"
    BY <1>5
  <2> QED BY <2>1, <2>2 DEF mfs_tracker_parse_response
<1> QED BY <1>3, <1>4, <1>9, <1>10 DEF ParsedAs, line

\* ... and a line that begins with another word; none of them changes the hash.
LEMMA HelloParsed ==
    ASSUME NEW hash
    PROVE  Ended(<<"HELLO", "CR", "LF">>) /\ ParsedAs(<<"HELLO", "CR", "LF">>, hash) = Invalid(hash)
<1> DEFINE line == <<"HELLO", "CR", "LF">>
           x == SubSeq(line, 1, 1)
<1>0. {"HELLO", "CR"} \subseteq LineTokens /\ "LF" \in LineTokens
  BY BodyFacts
<1>1. /\ line \in Seq(LineTokens) /\ Len(line) = 3 /\ line[1] = "HELLO" /\ line[2] = "CR" /\ line[3] = "LF"
  BY <1>0
<1> HIDE DEF line
<1>2. 1 .. 3 - 1 = {1, 2} /\ 3 >= 1 /\ 3 - 1 = 2 /\ 3 - 2 = 1 /\ 3 > 1
  OBVIOUS
<1>3. Ended(line)
  BY <1>1, <1>2 DEF Ended
<1>4. Terminated(line) /\ Unterminated(line) = x
  BY <1>1, <1>2 DEF Terminated, Unterminated
<1>5. Len(x) = 1
  BY <1>1
<1> HIDE DEF x
<1>6. ~(Len(x) >= 2)
  BY <1>5
<1>7. mfs_tracker_parse_response(x, hash) = Invalid(hash)
  BY <1>6 DEF mfs_tracker_parse_response
<1> QED BY <1>3, <1>4, <1>7 DEF ParsedAs, line
-------------------------------------------------------------------------------
(* Every answer of the tracker.                                              *)

\* The tokens of joined pairs.
LEMMA JoinedType ==
    ASSUME NEW pairs \in Seq(Pairs) PROVE Joined(pairs) \in Seq(Written(ReplyTokens))
<1>1. Sayable(ReplyTokens, pairs)
  BY PairsSayable
<1>2. CASE pairs = <<>>
  <2>1. Joined(pairs) = <<>>
    BY <1>2, JoinedNothing
  <2> QED BY <2>1
<1>3. CASE pairs # <<>>
  BY <1>1, <1>3, JoinedParts
<1> QED BY <1>2, <1>3

\* Four tokens, two after two.
LEMMA FourTokens ==
    ASSUME NEW a, NEW b, NEW c, NEW d PROVE <<a, b, c, d>> = <<a, b>> \o <<c, d>>
<1> DEFINE S == {a, b, c, d}
           s == <<a, b>>
           t == <<c, d>>
           u == <<a, b, c, d>>
           v == s \o t
<1>1. /\ s \in Seq(S) /\ t \in Seq(S) /\ u \in Seq(S) /\ Len(s) = 2 /\ Len(t) = 2 /\ Len(u) = 4
      /\ s[1] = a /\ s[2] = b /\ t[1] = c /\ t[2] = d /\ u[1] = a /\ u[2] = b /\ u[3] = c /\ u[4] = d
  OBVIOUS
<1> HIDE DEF S, s, t, u
<1>2. /\ v \in Seq(S) /\ Len(v) = Len(s) + Len(t)
      /\ (\A q \in 1 .. Len(s) : v[q] = s[q])
      /\ (\A j \in 1 .. Len(t) : v[Len(s) + j] = t[j])
  <2>1. s \in Seq(S) /\ t \in Seq(S)
    BY <1>1
  <2> QED BY <2>1, ConcatAt
<1> HIDE DEF v
<1>3. Len(v) = 4 /\ v[1] = a /\ v[2] = b /\ v[2 + 1] = c /\ v[2 + 2] = d
  BY <1>1, <1>2
<1>4. Len(v) = Len(u) /\ \A j \in 1 .. Len(v) : v[j] = u[j]
  <2>1. 1 .. 4 = {1, 2, 3, 4} /\ 2 + 1 = 3 /\ 2 + 2 = 4
    OBVIOUS
  <2> QED BY <1>1, <1>3, <2>1
<1>5. v = u
  BY <1>1, <1>2, <1>4, SeqEqual
<1> QED BY <1>5 DEF v, u, s, t

\* What is made of an answer a with this hash.
Made(a, hash) ==
    \E h :
        \/ /\ a.kind = "ok" /\ Says(h, hash, a.pairs)
           /\ ParsedAs(a.line, hash) = [rv |-> "SUCCESS", ok |-> TRUE, result |-> h]
        \/ /\ a.kind = "err" /\ Says(h, hash, a.pairs)
           /\ ParsedAs(a.line, hash) = [rv |-> "SUCCESS", ok |-> FALSE, result |-> h]
        \/ /\ a.kind = "bad" /\ ParsedAs(a.line, hash) = Invalid(h)
           /\ h = hash \/ \E p : /\ Len(p) \in Nat /\ DOMAIN p = 1 .. Len(p) /\ Says(h, hash, p)
                                 /\ \A i \in DOMAIN p : p[i][2] # NULL

\* Every answer that is no broken one is decoded.
LEMMA OkAnswer ==
    ASSUME NEW cmd, NEW p \in OkPairs(cmd), NEW f \in Numbers, NEW hash
    PROVE  /\ Ended(OkLine(f, p))
           /\ \E h : /\ Says(h, hash, p)
                     /\ ParsedAs(OkLine(f, p), hash) = [rv |-> "SUCCESS", ok |-> TRUE, result |-> h]
<1> DEFINE J == Joined(p)
           y == f \o J
           o == <<"OK", "SP">>
           t == <<"CR", "LF">>
<1>1. p \in Seq(Pairs)
  BY OkSayable
<1>2. y \in Seq(BodyTokens)
  BY <1>1, GoodParsed
<1>3. PICK h : Says(h, hash, p) /\ ParseOk(y, hash) = [rv |-> "SUCCESS", ok |-> TRUE, result |-> h]
  BY <1>1, GoodParsed
<1>4. f \in Seq(BodyTokens) /\ J \in Seq(BodyTokens) /\ o \in Seq(BodyTokens)
  <2>1. f \in Seq(BodyTokens)
    BY NumberSkipped, BodyFacts, SeqMonotonic
  <2>2. o \in Seq(BodyTokens)
    BY BodyFacts
  <2>3. << >> \in Numbers
    BY DEF Numbers
  <2>4. << >> \o J \in Seq(BodyTokens)
    BY <1>1, <2>3, GoodParsed
  <2>5. J \in Seq(Written(ReplyTokens))
    BY <1>1, JoinedType
  <2>6. J \in Seq(BodyTokens)
    BY <2>5, BodyFacts, SeqMonotonic
  <2> QED BY <2>1, <2>2, <2>6
<1>5. OkLine(f, p) = o \o y \o t
  <2>1. Associates(BodyTokens)
    BY ConcatAssociates
  <2> HIDE DEF J, o, t
  <2>2. Cat(Cat(o, f), J) = Cat(o, Cat(f, J))
    BY <1>4, <2>1 DEF Associates
  <2>3. OkLine(f, p) = Cat(Cat(o, f), J) \o t
    BY DEF OkLine, Cat, J, o, t
  <2> QED BY <2>2, <2>3 DEF Cat
<1> HIDE DEF y
<1>6. Ended(o \o y \o t) /\ ParsedAs(o \o y \o t, hash) = ParseOk(y, hash)
  BY <1>2, OkParsed
<1> QED BY <1>3, <1>5, <1>6

\* Every broken one is refused.
LEMMA BadAnswer ==
    ASSUME NEW c \in Calls, NEW l \in BadLines(c.cmd), NEW hash
    PROVE  /\ Ended(l)
           /\ \E h : /\ ParsedAs(l, hash) = Invalid(h)
                     /\ h = hash \/ \E p : /\ Len(p) \in Nat /\ DOMAIN p = 1 .. Len(p) /\ Says(h, hash, p)
                                           /\ \A i \in DOMAIN p : p[i][2] # NULL
<1> DEFINE o == <<"OK", "SP">>
           u == <<"&", "x", "CR", "LF">>
           v == <<"&", "x">>
           t == <<"CR", "LF">>
<1>1. CASE l = <<"OK", "SP", "x", "=", "LF">>
  BY <1>1, NoCrParsed
<1>2. CASE l = <<"ERR", "SP", "failed", "CR", "LF">>
  BY <1>2, NoDescParsed
<1>3. CASE l = <<"HELLO", "CR", "LF">>
  BY <1>3, HelloParsed
<1>4. ASSUME NEW q \in CompletePairs(c.cmd), NEW p \in Prefixes(q), l = o \o Joined(p) \o u
      PROVE  /\ Ended(l)
             /\ \E h : /\ ParsedAs(l, hash) = Invalid(h)
                       /\ \E r : /\ Len(r) \in Nat /\ DOMAIN r = 1 .. Len(r) /\ Says(h, hash, r)
                                 /\ \A i \in DOMAIN r : r[i][2] # NULL
  <2> DEFINE J == Joined(p)
             y == J \o v
  <2>1. p \in Seq(Pairs)
    BY BrokenSayable
  <2>2. y \in Seq(BodyTokens)
    BY <2>1, BrokenParsed
  <2>3. PICK h : Says(h, hash, p) /\ ParseOk(y, hash) = Invalid(h)
    BY <2>1, BrokenParsed
  <2>4. J \in Seq(BodyTokens)
    <3>1. J \in Seq(Written(ReplyTokens))
      BY <2>1, JoinedType
    <3> QED BY <3>1, BodyFacts, SeqMonotonic
  <2>5. l = o \o y \o t
    <3>1. Associates(LineTokens)
      BY ConcatAssociates
    <3>2. J \in Seq(LineTokens)
      BY <2>4, BodyFacts, SeqMonotonic
    <3>3. o \in Seq(LineTokens) /\ v \in Seq(LineTokens) /\ t \in Seq(LineTokens)
      <4>1. {"OK", "SP", "&", "x", "CR", "LF"} \subseteq LineTokens
        BY BodyFacts
      <4> QED BY <4>1
    <3>4. u = v \o t
      BY FourTokens
    <3> HIDE DEF J, o, t, u, v
    <3>5. Cat(Cat(o, J), Cat(v, t)) = Cat(Cat(o, Cat(J, v)), t)
      BY <3>1, <3>2, <3>3 DEF Associates
    <3> QED BY <1>4, <3>4, <3>5 DEF Cat, J
  <2> HIDE DEF y
  <2>6. Ended(o \o y \o t) /\ ParsedAs(o \o y \o t, hash) = ParseOk(y, hash)
    BY <2>2, OkParsed
  <2>7. /\ Len(p) \in Nat /\ DOMAIN p = 1 .. Len(p)
        /\ \A i \in DOMAIN p : p[i][2] # NULL
    <3>1. Len(p) \in Nat /\ DOMAIN p = 1 .. Len(p)
      BY <2>1
    <3>2. q \in Seq(Pairs)
      BY CompleteSayable
    <3>3. PICK n \in 0 .. Len(q) : p = SubSeq(q, 1, n)
      BY DEF Prefixes
    <3>4. \A i \in DOMAIN p : i \in DOMAIN q /\ p[i] = q[i]
      BY <3>2, <3>3
    <3> QED BY <3>1, <3>4, NullAssumption
  <2> QED BY <2>3, <2>5, <2>6, <2>7
<1>5. \/ l \in {<<"OK", "SP", "x", "=", "LF">>, <<"ERR", "SP", "failed", "CR", "LF">>, <<"HELLO", "CR", "LF">>}
      \/ \E q \in CompletePairs(c.cmd) : \E p \in Prefixes(q) : l = o \o Joined(p) \o u
  BY DEF BadLines
<1> QED BY <1>1, <1>2, <1>3, <1>4, <1>5

\* A reply is decoded whatever the hash held before.
LEMMA AnswerParsed ==
    ASSUME NEW c \in Calls, NEW a \in Answers[c.cmd], NEW hash
    PROVE  Ended(a.line) /\ Made(a, hash)
<1> DEFINE Ok(p, f) == [kind |-> "ok", pairs |-> p, line |-> OkLine(f, p)]
           Err(e) == [kind |-> "err", pairs |-> <<P("ERROR_CODE", <<e>>), ErrDesc>>, line |-> ErrLine(e)]
           Bad(l) == [kind |-> "bad", pairs |-> << >>, line |-> l]
<1>1. \/ \E p \in OkPairs(c.cmd), f \in Numbers : a = Ok(p, f)
      \/ \E e \in ErrorCodes : a = Err(e)
      \/ \E l \in BadLines(c.cmd) : a = Bad(l)
  <2>0. GoodReplies(c.cmd) = {Ok(p, f) : p \in OkPairs(c.cmd), f \in Numbers} \cup {Err(e) : e \in ErrorCodes}
    BY DEF GoodReplies
  <2> HIDE DEF Ok, Err, Bad
  <2>1. Answers[c.cmd] = {Ok(p, f) : p \in OkPairs(c.cmd), f \in Numbers} \cup {Err(e) : e \in ErrorCodes}
                            \cup {Bad(l) : l \in BadLines(c.cmd)}
    <3> DEFINE All(cmd) == GoodReplies(cmd) \cup {Bad(l) : l \in BadLines(cmd)}
               Cmds == {d.cmd : d \in Calls}
    <3>2. Answers = [cmd \in Cmds |-> All(cmd)]
      BY Zenon DEF Answers, Bad
    <3>3. c.cmd \in Cmds
      OBVIOUS
    <3> HIDE DEF All, Cmds
    <3>4. Answers[c.cmd] = All(c.cmd)
      BY <3>2, <3>3
    <3> QED BY <2>0, <3>4 DEF All
  <2> QED BY <2>1
<1>2. ASSUME NEW p \in OkPairs(c.cmd), NEW f \in Numbers, a = Ok(p, f) PROVE Ended(a.line) /\ Made(a, hash)
  <2>1. a.kind = "ok" /\ a.pairs = p /\ a.line = OkLine(f, p)
    BY <1>2
  <2> HIDE DEF Ok
  <2> QED BY <2>1, OkAnswer DEF Made
<1>3. ASSUME NEW e \in ErrorCodes, a = Err(e) PROVE Ended(a.line) /\ Made(a, hash)
  <2>1. a.kind = "err" /\ a.pairs = <<P("ERROR_CODE", <<e>>), ErrDesc>> /\ a.line = ErrLine(e)
    BY <1>3
  <2> HIDE DEF Err
  <2> QED BY <2>1, ErrParsed DEF Made
<1>4. ASSUME NEW l \in BadLines(c.cmd), a = Bad(l) PROVE Ended(a.line) /\ Made(a, hash)
  <2>1. a.kind = "bad" /\ a.line = l
    BY <1>4
  <2> HIDE DEF Bad
  <2>2. /\ Ended(l)
        /\ \E h : /\ ParsedAs(l, hash) = Invalid(h)
                  /\ h = hash \/ \E p : /\ Len(p) \in Nat /\ DOMAIN p = 1 .. Len(p) /\ Says(h, hash, p)
                                        /\ \A i \in DOMAIN p : p[i][2] # NULL
    BY BadAnswer
  <2> QED BY <2>1, <2>2, Zenon DEF Made
<1> HIDE DEF Ok, Err, Bad
<1> QED BY <1>1, <1>2, <1>3, <1>4
-------------------------------------------------------------------------------
(* The steps of a command.                                                   *)

\* An answer of the tracker: an ERR reply names one of the error codes.
Answer(a) ==
    /\ a.kind \in {"ok", "err", "bad"}
    /\ a.kind = "err" => \E e \in ErrorCodes :
          a.pairs = <<P("ERROR_CODE", <<e>>), ErrDesc>>

\* Until a reply is accepted no output is assigned, is_ok is unset, and the status
\* is one of a request that failed; what is received is an answer.
Running ==
    /\ pc # "calling" => call \in Calls
    /\ pc # "done" => out = EmptyHash
    /\ pc \notin {"finish", "done"} =>
          ok = NULL /\ rv \in {"ECONNREFUSED", "EIO", "EFTYPE"}
    /\ incoming # << >> \/ pc \in {"parse", "finish"} => Answer(reply)
-------------------------------------------------------------------------------
(* The parser and the tracker.                                               *)

\* A reply that is not accepted leaves is_ok as it was (tracker.c:339-428).
LEMMA ParsedStatus ==
    \/ Parsed.rv = "SUCCESS"
    \/ Parsed.rv = "EFTYPE" /\ Parsed.ok = NULL
<1> DEFINE Accepted(truth, h) == [rv |-> "SUCCESS", ok |-> truth, result |-> h]
<1>1. ASSUME NEW body, NEW hash
      PROVE  \E h : ParseOk(body, hash) = Accepted(TRUE, h) \/ ParseOk(body, hash) = Invalid(h)
  BY Zenon DEF ParseOk
<1>2. ASSUME NEW body, NEW hash
      PROVE  \E h : ParseErr(body, hash) = Accepted(FALSE, h) \/ ParseErr(body, hash) = Invalid(h)
  BY Zenon DEF ParseErr
<1>3. \E h, t : Parsed = Accepted(t, h) \/ Parsed = Invalid(h)
  BY <1>1, <1>2, Zenon DEF Parsed, mfs_tracker_parse_response
<1> QED BY <1>3 DEF Invalid

\* Every answer is one.
LEMMA AnswersAnswer ==
    ASSUME NEW c \in Calls, NEW a \in Answers[c.cmd]
    PROVE  Answer(a)
<1>1. a \in GoodReplies(c.cmd) \/ a.kind = "bad"
  BY DEF Answers
<1>2. ASSUME NEW p, NEW f, a = [kind |-> "ok", pairs |-> p, line |-> OkLine(f, p)]
      PROVE  Answer(a)
  BY <1>2 DEF Answer
<1>3. ASSUME NEW e \in ErrorCodes,
             a = [kind |-> "err", pairs |-> <<P("ERROR_CODE", <<e>>), ErrDesc>>,
                  line |-> ErrLine(e)]
      PROVE  Answer(a)
  BY <1>3 DEF Answer
<1>4. a \in GoodReplies(c.cmd) => Answer(a)
  <2> SUFFICES ASSUME a \in GoodReplies(c.cmd) PROVE Answer(a)
    OBVIOUS
  <2> DEFINE Err(e) == [kind |-> "err", pairs |-> <<P("ERROR_CODE", <<e>>), ErrDesc>>,
                        line |-> ErrLine(e)]
             Ok(p, f) == [kind |-> "ok", pairs |-> p, line |-> OkLine(f, p)]
  <2>1. GoodReplies(c.cmd) = {Ok(p, f) : p \in OkPairs(c.cmd), f \in Numbers}
                                \cup {Err(e) : e \in ErrorCodes}
    BY DEF GoodReplies
  <2>2. \A e \in ErrorCodes : a = Err(e) => Answer(a)
    BY <1>3
  <2>3. \A p, f : a = Ok(p, f) => Answer(a)
    BY <1>2
  <2> HIDE DEF Ok, Err
  <2> QED BY <2>1, <2>2, <2>3
<1> QED BY <1>1, <1>4 DEF Answer

\* The hash of an ERR reply has the error code.
LEMMA ErrorCodeSet ==
    ASSUME Answer(reply), reply.kind = "err"
    PROVE  /\ <<"ERROR_CODE">> \in DOMAIN HashOf(reply.pairs)
           /\ \E e \in ErrorCodes : ErrorCode = <<e>>
<1>1. PICK e \in ErrorCodes :
        reply.pairs = <<P("ERROR_CODE", <<e>>), ErrDesc>>
  BY DEF Answer
<1> DEFINE pairs == reply.pairs
<1>2. /\ DOMAIN pairs = {1, 2}
      /\ pairs[1][1] = <<"ERROR_CODE">> /\ pairs[1][2] = <<e>>
      /\ pairs[2][1] = <<"ERROR_DESC">>
  <2>1. /\ DOMAIN pairs = {1, 2}
        /\ pairs[1] = P("ERROR_CODE", <<e>>) /\ pairs[2] = ErrDesc
    BY <1>1
  <2>2. ErrDesc[1] = <<"ERROR_DESC">>
    BY Zenon DEF ErrDesc, P
  <2> QED BY <2>1, <2>2 DEF P
<1>3. <<"ERROR_CODE">> # <<"ERROR_DESC">>
  OBVIOUS
<1> HIDE DEF pairs
<1>4. Max({i \in DOMAIN pairs : pairs[i][1] = <<"ERROR_CODE">>}) = 1
  <2>1. {i \in DOMAIN pairs : pairs[i][1] = <<"ERROR_CODE">>} = {1}
    BY <1>2, <1>3
  <2> QED BY <2>1 DEF Max
<1>5. <<"ERROR_CODE">> \in {pairs[i][1] : i \in DOMAIN pairs}
  BY <1>2
<1>6. /\ <<"ERROR_CODE">> \in DOMAIN HashOf(pairs)
      /\ HashOf(pairs)[<<"ERROR_CODE">>] = <<e>>
  BY <1>2, <1>4, <1>5 DEF HashOf
<1> QED BY <1>6 DEF pairs, ErrorCode
-------------------------------------------------------------------------------
(* A command until it returns.                                               *)

\* It holds at first.
LEMMA RunningInit == Init => Running
  BY DEF Init, Running

\* Every step keeps it.
LEMMA RunningStep == Running /\ [Next]_vars => Running'
<1> SUFFICES ASSUME Running, [Next]_vars PROVE Running'
  OBVIOUS
<1> USE DEF Running
<1>1. ASSUME NEW k \in Keys, NEW m \in BOOLEAN, add_extra(k, k, m) PROVE Running'
  BY <1>1 DEF add_extra, attemptVars, Answer
<1>2. ASSUME NEW c \in Calls, begin(c) PROVE Running'
  BY <1>2 DEF begin, attemptVars, Answer
<1>3. CASE no_connection
  BY <1>3 DEF no_connection, attemptVars, Answer
<1>4. CASE send_request
  BY <1>4 DEF send_request, Answer
<1>5. CASE socket_error
  BY <1>5 DEF socket_error, attemptVars, Answer
<1>6. CASE answer
  <2>1. PICK a \in Answers[call.cmd] : reply' = a
    BY <1>6 DEF answer
  <2>2. Answer(a)
    BY <1>6, <2>1, AnswersAnswer DEF answer
  <2>3. Answer(reply)'
    BY <2>1, <2>2 DEF Answer
  <2> QED BY <1>6, <2>3 DEF answer
<1>7. CASE receive
  BY <1>7 DEF receive, Answer
<1>8. CASE parse
  <2>1. /\ rv' = Parsed.rv
        /\ Parsed.ok = NULL => ok' = ok
        /\ pc' = IF Parsed.rv = "SUCCESS" THEN "finish" ELSE "request"
        /\ UNCHANGED <<call, attemptVars, out>> /\ pc = "parse"
    BY <1>8, Zenon DEF parse
  <2> QED BY <2>1, ParsedStatus DEF attemptVars, Answer
<1>9. ASSUME NEW cmds, NEW answered, Finish(cmds, answered) PROVE Running'
  BY <1>9 DEF Finish, attemptVars, Answer
<1>10. CASE return_failure
  BY <1>10 DEF return_failure, attemptVars, Answer
<1>11. CASE UNCHANGED vars
  BY <1>11 DEF vars, attemptVars, Answer
<1> QED
  BY <1>1, <1>2, <1>3, <1>4, <1>5, <1>6, <1>7, <1>8, <1>9, <1>10, <1>11
  DEF Next, returned, finish_get_paths, finish_plain, finish_delete_node, finish_create_node,
      finish_list_directory, finish_path_info, finish_stats, finish_check_fs

\* In every reachable state.
LEMMA AlwaysRunning == Spec => []Running
  BY RunningInit, RunningStep, PTL DEF Spec
-------------------------------------------------------------------------------
(* Outputs after a failure.                                                  *)

\* What ListsAllOrNothing says of a status and the outputs assigned with it.
NoLists(r) ==
    r.rv # "SUCCESS" =>
        /\ {"paths", "filepath_entries", "child_count"} \cap DOMAIN r.out = {}
        /\ "path_count" \in DOMAIN r.out => r.out.path_count = 0
        /\ r.rv \notin {"EGENERAL", "EBADPATH", "ENOTEMPTY"} => r.out = EmptyHash

\* A failure without outputs.
LEMMA FailedNoLists == ASSUME NEW status PROVE NoLists(Failed(status))
  BY DEF NoLists, Failed, Returned, EmptyHash

\* A success.
LEMMA SuccessNoLists == ASSUME NEW outputs PROVE NoLists(Returned("SUCCESS", outputs))
  BY DEF NoLists, Returned

\* mfs_file_system_get_paths (file.c:197-239).
LEMMA PathsNoLists == NoLists(get_paths_reply)
<1>1. NoLists(Returned("EGENERAL", [path_count |-> 0]))
  BY DEF NoLists, Returned
<1> QED
  BY <1>1, FailedNoLists, SuccessNoLists DEF get_paths_reply

\* mfs_file_system_list_directory (file.c:484-574).
LEMMA EntriesNoLists == NoLists(list_directory_reply)
  BY FailedNoLists, SuccessNoLists DEF list_directory_reply

\* mfs_file_system_path_info assigns no list (file.c:590-645).
LEMMA InfoNoLists == NoLists(path_info_reply)
<1> DEFINE begun == [name |-> NULL, mtime |-> apr_time_from_sec(Number(apr_hash_get(result, <<"mtime">>), 0)),
                     server_id |-> Number(apr_hash_get(result, <<"nid">>), -1)]
           typed == Also(begun, "type", TypeOf(apr_hash_get(result, <<"type">>)))
           linked == Also(typed, "link", apr_hash_get(result, <<"link">>))
<1>1. DOMAIN begun = {"name", "mtime", "server_id"}
  OBVIOUS
<1>2. DOMAIN linked = {"name", "mtime", "server_id", "type", "link"}
  BY <1>1 DEF Also
<1>3. NoLists(Returned("EGENERAL", begun)) /\ NoLists(Returned("EGENERAL", linked))
  BY <1>1, <1>2 DEF NoLists, Returned
<1>4. \/ \E status : path_info_reply = Failed(status)
      \/ \E outputs : path_info_reply = Returned("SUCCESS", outputs)
      \/ path_info_reply = Returned("EGENERAL", begun)
      \/ path_info_reply = Returned("EGENERAL", linked)
  BY DEF path_info_reply
<1> QED BY <1>3, <1>4, FailedNoLists, SuccessNoLists

\* Nor does a command that creates a node ...
LEMMA NodeNoLists == ASSUME NEW wanted \in BOOLEAN PROVE NoLists(create_node_reply(wanted))
<1>1. ASSUME NEW id PROVE NoLists(Returned("EGENERAL", [server_id |-> id]))
  BY DEF NoLists, Returned
<1>2. NoLists(Returned("EGENERAL", EmptyHash))
  BY DEF NoLists, Returned, EmptyHash
<1> QED BY <1>1, <1>2, SuccessNoLists DEF create_node_reply

\* ... one that returns numbers ...
LEMMA NumbersNoLists == NoLists(stats_reply) /\ NoLists(check_fs_reply)
<1>1. ASSUME NEW m, NEW n PROVE /\ NoLists(Returned("EGENERAL", [total_mb |-> m, used_mb |-> n]))
                                /\ NoLists(Returned("EGENERAL", [fixed |-> m, total |-> n]))
  BY DEF NoLists, Returned
<1> QED BY <1>1, SuccessNoLists DEF stats_reply, check_fs_reply

\* ... and one that returns nothing.
LEMMA PlainNoLists == NoLists(plain_reply) /\ NoLists(delete_node_reply)
  BY FailedNoLists DEF plain_reply, delete_node_reply

\* Every step keeps the property.
LEMMA ListsStep == Running /\ ListsAllOrNothing /\ [Next]_vars => ListsAllOrNothing'
<1> SUFFICES ASSUME Running, ListsAllOrNothing, [Next]_vars, pc' = "done"
             PROVE  ListsAllOrNothing'
  BY DEF ListsAllOrNothing
<1>1. ASSUME NEW cmds, NEW answered, Finish(cmds, answered), NoLists(answered)
      PROVE  ListsAllOrNothing'
  BY <1>1 DEF Finish, NoLists, ListsAllOrNothing
<1>2. CASE return_failure
  <2>1. out' = EmptyHash
    BY <1>2 DEF return_failure, Running
  <2> QED BY <2>1 DEF ListsAllOrNothing, EmptyHash
<1>3. CASE UNCHANGED vars
  BY <1>3 DEF vars, ListsAllOrNothing
<1>4. ASSUME NEW k, NEW m, add_extra(k, k, m) PROVE FALSE
  BY <1>4 DEF add_extra
<1>5. ASSUME NEW c, begin(c) PROVE FALSE
  BY <1>5 DEF begin
<1>6. CASE no_connection \/ send_request \/ socket_error
  BY <1>6 DEF no_connection, send_request, socket_error
<1>7. CASE answer \/ receive
  BY <1>7 DEF answer, receive
<1>8. CASE parse
  <2>1. pc' = IF Parsed.rv = "SUCCESS" THEN "finish" ELSE "request"
    BY <1>8, Zenon DEF parse
  <2> QED BY <2>1
<1> QED
  BY <1>1, <1>2, <1>3, <1>4, <1>5, <1>6, <1>7, <1>8, PathsNoLists, EntriesNoLists, InfoNoLists,
     NodeNoLists, NumbersNoLists, PlainNoLists
  DEF Next, returned, finish_get_paths, finish_plain, finish_delete_node, finish_create_node,
      finish_list_directory, finish_path_info, finish_stats, finish_check_fs

\* Whatever the tracker answers and however often a request is tried, a command
\* that fails assigns no list and no count but zero, and a command whose request
\* failed assigns nothing (file.c:197-239, 484-574, 590-645).
THEOREM ListsCorrect == Spec => []ListsAllOrNothing
<1>1. Init => ListsAllOrNothing
  BY DEF Init, ListsAllOrNothing
<1> QED BY <1>1, ListsStep, AlwaysRunning, PTL DEF Spec
-------------------------------------------------------------------------------
(* What is received.                                                         *)

\* A set of numbers up to n that is not empty has a greatest element.
LEMMA Greatest ==
    ASSUME NEW n \in Nat, NEW T, T \subseteq 1 .. n, T # {}
    PROVE  Max(T) \in T
<1> DEFINE U == {n - i : i \in T}
<1>1. U \subseteq Nat /\ U # {}
  <2>1. \A i \in T : n - i \in Nat
    <3>1. \A i \in 1 .. n : n - i \in Nat
      OBVIOUS
    <3> QED BY <3>1
  <2> QED BY <2>1
<1> HIDE DEF U
<1>2. PICK x \in U : \A y \in U : x <= y
  BY <1>1, Least
<1>3. PICK m \in T : x = n - m
  BY DEF U
<1>4. \A i \in T : m >= i
  <2> TAKE i \in T
  <2>1. n - i \in U
    BY DEF U
  <2>2. n - m <= n - i
    BY <1>2, <1>3, <2>1
  <2>3. i \in Nat /\ m \in Nat
    OBVIOUS
  <2> QED BY <2>2, <2>3
<1> QED BY <1>4 DEF Max

\* No value of a hash is NULL.
Filled(hash) == \A k \in DOMAIN hash : hash[k] # NULL

\* Pairs without NULL leave none in the hash.
LEMMA SaysFilled ==
    ASSUME NEW h, NEW hash, NEW p, Len(p) \in Nat, DOMAIN p = 1 .. Len(p), Says(h, hash, p),
           \A i \in DOMAIN p : p[i][2] # NULL, Filled(hash)
    PROVE  Filled(h)
<1> DEFINE H == HashOf(p)
<1>1. ASSUME NEW k \in DOMAIN H PROVE H[k] # NULL
  <2> DEFINE T == {i \in DOMAIN p : p[i][1] = k}
  <2>1. k \in {p[i][1] : i \in DOMAIN p}
    BY DEF HashOf
  <2>2. T \subseteq 1 .. Len(p) /\ T # {}
    BY <2>1
  <2>3. H[k] = p[Max(T)][2]
    BY <2>1 DEF HashOf
  <2> HIDE DEF T, H
  <2>4. Max(T) \in T
    BY <2>2, Greatest
  <2>5. Max(T) \in DOMAIN p
    BY <2>4 DEF T
  <2> QED BY <2>3, <2>5
<1> HIDE DEF H
<1> QED BY <1>1 DEF Says, Filled, H

\* A part of the reply and the rest.
LEMMA Pieced ==
    ASSUME NEW T, NEW f \in Seq(T), NEW s \in Seq(T), NEW n \in 1 .. Len(s)
    PROVE  LET u == SubSeq(s, 1, n)
               v == SubSeq(s, n + 1, Len(s))
           IN  /\ f \o u \in Seq(T) /\ v \in Seq(T) /\ f \o u # << >> /\ (f \o u) \o v = f \o s
<1> DEFINE u == SubSeq(s, 1, n)
           l == Len(s)
           a == n + 1
           v == SubSeq(s, a, l)
           c == u \o v
<1>1. l \in Nat /\ n \in Nat /\ n <= l /\ n >= 1 /\ \A j \in 1 .. l : s[j] \in T
  OBVIOUS
<1>2. u \in Seq(T) /\ Len(u) = n /\ \A j \in 1 .. n : u[j] = s[j]
  BY <1>1
<1>3. v \in Seq(T) /\ Len(v) = l - n /\ \A j \in 1 .. l - n : v[j] = s[n + j]
  <2> HIDE DEF l, a
  <2>1. a = n + 1
    BY DEF a
  <2>2. \A j \in a .. l : s[j] \in T
    BY <1>1, <2>1
  <2>3. v \in Seq(T) /\ Len(v) = (IF a <= l THEN l - a + 1 ELSE 0) /\ \A j \in 1 .. l - a + 1 : v[j] = s[a + j - 1]
    BY <1>1, <2>1, <2>2, SubSeqProperties
  <2> HIDE DEF v
  <2>4. l - a + 1 = l - n /\ (a <= l \/ l - n = 0) /\ \A j \in 1 .. l - n : a + j - 1 = n + j
    BY <1>1, <2>1
  <2> QED BY <2>3, <2>4
<1>4. Len(s) = l
  OBVIOUS
<1> HIDE DEF u, v, l, a
<1>5. /\ c \in Seq(T) /\ Len(c) = Len(u) + Len(v)
      /\ (\A q \in 1 .. Len(u) : c[q] = u[q])
      /\ (\A j \in 1 .. Len(v) : c[Len(u) + j] = v[j])
  <2>1. u \in Seq(T) /\ v \in Seq(T)
    BY <1>2, <1>3
  <2> QED BY <2>1, ConcatAt
<1> HIDE DEF c
<1>6. Len(c) = l /\ (\A q \in 1 .. n : c[q] = s[q]) /\ (\A j \in 1 .. l - n : c[n + j] = s[n + j])
  <2>1. Len(u) = n /\ Len(v) = l - n /\ n + (l - n) = l
    BY <1>1, <1>2, <1>3
  <2>2. \A q \in 1 .. n : c[q] = s[q]
    BY <1>2, <1>5, <2>1
  <2>3. \A j \in 1 .. l - n : c[n + j] = s[n + j]
    BY <1>3, <1>5, <2>1
  <2> QED BY <1>5, <2>1, <2>2, <2>3
<1>7. \A j \in 1 .. l : c[j] = s[j]
  <2> TAKE j \in 1 .. l
  <2>1. CASE j <= n
    BY <1>1, <1>6, <2>1
  <2>2. CASE ~(j <= n)
    <3>1. j - n \in 1 .. l - n /\ n + (j - n) = j
      BY <1>1, <2>2
    <3>2. c[n + (j - n)] = s[n + (j - n)]
      BY <1>6, <3>1
    <3> QED BY <3>1, <3>2
  <2> QED BY <2>1, <2>2
<1>8. c = s
  BY <1>4, <1>5, <1>6, <1>7, SeqEqual
<1>9. (f \o u) \o v = f \o s
  <2>1. Associates(T)
    BY ConcatAssociates
  <2>2. Cat(Cat(f, u), v) = Cat(f, Cat(u, v))
    BY <1>2, <1>3, <2>1 DEF Associates
  <2> QED BY <1>8, <2>2 DEF Cat, c
<1>10. f \o u \in Seq(T) /\ f \o u # << >>
  <2>1. f \o u \in Seq(T) /\ Len(f \o u) = Len(f) + Len(u) /\ Len(f) \in Nat
    <3>1. u \in Seq(T)
      BY <1>2
    <3> QED BY <3>1, ConcatAt
  <2>2. Len(f \o u) # 0
    BY <1>1, <1>2, <2>1
  <2> HIDE <1>1, <1>2, <1>3
  <2> QED BY <2>1, <2>2
<1> QED BY <1>3, <1>9, <1>10 DEF u, v, a, l

\* What was received ends in LF only when the whole line was.
LEMMA WholeReceived ==
    ASSUME NEW f \in Seq(LineTokens), NEW s \in Seq(LineTokens), Ended(f \o s), LineEnds(f)
    PROVE  f \o s = f /\ s = << >>
<1> DEFINE c == f \o s
           n == Len(f)
           l == Len(s)
<1>1. /\ Len(c) = n + l /\ n \in Nat /\ l \in Nat /\ \A q \in 1 .. n : c[q] = f[q]
  BY ConcatAt
<1>2. n >= 1 /\ f[n] = "LF"
  BY DEF LineEnds
<1>3. \A i \in 1 .. Len(c) - 1 : c[i] # "LF"
  BY DEF Ended
<1>4. l = 0
  <2> HIDE DEF c, n, l
  <2>1. c[n] = "LF"
    BY <1>1, <1>2
  <2>2. n \notin 1 .. Len(c) - 1
    BY <1>3, <2>1
  <2> QED BY <1>1, <1>2, <2>2
<1>5. s = << >>
  BY <1>4
<1> QED BY <1>5, ConcatEmptySeq

\* The reply is known from the moment it is given, and no part of it is lost.
ReplyKnown ==
    \/ reply = NULL /\ incoming = << >> /\ final_buffer = << >>
    \/ /\ call \in Calls /\ reply \in Answers[call.cmd]
       /\ final_buffer \in Seq(LineTokens) /\ incoming \in Seq(LineTokens)
       /\ final_buffer \o incoming = reply.line

Received ==
    /\ ReplyKnown
    /\ pc = "calling" => reply = NULL
    /\ pc = "parse" => call \in Calls /\ reply \in Answers[call.cmd] /\ final_buffer = reply.line

\* Nothing was received at first.
LEMMA ReceivedInit == Init => Received
  BY DEF Init, Received, ReplyKnown

\* Every step keeps the parts of the reply together.
LEMMA ReceivedStep == Running /\ Received /\ [Next]_vars => Received'
<1> SUFFICES ASSUME Running, Received, [Next]_vars PROVE Received'
  OBVIOUS
<1>0. ASSUME UNCHANGED <<call, attemptVars>>, pc' # "parse" \/ pc' = pc, pc' # "calling" \/ pc = "calling"
      PROVE  Received'
  BY <1>0 DEF Received, ReplyKnown, attemptVars
<1>1. ASSUME NEW k \in Keys, NEW m \in BOOLEAN, add_extra(k, k, m) PROVE Received'
  BY <1>0, <1>1 DEF add_extra
<1>2. ASSUME NEW c \in Calls, begin(c) PROVE Received'
  <2>1. ReplyKnown => reply = NULL /\ incoming = << >> /\ final_buffer = << >>
    <3>1. pc = "calling" /\ reply = NULL
      BY <1>2 DEF begin, Received
    <3>2. \A d \in Calls : reply \notin Answers[d.cmd]
      BY <3>1, NullAssumption
    <3> QED BY <3>1, <3>2 DEF ReplyKnown
  <2> QED BY <1>2, <2>1 DEF begin, Received, ReplyKnown, attemptVars
<1>3. CASE no_connection
  BY <1>0, <1>3 DEF no_connection
<1>4. CASE send_request
  BY <1>4 DEF send_request, Received, ReplyKnown
<1>5. CASE socket_error
  BY <1>0, <1>5 DEF socket_error
<1>6. CASE answer
  <2>1. PICK a \in Answers[call.cmd] : reply' = a /\ incoming' = a.line
    BY <1>6 DEF answer
  <2>2. call \in Calls /\ pc = "receive" /\ pc' = "receive" /\ call' = call /\ final_buffer' = final_buffer /\ reply = NULL
    BY <1>6 DEF answer, Running
  <2>3. final_buffer = << >>
    <3>2. \A d \in Calls : reply \notin Answers[d.cmd]
      BY <2>2, NullAssumption
    <3> QED BY <3>2 DEF Received, ReplyKnown
  <2>4. a.line \in Seq(LineTokens)
    <3>1. Ended(a.line)
      BY <2>1, <2>2, AnswerParsed
    <3> QED BY <3>1 DEF Ended
  <2>5. << >> \o a.line = a.line /\ << >> \in Seq(LineTokens)
    BY <2>4, ConcatEmptySeq
  <2>6. ReplyKnown'
    BY <2>1, <2>2, <2>3, <2>4, <2>5 DEF ReplyKnown
  <2> QED BY <2>2, <2>6 DEF Received
<1>7. CASE receive
  <2>1. PICK n \in 1 .. Len(incoming) :
          /\ final_buffer' = final_buffer \o SubSeq(incoming, 1, n)
          /\ incoming' = SubSeq(incoming, n + 1, Len(incoming))
    BY <1>7 DEF receive
  <2>2. /\ pc = "receive" /\ incoming # << >> /\ call' = call /\ reply' = reply
        /\ pc' = IF LineEnds(final_buffer') THEN "parse" ELSE "receive"
    BY <1>7 DEF receive
  <2>3. /\ call \in Calls /\ reply \in Answers[call.cmd]
        /\ final_buffer \in Seq(LineTokens) /\ incoming \in Seq(LineTokens)
        /\ final_buffer \o incoming = reply.line
    BY <2>2 DEF Received, ReplyKnown
  <2>4. /\ final_buffer' \in Seq(LineTokens) /\ incoming' \in Seq(LineTokens)
        /\ final_buffer' \o incoming' = reply.line
    <3> DEFINE u == SubSeq(incoming, 1, n)
               v == SubSeq(incoming, n + 1, Len(incoming))
    <3>1. /\ final_buffer \o u \in Seq(LineTokens) /\ v \in Seq(LineTokens)
          /\ (final_buffer \o u) \o v = final_buffer \o incoming
      <4>1. n \in 1 .. Len(incoming) /\ final_buffer \in Seq(LineTokens) /\ incoming \in Seq(LineTokens)
        BY <2>1, <2>3
      <4> QED BY ONLY <4>1, Pieced, ZenonT(60) DEF u, v
    <3> HIDE DEF u, v
    <3>2. final_buffer' = final_buffer \o u /\ incoming' = v
      BY <2>1 DEF u, v
    <3> QED BY <2>3, <3>1, <3>2
  <2>5. ReplyKnown'
    BY <2>2, <2>3, <2>4 DEF ReplyKnown
  <2>6. ASSUME pc' = "parse" PROVE final_buffer' = reply.line
    <3>1. LineEnds(final_buffer')
      BY <2>2, <2>6
    <3>2. Ended(reply.line)
      BY <2>3, AnswerParsed
    <3> QED BY <2>4, <3>1, <3>2, WholeReceived
  <2> QED BY <2>2, <2>3, <2>5, <2>6 DEF Received
<1>8. CASE parse
  <2>1. UNCHANGED <<call, attemptVars>> /\ pc' \in {"finish", "request"}
    BY <1>8, Zenon DEF parse
  <2> QED BY <1>0, <2>1
<1>9. ASSUME NEW cmds, NEW answered, Finish(cmds, answered) PROVE Received'
  BY <1>0, <1>9 DEF Finish
<1>10. CASE return_failure
  BY <1>0, <1>10 DEF return_failure
<1>11. CASE UNCHANGED vars
  BY <1>0, <1>11 DEF vars
<1> QED
  BY <1>1, <1>2, <1>3, <1>4, <1>5, <1>6, <1>7, <1>8, <1>9, <1>10, <1>11
  DEF Next, returned, finish_get_paths, finish_plain, finish_delete_node, finish_create_node,
      finish_list_directory, finish_path_info, finish_stats, finish_check_fs
-------------------------------------------------------------------------------
(* What the hash holds.                                                      *)

\* The hash a request finds and leaves: empty before the first, and until a reply
\* is accepted nothing in it is NULL.
Hashed ==
    /\ tries \in 0 .. MaxTries
    /\ tries = 0 => pc \in {"calling", "request", "failed", "done"} /\ result = EmptyHash
    /\ tries = 1 => left = EmptyHash
    /\ pc \in {"receive", "parse"} => left = result
    /\ pc \notin {"finish", "done"} => Filled(result)
    /\ Filled(left)
    /\ ReplyDecoded

\* The hash is empty at first.
LEMMA HashedInit == Init => Hashed
<1> SUFFICES ASSUME Init PROVE Hashed
  OBVIOUS
<1>1. Filled(EmptyHash)
  BY DEF Filled, EmptyHash
<1>2. 0 \in 0 .. MaxTries /\ 0 # 1
  BY BoundsAssumption
<1> QED BY <1>1, <1>2 DEF Init, Hashed, ReplyDecoded

\* Every step keeps what the hash is known to hold.
LEMMA HashedStep == Running /\ Received /\ Hashed /\ [Next]_vars => Hashed'
<1> SUFFICES ASSUME Running, Received, Hashed, [Next]_vars PROVE Hashed'
  OBVIOUS
<1>0. ASSUME UNCHANGED <<tries, left, result>>, pc' # "finish",
             pc' \in {"receive", "parse"} => pc \in {"receive", "parse"},
             pc \notin {"finish", "done"} \/ pc' = "done",
             tries = 0 => pc' \in {"calling", "request", "failed", "done"}
      PROVE  Hashed'
  BY <1>0 DEF Hashed, Filled, ReplyDecoded
<1>1. ASSUME NEW k \in Keys, NEW m \in BOOLEAN, add_extra(k, k, m) PROVE Hashed'
  BY <1>0, <1>1 DEF add_extra
<1>2. ASSUME NEW c \in Calls, begin(c) PROVE Hashed'
  BY <1>0, <1>2 DEF begin
<1>3. CASE no_connection
  BY <1>0, <1>3 DEF no_connection
<1>4. CASE send_request
  <2>1. pc = "request" /\ pc' = "receive" /\ left' = result /\ result' = result /\ tries' = tries + 1 /\ tries < MaxTries
    BY <1>4 DEF send_request
  <2>2. tries \in Nat /\ tries' \in 0 .. MaxTries /\ tries' # 0 /\ (tries' = 1 => tries = 0)
    BY <2>1, BoundsAssumption DEF Hashed
  <2>3. Filled(result)' /\ Filled(left)'
    BY <2>1 DEF Hashed, Filled
  <2>4. tries' = 1 => left' = EmptyHash
    BY <2>1, <2>2 DEF Hashed
  <2> QED BY <2>1, <2>2, <2>3, <2>4 DEF Hashed, ReplyDecoded
<1>5. CASE socket_error
  BY <1>0, <1>5 DEF socket_error
<1>6. CASE answer
  <2>1. tries # 0
    BY <1>6 DEF answer, Hashed
  <2> QED BY <1>0, <1>6, <2>1 DEF answer
<1>7. CASE receive
  <2>1. tries # 0
    BY <1>7 DEF receive, Hashed
  <2> QED BY <1>0, <1>7, <2>1 DEF receive
<1>8. CASE parse
  <2>1. /\ pc = "parse" /\ rv' = Parsed.rv /\ result' = Parsed.result
        /\ ok' = IF Parsed.ok = NULL THEN ok ELSE Parsed.ok
        /\ pc' = IF Parsed.rv = "SUCCESS" THEN "finish" ELSE "request"
        /\ UNCHANGED <<call, tries, attemptVars, left>>
    BY <1>8, Zenon DEF parse
  <2>2. call \in Calls /\ reply \in Answers[call.cmd] /\ Parsed = ParsedAs(reply.line, result)
    BY <2>1 DEF Received, Parsed, ParsedAs
  <2>3. Made(reply, result)
    BY <2>2, AnswerParsed
  <2>4. tries # 0 /\ left = result /\ reply' = reply /\ Filled(result)
    BY <2>1 DEF Hashed, attemptVars
  <2>10. Filled(left)' /\ tries' \in 0 .. MaxTries /\ tries' # 0 /\ (tries' = 1 => left' = EmptyHash) /\ left' = left
    BY <2>1, <2>4 DEF Hashed, Filled
  <2>5. ASSUME NEW h, NEW t \in BOOLEAN, Says(h, result, reply.pairs),
               Parsed = [rv |-> "SUCCESS", ok |-> t, result |-> h],
               reply.kind # "bad", t = (reply.kind = "ok")
        PROVE  Hashed'
    <3>1. pc' = "finish" /\ result' = h /\ ok' = t
      <4>1. t # NULL
        BY NullAssumption
      <4>2. Parsed.rv = "SUCCESS" /\ Parsed.ok = t /\ Parsed.result = h
        BY <2>5
      <4> QED BY <2>1, <4>1, <4>2
    <3>2. ReplyDecoded'
      <4>1. Says(h, left, reply.pairs)
        BY <2>4, <2>5
      <4>2. /\ DOMAIN h = DOMAIN HashOf(reply.pairs) \cup DOMAIN left
            /\ \A k \in DOMAIN h : h[k] = IF k \in DOMAIN HashOf(reply.pairs) THEN HashOf(reply.pairs)[k] ELSE left[k]
        BY <4>1 DEF Says
      <4>3. ok' = (reply.kind = "ok")
        BY <2>5, <3>1, Zenon
      <4> QED BY <2>4, <2>5, <2>10, <3>1, <4>2, <4>3, Zenon DEF ReplyDecoded, Filled
    <3> QED BY <2>10, <3>1, <3>2 DEF Hashed
  <2>6. ASSUME NEW h, Parsed = Invalid(h), Filled(h)
        PROVE  Hashed'
    <3>1. pc' = "request" /\ result' = h
      <4>1. Parsed.rv = "EFTYPE" /\ Parsed.result = h
        BY <2>6 DEF Invalid
      <4> QED BY <2>1, <4>1
    <3>2. Filled(result)'
      BY <2>6, <3>1 DEF Filled
    <3> QED BY <2>10, <3>1, <3>2 DEF Hashed, ReplyDecoded
  <2>7. CASE reply.kind = "ok"
    <3>1. PICK h : Says(h, result, reply.pairs) /\ ParsedAs(reply.line, result) = [rv |-> "SUCCESS", ok |-> TRUE, result |-> h]
      BY <2>3, <2>7 DEF Made
    <3> QED BY <2>2, <2>5, <2>7, <3>1
  <2>8. CASE reply.kind = "err"
    <3>1. PICK h : Says(h, result, reply.pairs) /\ ParsedAs(reply.line, result) = [rv |-> "SUCCESS", ok |-> FALSE, result |-> h]
      BY <2>3, <2>8 DEF Made
    <3>2. FALSE = (reply.kind = "ok")
      BY <2>8
    <3> QED BY <2>2, <2>5, <2>8, <3>1, <3>2
  <2>9. CASE reply.kind = "bad"
    <3>1. PICK h : /\ ParsedAs(reply.line, result) = Invalid(h)
                   /\ h = result \/ \E p : /\ Len(p) \in Nat /\ DOMAIN p = 1 .. Len(p) /\ Says(h, result, p)
                                           /\ \A i \in DOMAIN p : p[i][2] # NULL
      BY <2>3, <2>9 DEF Made
    <3>2. Filled(h)
      BY <2>4, <3>1, SaysFilled
    <3> QED BY <2>2, <2>6, <3>1, <3>2
  <2> QED BY <2>3, <2>7, <2>8, <2>9 DEF Made
<1>9. ASSUME NEW cmds, NEW answered, Finish(cmds, answered) PROVE Hashed'
  BY <1>0, <1>9 DEF Finish
<1>10. CASE return_failure
  BY <1>0, <1>10 DEF return_failure
<1>11. CASE UNCHANGED vars
  BY <1>11 DEF vars, attemptVars, Hashed, Filled, ReplyDecoded
<1> QED
  BY <1>1, <1>2, <1>3, <1>4, <1>5, <1>6, <1>7, <1>8, <1>9, <1>10, <1>11
  DEF Next, returned, finish_get_paths, finish_plain, finish_delete_node, finish_create_node,
      finish_list_directory, finish_path_info, finish_stats, finish_check_fs

\* For any number of attempts, whatever a tracker answers and however its answer is
\* cut into pieces: the hash a command reads holds every pair of the reply it was
\* given in this attempt, decoded, besides that only what a broken reply of an
\* earlier attempt left there, and a broken reply is never read (tracker.c:171-216,
\* 339-428).
THEOREM ReplyCorrect == Spec => []ReplyDecoded
<1>1. Hashed => ReplyDecoded
  BY DEF Hashed
<1> QED BY <1>1, HashedInit, HashedStep, ReceivedInit, ReceivedStep, AlwaysRunning, PTL DEF Spec
-------------------------------------------------------------------------------
(* The status.                                                               *)

\* What a command finds when its request was answered and the answer decoded.
LEMMA Decoded ==
    ASSUME Running, ReplyDecoded, pc = "finish"
    PROVE  /\ ok \in BOOLEAN
           /\ ok = TRUE => reply.kind = "ok"
           /\ ok = FALSE =>
                 /\ ErrorCode # NULL
                 /\ apr_hash_get(result, <<"ERROR_CODE">>) = ErrorCode
<1>1. ok \in BOOLEAN /\ (ok = TRUE <=> reply.kind = "ok")
  BY Zenon DEF ReplyDecoded
<1>2. ASSUME ok = FALSE
      PROVE  ErrorCode # NULL /\ apr_hash_get(result, <<"ERROR_CODE">>) = ErrorCode
  <2>1. Answer(reply) /\ reply.kind = "err"
    BY <1>1, <1>2 DEF Running, ReplyDecoded, Answer
  <2>2. /\ <<"ERROR_CODE">> \in DOMAIN HashOf(reply.pairs)
        /\ \E e \in ErrorCodes : ErrorCode = <<e>>
    BY <2>1, ErrorCodeSet
  <2>3. ErrorCode # NULL
    BY <2>2, NullAssumption
  <2>4. <<"ERROR_CODE">> \in DOMAIN result /\ result[<<"ERROR_CODE">>] = ErrorCode
    BY <2>2 DEF ReplyDecoded, ErrorCode
  <2> QED BY <2>3, <2>4 DEF apr_hash_get
<1> QED BY <1>1, <1>2

\* The status of the commands that name an error, for an OK and for an ERR reply.
LEMMA OkStatus ==
    ASSUME ok = TRUE
    PROVE  /\ get_paths_reply.rv \in {"SUCCESS", "EGENERAL"}
           /\ list_directory_reply.rv \in {"SUCCESS", "EGENERAL"}
           /\ path_info_reply.rv \in {"SUCCESS", "EGENERAL"}
           /\ plain_reply.rv = "SUCCESS" /\ delete_node_reply.rv = "SUCCESS"
           /\ stats_reply.rv = "SUCCESS" /\ check_fs_reply.rv = "SUCCESS"
           /\ \A wanted \in BOOLEAN : create_node_reply(wanted).rv = "SUCCESS"
<1>1. get_paths_reply.rv \in {"SUCCESS", "EGENERAL"}
  BY DEF get_paths_reply, Failed, Returned
<1>2. list_directory_reply.rv \in {"SUCCESS", "EGENERAL"}
  BY DEF list_directory_reply, Failed, Returned
<1>3. path_info_reply.rv \in {"SUCCESS", "EGENERAL"}
  BY DEF path_info_reply, Failed, Returned
<1>4. plain_reply.rv = "SUCCESS" /\ delete_node_reply.rv = "SUCCESS"
  BY DEF plain_reply, delete_node_reply, Failed, Returned
<1>5. stats_reply.rv = "SUCCESS" /\ check_fs_reply.rv = "SUCCESS"
  BY DEF stats_reply, check_fs_reply, Returned
<1>6. \A wanted \in BOOLEAN : create_node_reply(wanted).rv = "SUCCESS"
  BY DEF create_node_reply, Returned
<1> QED BY <1>1, <1>2, <1>3, <1>4, <1>5, <1>6

\* The same for an ERR reply.
LEMMA ErrStatus ==
    ASSUME ok = FALSE
    PROVE  /\ get_paths_reply.rv = ErrorStatus({"unknown_key"}, "EBADPATH")
           /\ list_directory_reply.rv = ErrorStatus({"unknown_key"}, "EBADPATH")
           /\ path_info_reply.rv = ErrorStatus({"path_not_found", "unknown_key"}, "EBADPATH")
           /\ delete_node_reply.rv =
                IF apr_hash_get(result, <<"ERROR_CODE">>) = <<"directory_not_empty">>
                THEN "ENOTEMPTY" ELSE "EGENERAL"
           /\ plain_reply.rv = "EGENERAL"
           /\ stats_reply.rv = "EGENERAL" /\ check_fs_reply.rv = "EGENERAL"
           /\ \A wanted \in BOOLEAN : create_node_reply(wanted).rv = "EGENERAL"
<1>1. get_paths_reply.rv = ErrorStatus({"unknown_key"}, "EBADPATH")
  BY DEF get_paths_reply, Failed, Returned
<1>2. list_directory_reply.rv = ErrorStatus({"unknown_key"}, "EBADPATH")
  BY DEF list_directory_reply, Failed, Returned
<1>3. path_info_reply.rv = ErrorStatus({"path_not_found", "unknown_key"}, "EBADPATH")
  BY DEF path_info_reply, Failed, Returned
<1>4. plain_reply.rv = "EGENERAL"
  BY DEF plain_reply, Failed, Returned
<1>5. delete_node_reply.rv =
        IF apr_hash_get(result, <<"ERROR_CODE">>) = <<"directory_not_empty">>
        THEN "ENOTEMPTY" ELSE "EGENERAL"
  BY DEF delete_node_reply, Failed, Returned
<1>6. stats_reply.rv = "EGENERAL" /\ check_fs_reply.rv = "EGENERAL"
  BY DEF stats_reply, check_fs_reply, Returned
<1>7. \A wanted \in BOOLEAN : create_node_reply(wanted).rv = "EGENERAL"
  BY DEF create_node_reply, Returned
<1> QED BY <1>1, <1>2, <1>3, <1>4, <1>5, <1>6, <1>7

\* What StatusFaithful says of the status a command is about to return.
Faithful(status) ==
    /\ status # "CRASH"
    /\ status = "SUCCESS" => reply.kind = "ok"
    /\ status = "EBADPATH" <=>
          /\ ok = FALSE
          /\ \/ call.cmd \in {"get_paths", "plugin_filepaths_list_directory",
                              "plugin_filepaths_path_info"} /\ ErrorCode = <<"unknown_key">>
             \/ call.cmd = "plugin_filepaths_path_info" /\ ErrorCode = <<"path_not_found">>
    /\ status = "ENOTEMPTY" <=>
          /\ ok = FALSE /\ call.cmd = "plugin_filepaths_delete_node"
          /\ ErrorCode = <<"directory_not_empty">>

\* The status of every command is the one StatusFaithful asks for.
LEMMA FinishFaithful ==
    ASSUME Running, ReplyDecoded, pc = "finish"
    PROVE  /\ call.cmd = "get_paths" => Faithful(get_paths_reply.rv)
           /\ call.cmd = "plugin_filepaths_list_directory" => Faithful(list_directory_reply.rv)
           /\ call.cmd = "plugin_filepaths_path_info" => Faithful(path_info_reply.rv)
           /\ call.cmd = "plugin_filepaths_delete_node" => Faithful(delete_node_reply.rv)
           /\ call.cmd \in PlainCommands => Faithful(plain_reply.rv)
           /\ call.cmd = "plugin_filepaths_stats" => Faithful(stats_reply.rv)
           /\ call.cmd = "plugin_filepaths_check_fs" => Faithful(check_fs_reply.rv)
           /\ call.cmd = "plugin_filepaths_create_node" =>
                 \A wanted \in BOOLEAN : Faithful(create_node_reply(wanted).rv)
<1>1. CASE ok = TRUE
  <2>1. reply.kind = "ok" /\ ok # FALSE
    BY <1>1, Decoded
  <2>2. \A status \in {"SUCCESS", "EGENERAL"} : Faithful(status)
    BY <2>1 DEF Faithful
  <2> QED BY <1>1, <2>2, OkStatus
<1>2. CASE ok = FALSE
  <2> DEFINE code == apr_hash_get(result, <<"ERROR_CODE">>)
  <2>1. code = ErrorCode /\ code # NULL
    BY <1>2, Decoded
  <2>2. ErrorStatus({"unknown_key"}, "EBADPATH") =
          IF ErrorCode = <<"unknown_key">> THEN "EBADPATH" ELSE "EGENERAL"
    BY <2>1 DEF ErrorStatus
  <2>3. ErrorStatus({"path_not_found", "unknown_key"}, "EBADPATH") =
          IF ErrorCode \in {<<"path_not_found">>, <<"unknown_key">>} THEN "EBADPATH"
          ELSE "EGENERAL"
    BY <2>1 DEF ErrorStatus
  <2> HIDE DEF code
  <2>4. call.cmd \in {"get_paths", "plugin_filepaths_list_directory"} =>
          Faithful(ErrorStatus({"unknown_key"}, "EBADPATH"))
    BY <1>2, <2>2 DEF Faithful
  <2>5. call.cmd = "plugin_filepaths_path_info" =>
          Faithful(ErrorStatus({"path_not_found", "unknown_key"}, "EBADPATH"))
    BY <1>2, <2>3 DEF Faithful
  <2>6. call.cmd = "plugin_filepaths_delete_node" => Faithful(delete_node_reply.rv)
    BY <1>2, <2>1, ErrStatus DEF Faithful, code
  <2>7. call.cmd \in PlainCommands \cup {"plugin_filepaths_stats", "plugin_filepaths_check_fs",
                                         "plugin_filepaths_create_node"} => Faithful("EGENERAL")
    BY <1>2 DEF Faithful, PlainCommands
  <2> QED BY <1>2, <2>4, <2>5, <2>6, <2>7, ErrStatus
<1> QED BY <1>1, <1>2, Decoded

\* Every step keeps the property, if the reply is decoded.
LEMMA StatusStep ==
    Running /\ ReplyDecoded /\ StatusFaithful /\ [Next]_vars => StatusFaithful'
<1> SUFFICES ASSUME Running, ReplyDecoded, StatusFaithful, [Next]_vars, pc' = "done"
             PROVE  StatusFaithful'
  BY DEF StatusFaithful
<1>1. ASSUME NEW cmds, NEW answered, Finish(cmds, answered), Faithful(answered.rv)
      PROVE  StatusFaithful'
  <2>1. rv' = answered.rv /\ reply' = reply /\ call' = call /\ ok' = ok
    BY <1>1 DEF Finish, attemptVars
  <2>2. ErrorCode' = ErrorCode
    BY <2>1 DEF ErrorCode
  <2> QED BY <1>1, <2>1, <2>2 DEF StatusFaithful, Faithful
<1>2. ASSUME NEW cmds, NEW answered, Finish(cmds, answered) PROVE pc = "finish" /\ call.cmd \in cmds
  BY <1>2 DEF Finish
<1>3. CASE return_failure
  <2>1. rv' \in {"ECONNREFUSED", "EIO", "EFTYPE"} /\ ok' = NULL
    BY <1>3 DEF return_failure, Running
  <2>2. ok' # FALSE
    BY <2>1, NullAssumption
  <2> QED BY <2>1, <2>2 DEF StatusFaithful
<1>4. CASE UNCHANGED vars
  BY <1>4 DEF vars, attemptVars, StatusFaithful, ErrorCode
<1>5. ASSUME NEW k, NEW m, add_extra(k, k, m) PROVE FALSE
  BY <1>5 DEF add_extra
<1>6. ASSUME NEW c, begin(c) PROVE FALSE
  BY <1>6 DEF begin
<1>7. CASE no_connection \/ send_request \/ socket_error
  BY <1>7 DEF no_connection, send_request, socket_error
<1>8. CASE answer \/ receive
  BY <1>8 DEF answer, receive
<1>9. CASE parse
  <2>1. pc' = IF Parsed.rv = "SUCCESS" THEN "finish" ELSE "request"
    BY <1>9, Zenon DEF parse
  <2> QED BY <2>1
<1>10. CASE finish_get_paths \/ finish_list_directory \/ finish_path_info
  BY <1>1, <1>2, <1>10, FinishFaithful
  DEF finish_get_paths, finish_list_directory, finish_path_info
<1>11. CASE finish_plain \/ finish_delete_node \/ finish_create_node
  BY <1>1, <1>2, <1>11, FinishFaithful
  DEF finish_plain, finish_delete_node, finish_create_node
<1>12. CASE finish_stats \/ finish_check_fs
  BY <1>1, <1>2, <1>12, FinishFaithful DEF finish_stats, finish_check_fs
<1> QED
  BY <1>3, <1>4, <1>5, <1>6, <1>7, <1>8, <1>9, <1>10, <1>11, <1>12 DEF Next, returned

\* For any number of attempts: success means that the tracker said OK, EBADPATH
\* and ENOTEMPTY that it said that error and no other, and no error code is compared
\* that is NULL (file.c:231, 289, 566, 633).
THEOREM StatusCorrect == Spec => []StatusFaithful
<1>1. Init => StatusFaithful
  BY DEF Init, StatusFaithful
<1> QED BY <1>1, StatusStep, AlwaysRunning, ReplyCorrect, PTL DEF Spec
-------------------------------------------------------------------------------
(* Outputs after a success.                                                  *)

\* A value read from the hash is the one the tracker gave.
LEMMA AgreesResult ==
    ASSUME ReplyDecoded, pc = "finish", NEW name, apr_hash_get(result, name) # NULL
    PROVE  Agrees(apr_hash_get(result, name), name)
<1>1. name \in DOMAIN HashOf(reply.pairs) =>
        name \in DOMAIN result /\ result[name] = HashOf(reply.pairs)[name]
  BY DEF ReplyDecoded
<1> QED BY <1>1 DEF Agrees, apr_hash_get

\* A comparison of the error code never yields success.
LEMMA ErrorNoSuccess ==
    ASSUME NEW codes PROVE ErrorStatus(codes, "EBADPATH") # "SUCCESS"
  BY DEF ErrorStatus

\* The outputs of get_paths ...
LEMMA PathsOutputs ==
    ASSUME get_paths_reply.rv = "SUCCESS"
    PROVE  \E n \in 1 .. MAX_ALLOWED_PATHS - 1 :
              /\ get_paths_reply.out = [paths |-> [pos \in 1 .. n |-> PathAt(pos)], path_count |-> n]
              /\ \A pos \in 1 .. n : PathAt(pos) # NULL
<1> DEFINE count == apr_hash_get(result, <<"paths">>)
           n == Number(count, 0)
           outputs == [paths |-> [pos \in 1 .. n |-> PathAt(pos)], path_count |-> n]
<1>1. \/ get_paths_reply = Failed(ErrorStatus({"unknown_key"}, "EBADPATH"))
      \/ get_paths_reply = Failed("EGENERAL")
      \/ get_paths_reply = Returned("EGENERAL", [path_count |-> 0])
      \/ /\ n \in 1 .. MAX_ALLOWED_PATHS - 1
         /\ \A pos \in 1 .. n : PathAt(pos) # NULL
         /\ get_paths_reply = Returned("SUCCESS", outputs)
  BY DEF get_paths_reply
<1> HIDE DEF n, outputs
<1>2. /\ n \in 1 .. MAX_ALLOWED_PATHS - 1
      /\ \A pos \in 1 .. n : PathAt(pos) # NULL
      /\ get_paths_reply.out = outputs
  BY <1>1, ErrorNoSuccess DEF Failed, Returned
<1> QED BY <1>2 DEF outputs

\* ... of list_directory ...
LEMMA EntriesOutputs ==
    ASSUME list_directory_reply.rv = "SUCCESS", list_directory_reply.out.child_count # 0
    PROVE  \E n \in 1 .. MAX_ALLOWED_DIRECTORY_ENTRIES - 1 :
              /\ list_directory_reply.out =
                    [filepath_entries |-> [i \in 1 .. n |-> EntryAt(i - 1)], child_count |-> n]
              /\ \A pos \in 0 .. n - 1 : ~EntryMissing(pos)
<1> DEFINE count == apr_hash_get(result, <<"files">>)
           n == Number(count, 0)
           outputs == [filepath_entries |-> [i \in 1 .. n |-> EntryAt(i - 1)], child_count |-> n]
<1>1. \/ list_directory_reply = Failed(ErrorStatus({"unknown_key"}, "EBADPATH"))
      \/ list_directory_reply = Failed("EGENERAL")
      \/ list_directory_reply = Returned("SUCCESS", [child_count |-> 0])
      \/ /\ n \in 1 .. MAX_ALLOWED_DIRECTORY_ENTRIES - 1
         /\ \A pos \in 0 .. n - 1 : ~EntryMissing(pos)
         /\ list_directory_reply = Returned("SUCCESS", outputs)
  BY DEF list_directory_reply
<1> HIDE DEF n, outputs
<1>2. list_directory_reply # Returned("SUCCESS", [child_count |-> 0])
  BY DEF Returned
<1>3. /\ n \in 1 .. MAX_ALLOWED_DIRECTORY_ENTRIES - 1
      /\ \A pos \in 0 .. n - 1 : ~EntryMissing(pos)
      /\ list_directory_reply.out = outputs
  BY <1>1, <1>2, ErrorNoSuccess DEF Failed, Returned
<1> QED BY <1>3 DEF outputs

\* ... and of path_info.
LEMMA InfoOutputs ==
    ASSUME path_info_reply.rv = "SUCCESS", path_info_reply.out.type = "TYPE_SYMLINK"
    PROVE  /\ apr_hash_get(result, <<"link">>) # NULL
           /\ path_info_reply.out.link = apr_hash_get(result, <<"link">>)
<1> DEFINE link == apr_hash_get(result, <<"link">>)
           kind == TypeOf(apr_hash_get(result, <<"type">>))
           begun == [name |-> NULL, mtime |-> apr_time_from_sec(Number(apr_hash_get(result, <<"mtime">>), 0)),
                     server_id |-> Number(apr_hash_get(result, <<"nid">>), -1)]
           typed == Also(begun, "type", kind)
           sized == Also(typed, "size", Number(apr_hash_get(result, <<"size">>), 0))
<1>1. \/ path_info_reply = Failed(ErrorStatus({"path_not_found", "unknown_key"}, "EBADPATH"))
      \/ path_info_reply = Returned("EGENERAL", begun)
      \/ path_info_reply = Returned("EGENERAL", Also(typed, "link", link))
      \/ kind # "TYPE_SYMLINK" /\ path_info_reply = Returned("SUCCESS", typed)
      \/ kind # "TYPE_SYMLINK" /\ path_info_reply = Returned("SUCCESS", sized)
      \/ link # NULL /\ path_info_reply = Returned("SUCCESS", Also(typed, "link", link))
  BY DEF path_info_reply
<1>2. typed.type = kind /\ "type" \in DOMAIN typed
  BY DEF Also
<1>3. sized.type = kind
  BY <1>2 DEF Also
<1>4. Also(typed, "link", link).link = link
  BY DEF Also
<1> HIDE DEF begun, typed, sized
<1> QED BY <1>1, <1>2, <1>3, <1>4, ErrorNoSuccess DEF Failed, Returned

\* After get_paths has finished the property holds ...
LEMMA PathsFinish ==
    ASSUME ReplyDecoded, finish_get_paths, rv' = "SUCCESS"
    PROVE  PathsComplete'
<1>1. pc = "finish" /\ get_paths_reply.rv = "SUCCESS" /\ out' = get_paths_reply.out /\ reply' = reply
  BY DEF finish_get_paths, Finish, attemptVars
<1>2. PICK n \in 1 .. MAX_ALLOWED_PATHS - 1 :
        /\ out' = [paths |-> [pos \in 1 .. n |-> PathAt(pos)], path_count |-> n]
        /\ \A pos \in 1 .. n : PathAt(pos) # NULL
  BY <1>1, PathsOutputs
<1>3. \A pos \in 1 .. n : Agrees(PathAt(pos), <<"path">> \o Decimal(pos))
  BY <1>1, <1>2, AgreesResult DEF PathAt
<1>4. out'.path_count = n /\ out'.paths = [pos \in 1 .. n |-> PathAt(pos)]
  BY <1>2
<1>5. Len(out'.paths) = n /\ DOMAIN out'.paths = 1 .. n
  BY <1>4
<1>6. \A i \in 1 .. n : Agrees(out.paths[i], <<"path">> \o Decimal(i))'
  <2> TAKE i \in 1 .. n
  <2>1. out'.paths[i] = PathAt(i)
    BY <1>4
  <2> QED BY <1>1, <1>3, <2>1 DEF Agrees
<1> QED BY <1>4, <1>5, <1>6 DEF PathsComplete

\* ... after list_directory ...
LEMMA EntriesFinish ==
    ASSUME ReplyDecoded, finish_list_directory, rv' = "SUCCESS"
    PROVE  EntriesComplete'
<1> SUFFICES ASSUME out'.child_count # 0 PROVE EntriesComplete'
  BY DEF EntriesComplete
<1>1. /\ pc = "finish" /\ list_directory_reply.rv = "SUCCESS"
      /\ out' = list_directory_reply.out /\ reply' = reply
  BY DEF finish_list_directory, Finish, attemptVars
<1>2. PICK n \in 1 .. MAX_ALLOWED_DIRECTORY_ENTRIES - 1 :
        /\ out' = [filepath_entries |-> [i \in 1 .. n |-> EntryAt(i - 1)], child_count |-> n]
        /\ \A pos \in 0 .. n - 1 : ~EntryMissing(pos)
  BY <1>1, EntriesOutputs
<1>3. out'.child_count = n /\ out'.filepath_entries = [i \in 1 .. n |-> EntryAt(i - 1)]
  BY <1>2
<1>4. Len(out'.filepath_entries) = n /\ DOMAIN out'.filepath_entries = 1 .. n
  BY <1>3
<1>5. ASSUME NEW i \in 1 .. n
      PROVE  LET e == out'.filepath_entries[i]
                 name == <<"file">> \o Decimal(i - 1)
             IN  /\ Agrees(e.name, name)
                 /\ e.type = "TYPE_SYMLINK" => Agrees(e.link, name \o <<".", "link">>)
  <2> DEFINE name == <<"file">> \o Decimal(i - 1)
             kind == TypeOf(apr_hash_get(result, name \o <<".", "type">>))
  <2>1. i - 1 \in 0 .. n - 1 /\ out'.filepath_entries[i] = EntryAt(i - 1)
    BY <1>3
  <2>2. /\ apr_hash_get(result, name) # NULL
        /\ kind = "TYPE_SYMLINK" => apr_hash_get(result, name \o <<".", "link">>) # NULL
    BY <1>2, <2>1, Zenon DEF EntryMissing
  <2>3. /\ EntryAt(i - 1).name = apr_hash_get(result, name)
        /\ EntryAt(i - 1).type = kind
        /\ kind = "TYPE_SYMLINK" => EntryAt(i - 1).link = apr_hash_get(result, name \o <<".", "link">>)
    BY DEF EntryAt
  <2> HIDE DEF name, kind
  <2>4. Agrees(apr_hash_get(result, name), name)
    BY <1>1, <2>2, AgreesResult
  <2>5. kind = "TYPE_SYMLINK" => Agrees(apr_hash_get(result, name \o <<".", "link">>), name \o <<".", "link">>)
    BY <1>1, <2>2, AgreesResult
  <2> QED BY <2>1, <2>3, <2>4, <2>5 DEF name
<1>6. ASSUME NEW i \in 1 .. n
      PROVE  (LET e == out.filepath_entries[i]
                  name == <<"file">> \o Decimal(i - 1)
              IN  /\ Agrees(e.name, name)
                  /\ e.type = "TYPE_SYMLINK" => Agrees(e.link, name \o <<".", "link">>))'
  BY <1>1, <1>5, Zenon DEF Agrees
<1>7. /\ Len(out'.filepath_entries) = out'.child_count
      /\ out'.child_count < MAX_ALLOWED_DIRECTORY_ENTRIES
  BY <1>3, <1>4, BoundsAssumption
<1> QED BY <1>4, <1>6, <1>7, Zenon DEF EntriesComplete

\* ... and after path_info.
LEMMA InfoFinish ==
    ASSUME ReplyDecoded, finish_path_info, rv' = "SUCCESS", out'.type = "TYPE_SYMLINK"
    PROVE  Agrees(out.link, <<"link">>)'
<1>1. /\ pc = "finish" /\ path_info_reply.rv = "SUCCESS"
      /\ out' = path_info_reply.out /\ reply' = reply
  BY DEF finish_path_info, Finish, attemptVars
<1>2. out'.link = apr_hash_get(result, <<"link">>) /\ out'.link # NULL
  BY <1>1, InfoOutputs
<1>3. Agrees(out'.link, <<"link">>)
  BY <1>1, <1>2, AgreesResult
<1> QED BY <1>1, <1>3 DEF Agrees

\* Every step keeps the property, if the reply is decoded.
LEMMA ResultStep ==
    Running /\ ReplyDecoded /\ ResultComplete /\ [Next]_vars => ResultComplete'
<1> SUFFICES ASSUME Running, ReplyDecoded, ResultComplete, [Next]_vars,
                    pc' = "done", rv' = "SUCCESS"
             PROVE  ResultComplete'
  BY DEF ResultComplete
<1>1. ASSUME NEW cmds, NEW answered, Finish(cmds, answered) PROVE call'.cmd \in cmds
  BY <1>1 DEF Finish
<1>2. CASE finish_get_paths
  <2>1. PathsComplete' /\ call'.cmd = "get_paths"
    BY <1>1, <1>2, PathsFinish DEF finish_get_paths
  <2> QED BY <2>1 DEF ResultComplete
<1>3. CASE finish_list_directory
  <2>1. EntriesComplete' /\ call'.cmd = "plugin_filepaths_list_directory"
    BY <1>1, <1>3, EntriesFinish DEF finish_list_directory
  <2> QED BY <2>1 DEF ResultComplete
<1>4. CASE finish_path_info
  <2>1. call'.cmd = "plugin_filepaths_path_info"
    BY <1>1, <1>4 DEF finish_path_info
  <2>2. out'.type = "TYPE_SYMLINK" => Agrees(out.link, <<"link">>)'
    BY <1>4, InfoFinish
  <2> QED BY <2>1, <2>2 DEF ResultComplete
<1>5. CASE finish_plain \/ finish_delete_node \/ finish_create_node \/ finish_stats
              \/ finish_check_fs
  <2>1. call'.cmd \notin {"get_paths", "plugin_filepaths_list_directory",
                          "plugin_filepaths_path_info"}
    BY <1>1, <1>5 DEF finish_plain, finish_delete_node, finish_create_node, finish_stats,
                      finish_check_fs, PlainCommands
  <2> QED BY <2>1 DEF ResultComplete
<1>6. CASE return_failure
  BY <1>6 DEF return_failure, Running
<1>7. CASE UNCHANGED vars
  BY <1>7 DEF vars, attemptVars, ResultComplete, PathsComplete, EntriesComplete, Agrees
<1>8. ASSUME NEW k, NEW m, add_extra(k, k, m) PROVE FALSE
  BY <1>8 DEF add_extra
<1>9. ASSUME NEW c, begin(c) PROVE FALSE
  BY <1>9 DEF begin
<1>10. CASE no_connection \/ send_request \/ socket_error
  BY <1>10 DEF no_connection, send_request, socket_error
<1>11. CASE answer \/ receive
  BY <1>11 DEF answer, receive
<1>12. CASE parse
  <2>1. pc' = IF Parsed.rv = "SUCCESS" THEN "finish" ELSE "request"
    BY <1>12, Zenon DEF parse
  <2> QED BY <2>1
<1> QED
  BY <1>2, <1>3, <1>4, <1>5, <1>6, <1>7, <1>8, <1>9, <1>10, <1>11, <1>12 DEF Next, returned

\* For any number of attempts and any limits: a command that succeeds gives its
\* caller a list with as many entries as it says, within the limit, none missing and
\* all as the tracker wrote them; one that fails gives none (file.c:197-239, 484-574,
\* 590-645).
THEOREM OutputsCorrect == Spec => []OutputsWhole
<1>1. Init => ResultComplete
  BY DEF Init, ResultComplete
<1>2. ResultComplete /\ ListsAllOrNothing => OutputsWhole
  BY DEF OutputsWhole
<1> QED BY <1>1, <1>2, ResultStep, AlwaysRunning, ReplyCorrect, ListsCorrect, PTL DEF Spec
-------------------------------------------------------------------------------
(* The caller's list, and the type invariant.                                *)

\* What the caller may put in its list, and how a parameter is kept there: encoded
\* with its lengths, or raw without.
Gifts == Keys \X Keys \X BOOLEAN
Encoded(key, value) ==
    [key |-> mfs_tracker_url_encode(key), key_length |-> url_encode_length(key),
     value |-> mfs_tracker_url_encode(value), value_length |-> url_encode_length(value),
     is_metadata |-> FALSE]
Raw(key, value) ==
    [key |-> key, key_length |-> 0, value |-> value, value_length |-> 0, is_metadata |-> TRUE]
Kept(g) == IF g[3] THEN Raw(g[1], g[2]) ELSE Encoded(g[1], g[2])

\* The caller's list holds what the caller put in it, in order.
Extras ==
    /\ given \in Seq(Gifts) /\ Len(given) <= MaxExtra
    /\ DOMAIN extra = {"head", "count", "strlen", "meta_count"}
    /\ extra.count = Len(given)
    /\ extra.head = [i \in 1 .. Len(given) |-> Kept(given[i])]

\* The caller's list is empty at first.
LEMMA ExtrasInit == Init => Extras
<1> SUFFICES ASSUME Init PROVE Extras
  OBVIOUS
<1>1. given = << >> /\ extra = [head |-> << >>, count |-> 0, strlen |-> 0, meta_count |-> 0]
  BY DEF Init, mfs_tracker_init_parameters
<1>2. DOMAIN extra = {"head", "count", "strlen", "meta_count"} /\ extra.count = 0 /\ extra.head = << >>
  BY <1>1
<1>3. given \in Seq(Gifts) /\ Len(given) = 0 /\ 0 <= MaxExtra
  BY <1>1, BoundsAssumption
<1>4. [i \in 1 .. 0 |-> Kept(given[i])] = << >>
  <2> DEFINE F(i) == Kept(given[i])
  <2> HIDE DEF F
  <2>1. [i \in 1 .. 0 |-> F(i)] = << >>
    OBVIOUS
  <2> QED BY <2>1 DEF F
<1> QED BY <1>2, <1>3, <1>4 DEF Extras

\* Another parameter in the list.
LEMMA OneMoreKept ==
    ASSUME NEW s \in Seq(Gifts), NEW g \in Gifts
    PROVE  [i \in 1 .. Len(Append(s, g)) |-> Kept(Append(s, g)[i])]
             = Append([i \in 1 .. Len(s) |-> Kept(s[i])], Kept(g))
<1> DEFINE n == Len(s)
           t == Append(s, g)
           F(x) == Kept(x)
           K == {F(x) : x \in Gifts}
           u == [i \in 1 .. n |-> F(s[i])]
           v == [i \in 1 .. Len(t) |-> F(t[i])]
           w == Append(u, F(g))
<1>1. t \in Seq(Gifts) /\ Len(t) = n + 1 /\ n \in Nat /\ (\A i \in 1 .. n : t[i] = s[i] /\ s[i] \in Gifts) /\ t[n + 1] = g
  BY AppendProperties
<1>2. \A i \in 1 .. n + 1 : t[i] \in Gifts
  BY <1>1
<1> HIDE DEF F, t, n
<1>3. u \in Seq(K) /\ Len(u) = n /\ \A i \in 1 .. n : u[i] = F(s[i])
  BY <1>1
<1>4. v \in Seq(K) /\ Len(v) = n + 1 /\ \A i \in 1 .. n + 1 : v[i] = F(t[i])
  BY <1>1, <1>2
<1>5. F(g) \in K
  OBVIOUS
<1> HIDE DEF u, v, K
<1>6. w \in Seq(K) /\ Len(w) = n + 1 /\ (\A i \in 1 .. n : w[i] = u[i]) /\ w[n + 1] = F(g)
  BY <1>3, <1>5, AppendProperties
<1> HIDE DEF w
<1>7. \A i \in 1 .. n + 1 : v[i] = w[i]
  <2> TAKE i \in 1 .. n + 1
  <2>1. CASE i \in 1 .. n
    BY <1>1, <1>3, <1>4, <1>6, <2>1
  <2>2. CASE i = n + 1
    BY <1>1, <1>4, <1>6, <2>2
  <2> QED BY <1>1, <2>1, <2>2
<1>8. v = w
  BY <1>4, <1>6, <1>7, SeqEqual
<1> QED BY <1>8 DEF v, w, u, F, t, n

\* Every step keeps the caller's list.
LEMMA ExtrasStep == Extras /\ [Next]_vars => Extras'
<1> SUFFICES ASSUME Extras, [Next]_vars PROVE Extras'
  OBVIOUS
<1>0. ASSUME UNCHANGED <<extra, given>> PROVE Extras'
  BY <1>0 DEF Extras
<1>1. ASSUME NEW k \in Keys, NEW m \in BOOLEAN, add_extra(k, k, m) PROVE Extras'
  <2> DEFINE g == <<k, k, m>>
  <2>1. given' = Append(given, g) /\ Len(given) < MaxExtra
    BY <1>1 DEF add_extra
  <2>2. g \in Gifts /\ g[1] = k /\ g[2] = k /\ g[3] = m
    BY DEF Gifts
  <2>3. /\ DOMAIN extra' = DOMAIN extra /\ extra'.count = extra.count + 1
        /\ extra'.head = Append(extra.head, Kept(g))
    <3>1. CASE m = TRUE
      <4>1. extra' = add_raw_meta_data(extra, k, k)
        BY <1>1, <3>1 DEF add_extra
      <4>2. Kept(g) = Raw(k, k)
        BY <2>2, <3>1 DEF Kept
      <4> HIDE DEF g
      <4> QED BY <4>1, <4>2 DEF add_raw_meta_data, Raw, Extras
    <3>2. CASE m = FALSE
      <4>1. extra' = mfs_tracker_add_parameter(extra, k, k)
        BY <1>1, <3>2 DEF add_extra
      <4>2. Kept(g) = Encoded(k, k)
        BY <2>2, <3>2 DEF Kept
      <4> HIDE DEF g
      <4> QED BY <4>1, <4>2 DEF mfs_tracker_add_parameter, mfs_tracker_add_parameter_pointers, Encoded, Extras
    <3> QED BY <3>1, <3>2
  <2> HIDE DEF g
  <2>4. extra'.head = [i \in 1 .. Len(given') |-> Kept(given'[i])]
    BY <2>1, <2>2, <2>3, OneMoreKept DEF Extras
  <2>5. given' \in Seq(Gifts) /\ Len(given') = Len(given) + 1 /\ Len(given) \in Nat
    BY <2>1, <2>2, AppendProperties DEF Extras
  <2>6. Len(given') <= MaxExtra
    BY <2>1, <2>5, BoundsAssumption
  <2> QED BY <2>3, <2>4, <2>5, <2>6 DEF Extras
<1>2. ASSUME NEW c \in Calls, begin(c) PROVE Extras'
  BY <1>0, <1>2 DEF begin
<1>3. CASE no_connection \/ send_request \/ socket_error
  BY <1>0, <1>3 DEF no_connection, send_request, socket_error
<1>4. CASE answer \/ receive
  BY <1>0, <1>4 DEF answer, receive
<1>5. CASE parse
  BY <1>0, <1>5 DEF parse
<1>6. ASSUME NEW cmds, NEW answered, Finish(cmds, answered) PROVE Extras'
  BY <1>0, <1>6 DEF Finish
<1>7. CASE return_failure
  BY <1>0, <1>7 DEF return_failure
<1>8. CASE UNCHANGED vars
  BY <1>0, <1>8 DEF vars
<1> QED
  BY <1>1, <1>2, <1>3, <1>4, <1>5, <1>6, <1>7, <1>8
  DEF Next, returned, finish_get_paths, finish_plain, finish_delete_node, finish_create_node,
      finish_list_directory, finish_path_info, finish_stats, finish_check_fs

\* In every reachable state.
LEMMA AlwaysExtras == Spec => []Extras
  BY ExtrasInit, ExtrasStep, PTL DEF Spec

\* The rest of the type invariant.
Typed ==
    /\ pc \in {"calling", "request", "receive", "parse", "finish", "failed", "done"}
    /\ call = NULL \/ call \in Calls
    /\ rv \in Statuses
    /\ ok \in BOOLEAN \/ ok = NULL

\* The parser sets is_ok to a truth value or not at all.
LEMMA ParsedTruth == Parsed.ok = NULL \/ Parsed.ok \in BOOLEAN
<1> DEFINE Accepted(truth, h) == [rv |-> "SUCCESS", ok |-> truth, result |-> h]
<1>1. ASSUME NEW body, NEW hash
      PROVE  \E h : ParseOk(body, hash) = Accepted(TRUE, h) \/ ParseOk(body, hash) = Invalid(h)
  BY Zenon DEF ParseOk
<1>2. ASSUME NEW body, NEW hash
      PROVE  \E h : ParseErr(body, hash) = Accepted(FALSE, h) \/ ParseErr(body, hash) = Invalid(h)
  BY Zenon DEF ParseErr
<1>3. \E h : Parsed = Accepted(TRUE, h) \/ Parsed = Accepted(FALSE, h) \/ Parsed = Invalid(h)
  BY <1>1, <1>2, Zenon DEF Parsed, mfs_tracker_parse_response
<1>4. \A h : Accepted(TRUE, h).ok = TRUE /\ Accepted(FALSE, h).ok = FALSE
  OBVIOUS
<1>5. \A h : Invalid(h).ok = NULL
  BY DEF Invalid
<1> HIDE DEF Accepted
<1> QED BY <1>3, <1>4, <1>5, Zenon

\* What the commands return is a status.
LEMMA StatusType ==
    /\ get_paths_reply.rv \in Statuses /\ plain_reply.rv \in Statuses /\ delete_node_reply.rv \in Statuses
    /\ list_directory_reply.rv \in Statuses /\ path_info_reply.rv \in Statuses
    /\ stats_reply.rv \in Statuses /\ check_fs_reply.rv \in Statuses
    /\ \A wanted \in BOOLEAN : create_node_reply(wanted).rv \in Statuses
<1>1. \A codes : ErrorStatus(codes, "EBADPATH") \in Statuses
  BY DEF ErrorStatus, Statuses
<1>2. {"SUCCESS", "EGENERAL", "ENOTEMPTY"} \subseteq Statuses
  BY DEF Statuses
<1>3. \A status \in Statuses : Failed(status).rv \in Statuses
  BY DEF Failed, Returned
<1>4. \A status \in Statuses : \A outputs : Returned(status, outputs).rv \in Statuses
  BY DEF Returned
<1>5. get_paths_reply.rv \in Statuses
  BY <1>1, <1>2, <1>3, <1>4 DEF get_paths_reply
<1>6. plain_reply.rv \in Statuses
  BY <1>2, <1>3 DEF plain_reply
<1>7. delete_node_reply.rv \in Statuses
  BY <1>2, <1>3 DEF delete_node_reply
<1>8. list_directory_reply.rv \in Statuses
  BY <1>1, <1>2, <1>3, <1>4 DEF list_directory_reply
<1>9. path_info_reply.rv \in Statuses
  BY <1>1, <1>2, <1>3, <1>4 DEF path_info_reply
<1>10. stats_reply.rv \in Statuses
  BY <1>2, <1>4 DEF stats_reply
<1>11. check_fs_reply.rv \in Statuses
  BY <1>2, <1>4 DEF check_fs_reply
<1>12. \A wanted \in BOOLEAN : create_node_reply(wanted).rv \in Statuses
  BY <1>2, <1>4 DEF create_node_reply
<1> QED BY <1>5, <1>6, <1>7, <1>8, <1>9, <1>10, <1>11, <1>12

\* Every step keeps the types.
LEMMA TypedStep == Typed /\ [Next]_vars => Typed'
<1> SUFFICES ASSUME Typed, [Next]_vars PROVE Typed'
  OBVIOUS
<1> USE DEF Typed
<1>1. ASSUME NEW k \in Keys, NEW m \in BOOLEAN, add_extra(k, k, m) PROVE Typed'
  BY <1>1 DEF add_extra
<1>2. ASSUME NEW c \in Calls, begin(c) PROVE Typed'
  BY <1>2 DEF begin
<1>3. CASE no_connection \/ send_request \/ socket_error
  BY <1>3 DEF no_connection, send_request, socket_error, Statuses
<1>4. CASE answer \/ receive
  BY <1>4 DEF answer, receive
<1>5. CASE parse
  <2>1. /\ rv' = Parsed.rv /\ ok' = IF Parsed.ok = NULL THEN ok ELSE Parsed.ok
        /\ pc' = IF Parsed.rv = "SUCCESS" THEN "finish" ELSE "request"
        /\ call' = call
    BY <1>5, Zenon DEF parse
  <2>2. Parsed.rv \in Statuses
    BY ParsedStatus DEF Statuses
  <2>3. Parsed.ok = NULL \/ Parsed.ok \in BOOLEAN
    BY ParsedTruth
  <2> QED BY <2>1, <2>2, <2>3
<1>6. ASSUME NEW cmds, NEW answered, Finish(cmds, answered), answered.rv \in Statuses PROVE Typed'
  BY <1>6 DEF Finish
<1>7. CASE return_failure
  BY <1>7 DEF return_failure
<1>8. CASE UNCHANGED vars
  BY <1>8 DEF vars
<1> QED
  BY <1>1, <1>2, <1>3, <1>4, <1>5, <1>6, <1>7, <1>8, StatusType
  DEF Next, returned, finish_get_paths, finish_plain, finish_delete_node, finish_create_node,
      finish_list_directory, finish_path_info, finish_stats, finish_check_fs

\* For any number of attempts and of extra parameters: the state is of its type,
\* the caller's list counts what it holds, and what was received of a reply and
\* what was not make up the reply (tracker.c:171-206).
THEOREM TypeCorrect == Spec => []TypeOK
<1>1. Init => Typed
  BY DEF Init, Typed, Statuses
<1>2. Typed /\ Extras /\ Hashed /\ Received => TypeOK
  BY DEF Typed, Extras, Hashed, Received, ReplyKnown, TypeOK
<1> QED BY <1>1, <1>2, TypedStep, HashedInit, HashedStep, ReceivedInit, ReceivedStep, AlwaysRunning, AlwaysExtras, PTL DEF Spec
-------------------------------------------------------------------------------
(* Numbers as they are printed.                                              *)

DigitTokens == {"0", "1", "2", "3", "4", "5", "6", "7", "8", "9"}

\* Digits.
LEMMA DigitType == \A d \in 1 .. 10 : Digit[d] \in DigitTokens
<1> DEFINE D == Digit
<1>1. /\ D[1] = "0" /\ D[2] = "1" /\ D[3] = "2" /\ D[4] = "3" /\ D[5] = "4" /\ D[6] = "5"
      /\ D[7] = "6" /\ D[8] = "7" /\ D[9] = "8" /\ D[10] = "9"
  BY DEF Digit
<1>2. 1 .. 10 = {1, 2, 3, 4, 5, 6, 7, 8, 9, 10}
  OBVIOUS
<1> HIDE DEF D
<1>3. \A d \in 1 .. 10 : D[d] \in DigitTokens
  BY <1>1, <1>2 DEF DigitTokens
<1> QED BY <1>3 DEF D

\* The digits of n, if f are those of smaller numbers.
DigitsFrom(f, n) ==
    IF n < 10 THEN <<Digit[n + 1]>> ELSE Append(f[n \div 10], Digit[(n % 10) + 1])

Counting(f, number) == f = [n \in 0 .. number |-> DigitsFrom(f, n)]

\* The number without its last digit is smaller ...
LEMMA TenthLess == ASSUME NEW n \in Nat, ~(n < 10)
                   PROVE  n \div 10 \in 0 .. n - 1 /\ (n % 10) + 1 \in 1 .. 10
  OBVIOUS

\* ... so its digits depend on those of smaller numbers ...
LEMMA DigitsFromSmaller ==
    ASSUME NEW f, NEW h, NEW n \in Nat, \A k \in 0 .. n - 1 : f[k] = h[k]
    PROVE  DigitsFrom(f, n) = DigitsFrom(h, n)
<1>1. CASE n < 10
  BY <1>1 DEF DigitsFrom
<1>2. CASE ~(n < 10)
  <2>1. f[n \div 10] = h[n \div 10]
    BY <1>2, TenthLess
  <2> QED BY <1>2, <2>1 DEF DigitsFrom
<1> QED BY <1>1, <1>2

\* ... the recursive function of Decimal exists ...
LEMMA CountingExists ==
    ASSUME NEW number \in Nat PROVE \E f : Counting(f, number)
<1> DEFINE A == {m \in Nat : \E f : f = [n \in 0 .. m |-> DigitsFrom(f, n)]}
<1>1. 0 \in A
  <2> DEFINE f == [n \in 0 .. 0 |-> DigitsFrom(<< >>, n)]
  <2>1. \A n \in 0 .. 0 : DigitsFrom(<< >>, n) = DigitsFrom(f, n)
    <3> TAKE n \in 0 .. 0
    <3>1. n \in Nat /\ 0 .. n - 1 = {}
      OBVIOUS
    <3> HIDE DEF f
    <3> QED BY <3>1, DigitsFromSmaller
  <2>2. f = [n \in 0 .. 0 |-> DigitsFrom(f, n)]
    BY <2>1
  <2> HIDE DEF f
  <2> QED BY <2>2
<1>2. ASSUME NEW m \in 1 .. number, m - 1 \in A PROVE m \in A
  <2>1. PICK f : f = [n \in 0 .. m - 1 |-> DigitsFrom(f, n)]
    BY <1>2
  <2> DEFINE h == [n \in 0 .. m |-> DigitsFrom(f, n)]
  <2>2. \A n \in 0 .. m - 1 : h[n] = f[n]
    <3>1. \A n \in 0 .. m - 1 : h[n] = DigitsFrom(f, n)
      OBVIOUS
    <3>2. \A n \in 0 .. m - 1 : f[n] = DigitsFrom(f, n)
      BY <2>1
    <3> HIDE DEF h
    <3> QED BY <3>1, <3>2
  <2>3. ASSUME NEW n \in 0 .. m PROVE DigitsFrom(f, n) = DigitsFrom(h, n)
    <3>1. n \in Nat /\ \A k \in 0 .. n - 1 : k \in 0 .. m - 1
      OBVIOUS
    <3> HIDE DEF h
    <3>2. \A k \in 0 .. n - 1 : f[k] = h[k]
      BY <2>2, <3>1
    <3> QED BY <3>1, <3>2, DigitsFromSmaller
  <2>4. h = [n \in 0 .. m |-> DigitsFrom(h, n)]
    BY <2>3
  <2>5. m \in Nat
    OBVIOUS
  <2> HIDE DEF h
  <2> QED BY <2>4, <2>5
<1> HIDE DEF A
<1>3. number \in A
  <2>1. number \in 0 .. number
    OBVIOUS
  <2>2. \A m \in 1 .. number : m - 1 \in A => m \in A
    BY <1>2
  <2> QED BY <1>1, <2>1, <2>2, UpTo
<1> QED BY <1>3 DEF A, Counting

\* ... and Decimal returns its last value.
LEMMA DecimalIs ==
    ASSUME NEW number \in Nat PROVE \E f : Counting(f, number) /\ Decimal(number) = f[number]
<1> DEFINE f == CHOOSE f : Counting(f, number)
<1>1. Counting(f, number)
  BY CountingExists
<1>2. Decimal(number) = f[number]
  BY Zenon DEF Decimal, Counting, DigitsFrom
<1> QED BY <1>1, <1>2

\* A number is written in digits.
LEMMA DecimalType == ASSUME NEW number \in Nat PROVE Decimal(number) \in Seq(DigitTokens)
<1>1. PICK f : Counting(f, number) /\ Decimal(number) = f[number]
  BY DecimalIs
<1> DEFINE Q(k) == f[k] \in Seq(DigitTokens)
           T == {k \in 0 .. number : ~Q(k)}
<1>2. ASSUME NEW n \in 0 .. number, \A k \in 0 .. n - 1 : Q(k) PROVE Q(n)
  <2>1. f[n] = DigitsFrom(f, n)
    BY <1>1 DEF Counting
  <2>2. CASE n < 10
    <3>1. n + 1 \in 1 .. 10
      BY <2>2
    <3>2. Digit[n + 1] \in DigitTokens
      BY <3>1, DigitType
    <3>3. <<Digit[n + 1]>> \in Seq(DigitTokens)
      BY <3>2
    <3> QED BY <2>1, <2>2, <3>3 DEF DigitsFrom
  <2>3. CASE ~(n < 10)
    <3>1. n \div 10 \in 0 .. n - 1 /\ (n % 10) + 1 \in 1 .. 10
      BY <2>3, TenthLess
    <3>2. Digit[(n % 10) + 1] \in DigitTokens
      BY <3>1, DigitType
    <3>3. f[n \div 10] \in Seq(DigitTokens)
      BY <1>2, <3>1
    <3>4. Append(f[n \div 10], Digit[(n % 10) + 1]) \in Seq(DigitTokens)
      BY <3>2, <3>3, AppendProperties
    <3> QED BY <2>1, <2>3, <3>4 DEF DigitsFrom
  <2> QED BY <2>2, <2>3
<1>3. T = {}
  <2> SUFFICES ASSUME T # {} PROVE FALSE
    OBVIOUS
  <2>1. T \subseteq Nat
    OBVIOUS
  <2>2. \A k \in T : k \in 0 .. number /\ ~Q(k)
    OBVIOUS
  <2>6. \A k \in 0 .. number : ~Q(k) => k \in T
    OBVIOUS
  <2> HIDE DEF T, Q
  <2>3. PICK n \in T : \A k \in T : n <= k
    BY <2>1, Least
  <2>4. \A k \in 0 .. n - 1 : Q(k)
    <3> TAKE k \in 0 .. n - 1
    <3>1. k \in 0 .. number /\ ~(n <= k)
      BY <2>2
    <3> QED BY <2>3, <2>6, <3>1
  <2>5. Q(n)
    BY <1>2, <2>2, <2>4
  <2> QED BY <2>2, <2>5
<1>4. number \in 0 .. number
  OBVIOUS
<1> QED BY <1>1, <1>3, <1>4

\* Digits are not encoded.
LEMMA DecimalPlain ==
    ASSUME NEW number \in Nat
    PROVE  mfs_tracker_url_encode(Decimal(number)) = Decimal(number)
<1>1. \A d \in DigitTokens : d \notin Special \cup {"SP"}
  BY HexFacts DEF DigitTokens
<1> DEFINE s == Decimal(number)
<1>2. s \in Seq(DigitTokens)
  BY DecimalType
<1> HIDE DEF s
<1>3. \A i \in 1 .. Len(s) : s[i] \notin Special \cup {"SP"}
  BY <1>1, <1>2
<1>4. mfs_tracker_url_encode(s) = s
  BY <1>2, <1>3, EncodePlain
<1> QED BY <1>4 DEF s
-------------------------------------------------------------------------------
(* Parameter lists and what they hold (tracker.c:79-150).                    *)

\* The tokens of the parameters of requests, and the pairs they make.
ArgTokens ==
    {"k", "SP", "&", "%", "=", "LF", "+", "c", "d", "D", "L", "s",
     "0", "1", "2", "3", "4", "5", "6", "7", "8", "9",
     "domain", "noverify", "key", "arg1", "argcount", "arg2", "arg3", "duration", "from_key",
     "to_key", "class", "client_id", "plugin.meta.", "value", "keys"}
ArgPairs == Seq(ArgTokens) \X Seq(ArgTokens)
ArgText == Written(ArgTokens)

\* A pair as it is written in a request: key and value are encoded.
Piece(p) == Pair(mfs_tracker_url_encode(p[1]), mfs_tracker_url_encode(p[2]))

\* A pair as it is written is a part, as long as it is counted, and read as it was.
LEMMA PieceFacts ==
    ASSUME NEW p \in ArgPairs
    PROVE  /\ p[1] \in Seq(ArgTokens) /\ p[2] \in Seq(ArgTokens) /\ p = <<p[1], p[2]>>
           /\ Piece(p) \in Seq(ArgText) /\ Part(Piece(p)) /\ Len(Piece(p)) \in Nat
           /\ mfs_tracker_url_decode(KeyOf(Piece(p))) = p[1]
           /\ mfs_tracker_url_decode(ValueOf(Piece(p))) = p[2]
           /\ url_encode_length(p[1]) \in Nat /\ url_encode_length(p[2]) \in Nat
           /\ Len(Piece(p)) = url_encode_length(p[1]) + url_encode_length(p[2]) + 1
<1> DEFINE k == p[1]
           v == p[2]
           a == mfs_tracker_url_encode(k)
           b == mfs_tracker_url_encode(v)
           q == <<"=">>
           x == Pair(a, b)
<1>1. k \in Seq(ArgTokens) /\ v \in Seq(ArgTokens) /\ p = <<k, v>>
  BY DEF ArgPairs
<1> HIDE DEF k, v
<1>2. /\ a \in Seq(ArgText) /\ b \in Seq(ArgText)
      /\ \A j \in 1 .. Len(a) : a[j] \notin {"&", "=", "CR", "LF", "SP"}
      /\ \A j \in 1 .. Len(b) : b[j] \notin {"&", "=", "CR", "LF", "SP"}
  BY <1>1, EncodeType DEF ArgText
<1>3. Len(a) = url_encode_length(k) /\ Len(b) = url_encode_length(v)
  BY <1>1, EncodeLength
<1>4. mfs_tracker_url_decode(a) = k /\ mfs_tracker_url_decode(b) = v
  BY <1>1, RoundTrip
<1> HIDE DEF a, b
<1>5. "=" \in ArgText
  BY DEF ArgText, Written
<1>6. x \in Seq(ArgText) /\ KeyOf(x) = a /\ ValueOf(x) = b
  <2>1. \A i \in 1 .. Len(a) : a[i] # "="
    BY <1>2
  <2> QED BY <1>2, <1>5, <2>1, PairSplit
<1>7. q \in Seq(ArgText) /\ Len(q) = 1 /\ q[1] = "=" /\ 1 \in 1 .. 1
  BY <1>5
<1> HIDE DEF q
<1> DEFINE c == a \o q
<1>8. /\ c \in Seq(ArgText) /\ Len(c) = Len(a) + Len(q) /\ Len(a) \in Nat
      /\ (\A j \in 1 .. Len(a) : c[j] = a[j]) /\ (\A j \in 1 .. Len(q) : c[Len(a) + j] = q[j])
  <2>1. a \in Seq(ArgText) /\ q \in Seq(ArgText)
    BY <1>2, <1>7
  <2> QED BY <2>1, ConcatAt
<1>12. x = c \o b
  BY DEF Pair, q
<1> HIDE DEF c, x
<1>9. /\ Len(x) = Len(c) + Len(b) /\ Len(c) \in Nat /\ Len(b) \in Nat
      /\ (\A j \in 1 .. Len(c) : x[j] = c[j]) /\ (\A j \in 1 .. Len(b) : x[Len(c) + j] = b[j])
  <2>1. c \in Seq(ArgText) /\ b \in Seq(ArgText)
    BY <1>2, <1>8
  <2>2. /\ Len(c \o b) = Len(c) + Len(b) /\ Len(c) \in Nat /\ Len(b) \in Nat
        /\ (\A j \in 1 .. Len(c) : (c \o b)[j] = c[j]) /\ (\A j \in 1 .. Len(b) : (c \o b)[Len(c) + j] = b[j])
    BY <2>1, ConcatAt
  <2> QED BY <1>12, <2>2
<1>10. Len(x) = Len(a) + 1 + Len(b)
  BY <1>7, <1>8, <1>9
<1>11. Part(x)
  <2>1. \A j \in 1 .. Len(c) : c[j] # "&"
    <3> TAKE j \in 1 .. Len(c)
    <3>1. CASE j \in 1 .. Len(a)
      BY <1>2, <1>8, <3>1
    <3>2. CASE j = Len(a) + 1
      BY <1>7, <1>8, <3>2
    <3> QED BY <1>7, <1>8, <3>1, <3>2
  <2>2. \A j \in 1 .. Len(x) : x[j] # "&"
    <3> TAKE j \in 1 .. Len(x)
    <3>1. CASE j \in 1 .. Len(c)
      BY <1>9, <2>1, <3>1
    <3>2. CASE j \notin 1 .. Len(c)
      <4>1. j - Len(c) \in 1 .. Len(b) /\ Len(c) + (j - Len(c)) = j
        BY <1>9, <3>2
      <4>2. x[Len(c) + (j - Len(c))] = b[j - Len(c)]
        BY <1>9, <4>1
      <4> QED BY <1>2, <4>1, <4>2
    <3> QED BY <3>1, <3>2
  <2>3. Len(x) >= 1
    BY <1>8, <1>9, <1>10
  <2> QED BY <2>2, <2>3 DEF Part
<1>13. Piece(p) = x
  BY DEF Piece, x, a, b, k, v
<1>14. Len(x) = url_encode_length(k) + url_encode_length(v) + 1 /\ Len(x) \in Nat
  BY <1>3, <1>8, <1>9, <1>10
<1> QED BY <1>1, <1>3, <1>4, <1>6, <1>8, <1>9, <1>11, <1>13, <1>14 DEF k, v

Texts(w) == [i \in 1 .. Len(w) |-> Piece(w[i])]

\* The texts of pairs.
LEMMA TextsType ==
    ASSUME NEW w \in Seq(ArgPairs)
    PROVE  /\ Len(w) \in Nat /\ Texts(w) \in Seq(Seq(ArgText)) /\ Len(Texts(w)) = Len(w)
           /\ \A i \in 1 .. Len(w) : /\ w[i] \in ArgPairs /\ Texts(w)[i] = Piece(w[i]) /\ Texts(w)[i] \in Seq(ArgText)
                                     /\ Part(Texts(w)[i]) /\ Len(Texts(w)[i]) \in Nat
<1> DEFINE n == Len(w)
           F(i) == Piece(w[i])
           t == [i \in 1 .. n |-> F(i)]
<1>1. n \in Nat /\ \A i \in 1 .. n : w[i] \in ArgPairs
  OBVIOUS
<1>2. \A i \in 1 .. n : F(i) \in Seq(ArgText) /\ Part(F(i)) /\ Len(F(i)) \in Nat
  BY <1>1, PieceFacts
<1>3. Texts(w) = t
  BY DEF Texts
<1> HIDE DEF F, n
<1>4. t \in Seq(Seq(ArgText)) /\ Len(t) = n /\ \A i \in 1 .. n : t[i] = F(i)
  BY <1>1, <1>2
<1> HIDE DEF t
<1> QED BY <1>1, <1>2, <1>3, <1>4 DEF F, n

\* The parameter list ps holds the pairs w: encoded, counted, and with the length
\* of all texts.
Lists(ps, w) ==
    /\ w \in Seq(ArgPairs)
    /\ DOMAIN ps = {"head", "count", "strlen", "meta_count"}
    /\ ps.head = [i \in 1 .. Len(w) |-> Encoded(w[i][1], w[i][2])]
    /\ ps.count = Len(w)
    /\ \E E : Ends(E, Texts(w)) /\ ps.strlen = E[Len(w)]

\* A new list holds nothing.
LEMMA ListsNothing == Lists(mfs_tracker_init_parameters, << >>) /\ mfs_tracker_init_parameters.meta_count = 0
<1> DEFINE ps == mfs_tracker_init_parameters
           F(i) == Encoded(<< >>[i][1], << >>[i][2])
           E == [i \in 0 .. 0 |-> 0]
<1>1. /\ DOMAIN ps = {"head", "count", "strlen", "meta_count"} /\ ps.head = << >> /\ ps.count = 0
      /\ ps.strlen = 0 /\ ps.meta_count = 0
  BY DEF mfs_tracker_init_parameters
<1>2. << >> \in Seq(ArgPairs) /\ Len(<< >>) = 0
  OBVIOUS
<1>3. [i \in 1 .. 0 |-> F(i)] = << >>
  <2> HIDE DEF F
  <2> QED OBVIOUS
<1>4. Len(Texts(<< >>)) = 0
  BY <1>2, TextsType
<1>5. Ends(E, Texts(<< >>)) /\ E[0] = 0
  <2>1. E \in [0 .. 0 -> Nat] /\ E[0] = 0 /\ 1 .. 0 = {}
    OBVIOUS
  <2> HIDE DEF E
  <2> QED BY <1>4, <2>1 DEF Ends
<1> HIDE DEF ps, E, F
<1>6. Lists(ps, << >>)
  <2>1. ps.head = [i \in 1 .. Len(<< >>) |-> Encoded(<< >>[i][1], << >>[i][2])]
    BY <1>1, <1>2, <1>3 DEF F
  <2>2. Ends(E, Texts(<< >>)) /\ ps.strlen = E[Len(<< >>)]
    BY <1>1, <1>2, <1>5
  <2> QED BY <1>1, <1>2, <2>1, <2>2 DEF Lists
<1> QED BY <1>1, <1>6 DEF ps

\* One parameter more.
LEMMA ListsMore ==
    ASSUME NEW ps, NEW w, Lists(ps, w), NEW p \in ArgPairs, NEW qs,
           DOMAIN qs = DOMAIN ps, qs.count = ps.count + 1,
           qs.strlen = ps.strlen + url_encode_length(p[1]) + url_encode_length(p[2]) + 1,
           qs.head = Append(ps.head, Encoded(p[1], p[2]))
    PROVE  Lists(qs, Append(w, p))
<1> DEFINE n == Len(w)
           u == Append(w, p)
           F(x) == Encoded(x[1], x[2])
           K == {F(x) : x \in ArgPairs}
           h == [i \in 1 .. n |-> F(w[i])]
           g == [i \in 1 .. Len(u) |-> F(u[i])]
           r == Append(h, F(p))
<1>1. w \in Seq(ArgPairs) /\ n \in Nat
  BY DEF Lists
<1>2. u \in Seq(ArgPairs) /\ Len(u) = n + 1 /\ (\A i \in 1 .. n : u[i] = w[i] /\ w[i] \in ArgPairs) /\ u[n + 1] = p
  BY <1>1, AppendProperties
<1>3. \A i \in 1 .. n + 1 : u[i] \in ArgPairs
  BY <1>1, <1>2
<1>4. ps.head = h /\ qs.head = Append(h, F(p)) /\ ps.count = n /\ qs.count = n + 1
  BY DEF Lists
<1>20. Len(w) = n /\ F(p) = Encoded(p[1], p[2])
  OBVIOUS
<1>21. /\ h = [i \in 1 .. Len(w) |-> Encoded(w[i][1], w[i][2])]
       /\ g = [i \in 1 .. Len(u) |-> Encoded(u[i][1], u[i][2])]
  OBVIOUS
<1> HIDE DEF F, u, n
<1>5. h \in Seq(K) /\ Len(h) = n /\ \A i \in 1 .. n : h[i] = F(w[i])
  BY <1>1, <1>2
<1>6. g \in Seq(K) /\ Len(g) = n + 1 /\ \A i \in 1 .. n + 1 : g[i] = F(u[i])
  BY <1>1, <1>2, <1>3
<1>7. F(p) \in K
  OBVIOUS
<1> HIDE DEF h, g, K
<1>8. r \in Seq(K) /\ Len(r) = n + 1 /\ (\A i \in 1 .. n : r[i] = h[i]) /\ r[n + 1] = F(p)
  BY <1>5, <1>7, AppendProperties
<1>22. qs.head = r
  BY <1>4
<1> HIDE DEF r
<1>9. \A i \in 1 .. n + 1 : g[i] = r[i]
  <2> TAKE i \in 1 .. n + 1
  <2>1. CASE i \in 1 .. n
    BY <1>2, <1>5, <1>6, <1>8, <2>1
  <2>2. CASE i = n + 1
    BY <1>2, <1>6, <1>8, <2>2
  <2> QED BY <1>1, <2>1, <2>2
<1>10. qs.head = g
  <2>1. g = r
    BY <1>6, <1>8, <1>9, SeqEqual
  <2> QED BY <1>22, <2>1
<1>11. PICK E : Ends(E, Texts(w)) /\ ps.strlen = E[n]
  BY <1>20 DEF Lists
<1> DEFINE D == [i \in 0 .. n + 1 |-> IF i <= n THEN E[i] ELSE E[n] + Len(Piece(p))]
<1>12. /\ Len(Texts(w)) = n /\ Len(Texts(u)) = n + 1
       /\ (\A i \in 1 .. n : Texts(u)[i] = Texts(w)[i] /\ Len(Texts(w)[i]) \in Nat) /\ Texts(u)[n + 1] = Piece(p)
  <2>1. /\ Len(Texts(w)) = n
        /\ \A i \in 1 .. n : Texts(w)[i] = Piece(w[i]) /\ Len(Texts(w)[i]) \in Nat
    BY <1>1, <1>20, TextsType
  <2>2. /\ Len(Texts(u)) = n + 1 /\ \A i \in 1 .. n + 1 : Texts(u)[i] = Piece(u[i])
    BY <1>2, TextsType
  <2>3. n + 1 \in 1 .. n + 1 /\ \A i \in 1 .. n : i \in 1 .. n + 1
    BY <1>1
  <2> QED BY <1>2, <2>1, <2>2, <2>3
<1>13. E \in [0 .. n -> Nat] /\ E[0] = 0 /\ \A i \in 1 .. n : E[i] = E[i - 1] + Len(Texts(w)[i])
  BY <1>11, <1>12 DEF Ends
<1>14. Len(Piece(p)) \in Nat /\ url_encode_length(p[1]) \in Nat /\ url_encode_length(p[2]) \in Nat
       /\ Len(Piece(p)) = url_encode_length(p[1]) + url_encode_length(p[2]) + 1
  BY PieceFacts
<1>15. (\A i \in 0 .. n : E[i] \in Nat /\ i \in 0 .. n + 1) /\ n \in 0 .. n /\ n + 1 \in 0 .. n + 1 /\ 0 \in 0 .. n
  BY <1>1, <1>13
<1>16. D \in [0 .. n + 1 -> Nat] /\ (\A i \in 0 .. n : D[i] = E[i]) /\ D[n + 1] = E[n] + Len(Piece(p))
  BY <1>1, <1>14, <1>15
<1> HIDE DEF D
<1>17. \A i \in 1 .. n + 1 : D[i] = D[i - 1] + Len(Texts(u)[i])
  <2> TAKE i \in 1 .. n + 1
  <2>1. CASE i \in 1 .. n
    <3>1. i \in 0 .. n /\ i - 1 \in 0 .. n
      BY <1>1, <2>1
    <3> QED BY <1>12, <1>13, <1>16, <2>1, <3>1
  <2>2. CASE i = n + 1
    <3>1. i - 1 = n
      BY <1>1, <2>2
    <3> QED BY <1>12, <1>15, <1>16, <2>2, <3>1
  <2> QED BY <1>1, <2>1, <2>2
<1>18. Ends(D, Texts(u))
  BY <1>12, <1>13, <1>15, <1>16, <1>17 DEF Ends
<1>19. qs.strlen = D[Len(u)]
  <2>1. E[n] \in Nat
    BY <1>15
  <2>2. qs.strlen = E[n] + url_encode_length(p[1]) + url_encode_length(p[2]) + 1
    BY <1>11
  <2> QED BY <1>2, <1>14, <1>16, <2>1, <2>2
<1>23. DOMAIN qs = {"head", "count", "strlen", "meta_count"}
  BY DEF Lists
<1>24. Lists(qs, u)
  BY <1>2, <1>4, <1>10, <1>18, <1>19, <1>21, <1>23 DEF Lists
<1> QED BY <1>24 DEF u

\* Append as a concatenation.
LEMMA OneAppended ==
    ASSUME NEW T, NEW w \in Seq(T), NEW p \in T PROVE Append(w, p) = w \o <<p>>
<1> DEFINE s == <<p>>
           n == Len(w)
           a == Append(w, p)
           c == w \o s
<1>1. s \in Seq(T) /\ Len(s) = 1 /\ s[1] = p /\ 1 \in 1 .. 1
  OBVIOUS
<1> HIDE DEF s
<1>2. a \in Seq(T) /\ Len(a) = n + 1 /\ (\A i \in 1 .. n : a[i] = w[i]) /\ a[n + 1] = p /\ n \in Nat
  BY AppendProperties
<1>3. /\ c \in Seq(T) /\ Len(c) = n + Len(s)
      /\ (\A q \in 1 .. n : c[q] = w[q]) /\ (\A j \in 1 .. Len(s) : c[n + j] = s[j])
  <2>1. s \in Seq(T)
    BY <1>1
  <2> QED BY <2>1, ConcatAt
<1> HIDE DEF a, c, n
<1>4. Len(c) = n + 1 /\ c[n + 1] = p
  BY <1>1, <1>3
<1>5. \A i \in 1 .. n + 1 : a[i] = c[i]
  <2> TAKE i \in 1 .. n + 1
  <2>1. CASE i \in 1 .. n
    BY <1>2, <1>3, <2>1
  <2>2. CASE i = n + 1
    BY <1>2, <1>4, <2>2
  <2> QED BY <1>2, <2>1, <2>2
<1>6. a = c
  BY <1>2, <1>3, <1>4, <1>5, SeqEqual
<1> QED BY <1>6 DEF a, c, s

\* Two of them.
LEMMA TwoAppended ==
    ASSUME NEW T, NEW w \in Seq(T), NEW p \in T, NEW q \in T PROVE Append(Append(w, p), q) = w \o <<p, q>>
<1> DEFINE s == <<p>>
           t == <<q>>
<1>1. s \in Seq(T) /\ t \in Seq(T) /\ s \o t = <<p, q>>
  BY TwoTokens
<1>2. Append(w, p) = w \o s /\ Append(w, p) \in Seq(T)
  BY OneAppended, AppendProperties
<1>3. Append(Append(w, p), q) = Append(w, p) \o t
  BY <1>2, OneAppended
<1> HIDE DEF s, t
<1>4. Cat(Cat(w, s), t) = Cat(w, Cat(s, t))
  <2>1. Associates(T)
    BY ConcatAssociates
  <2> QED BY <1>1, <2>1 DEF Associates
<1> QED BY <1>1, <1>2, <1>3, <1>4 DEF Cat

\* mfs_tracker_add_parameter adds one pair (tracker.c:82-108).
LEMMA AddLists ==
    ASSUME NEW ps, NEW w, Lists(ps, w), NEW k \in Seq(ArgTokens), NEW v \in Seq(ArgTokens)
    PROVE  LET qs == mfs_tracker_add_parameter(ps, k, v) IN
           Lists(qs, Append(w, <<k, v>>)) /\ qs.meta_count = ps.meta_count
<1> DEFINE qs == mfs_tracker_add_parameter(ps, k, v)
           p == <<k, v>>
<1>1. DOMAIN ps = {"head", "count", "strlen", "meta_count"}
  BY DEF Lists
<1>2. /\ DOMAIN qs = DOMAIN ps /\ qs.count = ps.count + 1 /\ qs.meta_count = ps.meta_count
      /\ qs.strlen = ps.strlen + url_encode_length(k) + url_encode_length(v) + 1
      /\ qs.head = Append(ps.head, Encoded(k, v))
  BY <1>1 DEF mfs_tracker_add_parameter, mfs_tracker_add_parameter_pointers, Encoded
<1>3. p \in ArgPairs /\ p[1] = k /\ p[2] = v
  BY DEF ArgPairs
<1> HIDE DEF qs, p
<1>4. Lists(qs, Append(w, p))
  BY <1>2, <1>3, ListsMore
<1> QED BY <1>2, <1>4 DEF qs, p

\* The names of metadata are sent as any other.
LEMMA MetaType ==
    ASSUME NEW part \in {"key", "value"}, NEW n \in Nat
    PROVE  MetaName(part, n) \in Seq(ArgTokens)
<1>1. Decimal(n) \in Seq(DigitTokens)
  BY DecimalType
<1>2. DigitTokens \subseteq ArgTokens /\ part \in ArgTokens /\ "plugin.meta." \in ArgTokens
  BY DEF DigitTokens, ArgTokens
<1>3. Decimal(n) \in Seq(ArgTokens)
  BY <1>1, <1>2, SeqMonotonic
<1>4. <<"plugin.meta.", part>> \in Seq(ArgTokens)
  BY <1>2
<1> QED BY <1>3, <1>4, ConcatProperties DEF MetaName

\* The arguments of callers.
LEMMA KeysType == Keys \subseteq Seq(ArgTokens)
<1>1. {"k", "SP", "&", "%", "=", "LF", "+"} \subseteq ArgTokens
  BY DEF ArgTokens
<1>2. <<"k">> \in Seq(ArgTokens) /\ <<"SP", "&", "k">> \in Seq(ArgTokens) /\ <<"%", "=", "LF", "+">> \in Seq(ArgTokens)
  BY <1>1
<1> QED BY <1>2 DEF Keys

\* The pairs a tracker should read for one of the caller's, if m metadata pairs
\* are before it.
Meant(g, m) ==
    IF g[3] THEN << <<MetaName("key", m), g[1]>>, <<MetaName("value", m), g[2]>> >>
    ELSE << <<g[1], g[2]>> >>

\* copy_parameter adds what the caller meant (tracker.c:140-150).
LEMMA CopyLists ==
    ASSUME NEW ps, NEW w, Lists(ps, w), NEW g \in Gifts, ps.meta_count \in Nat
    PROVE  LET qs == copy_parameter(Kept(g), ps) IN
           /\ Lists(qs, w \o Meant(g, ps.meta_count))
           /\ qs.meta_count = ps.meta_count + (IF g[3] THEN 1 ELSE 0)
<1> DEFINE qs == copy_parameter(Kept(g), ps)
           m == ps.meta_count
           k == g[1]
           v == g[2]
<1>1. k \in Seq(ArgTokens) /\ v \in Seq(ArgTokens) /\ g[3] \in BOOLEAN
  BY KeysType DEF Gifts
<1>2. w \in Seq(ArgPairs)
  BY DEF Lists
<1> HIDE DEF k, v
<1>3. CASE g[3] = TRUE
  <2> DEFINE a == MetaName("key", m)
             b == MetaName("value", m)
             rs == mfs_tracker_add_parameter(ps, a, k)
             ts == mfs_tracker_add_parameter(rs, b, v)
             p == <<a, k>>
             q == <<b, v>>
  <2>1. a \in Seq(ArgTokens) /\ b \in Seq(ArgTokens)
    BY MetaType
  <2>2. qs = [ts EXCEPT !.meta_count = @ + 1]
    <3>1. Kept(g) = Raw(k, v)
      BY <1>3 DEF Kept, k, v
    <3>2. Kept(g).is_metadata = TRUE /\ Kept(g).key = k /\ Kept(g).value = v
      BY <3>1 DEF Raw
    <3>3. qs = add_prepared_meta_data(ps, k, v)
      BY <3>2 DEF copy_parameter
    <3> QED BY <3>3 DEF add_prepared_meta_data
  <2> HIDE DEF a, b
  <2>3. Lists(rs, Append(w, p)) /\ rs.meta_count = m
    BY <1>1, <2>1, AddLists
  <2> HIDE DEF rs
  <2>4. Lists(ts, Append(Append(w, p), q)) /\ ts.meta_count = m
    BY <1>1, <2>1, <2>3, AddLists
  <2>9. p \in ArgPairs /\ q \in ArgPairs
    BY <1>1, <2>1 DEF ArgPairs
  <2> HIDE DEF ts, p, q
  <2>5. Append(Append(w, p), q) = w \o <<p, q>>
    BY <1>2, <2>9, TwoAppended
  <2>6. Meant(g, m) = <<p, q>>
    BY <1>3 DEF Meant, a, b, p, q, k, v
  <2>7. /\ DOMAIN ts = {"head", "count", "strlen", "meta_count"}
    BY <2>4 DEF Lists
  <2>8. DOMAIN qs = DOMAIN ts /\ qs.head = ts.head /\ qs.count = ts.count /\ qs.strlen = ts.strlen /\ qs.meta_count = m + 1
    BY <2>2, <2>4, <2>7
  <2> HIDE DEF qs
  <2>10. Lists(qs, Append(Append(w, p), q))
    BY <2>4, <2>8 DEF Lists
  <2> QED BY <1>3, <2>5, <2>6, <2>8, <2>10 DEF qs
<1>4. CASE g[3] = FALSE
  <2> DEFINE p == <<k, v>>
  <2>1. Kept(g) = Encoded(k, v)
    BY <1>4 DEF Kept, k, v
  <2>2. qs = mfs_tracker_add_parameter(ps, k, v)
    BY <2>1 DEF copy_parameter, Encoded, mfs_tracker_add_parameter
  <2>3. Lists(qs, Append(w, p)) /\ qs.meta_count = m
    BY <1>1, <2>2, AddLists
  <2>4. p \in ArgPairs
    BY <1>1 DEF ArgPairs
  <2>6. Meant(g, m) = <<p>>
    BY <1>4 DEF Meant, k, v
  <2> HIDE DEF p, qs
  <2>5. Append(w, p) = w \o <<p>>
    BY <1>2, <2>4, OneAppended
  <2> QED BY <1>4, <2>3, <2>5, <2>6 DEF qs
<1> QED BY <1>1, <1>3, <1>4

CopyFrom(f, src, dest, n) == IF n = 0 THEN dest ELSE copy_parameter(src.head[n], f[n - 1])
Copying(f, src, dest) == f = [n \in 0 .. Len(src.head) |-> CopyFrom(f, src, dest, n)]

\* The recursive function of mfs_tracker_copy_parameter_pointers exists ...
LEMMA CopyingExists ==
    ASSUME NEW src, NEW dest, Len(src.head) \in Nat
    PROVE  \E f : Copying(f, src, dest)
<1> DEFINE F(g, i) == CopyFrom(g, src, dest, i)
           A == {n \in Nat : \E g : g = [i \in 0 .. n |-> F(g, i)]}
<1>1. 0 \in A
  <2> DEFINE g == [i \in 0 .. 0 |-> dest]
  <2>1. \A i \in 0 .. 0 : i = 0
    OBVIOUS
  <2>2. g = [i \in 0 .. 0 |-> F(g, i)]
    BY <2>1 DEF CopyFrom
  <2> QED BY <2>2
<1>2. ASSUME NEW n \in 1 .. Len(src.head), n - 1 \in A PROVE n \in A
  <2>1. PICK g : g = [i \in 0 .. n - 1 |-> F(g, i)]
    BY <1>2
  <2> DEFINE h == [i \in 0 .. n |-> F(g, i)]
  <2>2. \A i \in 0 .. n - 1 : h[i] = g[i]
    <3> HIDE DEF F
    <3>1. \A i \in 0 .. n - 1 : h[i] = F(g, i)
      OBVIOUS
    <3>2. \A i \in 0 .. n - 1 : g[i] = F(g, i)
      BY <2>1
    <3> QED BY <3>1, <3>2
  <2>3. ASSUME NEW i \in 0 .. n PROVE F(g, i) = F(h, i)
    <3>1. i # 0 => i - 1 \in 0 .. n - 1
      OBVIOUS
    <3> HIDE DEF h
    <3>2. CASE i = 0
      BY <3>2 DEF CopyFrom
    <3>3. CASE i # 0
      <4>1. g[i - 1] = h[i - 1]
        BY <2>2, <3>1, <3>3
      <4> QED BY <3>3, <4>1 DEF CopyFrom
    <3> QED BY <3>2, <3>3
  <2> HIDE DEF F
  <2>4. h = [i \in 0 .. n |-> F(h, i)]
    BY <2>3
  <2>5. n \in Nat
    OBVIOUS
  <2> HIDE DEF h
  <2> QED BY <2>4, <2>5
<1>3. Len(src.head) \in A
  <2> HIDE DEF A
  <2>1. Len(src.head) \in 0 .. Len(src.head)
    OBVIOUS
  <2>2. \A n \in 1 .. Len(src.head) : n - 1 \in A => n \in A
    BY <1>2
  <2> QED BY <1>1, <2>1, <2>2, UpTo
<1> QED BY <1>3 DEF Copying

\* ... and the function returns its last value.
LEMMA CopyIs ==
    ASSUME NEW src, NEW dest, Len(src.head) \in Nat
    PROVE  \E f : Copying(f, src, dest) /\ mfs_tracker_copy_parameter_pointers(src, dest) = f[Len(src.head)]
<1> DEFINE f == CHOOSE f : Copying(f, src, dest)
<1>1. Copying(f, src, dest)
  BY CopyingExists
<1>2. mfs_tracker_copy_parameter_pointers(src, dest) = f[Len(src.head)]
  BY Zenon DEF mfs_tracker_copy_parameter_pointers, Copying, CopyFrom
<1> QED BY <1>1, <1>2

AddFrom(f, base, pairs, n) ==
    IF n = 0 THEN base ELSE mfs_tracker_add_parameter(f[n - 1], pairs[n][1], pairs[n][2])
Adding(f, base, pairs) == f = [n \in 0 .. Len(pairs) |-> AddFrom(f, base, pairs, n)]

\* The recursive function of Request exists ...
LEMMA AddingExists ==
    ASSUME NEW base, NEW pairs, Len(pairs) \in Nat
    PROVE  \E f : Adding(f, base, pairs)
<1> DEFINE F(g, i) == AddFrom(g, base, pairs, i)
           A == {n \in Nat : \E g : g = [i \in 0 .. n |-> F(g, i)]}
<1>1. 0 \in A
  <2> DEFINE g == [i \in 0 .. 0 |-> base]
  <2>1. \A i \in 0 .. 0 : i = 0
    OBVIOUS
  <2>2. g = [i \in 0 .. 0 |-> F(g, i)]
    BY <2>1 DEF AddFrom
  <2> QED BY <2>2
<1>2. ASSUME NEW n \in 1 .. Len(pairs), n - 1 \in A PROVE n \in A
  <2>1. PICK g : g = [i \in 0 .. n - 1 |-> F(g, i)]
    BY <1>2
  <2> DEFINE h == [i \in 0 .. n |-> F(g, i)]
  <2>2. \A i \in 0 .. n - 1 : h[i] = g[i]
    <3> HIDE DEF F
    <3>1. \A i \in 0 .. n - 1 : h[i] = F(g, i)
      OBVIOUS
    <3>2. \A i \in 0 .. n - 1 : g[i] = F(g, i)
      BY <2>1
    <3> QED BY <3>1, <3>2
  <2>3. ASSUME NEW i \in 0 .. n PROVE F(g, i) = F(h, i)
    <3>1. i # 0 => i - 1 \in 0 .. n - 1
      OBVIOUS
    <3> HIDE DEF h
    <3>2. CASE i = 0
      BY <3>2 DEF AddFrom
    <3>3. CASE i # 0
      <4>1. g[i - 1] = h[i - 1]
        BY <2>2, <3>1, <3>3
      <4> QED BY <3>3, <4>1 DEF AddFrom
    <3> QED BY <3>2, <3>3
  <2> HIDE DEF F
  <2>4. h = [i \in 0 .. n |-> F(h, i)]
    BY <2>3
  <2>5. n \in Nat
    OBVIOUS
  <2> HIDE DEF h
  <2> QED BY <2>4, <2>5
<1>3. Len(pairs) \in A
  <2> HIDE DEF A
  <2>1. Len(pairs) \in 0 .. Len(pairs)
    OBVIOUS
  <2>2. \A n \in 1 .. Len(pairs) : n - 1 \in A => n \in A
    BY <1>2
  <2> QED BY <1>1, <2>1, <2>2, UpTo
<1> QED BY <1>3 DEF Adding

\* ... and the request is built from its last value.
LEMMA RequestIs ==
    ASSUME Len(call.pairs) \in Nat
    PROVE  \E f : /\ Adding(f, mfs_tracker_copy_parameter_pointers(extra, mfs_tracker_init_parameters), call.pairs)
                  /\ Request = mfs_tracker_build_request(call.cmd, f[Len(call.pairs)])
<1> DEFINE base == mfs_tracker_copy_parameter_pointers(extra, mfs_tracker_init_parameters)
           f == CHOOSE f : Adding(f, base, call.pairs)
<1>1. Adding(f, base, call.pairs)
  BY AddingExists
<1>2. Request = mfs_tracker_build_request(call.cmd, f[Len(call.pairs)])
  BY Zenon DEF Request, Adding, AddFrom
<1> QED BY <1>1, <1>2
-------------------------------------------------------------------------------
(* The calls.                                                                *)

\* A pair of a command.
LEMMA ArgPair ==
    ASSUME NEW name \in ArgTokens, NEW v \in Seq(ArgTokens) PROVE P(name, v) \in ArgPairs
<1>1. <<name>> \in Seq(ArgTokens)
  OBVIOUS
<1> QED BY <1>1 DEF P, ArgPairs

\* The client id, if there is one.
LEMMA ClientType == ASSUME NEW id \in ClientIds PROVE Client(id) \in Seq(ArgPairs)
<1>1. CASE id = NULL
  BY <1>1 DEF Client
<1>2. CASE id # NULL
  <2>1. id = <<"c", "SP">>
    BY <1>2 DEF ClientIds
  <2>2. "c" \in ArgTokens /\ "SP" \in ArgTokens /\ "client_id" \in ArgTokens
    BY DEF ArgTokens
  <2>3. id \in Seq(ArgTokens)
    BY <2>1, <2>2
  <2>4. P("client_id", id) \in ArgPairs
    BY <2>2, <2>3, ArgPair
  <2> QED BY <1>2, <2>4 DEF Client
<1> QED BY <1>1, <1>2

\* A call that can be sent.
Sendable(c) == c.cmd # "LF" /\ c.pairs \in Seq(ArgPairs) /\ Len(c.pairs) >= 1

\* With or without a client id.
LEMMA Sends ==
    ASSUME NEW cmd, cmd # "LF", NEW s \in Seq(ArgPairs), Len(s) >= 1, NEW t \in Seq(ArgPairs)
    PROVE  Sendable(Call(cmd, s)) /\ Sendable(Call(cmd, s \o t))
<1>1. s \o t \in Seq(ArgPairs) /\ Len(s \o t) = Len(s) + Len(t) /\ Len(s) \in Nat /\ Len(t) \in Nat
  BY ConcatAt
<1>2. Len(s \o t) >= 1
  <2> DEFINE a == Len(s)
             b == Len(t)
             c == Len(s \o t)
  <2>1. c = a + b /\ a \in Nat /\ b \in Nat /\ a >= 1
    BY <1>1
  <2> HIDE DEF a, b, c
  <2>2. c >= 1
    BY <2>1
  <2> QED BY <2>2 DEF c
<1>3. ASSUME NEW u \in Seq(ArgPairs), Len(u) >= 1 PROVE Sendable(Call(cmd, u))
  BY <1>3 DEF Sendable, Call
<1> QED BY <1>1, <1>2, <1>3

\* Every call can be sent.
LEMMA CallsSendable == ASSUME NEW c \in Calls PROVE Sendable(c)
<1>0. /\ {"domain", "noverify", "key", "arg1", "argcount", "arg2", "arg3", "duration", "from_key",
          "to_key", "class"} \subseteq ArgTokens
      /\ <<"d">> \in Seq(ArgTokens) /\ <<"1">> \in Seq(ArgTokens) /\ <<"D">> \in Seq(ArgTokens) /\ <<"2">> \in Seq(ArgTokens)
      /\ <<"L">> \in Seq(ArgTokens) /\ <<"3">> \in Seq(ArgTokens) /\ <<"5">> \in Seq(ArgTokens) /\ <<"7">> \in Seq(ArgTokens)
      /\ <<"0">> \in Seq(ArgTokens) /\ <<"s">> \in Seq(ArgTokens)
  <2>1. {"domain", "noverify", "key", "arg1", "argcount", "arg2", "arg3", "duration", "from_key",
          "to_key", "class", "d", "1", "D", "2", "L", "3", "5", "7", "0", "s"} \subseteq ArgTokens
    BY DEF ArgTokens
  <2> QED BY <2>1
<1>1. ASSUME NEW k \in Keys
      PROVE  /\ k \in Seq(ArgTokens) /\ P("key", k) \in ArgPairs /\ P("arg1", k) \in ArgPairs /\ P("arg2", k) \in ArgPairs
             /\ P("arg3", k) \in ArgPairs /\ P("from_key", k) \in ArgPairs /\ P("to_key", k) \in ArgPairs
  BY <1>0, KeysType, ArgPair
<1>2. /\ P("domain", <<"d">>) \in ArgPairs /\ P("noverify", <<"1">>) \in ArgPairs /\ P("argcount", <<"0">>) \in ArgPairs
      /\ P("argcount", <<"1">>) \in ArgPairs /\ P("argcount", <<"2">>) \in ArgPairs /\ P("argcount", <<"3">>) \in ArgPairs
      /\ P("arg2", <<"D">>) \in ArgPairs /\ P("arg2", <<"L">>) \in ArgPairs /\ P("duration", <<"5">>) \in ArgPairs
      /\ P("arg2", <<"7">>) \in ArgPairs /\ P("class", <<"s">>) \in ArgPairs
      /\ P("arg1", <<"0">>) \in ArgPairs /\ P("arg1", <<"1">>) \in ArgPairs
  BY <1>0, ArgPair
<1>3. \A a \in ArgPairs : <<a>> \in Seq(ArgPairs) /\ Len(<<a>>) >= 1
  OBVIOUS
<1>4. \A a, b \in ArgPairs : <<a, b>> \in Seq(ArgPairs) /\ Len(<<a, b>>) >= 1
  OBVIOUS
<1>5. \A a, b, d \in ArgPairs : <<a, b, d>> \in Seq(ArgPairs) /\ Len(<<a, b, d>>) >= 1
  OBVIOUS
<1>6. \A a, b, d, e \in ArgPairs : <<a, b, d, e>> \in Seq(ArgPairs) /\ Len(<<a, b, d, e>>) >= 1
  OBVIOUS
<1>7. \A a, b, d, e, f \in ArgPairs : <<a, b, d, e, f>> \in Seq(ArgPairs) /\ Len(<<a, b, d, e, f>>) >= 1
  OBVIOUS
<1>8. << >> \in Seq(ArgPairs)
  OBVIOUS
<1>9. ASSUME NEW k \in Keys PROVE Sendable(Call("create_open", create_open_parameters(k)))
  <2>1. create_open_parameters(k) \in Seq(ArgPairs) /\ Len(create_open_parameters(k)) >= 1
    BY <1>1, <1>2, <1>5 DEF create_open_parameters
  <2> QED BY <1>8, <2>1, Sends
<1>10. ASSUME NEW k \in Keys PROVE Sendable(Call("get_paths", get_paths_parameters(k)))
  <2>1. get_paths_parameters(k) \in Seq(ArgPairs) /\ Len(get_paths_parameters(k)) >= 1
    BY <1>1, <1>2, <1>5 DEF get_paths_parameters
  <2> QED BY <1>8, <2>1, Sends
<1>11. ASSUME NEW k \in Keys, NEW i \in ClientIds PROVE Sendable(Call("delete", delete_parameters(k, i)))
  <2> DEFINE s == <<P("domain", <<"d">>), P("key", k)>>
  <2>1. s \in Seq(ArgPairs) /\ Len(s) >= 1
    BY <1>1, <1>2, <1>4
  <2>2. delete_parameters(k, i) = s \o Client(i)
    BY DEF delete_parameters
  <2> HIDE DEF s
  <2> QED BY <2>1, <2>2, ClientType, Sends
<1>12. ASSUME NEW k \in Keys, NEW i \in ClientIds
       PROVE  Sendable(Call("plugin_filepaths_delete_node", delete_node_parameters(k, i)))
  <2> DEFINE s == <<P("domain", <<"d">>), P("arg1", k), P("argcount", <<"1">>)>>
  <2>1. s \in Seq(ArgPairs) /\ Len(s) >= 1
    BY <1>1, <1>2, <1>5
  <2>2. delete_node_parameters(k, i) = s \o Client(i)
    BY DEF delete_node_parameters
  <2> HIDE DEF s
  <2> QED BY <2>1, <2>2, ClientType, Sends
<1>13. ASSUME NEW k \in Keys, NEW i \in ClientIds
       PROVE  Sendable(Call("plugin_filepaths_create_node", create_directory_parameters(k, i)))
  <2> DEFINE s == <<P("domain", <<"d">>), P("arg1", k), P("arg2", <<"D">>), P("argcount", <<"2">>)>>
  <2>1. s \in Seq(ArgPairs) /\ Len(s) >= 1
    BY <1>1, <1>2, <1>6
  <2>2. create_directory_parameters(k, i) = s \o Client(i)
    BY DEF create_directory_parameters
  <2> HIDE DEF s
  <2> QED BY <2>1, <2>2, ClientType, Sends
<1>14. ASSUME NEW k \in Keys, NEW l \in Keys, NEW i \in ClientIds
       PROVE  Sendable(Call("plugin_filepaths_create_node", create_link_parameters(k, l, i)))
  <2> DEFINE s == <<P("domain", <<"d">>), P("arg1", k), P("arg2", <<"L">>), P("arg3", l), P("argcount", <<"3">>)>>
  <2>1. s \in Seq(ArgPairs) /\ Len(s) >= 1
    BY <1>1, <1>2, <1>7
  <2>2. create_link_parameters(k, l, i) = s \o Client(i)
    BY DEF create_link_parameters
  <2> HIDE DEF s
  <2> QED BY <2>1, <2>2, ClientType, Sends
<1>15. Sendable(Call("sleep", sleep_parameters))
  <2>1. sleep_parameters \in Seq(ArgPairs) /\ Len(sleep_parameters) >= 1
    BY <1>2, <1>3 DEF sleep_parameters
  <2> QED BY <1>8, <2>1, Sends
<1>16. ASSUME NEW k \in Keys, NEW l \in Keys, NEW i \in ClientIds
       PROVE  Sendable(Call("rename", rename_parameters(k, l, i)))
  <2> DEFINE s == <<P("domain", <<"d">>), P("from_key", k), P("to_key", l)>>
  <2>1. s \in Seq(ArgPairs) /\ Len(s) >= 1
    BY <1>1, <1>2, <1>5
  <2>2. rename_parameters(k, l, i) = s \o Client(i)
    BY DEF rename_parameters
  <2> HIDE DEF s
  <2> QED BY <2>1, <2>2, ClientType, Sends
<1>17. ASSUME NEW k \in Keys, NEW l \in Keys, NEW i \in ClientIds
       PROVE  Sendable(Call("plugin_filepaths_rename", rename_filepath_parameters(k, l, i)))
  <2> DEFINE s == <<P("domain", <<"d">>), P("arg1", k), P("arg2", l), P("argcount", <<"2">>)>>
  <2>1. s \in Seq(ArgPairs) /\ Len(s) >= 1
    BY <1>1, <1>2, <1>6
  <2>2. rename_filepath_parameters(k, l, i) = s \o Client(i)
    BY DEF rename_filepath_parameters
  <2> HIDE DEF s
  <2> QED BY <2>1, <2>2, ClientType, Sends
<1>18. ASSUME NEW k \in Keys, NEW i \in ClientIds
       PROVE  Sendable(Call("plugin_filepaths_set_mtime", set_mtime_parameters(k, <<"7">>, i)))
  <2> DEFINE s == <<P("domain", <<"d">>), P("arg1", k), P("arg2", <<"7">>), P("argcount", <<"2">>)>>
  <2>1. s \in Seq(ArgPairs) /\ Len(s) >= 1
    BY <1>1, <1>2, <1>6
  <2>2. set_mtime_parameters(k, <<"7">>, i) = s \o Client(i)
    BY DEF set_mtime_parameters
  <2> HIDE DEF s
  <2> QED BY <2>1, <2>2, ClientType, Sends
<1>19. ASSUME NEW k \in Keys
       PROVE  /\ Sendable(Call("plugin_filepaths_list_directory", list_directory_parameters(k)))
              /\ Sendable(Call("plugin_filepaths_path_info", path_info_parameters(k)))
  <2>1. /\ list_directory_parameters(k) \in Seq(ArgPairs) /\ Len(list_directory_parameters(k)) >= 1
        /\ path_info_parameters(k) \in Seq(ArgPairs) /\ Len(path_info_parameters(k)) >= 1
    BY <1>1, <1>2, <1>5 DEF list_directory_parameters, path_info_parameters
  <2> QED BY <1>8, <2>1, Sends
<1>20. ASSUME NEW i \in ClientIds PROVE Sendable(Call("plugin_filepaths_stats", stats_parameters(i)))
  <2> DEFINE s == <<P("domain", <<"d">>), P("argcount", <<"0">>)>>
  <2>1. s \in Seq(ArgPairs) /\ Len(s) >= 1
    BY <1>1, <1>2, <1>4
  <2>2. stats_parameters(i) = s \o Client(i)
    BY DEF stats_parameters
  <2> HIDE DEF s
  <2> QED BY <2>1, <2>2, ClientType, Sends
<1>21. ASSUME NEW t \in {<<"0">>, <<"1">>}, NEW i \in ClientIds
       PROVE  Sendable(Call("plugin_filepaths_check_fs", check_fs_parameters(t, i)))
  <2> DEFINE s == <<P("domain", <<"d">>), P("argcount", <<"1">>), P("arg1", t)>>
  <2>0. P("arg1", t) \in ArgPairs
    BY <1>2
  <2>1. s \in Seq(ArgPairs) /\ Len(s) >= 1
    BY <1>2, <1>5, <2>0
  <2>2. check_fs_parameters(t, i) = s \o Client(i)
    BY DEF check_fs_parameters
  <2> HIDE DEF s
  <2> QED BY <2>1, <2>2, ClientType, Sends
<1> QED
  BY <1>9, <1>10, <1>11, <1>12, <1>13, <1>14, <1>15, <1>16, <1>17, <1>18, <1>19, <1>20, <1>21 DEF Calls
-------------------------------------------------------------------------------
(* The request line (tracker.c:269-309).                                     *)

\* A part, a separator, and the parts of the rest.
LEMMA PartsCons ==
    ASSUME NEW S, NEW s \in Seq(S), NEW ps \in Seq(Seq(S)), NEW B, Parted(s, B, ps), B[0] = 0,
           NEW x \in Seq(S), Part(x), "&" \in S
    PROVE  Parts((x \o <<"&">>) \o s, <<x>> \o ps) /\ (x \o <<"&">>) \o s \in Seq(S)
<1> DEFINE l == Len(x)
           n == Len(ps)
           m == Len(s)
           a == <<"&">>
           y == x \o a
           c == y \o s
           e == <<x>>
           qs == e \o ps
           D == [i \in 0 .. n + 1 |-> IF i = 0 THEN 0 ELSE l + 1 + B[i - 1]]
<1>1. a \in Seq(S) /\ Len(a) = 1 /\ a[1] = "&" /\ 1 \in 1 .. 1
  OBVIOUS
<1>2. e \in Seq(Seq(S)) /\ Len(e) = 1 /\ e[1] = x
  OBVIOUS
<1> HIDE DEF a, e
<1>3. y \in Seq(S) /\ Len(y) = l + Len(a) /\ l \in Nat /\ (\A j \in 1 .. l : y[j] = x[j])
      /\ (\A j \in 1 .. Len(a) : y[l + j] = a[j])
  <2>1. a \in Seq(S)
    BY <1>1
  <2> QED BY <2>1, ConcatAt
<1>4. y \in Seq(S) /\ Len(y) = l + 1 /\ y[l + 1] = "&"
  BY <1>1, <1>3
<1>20. Len(x) = l /\ Len(ps) = n /\ Len(s) = m
  OBVIOUS
<1> HIDE DEF y
<1>5. c \in Seq(S) /\ Len(c) = Len(y) + m /\ m \in Nat /\ (\A j \in 1 .. Len(y) : c[j] = y[j])
      /\ (\A j \in 1 .. m : c[Len(y) + j] = s[j])
  <2>1. y \in Seq(S)
    BY <1>4
  <2> QED BY <2>1, ConcatAt
<1>6. qs \in Seq(Seq(S)) /\ Len(qs) = Len(e) + n /\ n \in Nat /\ (\A j \in 1 .. Len(e) : qs[j] = e[j])
      /\ (\A j \in 1 .. n : qs[Len(e) + j] = ps[j])
  <2>1. e \in Seq(Seq(S))
    BY <1>2
  <2> QED BY <2>1, ConcatAt
<1> HIDE DEF c, qs, l, n, m
<1>7. /\ Len(c) = l + 1 + m /\ (\A j \in 1 .. l : c[j] = x[j]) /\ c[l + 1] = "&"
      /\ \A j \in 1 .. m : c[l + 1 + j] = s[j]
  <2>1. Len(y) = l + 1
    BY <1>4
  <2>2. Len(c) = l + 1 + m
    BY <1>5, <2>1
  <2>3. \A j \in 1 .. m : c[l + 1 + j] = s[j]
    BY <1>5, <2>1
  <2>4. \A j \in 1 .. l + 1 : c[j] = y[j]
    BY <1>5, <2>1
  <2>5. l + 1 \in 1 .. l + 1 /\ \A j \in 1 .. l : j \in 1 .. l + 1
    BY <1>3
  <2>6. c[l + 1] = "&"
    BY <1>4, <2>4, <2>5
  <2>7. \A j \in 1 .. l : c[j] = x[j]
    BY <1>3, <2>4, <2>5
  <2> QED BY <2>2, <2>3, <2>6, <2>7
<1>8. Len(qs) = n + 1 /\ qs[1] = x /\ \A k \in 1 .. n : qs[k + 1] = ps[k]
  <2>1. 1 \in 1 .. 1 /\ \A k \in 1 .. n : 1 + k = k + 1
    BY <1>6
  <2> QED BY <1>2, <1>6, <2>1
<1>9. /\ n >= 1 /\ (\A i \in 1 .. n : Len(ps[i]) >= 1 /\ \A j \in 1 .. Len(ps[i]) : ps[i][j] # "&")
      /\ B \in [0 .. n -> Nat]
      /\ (\A i \in 1 .. n : B[i] = B[i - 1] + Len(ps[i]) + 1)
      /\ (\A i \in 1 .. n - 1 : s[B[i]] = "&")
      /\ (\A i \in 1 .. n : \A j \in 1 .. Len(ps[i]) : s[B[i - 1] + j] = ps[i][j])
      /\ B[n] = m + 1
  BY <1>20 DEF Parted
<1>10. \A i \in 1 .. n : Len(ps[i]) \in Nat
  <2>1. \A i \in 1 .. n : ps[i] \in Seq(S)
    BY <1>20
  <2> QED BY <2>1
<1>11. \A i \in 0 .. n : B[i] \in Nat /\ B[i] <= m + 1
  <2> TAKE i \in 0 .. n
  <2>1. i \in 0 .. Len(ps) /\ Len(ps) \in Nat /\ \A k \in 1 .. Len(ps) : Len(ps[k]) \in Nat
    BY <1>6, <1>10, <1>20
  <2>2. B[i] <= B[Len(ps)]
    BY <2>1, PartedGrow
  <2> QED BY <1>9, <1>20, <2>2
<1>12. D \in [0 .. n + 1 -> Nat] /\ D[0] = 0 /\ \A k \in 0 .. n : D[k + 1] = l + 1 + B[k]
  <2>1. \A i \in 1 .. n + 1 : i - 1 \in 0 .. n
    BY <1>6
  <2>2. \A i \in 1 .. n + 1 : l + 1 + B[i - 1] \in Nat
    BY <1>3, <1>11, <2>1
  <2>3. D \in [0 .. n + 1 -> Nat]
    BY <1>6, <2>2
  <2>4. \A k \in 0 .. n : k + 1 \in 0 .. n + 1 /\ k + 1 # 0 /\ k + 1 - 1 = k
    BY <1>6
  <2>5. 0 \in 0 .. n + 1
    BY <1>6
  <2> QED BY <2>3, <2>4, <2>5
<1> HIDE DEF D
<1>13. \A i \in 1 .. n + 1 : i = 1 \/ \E k \in 1 .. n : i = k + 1
  <2> TAKE i \in 1 .. n + 1
  <2>1. i = 1 \/ i - 1 \in 1 .. n
    BY <1>6
  <2>2. i = (i - 1) + 1
    BY <1>6
  <2> QED BY <2>1, <2>2
<1>14. \A k \in 1 .. n : k \in 0 .. n /\ k - 1 \in 0 .. n /\ k - 1 + 1 = k /\ k + 1 - 1 = k /\ k \in Nat
  BY <1>6
<1>15. \A i \in 1 .. n + 1 : Len(qs[i]) >= 1 /\ \A j \in 1 .. Len(qs[i]) : qs[i][j] # "&"
  <2>1. Len(x) >= 1 /\ \A j \in 1 .. Len(x) : x[j] # "&"
    BY DEF Part
  <2>2. Len(qs[1]) >= 1 /\ \A j \in 1 .. Len(qs[1]) : qs[1][j] # "&"
    BY <1>8, <2>1
  <2>3. ASSUME NEW k \in 1 .. n PROVE Len(qs[k + 1]) >= 1 /\ \A j \in 1 .. Len(qs[k + 1]) : qs[k + 1][j] # "&"
    <3>1. qs[k + 1] = ps[k]
      BY <1>8
    <3> QED BY <1>9, <3>1
  <2> QED BY <1>13, <2>2, <2>3
<1>16. \A i \in 1 .. n + 1 : D[i] = D[i - 1] + Len(qs[i]) + 1
  <2>1. D[1] = D[1 - 1] + Len(qs[1]) + 1
    <3>1. 0 \in 0 .. n /\ 0 + 1 = 1 /\ 1 - 1 = 0
      BY <1>6
    <3>2. D[1] = l + 1 + 0
      BY <1>12, <3>1
    <3>3. Len(qs[1]) = l
      BY <1>8, <1>20
    <3> QED BY <1>3, <1>12, <3>1, <3>2, <3>3
  <2>2. ASSUME NEW k \in 1 .. n PROVE D[k + 1] = D[k + 1 - 1] + Len(qs[k + 1]) + 1
    <3>1. D[k + 1] = l + 1 + B[k]
      BY <1>12, <1>14
    <3>2. D[k - 1 + 1] = l + 1 + B[k - 1]
      BY <1>12, <1>14
    <3>3. B[k] = B[k - 1] + Len(ps[k]) + 1 /\ B[k - 1] \in Nat /\ Len(ps[k]) \in Nat /\ qs[k + 1] = ps[k]
      BY <1>8, <1>9, <1>10, <1>11, <1>14
    <3>4. D[k] = l + 1 + B[k - 1] /\ D[k + 1 - 1] = D[k]
      BY <1>14, <3>2
    <3>5. \A b, w \in Nat : l + 1 + (b + w + 1) = l + 1 + b + w + 1
      BY <1>3
    <3> QED BY <3>1, <3>3, <3>4, <3>5
  <2> QED BY <1>13, <2>1, <2>2
<1>17. \A i \in 1 .. n + 1 - 1 : c[D[i]] = "&"
  <2>1. c[D[1]] = "&"
    <3>1. 0 \in 0 .. n /\ 0 + 1 = 1 /\ l + 1 + 0 = l + 1
      BY <1>3, <1>6
    <3>2. D[1] = l + 1
      BY <1>12, <3>1
    <3> QED BY <1>7, <3>2
  <2>2. ASSUME NEW k \in 1 .. n - 1 PROVE c[D[k + 1]] = "&"
    <3>1. k \in 1 .. n /\ k + 1 \in 1 .. n /\ k + 1 - 1 = k
      BY <1>6
    <3>2. D[k + 1] = l + 1 + B[k] /\ s[B[k]] = "&"
      BY <1>9, <1>12, <1>14, <3>1
    <3>3. B[k + 1] = B[k] + Len(ps[k + 1]) + 1 /\ B[k + 1] <= m + 1 /\ Len(ps[k + 1]) \in Nat /\ Len(ps[k + 1]) >= 1
      <4>1. B[k + 1] = B[k + 1 - 1] + Len(ps[k + 1]) + 1
        BY <1>9, <3>1
      <4> QED BY <1>9, <1>10, <1>11, <1>14, <3>1, <4>1
    <3>4. B[k] = B[k - 1] + Len(ps[k]) + 1 /\ B[k - 1] \in Nat /\ Len(ps[k]) \in Nat
      BY <1>9, <1>10, <1>11, <1>14, <3>1
    <3>5. B[k] \in 1 .. m
      <4> DEFINE b == B[k]
                 b0 == B[k - 1]
                 b1 == B[k + 1]
                 p == Len(ps[k])
                 q == Len(ps[k + 1])
      <4>1. b1 = b + q + 1 /\ b1 <= m + 1 /\ q \in Nat /\ q >= 1 /\ b = b0 + p + 1 /\ b0 \in Nat /\ p \in Nat
        BY <3>3, <3>4
      <4> HIDE DEF b, b0, b1, p, q
      <4>2. b \in 1 .. m
        BY <1>5, <4>1
      <4> QED BY <4>2 DEF b
    <3>6. c[l + 1 + B[k]] = s[B[k]]
      BY <1>7, <3>5
    <3> QED BY <3>2, <3>6
  <2>3. ASSUME NEW i \in 1 .. n + 1 - 1 PROVE i = 1 \/ \E k \in 1 .. n - 1 : i = k + 1
    <3>1. i = 1 \/ i - 1 \in 1 .. n - 1
      BY <1>6
    <3>2. i = (i - 1) + 1
      BY <1>6
    <3> QED BY <3>1, <3>2
  <2> QED BY <2>1, <2>2, <2>3
<1>18. \A i \in 1 .. n + 1 : \A j \in 1 .. Len(qs[i]) : c[D[i - 1] + j] = qs[i][j]
  <2>1. ASSUME NEW j \in 1 .. Len(qs[1]) PROVE c[D[1 - 1] + j] = qs[1][j]
    <3>1. j \in 1 .. l /\ D[1 - 1] + j = j
      BY <1>3, <1>8, <1>12, <1>20
    <3> QED BY <1>7, <1>8, <3>1
  <2>2. ASSUME NEW k \in 1 .. n, NEW j \in 1 .. Len(qs[k + 1]) PROVE c[D[k + 1 - 1] + j] = qs[k + 1][j]
    <3>1. D[k - 1 + 1] = l + 1 + B[k - 1]
      BY <1>12, <1>14
    <3>2. B[k] = B[k - 1] + Len(ps[k]) + 1 /\ B[k] <= m + 1 /\ B[k - 1] \in Nat /\ Len(ps[k]) \in Nat /\ qs[k + 1] = ps[k]
      BY <1>8, <1>9, <1>10, <1>11, <1>14
    <3>3. s[B[k - 1] + j] = ps[k][j]
      BY <1>9, <3>2
    <3>4. B[k - 1] + j \in 1 .. m /\ l + 1 + B[k - 1] + j = l + 1 + (B[k - 1] + j)
      <4> DEFINE b == B[k - 1]
                 q == Len(ps[k])
                 d == B[k]
      <4>1. d = b + q + 1 /\ d <= m + 1 /\ b \in Nat /\ q \in Nat /\ j \in 1 .. q
        BY <3>2
      <4> HIDE DEF b, q, d
      <4>2. b + j \in 1 .. m /\ l + 1 + b + j = l + 1 + (b + j)
        BY <1>3, <1>5, <4>1
      <4> QED BY <4>2 DEF b
    <3>5. c[l + 1 + (B[k - 1] + j)] = s[B[k - 1] + j]
      BY <1>7, <3>4
    <3>6. D[k + 1 - 1] = l + 1 + B[k - 1]
      BY <1>14, <3>1
    <3> QED BY <3>2, <3>3, <3>4, <3>5, <3>6
  <2> QED BY <1>13, <2>1, <2>2
<1>19. D[n + 1] = Len(c) + 1
  <2>1. n \in 0 .. n
    BY <1>6
  <2>2. D[n + 1] = l + 1 + B[n]
    BY <1>12, <2>1
  <2>3. l + 1 + (m + 1) = l + 1 + m + 1
    BY <1>3, <1>5
  <2>4. B[n] = m + 1 /\ Len(c) = l + 1 + m
    BY <1>7, <1>9
  <2> QED BY <2>2, <2>3, <2>4
<1>21. Parted(c, D, qs)
  <2>1. n + 1 >= 1
    BY <1>6
  <2> DEFINE N == n + 1
  <2>2. /\ N >= 1 /\ Len(qs) = N /\ D \in [0 .. N -> Nat] /\ D[0] = 0
        /\ \A i \in 1 .. N : Len(qs[i]) >= 1 /\ \A j \in 1 .. Len(qs[i]) : qs[i][j] # "&"
        /\ \A i \in 1 .. N : D[i] = D[i - 1] + Len(qs[i]) + 1
        /\ \A i \in 1 .. N - 1 : c[D[i]] = "&"
        /\ \A i \in 1 .. N : \A j \in 1 .. Len(qs[i]) : c[D[i - 1] + j] = qs[i][j]
        /\ D[N] = Len(c) + 1
    <3>1. N >= 1 /\ Len(qs) = N
      BY <1>8, <2>1
    <3>2. D \in [0 .. N -> Nat] /\ D[0] = 0
      BY <1>12
    <3>3. \A i \in 1 .. N : Len(qs[i]) >= 1 /\ \A j \in 1 .. Len(qs[i]) : qs[i][j] # "&"
      BY <1>15
    <3>4. \A i \in 1 .. N : D[i] = D[i - 1] + Len(qs[i]) + 1
      BY <1>16
    <3>5. \A i \in 1 .. N - 1 : c[D[i]] = "&"
      <4>1. N - 1 = n /\ n + 1 - 1 = n
        BY <1>6
      <4>2. \A i \in 1 .. n : c[D[i]] = "&"
        BY <1>17, <4>1
      <4> HIDE DEF N
      <4> QED BY <4>1, <4>2
    <3>6. \A i \in 1 .. N : \A j \in 1 .. Len(qs[i]) : c[D[i - 1] + j] = qs[i][j]
      BY <1>18
    <3>7. D[N] = Len(c) + 1
      BY <1>19
    <3> HIDE DEF N
    <3> QED BY <3>1, <3>2, <3>3, <3>4, <3>5, <3>6, <3>7
  <2> HIDE DEF N
  <2> QED BY <2>2 DEF Parted
<1> QED BY <1>5, <1>21 DEF Parts, c, y, a, qs, e

\* Parts, each but the last followed by a separator.
Trailed(t) == [i \in 1 .. Len(t) |-> t[i] \o (IF i < Len(t) THEN <<"&">> ELSE << >>)]

\* One of them.
LEMMA TrailedAt ==
    ASSUME NEW S, "&" \in S, NEW t \in Seq(Seq(S)), NEW i \in 1 .. Len(t)
    PROVE  LET x == t[i] \o (IF i < Len(t) THEN <<"&">> ELSE << >>) IN
           /\ x \in Seq(S) /\ Len(t[i]) \in Nat /\ \A j \in 1 .. Len(t[i]) : x[j] = t[i][j]
           /\ i < Len(t) => Len(x) = Len(t[i]) + 1 /\ x[Len(t[i]) + 1] = "&"
           /\ ~(i < Len(t)) => Len(x) = Len(t[i])
<1> DEFINE z == IF i < Len(t) THEN <<"&">> ELSE << >>
           y == t[i]
           x == y \o z
<1>1. y \in Seq(S)
  OBVIOUS
<1>2. z \in Seq(S) /\ (i < Len(t) => Len(z) = 1 /\ z[1] = "&") /\ (~(i < Len(t)) => Len(z) = 0)
  OBVIOUS
<1> HIDE DEF z, y
<1>3. /\ x \in Seq(S) /\ Len(x) = Len(y) + Len(z) /\ Len(y) \in Nat
      /\ (\A q \in 1 .. Len(y) : x[q] = y[q]) /\ (\A j \in 1 .. Len(z) : x[Len(y) + j] = z[j])
  <2>1. z \in Seq(S)
    BY <1>2
  <2> QED BY <1>1, <2>1, ConcatAt
<1> HIDE DEF x
<1>4. i < Len(t) => Len(x) = Len(y) + 1 /\ x[Len(y) + 1] = "&"
  <2> SUFFICES ASSUME i < Len(t) PROVE Len(x) = Len(y) + 1 /\ x[Len(y) + 1] = "&"
    OBVIOUS
  <2>1. Len(z) = 1 /\ z[1] = "&" /\ 1 \in 1 .. 1
    BY <1>2
  <2> QED BY <1>3, <2>1
<1>5. ~(i < Len(t)) => Len(x) = Len(y)
  <2> SUFFICES ASSUME ~(i < Len(t)) PROVE Len(x) = Len(y)
    OBVIOUS
  <2>1. Len(z) = 0
    BY <1>2
  <2> QED BY <1>3, <2>1
<1>6. x = t[i] \o (IF i < Len(t) THEN <<"&">> ELSE << >>) /\ y = t[i]
  BY DEF x, y, z
<1> QED BY <1>3, <1>4, <1>5, <1>6, Zenon

\* They are the parts of the line, and its length is that of all and the separators.
LEMMA TrailParts ==
    ASSUME NEW S, "&" \in S, NEW t \in Seq(Seq(S)), Len(t) >= 1, \A i \in 1 .. Len(t) : Part(t[i]),
           NEW L, Ends(L, t)
    PROVE  LET s == FlattenSeq(Trailed(t)) IN
           s \in Seq(S) /\ (\E B : Parted(s, B, t) /\ B[0] = 0) /\ Len(s) = L[Len(t)] + Len(t) - 1
<1> DEFINE N == Len(t)
           W(i) == t[i] \o (IF i < Len(t) THEN <<"&">> ELSE << >>)
           ss == [i \in 1 .. N |-> W(i)]
           s == FlattenSeq(ss)
<1>1. N \in Nat /\ N >= 1 /\ Len(t) = N /\ Trailed(t) = ss
  BY DEF Trailed
<1>2. ASSUME NEW i \in 1 .. N
      PROVE  /\ W(i) \in Seq(S) /\ Len(t[i]) \in Nat /\ (\A j \in 1 .. Len(t[i]) : W(i)[j] = t[i][j])
             /\ i < N => Len(W(i)) = Len(t[i]) + 1 /\ W(i)[Len(t[i]) + 1] = "&"
             /\ ~(i < N) => Len(W(i)) = Len(t[i])
  BY TrailedAt, Zenon
<1> HIDE DEF W, N
<1>3. ss \in Seq(Seq(S)) /\ Len(ss) = N /\ \A i \in 1 .. N : ss[i] = W(i)
  BY <1>1, <1>2
<1> HIDE DEF ss
<1>4. s \in Seq(S) /\ \E E : LaidOut(s, E, ss)
  BY <1>3, FlattenLaidOut
<1>5. PICK E : LaidOut(s, E, ss)
  BY <1>4
<1> HIDE DEF s
<1>6. /\ E \in [0 .. N -> Nat] /\ E[0] = 0 /\ Len(s) = E[N]
      /\ (\A i \in 1 .. N : E[i] = E[i - 1] + Len(W(i)))
      /\ (\A i \in 1 .. N : \A j \in 1 .. Len(W(i)) : s[E[i - 1] + j] = W(i)[j])
  <2>1. \A i \in 1 .. N : ss[i] = W(i)
    BY <1>3
  <2>2. /\ E \in [0 .. N -> Nat] /\ E[0] = 0 /\ Len(s) = E[N]
        /\ (\A i \in 1 .. N : E[i] = E[i - 1] + Len(ss[i]))
        /\ (\A i \in 1 .. N : \A j \in 1 .. Len(ss[i]) : s[E[i - 1] + j] = ss[i][j])
    BY <1>3, <1>5 DEF LaidOut, Ends
  <2> QED BY <2>1, <2>2
<1>7. /\ (\A i \in 1 .. N : i \in 0 .. N /\ i - 1 \in 0 .. N /\ i - 1 < N)
      /\ (\A i \in 0 .. N : E[i] \in Nat) /\ N \in 0 .. N /\ N \in 1 .. N /\ 0 \in 0 .. N /\ 0 < N
  BY <1>1, <1>6
<1> DEFINE B == [i \in 0 .. N |-> IF i < N THEN E[i] ELSE E[N] + 1]
<1>8. /\ B \in [0 .. N -> Nat] /\ (\A i \in 0 .. N : i < N => B[i] = E[i]) /\ B[N] = E[N] + 1
  BY <1>1, <1>7
<1> HIDE DEF B
<1>9. B[0] = 0
  BY <1>6, <1>7, <1>8
<1>10. \A i \in 1 .. N : B[i - 1] = E[i - 1]
  BY <1>7, <1>8
<1>11. \A i \in 1 .. N : B[i] = B[i - 1] + Len(t[i]) + 1
  <2> TAKE i \in 1 .. N
  <2> DEFINE l == Len(t[i])
             x == Len(W(i))
  <2>1. l \in Nat /\ (i < N => x = l + 1) /\ (~(i < N) => x = l)
    BY <1>2
  <2>2. E[i] = E[i - 1] + x /\ E[i] \in Nat /\ E[i - 1] \in Nat /\ B[i - 1] = E[i - 1]
    BY <1>6, <1>7, <1>10
  <2> HIDE DEF l, x
  <2>3. CASE i < N
    <3>1. B[i] = E[i]
      BY <1>7, <1>8, <2>3
    <3>2. x = l + 1
      BY <2>1, <2>3
    <3> DEFINE b == B[i]
               c == B[i - 1]
    <3>3. b = c + x /\ c \in Nat
      BY <2>2, <3>1
    <3> HIDE DEF b, c
    <3>4. b = c + l + 1
      BY <2>1, <3>2, <3>3
    <3> QED BY <3>4 DEF l, b, c
  <2>4. CASE ~(i < N)
    <3>1. i = N
      BY <1>1, <2>4
    <3>2. x = l
      BY <2>1, <2>4
    <3>3. B[i] = E[i] + 1
      BY <1>8, <3>1
    <3>4. B[i] = B[i - 1] + l + 1
      BY <2>1, <2>2, <3>2, <3>3
    <3> QED BY <3>4 DEF l
  <2> QED BY <2>3, <2>4
<1>12. \A i \in 1 .. N - 1 : s[B[i]] = "&"
  <2> TAKE i \in 1 .. N - 1
  <2>1. i \in 1 .. N /\ i < N
    BY <1>1
  <2> DEFINE l == Len(t[i])
             x == Len(W(i))
             e == E[i - 1]
  <2>2. l \in Nat /\ x = l + 1 /\ W(i)[l + 1] = "&"
    BY <1>2, <2>1
  <2>3. l + 1 \in 1 .. x
    BY <2>2
  <2>4. s[e + (l + 1)] = "&"
    BY <1>6, <2>1, <2>2, <2>3
  <2>5. B[i] = e + x
    BY <1>6, <1>7, <1>8, <2>1
  <2> HIDE DEF l, x, e
  <2> QED BY <2>2, <2>4, <2>5
<1>13. \A i \in 1 .. N : \A j \in 1 .. Len(t[i]) : s[B[i - 1] + j] = t[i][j]
  <2> TAKE i \in 1 .. N
  <2> TAKE j \in 1 .. Len(t[i])
  <2>1. Len(t[i]) \in Nat /\ (Len(W(i)) = Len(t[i]) + 1 \/ Len(W(i)) = Len(t[i])) /\ W(i)[j] = t[i][j]
    BY <1>2
  <2>2. j \in 1 .. Len(W(i))
    <3> DEFINE l == Len(t[i])
               x == Len(W(i))
    <3>1. l \in Nat /\ (x = l + 1 \/ x = l) /\ j \in 1 .. l
      BY <2>1
    <3> HIDE DEF l, x
    <3>2. j \in 1 .. x
      BY <3>1
    <3> QED BY <3>2 DEF x
  <2> QED BY <1>6, <1>10, <2>1, <2>2
<1>14. Parted(s, B, t)
  <2>1. \A i \in 1 .. N : Len(t[i]) >= 1 /\ \A j \in 1 .. Len(t[i]) : t[i][j] # "&"
    BY <1>1 DEF Part
  <2>2. B[N] = Len(s) + 1
    BY <1>6, <1>8
  <2> QED BY <1>1, <1>8, <1>9, <1>11, <1>12, <1>13, <2>1, <2>2 DEF Parted
<1>15. Len(s) = L[N] + N - 1
  <2>1. L \in [0 .. N -> Nat] /\ L[0] = 0 /\ \A i \in 1 .. N : L[i] = L[i - 1] + Len(t[i])
    BY <1>1 DEF Ends
  <2> DEFINE A == {i \in Nat : i < N => E[i] = L[i] + i}
  <2>2. 0 \in A
    BY <1>6, <2>1
  <2>3. ASSUME NEW i \in 1 .. N - 1, i - 1 \in A PROVE i \in A
    <3>1. i \in 1 .. N /\ i < N /\ i \in Nat /\ i - 1 < N /\ i - 1 \in 0 .. N
      BY <1>1
    <3> DEFINE l == Len(t[i])
               x == Len(W(i))
               e == E[i - 1]
               f == E[i]
               u == L[i - 1]
               v == L[i]
    <3>2. l \in Nat /\ x = l + 1
      BY <1>2, <3>1
    <3>3. f = e + x /\ v = u + l
      BY <1>6, <2>1, <3>1
    <3>4. e = u + (i - 1) /\ u \in Nat
      BY <2>1, <2>3, <3>1
    <3> HIDE DEF l, x, e, f, u, v
    <3>5. f = v + i
      BY <3>1, <3>2, <3>3, <3>4
    <3>6. E[i] = L[i] + i
      BY <3>5 DEF f, v
    <3> QED BY <3>1, <3>6
  <2> HIDE DEF A
  <2>4. \A n \in 0 .. N - 1 : n \in A
    <3>1. N - 1 \in Nat
      BY <1>1
    <3> QED BY <2>2, <2>3, <3>1, UpTo
  <2>5. E[N - 1] = L[N - 1] + (N - 1)
    <3>1. N - 1 \in 0 .. N - 1 /\ N - 1 < N
      BY <1>1
    <3>2. N - 1 \in A
      BY <2>4, <3>1
    <3> QED BY <3>1, <3>2 DEF A
  <2> DEFINE l == Len(t[N])
             x == Len(W(N))
             e == E[N - 1]
             f == E[N]
             u == L[N - 1]
             v == L[N]
  <2>6. l \in Nat /\ x = l
    BY <1>1, <1>2, <1>7
  <2>7. f = e + x /\ v = u + l /\ e = u + (N - 1) /\ u \in Nat
    BY <1>6, <1>7, <2>1, <2>5
  <2>8. Len(s) = f
    BY <1>6
  <2> HIDE DEF l, x, e, f, u, v
  <2>9. f = v + N - 1
    BY <1>1, <2>6, <2>7
  <2> QED BY <2>8, <2>9 DEF v
<1>16. s = FlattenSeq(Trailed(t)) /\ N = Len(t)
  BY <1>1 DEF s
<1> QED BY <1>4, <1>9, <1>14, <1>15, <1>16

\* The text mfs_tracker_build_request begins with if there is metadata, and the
\* pair it stands for.
MetaKeys(m) ==
    IF m > 0 THEN <<"plugin.meta.", "keys", "=">> \o Decimal(m) \o <<"&">> ELSE << >>
MetaPair(m) == IF m = 0 THEN << >> ELSE << << <<"plugin.meta.", "keys">>, Decimal(m)>> >>

\* Three tokens.
LEMMA ThreeTokens ==
    ASSUME NEW a, NEW b, NEW c PROVE <<a, b>> \o <<c>> = <<a, b, c>>
<1> DEFINE S == {a, b, c}
           s == <<a, b>>
           t == <<c>>
           u == <<a, b, c>>
           d == s \o t
<1>1. /\ s \in Seq(S) /\ t \in Seq(S) /\ u \in Seq(S) /\ Len(s) = 2 /\ Len(t) = 1 /\ Len(u) = 3
      /\ s[1] = a /\ s[2] = b /\ t[1] = c /\ u[1] = a /\ u[2] = b /\ u[3] = c
  OBVIOUS
<1> HIDE DEF S, s, t, u
<1>2. /\ d \in Seq(S) /\ Len(d) = Len(s) + Len(t)
      /\ (\A q \in 1 .. Len(s) : d[q] = s[q]) /\ (\A j \in 1 .. Len(t) : d[Len(s) + j] = t[j])
  <2>1. s \in Seq(S) /\ t \in Seq(S)
    BY <1>1
  <2> QED BY <2>1, ConcatAt
<1> HIDE DEF d
<1>3. 1 \in 1 .. 2 /\ 2 \in 1 .. 2 /\ 1 \in 1 .. 1 /\ 2 + 1 = 3 /\ 1 .. 3 = {1, 2, 3}
  OBVIOUS
<1>4. Len(d) = 3 /\ d[1] = a /\ d[2] = b /\ d[3] = c
  BY <1>1, <1>2, <1>3
<1>5. \A i \in 1 .. 3 : d[i] = u[i]
  BY <1>1, <1>3, <1>4
<1>6. d = u
  BY <1>1, <1>2, <1>4, <1>5, SeqEqual
<1> QED BY <1>6 DEF d, s, t, u

\* The number of metadata pairs is written as a pair would be (tracker.c:274-292).
LEMMA MetaPiece ==
    ASSUME NEW m \in Nat
    PROVE  LET p == << <<"plugin.meta.", "keys">>, Decimal(m)>> IN
           p \in ArgPairs /\ Piece(p) = <<"plugin.meta.", "keys", "=">> \o Decimal(m)
<1> DEFINE a == <<"plugin.meta.", "keys">>
           d == Decimal(m)
           p == <<a, d>>
<1>1. a \in Seq(ArgTokens) /\ \A i \in 1 .. Len(a) : a[i] \notin Special \cup {"SP"}
  <2>1. "plugin.meta." \in ArgTokens /\ "keys" \in ArgTokens
    BY DEF ArgTokens
  <2>2. a \in Seq(ArgTokens) /\ Len(a) = 2 /\ a[1] = "plugin.meta." /\ a[2] = "keys" /\ 1 .. 2 = {1, 2}
    BY <2>1
  <2> HIDE DEF a
  <2> QED BY <2>2, HexFacts
<1>2. DigitTokens \subseteq ArgTokens
  BY DEF DigitTokens, ArgTokens
<1>3. d \in Seq(ArgTokens)
  BY <1>2, DecimalType, SeqMonotonic
<1>4. mfs_tracker_url_encode(a) = a
  BY <1>1, EncodePlain
<1>5. mfs_tracker_url_encode(d) = d
  BY DecimalPlain
<1>6. a \o <<"=">> = <<"plugin.meta.", "keys", "=">>
  BY ThreeTokens
<1> HIDE DEF a, d
<1>7. p \in ArgPairs /\ p[1] = a /\ p[2] = d
  BY <1>1, <1>3 DEF ArgPairs
<1> HIDE DEF p
<1>8. Piece(p) = a \o <<"=">> \o d
  BY <1>4, <1>5, <1>7 DEF Piece, Pair
<1> QED BY <1>6, <1>7, <1>8 DEF p, a, d

\* The texts with one pair before the others.
LEMMA TextsCons ==
    ASSUME NEW p \in ArgPairs, NEW w \in Seq(ArgPairs)
    PROVE  <<p>> \o w \in Seq(ArgPairs) /\ Texts(<<p>> \o w) = <<Piece(p)>> \o Texts(w)
<1> DEFINE e == <<p>>
           u == e \o w
           x == Piece(p)
           f == <<x>>
           t == Texts(w)
           c == f \o t
           n == Len(w)
<1>1. e \in Seq(ArgPairs) /\ Len(e) = 1 /\ e[1] = p
  OBVIOUS
<1>2. f \in Seq(Seq(ArgText)) /\ Len(f) = 1 /\ f[1] = x
  BY PieceFacts
<1>3. n \in Nat /\ t \in Seq(Seq(ArgText)) /\ Len(t) = n /\ \A i \in 1 .. n : t[i] = Piece(w[i])
  BY TextsType
<1>20. Len(w) = n
  OBVIOUS
<1> HIDE DEF e, f, x, t, n
<1>4. /\ u \in Seq(ArgPairs) /\ Len(u) = Len(e) + n
      /\ (\A q \in 1 .. Len(e) : u[q] = e[q]) /\ (\A j \in 1 .. n : u[Len(e) + j] = w[j])
  <2>1. e \in Seq(ArgPairs)
    BY <1>1
  <2>2. /\ u \in Seq(ArgPairs) /\ Len(u) = Len(e) + Len(w)
        /\ (\A q \in 1 .. Len(e) : u[q] = e[q]) /\ (\A j \in 1 .. Len(w) : u[Len(e) + j] = w[j])
    BY <2>1, ConcatAt
  <2> QED BY <2>2 DEF n
<1>5. /\ c \in Seq(Seq(ArgText)) /\ Len(c) = Len(f) + Len(t)
      /\ (\A q \in 1 .. Len(f) : c[q] = f[q]) /\ (\A j \in 1 .. Len(t) : c[Len(f) + j] = t[j])
  <2>1. f \in Seq(Seq(ArgText)) /\ t \in Seq(Seq(ArgText))
    BY <1>2, <1>3
  <2> QED BY <2>1, ConcatAt
<1> HIDE DEF u, c
<1>6. /\ Texts(u) \in Seq(Seq(ArgText)) /\ Len(Texts(u)) = Len(u)
      /\ \A i \in 1 .. Len(u) : Texts(u)[i] = Piece(u[i])
  BY <1>4, TextsType
<1>7. Len(u) = 1 + n /\ Len(c) = 1 + n /\ 1 \in 1 .. 1
  BY <1>1, <1>2, <1>3, <1>4, <1>5
<1>8. u[1] = p /\ c[1] = x
  BY <1>1, <1>2, <1>4, <1>5, <1>7
<1>9. \A j \in 1 .. n : u[1 + j] = w[j] /\ c[1 + j] = Piece(w[j])
  BY <1>1, <1>2, <1>3, <1>4, <1>5
<1>10. \A i \in 1 .. 1 + n : Texts(u)[i] = c[i]
  <2> TAKE i \in 1 .. 1 + n
  <2>1. Texts(u)[i] = Piece(u[i])
    BY <1>6, <1>7
  <2>2. CASE i = 1
    BY <1>8, <2>1, <2>2 DEF x
  <2>3. CASE i # 1
    <3>1. i - 1 \in 1 .. n /\ 1 + (i - 1) = i
      BY <1>3, <2>3
    <3>2. u[1 + (i - 1)] = w[i - 1] /\ c[1 + (i - 1)] = Piece(w[i - 1])
      BY <1>9, <3>1
    <3> QED BY <2>1, <3>1, <3>2
  <2> QED BY <2>2, <2>3
<1>11. Texts(u) = c
  BY <1>5, <1>6, <1>7, <1>10, SeqEqual
<1> QED BY <1>4, <1>11 DEF u, c, e, f, t, x

\* Nothing before a sequence.
LEMMA NothingBefore == ASSUME NEW T, NEW s \in Seq(T) PROVE << >> \o s = s
BY ConcatEmptySeq

\* The request line between the command and CR LF consists of the pairs.
LEMMA BodyParts ==
    ASSUME NEW m \in Nat, NEW w \in Seq(ArgPairs), Len(w) >= 1, NEW s \in Seq(ArgText),
           NEW B, Parted(s, B, Texts(w)), B[0] = 0
    PROVE  /\ MetaKeys(m) \in Seq(ArgText) /\ MetaPair(m) \o w \in Seq(ArgPairs)
           /\ MetaKeys(m) \o s \in Seq(ArgText) /\ Parts(MetaKeys(m) \o s, Texts(MetaPair(m) \o w))
<1> DEFINE t == Texts(w)
<1>1. t \in Seq(Seq(ArgText))
  BY TextsType
<1>2. CASE m = 0
  <2>1. MetaKeys(m) = << >> /\ MetaPair(m) = << >>
    BY <1>2 DEF MetaKeys, MetaPair
  <2>2. << >> \o s = s /\ << >> \o w = w
    BY NothingBefore
  <2>3. << >> \in Seq(ArgText)
    OBVIOUS
  <2>4. Parts(s, t)
    BY DEF Parts
  <2> QED BY <2>1, <2>2, <2>3, <2>4
<1>3. CASE m # 0
  <2> DEFINE p == << <<"plugin.meta.", "keys">>, Decimal(m)>>
             x == Piece(p)
  <2>1. p \in ArgPairs /\ x = <<"plugin.meta.", "keys", "=">> \o Decimal(m)
    BY MetaPiece
  <2>2. MetaKeys(m) = x \o <<"&">> /\ MetaPair(m) = <<p>>
    <3>1. m > 0
      BY <1>3
    <3>2. MetaKeys(m) = <<"plugin.meta.", "keys", "=">> \o Decimal(m) \o <<"&">>
      BY <3>1, Zenon DEF MetaKeys
    <3>3. MetaPair(m) = <<p>>
      BY <1>3, Zenon DEF MetaPair
    <3> QED BY <2>1, <3>2, <3>3, Zenon
  <2> HIDE DEF p
  <2>3. x \in Seq(ArgText) /\ Part(x)
    BY <2>1, PieceFacts
  <2>4. <<p>> \o w \in Seq(ArgPairs) /\ Texts(<<p>> \o w) = <<x>> \o t
    BY <2>1, TextsCons
  <2>5. "&" \in ArgText
    BY DEF ArgText, Written
  <2> HIDE DEF x, t
  <2>6. Parts((x \o <<"&">>) \o s, <<x>> \o t) /\ (x \o <<"&">>) \o s \in Seq(ArgText)
    <3>1. Parted(s, B, t)
      BY DEF t
    <3> QED BY <1>1, <2>3, <2>5, <3>1, PartsCons
  <2>7. x \o <<"&">> \in Seq(ArgText)
    <3> DEFINE a == <<"&">>
    <3>1. a \in Seq(ArgText)
      BY <2>5
    <3> HIDE DEF a
    <3>2. x \o a \in Seq(ArgText)
      BY <2>3, <3>1, ConcatAt
    <3> QED BY <3>2 DEF a
  <2> QED BY <2>2, <2>4, <2>6, <2>7
<1> QED BY <1>2, <1>3

\* A line from its first word to CR LF.
LEMMA LineOf ==
    ASSUME NEW T, NEW word \in T, {"SP", "CR", "LF"} \subseteq T, NEW y \in Seq(T), Len(y) >= 1
    PROVE  LET line == (<<word, "SP">> \o y) \o <<"CR", "LF">> IN
           /\ line \in Seq(T) /\ Len(y) \in Nat /\ Len(line) = Len(y) + 4 /\ line[1] = word
           /\ line[Len(line)] = "LF" /\ line[Len(line) - 1] = "CR" /\ SubSeq(line, 3, Len(line) - 2) = y
<1> DEFINE h == <<word, "SP">>
           z == <<"CR", "LF">>
           x == h \o y
           line == x \o z
           n == Len(y)
<1>1. h \in Seq(T) /\ Len(h) = 2 /\ h[1] = word /\ z \in Seq(T) /\ Len(z) = 2 /\ z[1] = "CR" /\ z[2] = "LF"
  OBVIOUS
<1> HIDE DEF h, z
<1>2. /\ x \in Seq(T) /\ Len(x) = Len(h) + Len(y) /\ Len(y) \in Nat
      /\ (\A q \in 1 .. Len(h) : x[q] = h[q]) /\ (\A j \in 1 .. Len(y) : x[Len(h) + j] = y[j])
  <2>1. h \in Seq(T)
    BY <1>1
  <2> QED BY <2>1, ConcatAt
<1>3. n = Len(y) /\ n \in Nat /\ n >= 1
  OBVIOUS
<1> HIDE DEF x
<1>4. /\ line \in Seq(T) /\ Len(line) = Len(x) + Len(z)
      /\ (\A q \in 1 .. Len(x) : line[q] = x[q]) /\ (\A j \in 1 .. Len(z) : line[Len(x) + j] = z[j])
  <2>1. x \in Seq(T) /\ z \in Seq(T)
    BY <1>1, <1>2
  <2> QED BY <2>1, ConcatAt
<1> HIDE DEF line, n
<1>5. Len(x) = n + 2 /\ x[1] = word /\ \A j \in 1 .. n : x[2 + j] = y[j]
  <2>1. 1 \in 1 .. 2 /\ 2 + n = n + 2
    BY <1>3
  <2> QED BY <1>1, <1>2, <1>3, <2>1
<1>6. /\ Len(line) = n + 4 /\ (\A q \in 1 .. n + 2 : line[q] = x[q])
      /\ line[n + 3] = "CR" /\ line[n + 4] = "LF"
  <2>1. 1 \in 1 .. 2 /\ 2 \in 1 .. 2 /\ n + 2 + 1 = n + 3 /\ n + 2 + 2 = n + 4
    BY <1>3
  <2>2. \A j \in 1 .. 2 : line[n + 2 + j] = z[j]
    BY <1>1, <1>4, <1>5
  <2>3. line[n + 2 + 1] = "CR" /\ line[n + 2 + 2] = "LF"
    BY <1>1, <2>1, <2>2
  <2> QED BY <1>1, <1>4, <1>5, <2>1, <2>3
<1>7. line[1] = word
  <2>1. 1 \in 1 .. n + 2
    BY <1>3
  <2> QED BY <1>5, <1>6, <2>1
<1>8. \A j \in 1 .. n : y[j] = line[3 + j - 1]
  <2> TAKE j \in 1 .. n
  <2>1. 3 + j - 1 = 2 + j /\ 2 + j \in 1 .. n + 2
    BY <1>3
  <2> QED BY <1>5, <1>6, <2>1
<1>9. SubSeq(line, 3, n + 2) = y
  <2>1. 3 \in Nat /\ n + 2 \in Nat /\ 3 >= 1 /\ 3 <= n + 2 /\ n + 2 <= Len(line) /\ n = n + 2 - 3 + 1
    BY <1>3, <1>6
  <2>2. Len(y) = n + 2 - 3 + 1
    BY <1>3, <2>1
  <2>3. \A j \in 1 .. Len(y) : y[j] = line[3 + j - 1]
    BY <1>3, <1>8
  <2>4. line \in Seq(T)
    BY <1>4
  <2> QED BY ONLY <2>1, <2>2, <2>3, <2>4, y \in Seq(T), SubSeqIs
<1>10. n + 4 - 2 = n + 2 /\ n + 4 - 1 = n + 3
  BY <1>3
<1>11. /\ line \in Seq(T) /\ Len(y) \in Nat /\ Len(line) = Len(y) + 4 /\ line[1] = word
       /\ line[Len(line)] = "LF" /\ line[Len(line) - 1] = "CR" /\ SubSeq(line, 3, Len(line) - 2) = y
  BY <1>3, <1>4, <1>6, <1>7, <1>9, <1>10
<1> QED BY <1>11 DEF line, x, h, z

\* What mfs_tracker_build_request writes for a list that holds the pairs w.
LEMMA BuildIs ==
    ASSUME NEW cmd, NEW ps, NEW w, Lists(ps, w)
    PROVE  LET r == mfs_tracker_build_request(cmd, ps) IN
           /\ r.request = ((<<cmd, "SP">> \o MetaKeys(ps.meta_count)) \o FlattenSeq(Trailed(Texts(w)))) \o <<"CR", "LF">>
           /\ r.size = 1 + 3 + ps.strlen + ps.count - 1 + Len(MetaKeys(ps.meta_count))
<1> DEFINE r == mfs_tracker_build_request(cmd, ps)
           n == Len(w)
           last == Len(ps.head)
           z(i) == IF i < last THEN <<"&">> ELSE << >>
           W(i) == SubSeq(ps.head[i].key, 1, ps.head[i].key_length) \o <<"=">>
                       \o SubSeq(ps.head[i].value, 1, ps.head[i].value_length) \o z(i)
           V(i) == Texts(w)[i] \o (IF i < Len(Texts(w)) THEN <<"&">> ELSE << >>)
<1>1. /\ r.request = ((<<cmd, "SP">> \o MetaKeys(ps.meta_count)) \o FlattenSeq([i \in 1 .. last |-> W(i)])) \o <<"CR", "LF">>
      /\ r.size = 1 + 3 + ps.strlen + ps.count - 1 + Len(MetaKeys(ps.meta_count))
  <2> DEFINE a == ((<<cmd, "SP">> \o MetaKeys(ps.meta_count)) \o FlattenSeq([i \in 1 .. last |-> W(i)])) \o <<"CR", "LF">>
             b == 1 + 3 + ps.strlen + ps.count - 1 + Len(MetaKeys(ps.meta_count))
  <2>1. r = [request |-> a, size |-> b]
    BY Zenon DEF mfs_tracker_build_request, MetaKeys
  <2> HIDE DEF a, b, r
  <2>2. r.request = a /\ r.size = b
    BY <2>1
  <2> QED BY <2>2 DEF a, b
<1>2. w \in Seq(ArgPairs) /\ n \in Nat /\ ps.head = [i \in 1 .. n |-> Encoded(w[i][1], w[i][2])]
  BY DEF Lists
<1>3. last = n
  <2> DEFINE F(i) == Encoded(w[i][1], w[i][2])
             g == [i \in 1 .. n |-> F(i)]
  <2> HIDE DEF F, n
  <2>1. Len(g) = n
    BY <1>2
  <2> QED BY <1>2, <2>1 DEF F
<1>4. Len(Texts(w)) = n /\ \A i \in 1 .. n : w[i] \in ArgPairs /\ Texts(w)[i] = Piece(w[i])
  BY <1>2, TextsType
<1>5. ASSUME NEW i \in 1 .. n PROVE W(i) = V(i)
  <2> DEFINE e == ps.head[i]
             k == w[i][1]
             v == w[i][2]
             c == mfs_tracker_url_encode(k)
             d == mfs_tracker_url_encode(v)
  <2>1. e = Encoded(k, v)
    BY <1>2
  <2>2. e.key = c /\ e.value = d /\ e.key_length = url_encode_length(k) /\ e.value_length = url_encode_length(v)
    BY <2>1 DEF Encoded
  <2>3. k \in Seq(ArgTokens) /\ v \in Seq(ArgTokens)
    BY <1>4, PieceFacts
  <2> HIDE DEF k, v
  <2>4. c \in Seq(ArgText) /\ d \in Seq(ArgText) /\ Len(c) = url_encode_length(k) /\ Len(d) = url_encode_length(v)
    BY <2>3, EncodeType, EncodeLength DEF ArgText
  <2> HIDE DEF c, d, e
  <2>5. SubSeq(c, 1, Len(c)) = c /\ SubSeq(d, 1, Len(d)) = d
    BY <2>4, SubSeqFull
  <2>6. SubSeq(e.key, 1, e.key_length) = c /\ SubSeq(e.value, 1, e.value_length) = d
    BY <2>2, <2>4, <2>5
  <2>7. W(i) = c \o <<"=">> \o d \o z(i)
    BY <2>6 DEF e
  <2>8. Texts(w)[i] = c \o <<"=">> \o d
    BY <1>4 DEF Piece, Pair, c, d, k, v
  <2>9. z(i) = (IF i < Len(Texts(w)) THEN <<"&">> ELSE << >>)
    BY <1>3, <1>4
  <2> HIDE DEF z, W
  <2> QED BY <2>7, <2>8, <2>9
<1>6. [i \in 1 .. last |-> W(i)] = Trailed(Texts(w))
  <2>1. Trailed(Texts(w)) = [i \in 1 .. n |-> V(i)]
    BY <1>4 DEF Trailed
  <2> HIDE DEF W, V, last, n
  <2> QED BY <1>3, <1>5, <2>1
<1> HIDE DEF W, V, last
<1> QED BY <1>1, <1>6

\* The line is as long as its buffer, and a tracker reads cmd and the pairs u from it.
Reads(r, cmd, u) ==
    /\ r.request \in Seq(ArgText \cup {cmd, "SP", "CR", "LF"})
    /\ r.size \in Nat /\ r.size >= 5 /\ Len(r.request) = r.size
    /\ r.request[1] = cmd /\ r.request[r.size] = "LF" /\ r.request[r.size - 1] = "CR"
    /\ PairsOf(r.request) = u

\* That is so for every list that holds pairs.
LEMMA ReadBack ==
    ASSUME NEW cmd, NEW ps, NEW w, Lists(ps, w), Len(w) >= 1, ps.meta_count \in Nat
    PROVE  Reads(mfs_tracker_build_request(cmd, ps), cmd, MetaPair(ps.meta_count) \o w)
<1> DEFINE r == mfs_tracker_build_request(cmd, ps)
           T == ArgText \cup {cmd, "SP", "CR", "LF"}
           m == ps.meta_count
           t == Texts(w)
           n == Len(w)
           s == FlattenSeq(Trailed(t))
           h == <<cmd, "SP">>
           z == <<"CR", "LF">>
           k == MetaKeys(m)
           y == k \o s
           u == MetaPair(m) \o w
<1>1. w \in Seq(ArgPairs) /\ ps.count = n /\ n \in Nat
  BY DEF Lists
<1>2. PICK L : Ends(L, t) /\ ps.strlen = L[n]
  BY DEF Lists
<1>3. "&" \in ArgText
  BY DEF ArgText, Written
<1>4. t \in Seq(Seq(ArgText)) /\ Len(t) = n /\ \A i \in 1 .. n : Part(t[i]) /\ Len(t[i]) \in Nat
  BY <1>1, TextsType
<1>21. Len(w) = n /\ n >= 1
  OBVIOUS
<1> HIDE DEF t, n
<1>5. s \in Seq(ArgText) /\ (\E B : Parted(s, B, t) /\ B[0] = 0) /\ Len(s) = L[n] + n - 1
  <2>1. Len(t) >= 1 /\ \A i \in 1 .. Len(t) : Part(t[i])
    BY <1>4, <1>21
  <2>2. LET q == FlattenSeq(Trailed(t)) IN
        q \in Seq(ArgText) /\ (\E B : Parted(q, B, t) /\ B[0] = 0) /\ Len(q) = L[Len(t)] + Len(t) - 1
    BY <1>2, <1>3, <1>4, <2>1, TrailParts
  <2> QED BY <1>4, <2>2
<1>6. PICK B : Parted(s, B, t) /\ B[0] = 0
  BY <1>5
<1>7. /\ r.request = ((h \o k) \o s) \o z
      /\ r.size = 1 + 3 + ps.strlen + ps.count - 1 + Len(k)
  BY BuildIs DEF t
<1> HIDE DEF s, r
<1>8. k \in Seq(ArgText) /\ u \in Seq(ArgPairs) /\ y \in Seq(ArgText) /\ Parts(y, Texts(u))
  <2>1. Parted(s, B, Texts(w)) /\ m \in Nat
    BY <1>6 DEF t
  <2> QED BY <1>1, <1>5, <1>6, <2>1, BodyParts
<1>9. h \in Seq(T) /\ ArgText \subseteq T /\ cmd \in T /\ {"SP", "CR", "LF"} \subseteq T
  OBVIOUS
<1> HIDE DEF T, m, k
<1>10. k \in Seq(T) /\ s \in Seq(T) /\ y \in Seq(T)
  BY <1>5, <1>8, <1>9, SeqMonotonic
<1>11. Len(y) = Len(k) + Len(s) /\ Len(k) \in Nat /\ Len(s) \in Nat
  <2>1. k \in Seq(T) /\ s \in Seq(T)
    BY <1>10
  <2> QED BY <2>1, ConcatAt
<1>12. (h \o k) \o s = h \o y
  <2> HIDE DEF h
  <2>1. Associates(T)
    BY ConcatAssociates
  <2>2. Cat(Cat(h, k), s) = Cat(h, Cat(k, s))
    BY <1>9, <1>10, <2>1 DEF Associates
  <2> QED BY <2>2 DEF Cat
<1>13. r.request = (<<cmd, "SP">> \o y) \o <<"CR", "LF">>
  BY <1>7, <1>12
<1>14. L[n] \in Nat /\ L[n] >= n
  <2>1. L \in [0 .. n -> Nat] /\ L[0] = 0 /\ \A i \in 1 .. n : L[i] = L[i - 1] + Len(t[i])
    BY <1>2, <1>4 DEF Ends
  <2> DEFINE A == {i \in Nat : i <= n => L[i] >= i}
  <2>2. 0 \in A
    BY <2>1
  <2>3. ASSUME NEW i \in 1 .. n, i - 1 \in A PROVE i \in A
    <3> DEFINE e == L[i - 1]
               f == L[i]
               q == Len(t[i])
    <3>1. i - 1 \in 0 .. n /\ i \in Nat /\ i - 1 <= n
      BY <1>1
    <3>2. e \in Nat /\ e >= i - 1 /\ f = e + q /\ q \in Nat
      BY <1>4, <2>1, <2>3, <3>1
    <3>3. q >= 1
      BY <1>4 DEF Part
    <3> HIDE DEF e, f, q
    <3>4. f >= i
      BY <3>1, <3>2, <3>3
    <3> QED BY <3>1, <3>4 DEF f
  <2> HIDE DEF A
  <2>4. n \in A /\ n \in 0 .. n
    <3>1. n \in 0 .. n
      BY <1>1
    <3>2. \A i \in 0 .. n : i \in A
      BY <1>1, <2>2, <2>3, UpTo
    <3> QED BY <3>1, <3>2
  <2> QED BY <1>1, <2>1, <2>4 DEF A
<1>15. Len(y) >= 1 /\ r.size = Len(y) + 4 /\ r.size \in Nat /\ r.size >= 5
  <2> DEFINE a == Len(y)
             b == Len(k)
             c == Len(s)
             l == L[n]
             g == r.size
  <2>1. a = b + c /\ b \in Nat /\ c \in Nat /\ c = l + n - 1 /\ l \in Nat /\ l >= n
    BY <1>5, <1>11, <1>14
  <2>2. g = 1 + 3 + l + n - 1 + b
    BY <1>1, <1>2, <1>7
  <2> HIDE DEF a, b, c, l, g, y
  <2>3. a >= 1 /\ g = a + 4 /\ g \in Nat /\ g >= 5
    BY <1>1, <1>21, <2>1, <2>2
  <2> QED BY <2>3 DEF a, g
<1> DEFINE line == r.request
<1> HIDE DEF y
<1>16. /\ line \in Seq(T) /\ Len(line) = Len(y) + 4 /\ line[1] = cmd
       /\ line[Len(line)] = "LF" /\ line[Len(line) - 1] = "CR" /\ SubSeq(line, 3, Len(line) - 2) = y
  <2>1. LET q == (<<cmd, "SP">> \o y) \o <<"CR", "LF">> IN
           /\ q \in Seq(T) /\ Len(y) \in Nat /\ Len(q) = Len(y) + 4 /\ q[1] = cmd
           /\ q[Len(q)] = "LF" /\ q[Len(q) - 1] = "CR" /\ SubSeq(q, 3, Len(q) - 2) = y
    BY <1>9, <1>10, <1>15, LineOf
  <2> QED BY <1>13, <2>1
<1> HIDE DEF line
<1>17. strtok(y) = Texts(u)
  <2>1. Texts(u) \in Seq(Seq(ArgText))
    BY <1>8, TextsType
  <2> QED BY <1>8, <2>1, StrtokParts
<1>18. PairsOf(line) = u
  <2> DEFINE x == Texts(u)
             F(i) == <<mfs_tracker_url_decode(KeyOf(x[i])), mfs_tracker_url_decode(ValueOf(x[i]))>>
  <2>1. PairsOf(line) = [i \in DOMAIN x |-> F(i)]
    BY <1>16, <1>17, Zenon DEF PairsOf
  <2>2. Len(u) \in Nat /\ x \in Seq(Seq(ArgText)) /\ Len(x) = Len(u) /\ DOMAIN x = 1 .. Len(u)
        /\ \A i \in 1 .. Len(u) : u[i] \in ArgPairs /\ x[i] = Piece(u[i])
    <3> HIDE DEF u
    <3>1. /\ Len(u) \in Nat /\ x \in Seq(Seq(ArgText)) /\ Len(x) = Len(u)
          /\ \A i \in 1 .. Len(u) : u[i] \in ArgPairs /\ x[i] = Piece(u[i])
      BY <1>8, TextsType
    <3> HIDE DEF x
    <3>2. DOMAIN x = 1 .. Len(u)
      BY <3>1
    <3> QED BY <3>1, <3>2
  <2>3. ASSUME NEW i \in 1 .. Len(u) PROVE F(i) = u[i]
    <3> HIDE DEF u, x
    <3>1. u[i] \in ArgPairs /\ x[i] = Piece(u[i])
      BY <2>2
    <3>2. /\ u[i] = <<u[i][1], u[i][2]>> /\ mfs_tracker_url_decode(KeyOf(Piece(u[i]))) = u[i][1]
          /\ mfs_tracker_url_decode(ValueOf(Piece(u[i]))) = u[i][2]
      BY <3>1, PieceFacts
    <3> QED BY <3>1, <3>2
  <2> HIDE DEF F, u, x
  <2>4. u = [i \in 1 .. Len(u) |-> u[i]]
    BY <1>8
  <2> QED BY <2>1, <2>2, <2>3, <2>4
<1>19. /\ line \in Seq(T) /\ r.size \in Nat /\ r.size >= 5 /\ Len(line) = r.size
       /\ line[1] = cmd /\ line[r.size] = "LF" /\ line[r.size - 1] = "CR" /\ PairsOf(line) = u
  BY <1>15, <1>16, <1>18
<1>20. Reads(r, cmd, u)
  BY <1>19 DEF Reads, line, T
<1> QED BY <1>20 DEF u, m, r
-------------------------------------------------------------------------------
(* What the caller meant.                                                    *)

\* Metadata pairs are counted one by one.
LEMMA MetasStart == Metas(0) = 0
<1>1. {i \in 1 .. 0 : given[i][3]} = {}
  OBVIOUS
<1> QED BY <1>1, FS_EmptySet DEF Metas

\* A finite number.
LEMMA MetasFinite == ASSUME NEW n \in Nat PROVE IsFiniteSet({i \in 1 .. n : given[i][3]}) /\ Metas(n) \in Nat
<1>1. IsFiniteSet(1 .. n)
  BY FS_Interval
<1>2. {i \in 1 .. n : given[i][3]} \subseteq 1 .. n
  OBVIOUS
<1>3. IsFiniteSet({i \in 1 .. n : given[i][3]})
  BY <1>1, <1>2, FS_Subset
<1> QED BY <1>3, FS_CardinalityType DEF Metas

\* One more or none.
LEMMA MetasMore ==
    ASSUME NEW n \in Nat, n >= 1, given[n][3] \in BOOLEAN
    PROVE  Metas(n) = Metas(n - 1) + (IF given[n][3] THEN 1 ELSE 0)
<1> DEFINE Q(k) == {i \in 1 .. k : given[i][3]}
<1>1. n - 1 \in Nat
  OBVIOUS
<1>2. IsFiniteSet(Q(n - 1)) /\ Metas(n - 1) \in Nat
  BY <1>1, MetasFinite
<1>3. Metas(n) = Cardinality(Q(n)) /\ Metas(n - 1) = Cardinality(Q(n - 1))
  BY DEF Metas
<1>4. \A i \in 1 .. n : i \in 1 .. n - 1 \/ i = n
  OBVIOUS
<1>5. (\A i \in 1 .. n - 1 : i \in 1 .. n) /\ n \in 1 .. n /\ n \notin 1 .. n - 1
  OBVIOUS
<1>6. CASE given[n][3] = TRUE
  <2>1. Q(n) = Q(n - 1) \cup {n} /\ n \notin Q(n - 1)
    BY <1>4, <1>5, <1>6, Zenon
  <2> HIDE DEF Q
  <2>2. Cardinality(Q(n - 1) \cup {n}) = Cardinality(Q(n - 1)) + 1
    BY <1>2, <2>1, FS_AddElement
  <2> QED BY <1>3, <1>6, <2>1, <2>2
<1>7. CASE given[n][3] = FALSE
  <2>1. Q(n) = Q(n - 1)
    BY <1>4, <1>5, <1>7, Zenon
  <2> HIDE DEF Q
  <2> QED BY <1>2, <1>3, <1>7, <2>1
<1> QED BY <1>6, <1>7

\* What the tracker should read for one of the caller's.
LEMMA NamedIs ==
    ASSUME NEW i \in 1 .. Len(given), given \in Seq(Gifts)
    PROVE  /\ given[i] \in Gifts /\ given[i][3] \in BOOLEAN
           /\ Named(i) = Meant(given[i], Metas(i - 1)) /\ Named(i) \in Seq(ArgPairs)
<1>1. given[i] \in Gifts
  OBVIOUS
<1>2. given[i][1] \in Seq(ArgTokens) /\ given[i][2] \in Seq(ArgTokens) /\ given[i][3] \in BOOLEAN
  BY <1>1, KeysType DEF Gifts
<1>3. Named(i) = Meant(given[i], Metas(i - 1))
  BY DEF Named, Meant
<1>4. i - 1 \in Nat
  OBVIOUS
<1>5. Metas(i - 1) \in Nat
  BY <1>4, MetasFinite
<1>6. CASE given[i][3] = TRUE
  <2> DEFINE p == <<MetaName("key", Metas(i - 1)), given[i][1]>>
             q == <<MetaName("value", Metas(i - 1)), given[i][2]>>
  <2>1. MetaName("key", Metas(i - 1)) \in Seq(ArgTokens) /\ MetaName("value", Metas(i - 1)) \in Seq(ArgTokens)
    BY <1>5, MetaType
  <2>2. p \in ArgPairs /\ q \in ArgPairs
    BY <1>2, <2>1 DEF ArgPairs
  <2>3. Named(i) = <<p, q>>
    BY <1>6 DEF Named
  <2> HIDE DEF p, q
  <2>4. Named(i) \in Seq(ArgPairs)
    BY <2>2, <2>3
  <2> QED BY <1>1, <1>2, <1>3, <2>4, Zenon
<1>7. CASE given[i][3] = FALSE
  <2> DEFINE p == <<given[i][1], given[i][2]>>
  <2>2. p \in ArgPairs
    BY <1>2 DEF ArgPairs
  <2>3. Named(i) = <<p>>
    BY <1>7 DEF Named
  <2> HIDE DEF p
  <2>4. Named(i) \in Seq(ArgPairs)
    BY <2>2, <2>3
  <2> QED BY <1>1, <1>2, <1>3, <2>4, Zenon
<1> QED BY <1>2, <1>6, <1>7

\* What the caller meant by its list.
Asked == FlattenSeq([i \in DOMAIN given |-> Named(i)])

\* mfs_tracker_copy_parameter_pointers copies what the caller meant.
LEMMA CopiedIs ==
    ASSUME Extras
    PROVE  LET ps == mfs_tracker_copy_parameter_pointers(extra, mfs_tracker_init_parameters) IN
           Lists(ps, Asked) /\ ps.meta_count = Metas(Len(given))
<1> DEFINE n == Len(given)
           init == mfs_tracker_init_parameters
           ps == mfs_tracker_copy_parameter_pointers(extra, init)
           F(i) == Named(i)
           ss == [i \in 1 .. n |-> F(i)]
<1>1. given \in Seq(Gifts) /\ n \in Nat /\ DOMAIN given = 1 .. n
  BY DEF Extras
<1>2. extra.head = [i \in 1 .. n |-> Kept(given[i])] /\ Len(extra.head) = n
      /\ \A i \in 1 .. n : extra.head[i] = Kept(given[i])
  <2> DEFINE K(i) == Kept(given[i])
             g == [i \in 1 .. n |-> K(i)]
  <2>1. extra.head = g
    BY DEF Extras
  <2> HIDE DEF K, n
  <2>2. Len(g) = n /\ \A i \in 1 .. n : g[i] = K(i)
    BY <1>1
  <2> QED BY <2>1, <2>2 DEF K
<1>3. PICK f : Copying(f, extra, init) /\ ps = f[n]
  <2>1. Len(extra.head) \in Nat
    BY <1>1, <1>2
  <2>2. \E f : Copying(f, extra, init) /\ ps = f[Len(extra.head)]
    BY <2>1, CopyIs
  <2> QED BY <1>2, <2>2
<1>4. f[0] = init /\ \A i \in 1 .. n : f[i] = copy_parameter(Kept(given[i]), f[i - 1])
  <2>1. f = [i \in 0 .. n |-> CopyFrom(f, extra, init, i)]
    BY <1>2, <1>3 DEF Copying
  <2>2. 0 \in 0 .. n /\ \A i \in 1 .. n : i \in 0 .. n /\ i # 0
    BY <1>1
  <2>3. f[0] = CopyFrom(f, extra, init, 0) /\ \A i \in 1 .. n : f[i] = CopyFrom(f, extra, init, i)
    BY <2>1, <2>2
  <2> HIDE DEF n, init, ps
  <2> QED BY <1>2, <2>2, <2>3 DEF CopyFrom
<1>5. \A i \in 1 .. n : given[i] \in Gifts /\ given[i][3] \in BOOLEAN
                        /\ F(i) = Meant(given[i], Metas(i - 1)) /\ F(i) \in Seq(ArgPairs)
  BY <1>1, NamedIs
<1>6. Asked = FlattenSeq(ss)
  BY <1>1 DEF Asked
<1>20. Lists(init, << >>) /\ init.meta_count = 0
  BY ListsNothing
<1> HIDE DEF F, n, init, ps
<1>7. ss \in Seq(Seq(ArgPairs)) /\ Len(ss) = n /\ \A i \in 1 .. n : ss[i] = F(i)
  BY <1>1, <1>5
<1> HIDE DEF ss
<1>8. CASE n = 0
  <2>1. ss = << >>
    BY <1>7, <1>8, EmptySeq
  <2>2. Asked = << >>
    BY <1>6, <2>1 DEF FlattenSeq
  <2>3. ps = init
    BY <1>3, <1>4, <1>8
  <2>4. Metas(n) = 0
    BY <1>8, MetasStart
  <2> QED BY <1>20, <2>2, <2>3, <2>4 DEF ps, init, n
<1>9. CASE n # 0
  <2>1. ss # << >>
    BY <1>7, <1>9
  <2>2. PICK g : Flattened(g, ss) /\ FlattenSeq(ss) = g[n]
    BY <1>7, <2>1, FlattenIs
  <2>3. \A i \in 1 .. n : g[i] = IF i = 1 THEN ss[i] ELSE g[i - 1] \o ss[i]
    BY <1>7, <2>2 DEF Flattened
  <2> DEFINE G(k) == IF k = 0 THEN << >> ELSE g[k]
             A == {k \in Nat : k <= n => Lists(f[k], G(k)) /\ f[k].meta_count = Metas(k)}
  <2>4. 0 \in A
    BY <1>4, <1>20, MetasStart
  <2>5. ASSUME NEW k \in 1 .. n, k - 1 \in A PROVE k \in A
    <3>1. k \in Nat /\ k >= 1 /\ k - 1 \in Nat /\ k - 1 <= n /\ k # 0
      BY <1>1
    <3>2. Lists(f[k - 1], G(k - 1)) /\ f[k - 1].meta_count = Metas(k - 1)
      BY <2>5, <3>1
    <3>3. Metas(k - 1) \in Nat
      BY <3>1, MetasFinite
    <3>4. f[k] = copy_parameter(Kept(given[k]), f[k - 1]) /\ given[k] \in Gifts /\ given[k][3] \in BOOLEAN
          /\ F(k) = Meant(given[k], Metas(k - 1)) /\ F(k) \in Seq(ArgPairs)
      BY <1>4, <1>5
    <3> DEFINE a == f[k - 1]
               b == G(k - 1)
               e == given[k]
               q == copy_parameter(Kept(e), a)
    <3>5. Lists(a, b) /\ e \in Gifts /\ a.meta_count \in Nat
      BY <3>2, <3>3, <3>4
    <3> HIDE DEF a, b, e
    <3>6. Lists(q, b \o Meant(e, a.meta_count)) /\ q.meta_count = a.meta_count + (IF e[3] THEN 1 ELSE 0)
      BY <3>5, CopyLists
    <3>7. f[k] = q /\ a.meta_count = Metas(k - 1) /\ Meant(e, a.meta_count) = F(k)
      BY <3>2, <3>4 DEF a, e
    <3>8. f[k].meta_count = Metas(k)
      <4>1. Metas(k) = Metas(k - 1) + (IF given[k][3] THEN 1 ELSE 0)
        BY <3>1, <3>4, MetasMore
      <4> QED BY <3>6, <3>7, <4>1 DEF e
    <3>9. G(k) = b \o F(k)
      <4>1. G(k) = g[k] /\ ss[k] = F(k)
        BY <1>7, <3>1
      <4>2. CASE k = 1
        <5>1. b = << >>
          BY <4>2 DEF b
        <5>2. g[k] = F(k)
          BY <2>3, <4>1, <4>2
        <5>3. << >> \o F(k) = F(k)
          BY <3>4, NothingBefore
        <5> QED BY <4>1, <5>1, <5>2, <5>3
      <4>3. CASE k # 1
        <5>1. k - 1 # 0
          BY <3>1, <4>3
        <5>2. b = g[k - 1]
          BY <5>1 DEF b
        <5>3. g[k] = g[k - 1] \o F(k)
          BY <2>3, <4>1, <4>3
        <5> QED BY <4>1, <5>2, <5>3
      <4> QED BY <4>2, <4>3
    <3> HIDE DEF G, q
    <3>10. Lists(f[k], G(k))
      BY <3>6, <3>7, <3>9
    <3> QED BY <3>1, <3>8, <3>10
  <2> HIDE DEF A
  <2>6. n \in A
    <3>1. n \in 0 .. n
      BY <1>1
    <3>2. \A k \in 0 .. n : k \in A
      BY <1>1, <2>4, <2>5, UpTo
    <3> QED BY <3>1, <3>2
  <2>7. Lists(f[n], G(n)) /\ f[n].meta_count = Metas(n)
    BY <1>1, <2>6 DEF A
  <2>8. G(n) = Asked
    BY <1>6, <1>9, <2>2
  <2> HIDE DEF G
  <2> QED BY <1>3, <2>7, <2>8 DEF ps, init, n
<1> QED BY <1>8, <1>9
-------------------------------------------------------------------------------
(* What is sent.                                                             *)

\* The parameters of the request: what the caller meant, then the command's own.
LEMMA RequestHolds ==
    ASSUME Extras, Sendable(call)
    PROVE  \E ps : /\ Lists(ps, Asked \o call.pairs) /\ ps.meta_count = Metas(Len(given))
                   /\ Request = mfs_tracker_build_request(call.cmd, ps)
<1> DEFINE base == mfs_tracker_copy_parameter_pointers(extra, mfs_tracker_init_parameters)
           pairs == call.pairs
           n == Len(pairs)
           m == Metas(Len(given))
           a == Asked
           l == Len(a)
           c == a \o pairs
<1>1. Lists(base, a) /\ base.meta_count = m
  BY CopiedIs
<1>2. pairs \in Seq(ArgPairs) /\ n \in Nat /\ \A i \in 1 .. n : pairs[i] \in ArgPairs
  BY DEF Sendable
<1>3. PICK f : Adding(f, base, pairs) /\ Request = mfs_tracker_build_request(call.cmd, f[n])
  BY <1>2, RequestIs
<1>4. a \in Seq(ArgPairs) /\ l \in Nat
  BY <1>1 DEF Lists
<1>5. f[0] = base /\ \A i \in 1 .. n : f[i] = mfs_tracker_add_parameter(f[i - 1], pairs[i][1], pairs[i][2])
  <2>1. f = [i \in 0 .. n |-> AddFrom(f, base, pairs, i)]
    BY <1>3 DEF Adding
  <2>2. 0 \in 0 .. n /\ \A i \in 1 .. n : i \in 0 .. n /\ i # 0
    BY <1>2
  <2>3. f[0] = AddFrom(f, base, pairs, 0) /\ \A i \in 1 .. n : f[i] = AddFrom(f, base, pairs, i)
    BY <2>1, <2>2
  <2> HIDE DEF n, base, pairs
  <2> QED BY <2>2, <2>3 DEF AddFrom
<1>6. /\ c \in Seq(ArgPairs) /\ Len(c) = l + n
      /\ (\A q \in 1 .. l : c[q] = a[q]) /\ (\A j \in 1 .. n : c[l + j] = pairs[j])
  <2> HIDE DEF a, pairs
  <2>1. a \in Seq(ArgPairs) /\ pairs \in Seq(ArgPairs)
    BY <1>2, <1>4
  <2> QED BY <2>1, ConcatAt
<1> HIDE DEF base, pairs, n, m, a, l, c
<1> DEFINE Upto(w, k) == /\ Len(w) = l + k /\ (\A q \in 1 .. l : w[q] = a[q])
                         /\ \A j \in 1 .. k : w[l + j] = pairs[j]
           Q(k) == f[k].meta_count = m /\ \E w : Lists(f[k], w) /\ Upto(w, k)
           A == {k \in Nat : k <= n => Q(k)}
<1>7. 0 \in A
  <2>1. l + 0 = l /\ l = Len(a) /\ 1 .. 0 = {}
    BY <1>4 DEF l
  <2>2. Upto(a, 0)
    BY <2>1
  <2> HIDE DEF Upto
  <2>3. Q(0)
    BY <1>1, <1>5, <2>2
  <2> QED BY <2>3
<1>8. ASSUME NEW k \in 1 .. n, k - 1 \in A PROVE k \in A
  <2>1. k \in Nat /\ k - 1 \in Nat /\ k - 1 <= n /\ k >= 1
    BY <1>2
  <2> HIDE DEF Upto
  <2>2. Q(k - 1)
    BY <1>8, <2>1
  <2>3. PICK w : Lists(f[k - 1], w) /\ Upto(w, k - 1)
    BY <2>2
  <2>4. pairs[k] \in ArgPairs /\ pairs[k][1] \in Seq(ArgTokens) /\ pairs[k][2] \in Seq(ArgTokens)
        /\ pairs[k] = <<pairs[k][1], pairs[k][2]>>
    BY <1>2, PieceFacts
  <2> DEFINE u == Append(w, pairs[k])
  <2>5. Lists(f[k], u) /\ f[k].meta_count = m
    <3> DEFINE g == f[k - 1]
               x == pairs[k][1]
               y == pairs[k][2]
               q == mfs_tracker_add_parameter(g, x, y)
    <3>1. Lists(g, w) /\ g.meta_count = m /\ x \in Seq(ArgTokens) /\ y \in Seq(ArgTokens) /\ f[k] = q
      BY <1>5, <2>2, <2>3, <2>4
    <3>2. pairs[k] = <<x, y>>
      BY <2>4
    <3> HIDE DEF g, x, y
    <3>3. Lists(q, Append(w, <<x, y>>)) /\ q.meta_count = g.meta_count
      BY <3>1, AddLists
    <3> QED BY <3>1, <3>2, <3>3
  <2>6. w \in Seq(ArgPairs)
    BY <2>3 DEF Lists
  <2>7. /\ Len(u) = Len(w) + 1 /\ (\A i \in 1 .. Len(w) : u[i] = w[i]) /\ u[Len(w) + 1] = pairs[k]
    BY <2>4, <2>6, AppendProperties
  <2>8. /\ Len(w) = l + (k - 1) /\ (\A q \in 1 .. l : w[q] = a[q])
        /\ \A j \in 1 .. k - 1 : w[l + j] = pairs[j]
    BY <2>3 DEF Upto
  <2> HIDE DEF u
  <2>9. Len(w) + 1 = l + k /\ (\A q \in 1 .. l : q \in 1 .. Len(w)) /\ \A j \in 1 .. k - 1 : l + j \in 1 .. Len(w)
    <3> DEFINE h == Len(w)
    <3>1. h = l + (k - 1)
      BY <2>8
    <3> HIDE DEF h
    <3>2. h + 1 = l + k /\ (\A q \in 1 .. l : q \in 1 .. h) /\ \A j \in 1 .. k - 1 : l + j \in 1 .. h
      BY <1>4, <2>1, <3>1
    <3> QED BY <3>2 DEF h
  <2>10. Upto(u, k)
    <3>1. Len(u) = l + k /\ \A q \in 1 .. l : u[q] = a[q]
      BY <2>7, <2>8, <2>9
    <3>2. \A j \in 1 .. k - 1 : u[l + j] = pairs[j]
      BY <2>7, <2>8, <2>9
    <3>3. u[l + k] = pairs[k]
      BY <2>7, <2>9
    <3>4. \A j \in 1 .. k : j \in 1 .. k - 1 \/ j = k
      BY <2>1
    <3>5. \A j \in 1 .. k : u[l + j] = pairs[j]
      BY <3>2, <3>3, <3>4
    <3> QED BY <3>1, <3>5 DEF Upto
  <2> QED BY <2>1, <2>5, <2>10
<1> HIDE DEF A
<1>9. n \in A
  <2>1. n \in 0 .. n
    BY <1>2
  <2>2. \A k \in 0 .. n : k \in A
    BY <1>2, <1>7, <1>8, UpTo
  <2> QED BY <2>1, <2>2
<1>10. Q(n)
  <2> HIDE DEF Q
  <2> QED BY <1>2, <1>9 DEF A
<1>11. PICK w : Lists(f[n], w) /\ Upto(w, n)
  BY <1>10
<1>12. w = c
  <2>1. w \in Seq(ArgPairs)
    BY <1>11 DEF Lists
  <2>2. Len(w) = l + n /\ (\A q \in 1 .. l : w[q] = a[q]) /\ \A j \in 1 .. n : w[l + j] = pairs[j]
    BY <1>11 DEF Upto
  <2>3. ASSUME NEW i \in 1 .. l + n PROVE w[i] = c[i]
    <3>1. CASE i \in 1 .. l
      BY <1>6, <2>2, <3>1
    <3>2. CASE i \notin 1 .. l
      <4>1. i - l \in 1 .. n /\ l + (i - l) = i
        BY <1>2, <1>4, <3>2
      <4>2. w[l + (i - l)] = pairs[i - l] /\ c[l + (i - l)] = pairs[i - l]
        BY <1>6, <2>2, <4>1
      <4> QED BY <4>1, <4>2
    <3> QED BY <3>1, <3>2
  <2> QED BY <1>6, <2>1, <2>2, <2>3, SeqEqual
<1>13. Lists(f[n], c) /\ f[n].meta_count = m
  BY <1>10, <1>11, <1>12
<1> QED BY <1>3, <1>13 DEF c, a, pairs, m

\* The request line as the tracker reads it.
LEMMA LineRead ==
    ASSUME Extras, call \in Calls
    PROVE  Reads(Request, call.cmd, Wanted) /\ call.cmd # "LF"
<1> DEFINE m == Metas(Len(given))
           a == Asked
           p == call.pairs
           k == MetaPair(m)
<1>1. Sendable(call)
  BY CallsSendable
<1>2. p \in Seq(ArgPairs) /\ Len(p) >= 1 /\ call.cmd # "LF"
  BY <1>1 DEF Sendable
<1>3. PICK ps : Lists(ps, a \o p) /\ ps.meta_count = m /\ Request = mfs_tracker_build_request(call.cmd, ps)
  BY <1>1, RequestHolds
<1>4. a \in Seq(ArgPairs)
  <2>1. Lists(mfs_tracker_copy_parameter_pointers(extra, mfs_tracker_init_parameters), a)
    BY CopiedIs
  <2> QED BY <2>1 DEF Lists
<1>5. m \in Nat
  <2>1. Len(given) \in Nat
    BY DEF Extras
  <2> QED BY <2>1, MetasFinite
<1>6. k \in Seq(ArgPairs)
  <2>1. CASE m = 0
    <3>1. k = << >>
      BY <2>1 DEF MetaPair
    <3> QED BY <3>1
  <2>2. CASE m # 0
    <3> DEFINE q == << <<"plugin.meta.", "keys">>, Decimal(m)>>
    <3> HIDE DEF m
    <3>1. q \in ArgPairs
      BY <1>5, MetaPiece
    <3>2. k = <<q>>
      BY <2>2 DEF MetaPair
    <3> HIDE DEF q
    <3> QED BY <3>1, <3>2
  <2> QED BY <2>1, <2>2
<1>7. Wanted = (k \o a) \o p
  BY Zenon DEF Wanted, MetaPair, Asked
<1> HIDE DEF m, a, p, k
<1>8. (k \o a) \o p = k \o (a \o p)
  <2>1. Associates(ArgPairs)
    BY ConcatAssociates
  <2>2. Cat(Cat(k, a), p) = Cat(k, Cat(a, p))
    BY <1>2, <1>4, <1>6, <2>1 DEF Associates
  <2> QED BY <2>2 DEF Cat
<1>9. Len(a \o p) >= 1
  <2>1. Len(a \o p) = Len(a) + Len(p) /\ Len(a) \in Nat /\ Len(p) \in Nat
    <3>1. a \in Seq(ArgPairs) /\ p \in Seq(ArgPairs)
      BY <1>2, <1>4
    <3> QED BY <3>1, ConcatAt
  <2> DEFINE x == Len(a)
             y == Len(p)
             z == Len(a \o p)
  <2>2. z = x + y /\ x \in Nat /\ y \in Nat /\ y >= 1
    BY <1>2, <2>1
  <2> HIDE DEF x, y, z
  <2>3. z >= 1
    BY <2>2
  <2> QED BY <2>3 DEF z
<1> DEFINE w == a \o p
<1>10. Lists(ps, w) /\ Len(w) >= 1 /\ ps.meta_count \in Nat
  BY <1>3, <1>5, <1>9
<1>11. Wanted = MetaPair(ps.meta_count) \o w
  BY <1>3, <1>7, <1>8 DEF k
<1> HIDE DEF w
<1>12. \A cmd : Reads(mfs_tracker_build_request(cmd, ps), cmd, MetaPair(ps.meta_count) \o w)
  BY <1>10, ReadBack
<1> QED BY <1>2, <1>3, <1>11, <1>12

\* While a request waits for its answer, the tracker has a first part of it.
Sending ==
    pc = "receive" /\ reply = NULL =>
        \E n \in {1, Request.size - 1, Request.size} : sent = SubSeq(Request.request, 1, n)

\* Nothing was sent at first.
LEMMA SendingInit == Init => Sending
  BY DEF Init, Sending

\* The request is that of the call and the list.
LEMMA RequestSame == ASSUME call' = call, extra' = extra PROVE Request' = Request
  BY Zenon DEF Request

\* Every step keeps it.
LEMMA SendingStep == Sending /\ [Next]_vars => Sending'
<1> SUFFICES ASSUME Sending, [Next]_vars PROVE Sending'
  OBVIOUS
<1>0. ASSUME pc' # "receive" PROVE Sending'
  BY <1>0 DEF Sending
<1>1. ASSUME pc = "receive", UNCHANGED <<sent, call, extra>>, reply' = NULL => reply = NULL PROVE Sending'
  <2>1. Request' = Request
    BY <1>1, RequestSame
  <2> QED BY <1>1, <2>1 DEF Sending
<1>2. ASSUME NEW k \in Keys, NEW m \in BOOLEAN, add_extra(k, k, m) PROVE Sending'
  BY <1>0, <1>2 DEF add_extra
<1>3. ASSUME NEW c \in Calls, begin(c) PROVE Sending'
  BY <1>0, <1>3 DEF begin
<1>4. CASE no_connection \/ socket_error
  BY <1>0, <1>4 DEF no_connection, socket_error
<1>5. CASE send_request
  <2>1. Request' = Request
    <3>1. call' = call /\ extra' = extra
      BY <1>5 DEF send_request
    <3> QED BY <3>1, RequestSame
  <2>2. \E n \in {1, Request.size - 1, Request.size} : sent' = SubSeq(Request.request, 1, n)
    BY <1>5 DEF send_request
  <2> QED BY <2>1, <2>2 DEF Sending
<1>6. CASE answer
  <2>1. pc = "receive" /\ UNCHANGED <<sent, call, extra>> /\ reply = NULL
    BY <1>6 DEF answer
  <2> QED BY <1>1, <2>1
<1>7. CASE receive
  <2>1. pc = "receive" /\ UNCHANGED <<sent, call, extra, reply>>
    BY <1>7 DEF receive
  <2> QED BY <1>1, <2>1
<1>8. CASE parse
  <2>1. pc' # "receive"
    BY <1>8 DEF parse
  <2> QED BY <1>0, <2>1
<1>9. ASSUME NEW cmds, NEW answered, Finish(cmds, answered) PROVE Sending'
  BY <1>0, <1>9 DEF Finish
<1>10. CASE return_failure
  <2>1. pc' # "receive"
    BY <1>10 DEF return_failure
  <2> QED BY <1>0, <2>1
<1>11. CASE UNCHANGED vars
  <2>1. UNCHANGED <<pc, sent, call, extra, reply>>
    BY <1>11 DEF vars, attemptVars
  <2> QED BY <1>0, <1>1, <2>1
<1> QED
  BY <1>2, <1>3, <1>4, <1>5, <1>6, <1>7, <1>8, <1>9, <1>10, <1>11
  DEF Next, returned, finish_get_paths, finish_plain, finish_delete_node, finish_create_node,
      finish_list_directory, finish_path_info, finish_stats, finish_check_fs

\* The parts of a line that do not end in LF are no whole lines; the whole is read back.
LEMMA RequestExactFrom == Running /\ Extras /\ Sending => RequestExact
<1> SUFFICES ASSUME Running, Extras, Sending, pc = "receive", reply = NULL
             PROVE  /\ Len(Request.request) = Request.size
                    /\ WholeLine(sent) => sent[1] = call.cmd /\ PairsOf(sent) = Wanted
  BY DEF RequestExact
<1> DEFINE q == Request.request
           z == Request.size
           c == call.cmd
           T == ArgText \cup {c, "SP", "CR", "LF"}
<1>1. call \in Calls
  BY DEF Running
<1>2. /\ q \in Seq(T) /\ z \in Nat /\ z >= 5 /\ Len(q) = z /\ q[1] = c /\ q[z] = "LF" /\ q[z - 1] = "CR"
      /\ PairsOf(q) = Wanted /\ c # "LF"
  <2>1. Reads(Request, c, Wanted) /\ c # "LF"
    BY <1>1, LineRead
  <2> HIDE DEF c
  <2> QED BY <2>1 DEF Reads
<1>3. PICK n \in {1, z - 1, z} : sent = SubSeq(q, 1, n)
  BY DEF Sending
<1> HIDE DEF q, z, c, T
<1>4. \A j \in 1 .. z : q[j] \in T
  BY <1>2
<1>5. ASSUME NEW k \in 1 .. z PROVE LET s == SubSeq(q, 1, k) IN Len(s) = k /\ \A j \in 1 .. k : s[j] = q[j]
  <2> DEFINE s == SubSeq(q, 1, k)
  <2>1. k \in Nat /\ k >= 1 /\ k <= z /\ 1 \in Nat /\ k - 1 + 1 = k /\ \A j \in 1 .. k : 1 + j - 1 = j /\ j \in 1 .. z
    BY <1>2
  <2>2. \A j \in 1 .. k : q[j] \in T
    BY <1>4, <2>1
  <2>3. Len(s) = (IF 1 <= k THEN k - 1 + 1 ELSE 0) /\ \A j \in 1 .. k - 1 + 1 : s[j] = q[1 + j - 1]
    BY <2>1, <2>2, SubSeqProperties
  <2> HIDE DEF s
  <2>4. Len(s) = k /\ \A j \in 1 .. k : s[j] = q[j]
    BY <2>1, <2>3
  <2> QED BY <2>4 DEF s
<1>6. CASE n = 1
  <2>1. 1 \in 1 .. z /\ 1 \in 1 .. 1
    BY <1>2
  <2>2. Len(sent) = 1 /\ sent[1] = q[1]
    BY <1>3, <1>5, <1>6, <2>1
  <2>3. ~WholeLine(sent)
    BY <1>2, <2>2 DEF WholeLine
  <2> QED BY <1>2, <2>3 DEF q, z
<1>7. CASE n = z - 1
  <2>1. z - 1 \in 1 .. z /\ z - 1 \in 1 .. z - 1
    BY <1>2
  <2>2. Len(sent) = z - 1 /\ sent[z - 1] = q[z - 1]
    BY <1>3, <1>5, <1>7, <2>1
  <2>3. ~WholeLine(sent)
    BY <1>2, <2>2 DEF WholeLine
  <2> QED BY <1>2, <2>3 DEF q, z
<1>8. CASE n = z
  <2>1. sent = q
    BY <1>2, <1>3, <1>8, SubSeqFull
  <2> QED BY <1>2, <2>1 DEF q, z, c
<1> QED BY <1>3, <1>6, <1>7, <1>8

\* For any number of extra parameters and metadata: the request fills its buffer to
\* the last byte, and a tracker that gets the whole line reads from it the command
\* and exactly the pairs the caller meant (tracker.c:79-150, 269-309).
THEOREM RequestCorrect == Spec => []RequestExact
<1>1. Spec => []Sending
  BY SendingInit, SendingStep, PTL DEF Spec
<1> QED BY <1>1, AlwaysRunning, AlwaysExtras, RequestExactFrom, PTL
===============================================================================
