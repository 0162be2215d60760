-------------------------- MODULE FrameStreamProofs --------------------------
(***************************************************************************)
(* Proofs about FrameStream, for any greetings and messages a server may   *)
(* send (ServerSpeaks), any number of them, and every way in which recv()  *)
(* may cut the stream: the reader is in step with the server, the framing  *)
(* implements MessageChannel, and the server understands the answers.      *)
(*                                                                         *)
(* The invariant says of each stage which bytes of the server's the reader *)
(* has and which are to come.  It rests on two facts about the formats:    *)
(* what writef wrote of an argument readf reads back (ConversionComesBack), *)
(* and the bytes behind the first n arguments begin with those of the next *)
(* (SuffixStep).  What the client writes is read back in the same way, by  *)
(* the server (ClientSpeaks says what the client may write), and answers   *)
(* what it has handled (Answered).                                         *)
(***************************************************************************)
EXTENDS FrameStream, SequenceTheorems, WellFoundedInduction, TLAPS

-----------------------------------------------------------------------------
(* Cutting and joining byte strings.                                       *)

\* A sequence is its first k elements and the rest.
LEMMA TakeDrop ==
    ASSUME NEW S, NEW s \in Seq(S), NEW k \in 0..Len(s)
    PROVE  /\ SubSeq(s, 1, k) \in Seq(S) /\ Len(SubSeq(s, 1, k)) = k
           /\ SubSeq(s, k + 1, Len(s)) \in Seq(S) /\ Len(SubSeq(s, k + 1, Len(s))) = Len(s) - k
           /\ SubSeq(s, 1, k) \o SubSeq(s, k + 1, Len(s)) = s
<1>1. Len(s) \in Nat /\ \A i \in 1..Len(s) : s[i] \in S
  OBVIOUS
<1>2. SubSeq(s, 1, k) \in Seq(S) /\ Len(SubSeq(s, 1, k)) = k
  <2>1. \A i \in 1..k : s[i] \in S
    BY <1>1
  <2> QED BY <1>1, <2>1, SubSeqProperties
<1>3. /\ SubSeq(s, k + 1, Len(s)) \in Seq(S)
      /\ Len(SubSeq(s, k + 1, Len(s))) = Len(s) - k
  <2>1. k + 1 \in Int /\ \A i \in k + 1..Len(s) : s[i] \in S
    BY <1>1
  <2> QED BY <1>1, <2>1, SubSeqProperties
<1>4. SubSeq(s, 1, k) \o SubSeq(s, k + 1, Len(s)) = SubSeq(s, 1, Len(s))
  <2>1. 1 \in 1..Len(s) + 1 /\ k \in 1 - 1..Len(s) /\ Len(s) \in k..Len(s)
    BY <1>1
  <2> QED BY <2>1, ConcatAdjacentSubSeq
<1> QED BY <1>2, <1>3, <1>4, SubSeqFull

\* Where the elements are when two sequences are joined.
LEMMA ConcatAt ==
    ASSUME NEW S, NEW a \in Seq(S), NEW b \in Seq(S)
    PROVE  /\ Len(a \o b) = Len(a) + Len(b)
           /\ \A k \in 1..Len(a) : (a \o b)[k] = a[k]
           /\ \A k \in 1..Len(b) : (a \o b)[Len(a) + k] = b[k]
<1> DEFINE c == a \o b
<1>1. /\ Len(c) = Len(a) + Len(b)
      /\ \A i \in 1..Len(a) + Len(b) : c[i] = IF i <= Len(a) THEN a[i] ELSE b[i - Len(a)]
  BY ConcatProperties
<1>2. Len(a) \in Nat /\ Len(b) \in Nat
  OBVIOUS
<1> HIDE DEF c
<1>3. ASSUME NEW k \in 1..Len(b) PROVE c[Len(a) + k] = b[k]
  <2>1. /\ Len(a) + k \in 1..Len(a) + Len(b) /\ ~ (Len(a) + k <= Len(a))
        /\ Len(a) + k - Len(a) = k
    BY <1>2
  <2> QED BY <1>1, <2>1
<1> QED BY <1>1, <1>2, <1>3 DEF c

\* What was joined is found again.
LEMMA SplitConcat ==
    ASSUME NEW S, NEW a \in Seq(S), NEW b \in Seq(S)
    PROVE  /\ SubSeq(a \o b, 1, Len(a)) = a
           /\ SubSeq(a \o b, Len(a) + 1, Len(a \o b)) = b
<1> DEFINE c == a \o b
<1>1. /\ c \in Seq(S) /\ Len(c) = Len(a) + Len(b)
      /\ \A i \in 1..Len(a) + Len(b) : c[i] = IF i <= Len(a) THEN a[i] ELSE b[i - Len(a)]
  BY ConcatProperties
<1>2. Len(a) \in Nat /\ Len(b) \in Nat
  OBVIOUS
<1> HIDE DEF c
<1>3. Len(a) \in 0..Len(c)
  BY <1>1, <1>2
<1>4. SubSeq(c, 1, Len(a)) = a
  <2>1. /\ SubSeq(c, 1, Len(a)) \in Seq(S) /\ Len(SubSeq(c, 1, Len(a))) = Len(a)
    BY <1>1, <1>3, TakeDrop
  <2>2. \A i \in 1..Len(a) : c[i] = a[i] /\ c[i] \in S
    BY <1>1, <1>2
  <2>3. \A i \in 1..Len(a) - 1 + 1 : SubSeq(c, 1, Len(a))[i] = c[1 + i - 1]
    BY <2>2, <1>2, SubSeqProperties
  <2>4. \A i \in 1..Len(a) : SubSeq(c, 1, Len(a))[i] = a[i]
    BY <2>2, <2>3, <1>2
  <2> QED BY <2>1, <2>4, SeqEqual
<1>5. SubSeq(c, Len(a) + 1, Len(c)) = b
  <2>1. /\ SubSeq(c, Len(a) + 1, Len(c)) \in Seq(S)
        /\ Len(SubSeq(c, Len(a) + 1, Len(c))) = Len(b)
    BY <1>1, <1>2, <1>3, TakeDrop
  <2>2. \A i \in Len(a) + 1..Len(c) : c[i] \in S
    BY <1>1, <1>2
  <2>3. \A i \in 1..Len(c) - (Len(a) + 1) + 1 :
           SubSeq(c, Len(a) + 1, Len(c))[i] = c[Len(a) + 1 + i - 1]
    BY <2>2, <1>1, <1>2, SubSeqProperties
  <2>4. \A i \in 1..Len(b) : SubSeq(c, Len(a) + 1, Len(c))[i] = b[i]
    <3> TAKE i \in 1..Len(b)
    <3>1. i \in 1..Len(c) - (Len(a) + 1) + 1 /\ Len(a) + 1 + i - 1 = Len(a) + i
      BY <1>1, <1>2
    <3>2. c[Len(a) + i] = b[i]
      <4>1. Len(a) + i \in 1..Len(a) + Len(b) /\ ~ (Len(a) + i <= Len(a)) /\ Len(a) + i - Len(a) = i
        BY <1>2
      <4> QED BY <4>1, <1>1
    <3> QED BY <3>1, <3>2, <2>3
  <2> QED BY <2>1, <2>4, SeqEqual
<1> QED BY <1>4, <1>5 DEF c

\* Two ways to cut one sequence at the same place give the same parts.
LEMMA SameCut ==
    ASSUME NEW S, NEW a \in Seq(S), NEW b \in Seq(S), NEW c \in Seq(S), NEW d \in Seq(S),
           a \o b = c \o d, Len(a) = Len(c)
    PROVE  a = c /\ b = d
<1>1. SubSeq(a \o b, 1, Len(a)) = a /\ SubSeq(a \o b, Len(a) + 1, Len(a \o b)) = b
  BY SplitConcat
<1>2. SubSeq(c \o d, 1, Len(c)) = c /\ SubSeq(c \o d, Len(c) + 1, Len(c \o d)) = d
  BY SplitConcat
<1> QED BY <1>1, <1>2

\* Byte strings may be joined in any grouping.
LEMMA Regrouped ==
    ASSUME NEW a \in Seq(Byte), NEW b \in Seq(Byte), NEW c \in Seq(Byte)
    PROVE  (a \o b) \o c = a \o (b \o c)
  BY ConcatAssociative

\* Where the elements are behind the first k.
LEMMA DropAt ==
    ASSUME NEW S, NEW s \in Seq(S), NEW k \in 0..Len(s)
    PROVE  \A j \in 1..Len(s) - k : SubSeq(s, k + 1, Len(s))[j] = s[k + j]
<1>1. Len(s) \in Nat /\ \A i \in 1..Len(s) : s[i] \in S
  OBVIOUS
<1>2. k + 1 \in Int /\ Len(s) \in Int /\ \A i \in k + 1..Len(s) : s[i] \in S
  BY <1>1
<1>3. \A j \in 1..Len(s) - (k + 1) + 1 : SubSeq(s, k + 1, Len(s))[j] = s[k + 1 + j - 1]
  BY <1>2, SubSeqProperties
<1> TAKE j \in 1..Len(s) - k
<1>4. j \in 1..Len(s) - (k + 1) + 1 /\ k + 1 + j - 1 = k + j
  BY <1>1
<1> QED BY <1>3, <1>4

\* Sequences that agree from m to n have the same elements there.
LEMMA SameSlice ==
    ASSUME NEW S, NEW s, NEW t, NEW m \in Int, NEW n \in Int, \A i \in m..n : s[i] \in S /\ t[i] = s[i]
    PROVE  SubSeq(t, m, n) = SubSeq(s, m, n)
<1> DEFINE u == SubSeq(s, m, n)
           v == SubSeq(t, m, n)
<1>1. /\ u \in Seq(S) /\ Len(u) = (IF m <= n THEN n - m + 1 ELSE 0)
      /\ \A i \in 1..n - m + 1 : u[i] = s[m + i - 1]
  BY SubSeqProperties
<1>2. \A i \in m..n : t[i] \in S
  OBVIOUS
<1>3. /\ v \in Seq(S) /\ Len(v) = (IF m <= n THEN n - m + 1 ELSE 0)
      /\ \A i \in 1..n - m + 1 : v[i] = t[m + i - 1]
  BY <1>2, SubSeqProperties
<1> HIDE DEF u, v
<1>4. \A i \in 1..Len(u) : u[i] = v[i]
  <2> TAKE i \in 1..Len(u)
  <2>1. i \in 1..n - m + 1 /\ m + i - 1 \in m..n
    BY <1>1
  <2> QED BY <1>1, <1>3, <2>1
<1>5. u = v
  BY <1>1, <1>3, <1>4, SeqEqual
<1> QED BY <1>5 DEF u, v

\* A function on 1..n is a sequence.
LEMMA ListIsSeq ==
    ASSUME NEW S, NEW n \in Nat, NEW f \in [1..n -> S]
    PROVE  f \in Seq(S) /\ Len(f) = n
  OBVIOUS

-----------------------------------------------------------------------------
(* FlattenSeq.  The recursion is unfolded by taking the least number for    *)
(* which a fact would fail.                                                *)

\* A set of numbers has a least one.
LEMMA LeastNumber ==
    ASSUME NEW T, T \subseteq Nat, T # {}
    PROVE  \E n \in T : \A m \in T : n <= m
<1>1. \E n \in T : \A m \in T : ~ (<<m, n>> \in OpToRel(<, Nat))
  BY NatLessThanWellFounded, WFMin
<1>2. PICK n \in T : \A m \in T : ~ (<<m, n>> \in OpToRel(<, Nat))
  BY <1>1
<1>3. ASSUME NEW m \in T PROVE n <= m
  <2>1. m \in Nat /\ n \in Nat
    OBVIOUS
  <2>2. ~ (<<m, n>> \in {ss \in Nat \X Nat : ss[1] < ss[2]})
    BY <1>2, Zenon DEF OpToRel
  <2>3. ~ (m < n)
    BY <2>1, <2>2
  <2> QED BY <2>1, <2>3
<1> QED BY <1>3

\* What holds of the empty sequence and of every one with one more element holds of all.
LEMMA SequenceInduction ==
    ASSUME NEW S, NEW G, G \subseteq Seq(S), <<>> \in G,
           \A u \in G, y \in S : Append(u, y) \in G
    PROVE  Seq(S) \subseteq G
<1> DEFINE T == {n \in Nat : \E t \in Seq(S) : Len(t) = n /\ t \notin G}
<1>1. ASSUME NEW n \in T, \A m \in T : n <= m PROVE FALSE
  <2>1. PICK t \in Seq(S) : Len(t) = n /\ t \notin G
    OBVIOUS
  <2>2. t # <<>>
    BY <2>1
  <2>3. PICK u \in Seq(S), y \in S : t = Append(u, y)
    BY <2>2, SequenceEmptyOrAppend
  <2>4. Len(t) = Len(u) + 1 /\ Len(u) \in Nat
    BY <2>3, AppendProperties
  <2>5. Len(u) \in T
    BY <2>1, <2>3, <2>4
  <2>6. n <= Len(u)
    BY <1>1, <2>5
  <2> QED BY <2>1, <2>4, <2>6
<1>2. T = {}
  <2>1. T \subseteq Nat
    OBVIOUS
  <2> HIDE DEF T
  <2> QED BY <1>1, <2>1, LeastNumber
<1>3. ASSUME NEW s \in Seq(S) PROVE s \in G
  <2>1. SUFFICES ASSUME s \notin G PROVE FALSE
    OBVIOUS
  <2>2. Len(s) \in Nat /\ \E t \in Seq(S) : Len(t) = Len(s) /\ t \notin G
    BY <2>1
  <2>3. Len(s) \in T
    BY <2>2
  <2> QED BY <1>2, <2>3
<1> QED BY <1>3

\* f[k] joins the first k of seqs.
Flattens(f, seqs, n) ==
    f = [i \in 1..n |-> IF i = 1 THEN seqs[i] ELSE f[i-1] \o seqs[i]]

\* The function at one place.
LEMMA FlattensAt ==
    ASSUME NEW f, NEW seqs, NEW n \in Nat, Flattens(f, seqs, n), NEW k \in 1..n
    PROVE  f[k] = IF k = 1 THEN seqs[k] ELSE f[k - 1] \o seqs[k]
  BY DEF Flattens

\* There is such a function.
LEMMA FlattensExists ==
    ASSUME NEW seqs, NEW n \in Nat
    PROVE  \E f : Flattens(f, seqs, n)
<1> DEFINE T == {k \in Nat : ~ \E f : Flattens(f, seqs, k)}
<1> SUFFICES ASSUME T # {} PROVE FALSE
  OBVIOUS
<1>1. PICK k \in T : \A m \in T : k <= m
  BY LeastNumber
<1>2. Flattens([i \in 1..0 |-> 0], seqs, 0)
  BY DEF Flattens
<1>3. k # 0
  BY <1>2
<1>4. k - 1 \in Nat /\ k - 1 \notin T /\ k \in Nat
  BY <1>1, <1>3
<1>5. PICK f : Flattens(f, seqs, k - 1)
  BY <1>4
<1> DEFINE g == [i \in 1..k |-> IF i = 1 THEN seqs[i]
                               ELSE IF i = k THEN f[k - 1] \o seqs[k] ELSE f[i]]
<1>6. ASSUME NEW i \in 1..k PROVE g[i] = IF i = 1 THEN seqs[i] ELSE g[i-1] \o seqs[i]
  <2>1. CASE i = 1
    BY <2>1
  <2>2. CASE i # 1
    <3>0. i - 1 \in 1..(k-1) /\ i - 1 \in 1..k
      BY <1>4, <2>2
    <3>1. g[i-1] = f[i-1]
      BY <1>5, <2>2, <3>0, <1>4 DEF Flattens
    <3>2. g[i] = f[i-1] \o seqs[i]
      <4>1. CASE i = k
         BY <4>1, <2>2
      <4>2. CASE i # k
         <5>1. i \in 1..(k-1)
           BY <4>2, <1>4
         <5>2. f[i] = f[i-1] \o seqs[i]
           BY <1>5, <5>1, <2>2 DEF Flattens
         <5> QED BY <5>2, <4>2, <2>2
      <4> QED BY <4>1, <4>2
    <3> QED BY <3>1, <3>2, <2>2
  <2> QED BY <2>1, <2>2
<1>7. Flattens(g, seqs, k)
  <2> HIDE DEF g
  <2>1. g = [i \in 1..k |-> g[i]]
    BY DEF g
  <2> QED BY <2>1, <1>6, Zenon DEF Flattens
<1> QED BY <1>1, <1>7

\* FlattenSeq is its last value.
LEMMA FlattenUnfold ==
    ASSUME NEW seqs, NEW n \in Nat, Len(seqs) = n, n # 0
    PROVE  \E f : Flattens(f, seqs, n) /\ FlattenSeq(seqs) = f[n]
<1> DEFINE F == CHOOSE f : Flattens(f, seqs, n)
<1>1. Flattens(F, seqs, n)
  BY FlattensExists, Zenon
<1>2. FlattenSeq(seqs) = F[n]
  BY Zenon DEF FlattenSeq, Flattens
<1> QED BY <1>1, <1>2

\* It depends on the sequences joined alone.
LEMMA FlattensAgree ==
    ASSUME NEW f, NEW g, NEW s, NEW t, NEW n \in Nat, NEW m \in Nat,
           Flattens(f, s, n), Flattens(g, t, m), n <= m, \A i \in 1..n : s[i] = t[i]
    PROVE  \A i \in 1..n : f[i] = g[i]
<1> DEFINE T == {i \in 1..n : f[i] # g[i]}
<1> SUFFICES ASSUME T # {} PROVE FALSE
  OBVIOUS
<1>1. PICK i \in T : \A j \in T : i <= j
  <2>1. T \subseteq Nat
    OBVIOUS
  <2> QED BY <2>1, LeastNumber
<1>2. i \in 1..n /\ i \in 1..m
  OBVIOUS
<1>3. /\ f[i] = IF i = 1 THEN s[i] ELSE f[i-1] \o s[i]
      /\ g[i] = IF i = 1 THEN t[i] ELSE g[i-1] \o t[i]
  BY <1>2 DEF Flattens
<1>4. CASE i = 1
  BY <1>3, <1>4
<1>5. CASE i # 1
  <2>1. i - 1 \in 1..n /\ i - 1 \notin T
    BY <1>1, <1>5
  <2>2. f[i - 1] = g[i - 1]
    BY <2>1
  <2> QED BY <1>3, <1>5, <2>2
<1> QED BY <1>4, <1>5

\* Flattening gives a sequence over the same set.
LEMMA FlattenType ==
    ASSUME NEW S, NEW s \in Seq(Seq(S))
    PROVE  FlattenSeq(s) \in Seq(S)
<1>0. Len(s) \in Nat /\ \A i \in 1..Len(s) : s[i] \in Seq(S)
  OBVIOUS
<1>1. CASE Len(s) = 0
  <2>1. s = <<>>
    BY <1>1, EmptySeq
  <2>2. FlattenSeq(s) = s
    BY <1>1, Zenon DEF FlattenSeq
  <2> QED BY <2>1, <2>2, EmptySeq
<1>2. CASE Len(s) # 0
  <2> DEFINE n == Len(s)
  <2>1. PICK f : Flattens(f, s, n) /\ FlattenSeq(s) = f[n]
    BY <1>0, <1>2, FlattenUnfold
  <2> DEFINE T == {i \in 1..n : f[i] \notin Seq(S)}
  <2>2. T = {}
    <3> SUFFICES ASSUME T # {} PROVE FALSE
      OBVIOUS
    <3>0. T \subseteq Nat
      OBVIOUS
    <3>1. PICK i \in T : \A j \in T : i <= j
      BY <3>0, LeastNumber
    <3>2. f[i] = IF i = 1 THEN s[i] ELSE f[i-1] \o s[i]
      BY <2>1 DEF Flattens
    <3>3. s[i] \in Seq(S)
      BY <1>0
    <3>4. i # 1
      BY <3>2, <3>3
    <3>5. i - 1 \in 1..n /\ i - 1 \notin T
      BY <3>1, <3>4, <1>0
    <3>6. f[i-1] \in Seq(S)
      BY <3>5
    <3>7. f[i-1] \o s[i] \in Seq(S)
      BY <3>3, <3>6, ConcatProperties
    <3> QED BY <3>7, <3>2, <3>4
  <2>3. n \in 1..n
    BY <1>0, <1>2
  <2> QED BY <2>1, <2>2, <2>3
<1> QED BY <1>1, <1>2

\* Nothing joined is nothing.
LEMMA FlattenEmpty == FlattenSeq(<<>>) = <<>>
<1>1. Len(<<>>) = 0
  BY EmptySeq
<1> QED BY <1>1, Zenon DEF FlattenSeq

\* One more sequence at the end: first by its elements, then with Append.
LEMMA FlattenLonger ==
    ASSUME NEW S, NEW s \in Seq(Seq(S)), NEW t \in Seq(Seq(S)),
           NEW n \in Nat, NEW m \in Nat, m = n + 1,
           Len(s) = n, Len(t) = m, n # 0, \A i \in 1..n : t[i] = s[i]
    PROVE  FlattenSeq(t) = FlattenSeq(s) \o t[m]
<1>0. m # 0 /\ m # 1 /\ m \in 1..m /\ n \in 1..n /\ m - 1 = n /\ n <= m /\ n <= n
  OBVIOUS
<1>1. PICK f : Flattens(f, t, m) /\ FlattenSeq(t) = f[m]
  BY <1>0, FlattenUnfold
<1>2. PICK g : Flattens(g, s, n) /\ FlattenSeq(s) = g[n]
  BY <1>0, FlattenUnfold
<1>3. f[m] = f[m - 1] \o t[m]
  BY <1>0, <1>1 DEF Flattens
<1>4. \A i \in 1..n : g[i] = f[i]
  <2>1. \A i \in 1..n : s[i] = t[i]
    OBVIOUS
  <2>2. Flattens(f, t, m) /\ Flattens(g, s, n)
    BY <1>1, <1>2
  <2> QED BY <1>0, <2>1, <2>2, FlattensAgree
<1>5. f[n] = g[n]
  BY <1>0, <1>4
<1> QED BY <1>0, <1>1, <1>2, <1>3, <1>5

\* A sequence of one joins to that one.
LEMMA FlattenOne ==
    ASSUME NEW x
    PROVE  FlattenSeq(<<x>>) = x
<1>1. Len(<<x>>) = 1 /\ <<x>>[1] = x /\ 1 \in Nat /\ 1 # 0
  OBVIOUS
<1> DEFINE s == <<x>>
<1> HIDE DEF s
<1>2. PICK f : Flattens(f, s, 1) /\ FlattenSeq(s) = f[1]
  BY <1>1, FlattenUnfold DEF s
<1>3. f[1] = s[1]
  BY <1>2 DEF Flattens
<1> QED BY <1>1, <1>2, <1>3 DEF s

\* One more at the end comes behind what is joined already.
LEMMA FlattenAppend ==
    ASSUME NEW S, NEW s \in Seq(Seq(S)), NEW x \in Seq(S)
    PROVE  FlattenSeq(Append(s, x)) = FlattenSeq(s) \o x
<1>1. /\ Append(s, x) \in Seq(Seq(S)) /\ Len(Append(s, x)) = Len(s) + 1 /\ Len(s) \in Nat
      /\ \A i \in 1..Len(s) : Append(s, x)[i] = s[i]
      /\ Append(s, x)[Len(s) + 1] = x
  BY AppendProperties
<1>2. CASE Len(s) = 0
  <2>1. s = <<>> /\ Append(<<>>, x) = <<x>>
    BY <1>2, EmptySeq
  <2>2. <<>> \o x = x
    BY ConcatEmptySeq
  <2> QED BY <2>1, <2>2, FlattenEmpty, FlattenOne
<1>3. CASE Len(s) # 0
  <2> DEFINE t == Append(s, x)
             n == Len(s)
             m == Len(t)
  <2>1. /\ t \in Seq(Seq(S)) /\ n \in Nat /\ m \in Nat /\ m = n + 1 /\ n # 0
        /\ \A i \in 1..n : t[i] = s[i]
        /\ t[m] = x
    BY <1>1, <1>3
  <2> HIDE DEF t
  <2>2. FlattenSeq(t) = FlattenSeq(s) \o t[m]
    BY <2>1, FlattenLonger
  <2> QED BY <2>1, <2>2 DEF t
<1> QED BY <1>2, <1>3

\* One more sequence in front.
LEMMA ConsAppend ==
    ASSUME NEW S, NEW x \in S, NEW u \in Seq(S), NEW y \in S
    PROVE  <<x>> \o Append(u, y) = Append(<<x>> \o u, y) /\ <<x>> \o u \in Seq(S)
<1>1. <<x>> \in Seq(S) /\ <<y>> \in Seq(S)
  OBVIOUS
<1>2. Append(u, y) = u \o <<y>> /\ <<x>> \o u \in Seq(S)
  BY <1>1, AppendIsConcat, ConcatProperties
<1>3. Append(<<x>> \o u, y) = (<<x>> \o u) \o <<y>>
  BY <1>2, AppendIsConcat
<1>4. (<<x>> \o u) \o <<y>> = <<x>> \o (u \o <<y>>)
  BY <1>1, ConcatAssociative
<1> QED BY <1>2, <1>3, <1>4

\* If one more in front comes before u joined, it does before Append(u, y) joined.
LEMMA FlattenConsStep ==
    ASSUME NEW S, NEW x \in Seq(S), NEW u \in Seq(Seq(S)), NEW y \in Seq(S),
           FlattenSeq(<<x>> \o u) = x \o FlattenSeq(u)
    PROVE  FlattenSeq(<<x>> \o Append(u, y)) = x \o FlattenSeq(Append(u, y))
<1>1. <<x>> \o Append(u, y) = Append(<<x>> \o u, y) /\ <<x>> \o u \in Seq(Seq(S))
  BY ConsAppend
<1>2. FlattenSeq(Append(<<x>> \o u, y)) = FlattenSeq(<<x>> \o u) \o y
  BY <1>1, FlattenAppend
<1>3. FlattenSeq(Append(u, y)) = FlattenSeq(u) \o y
  BY FlattenAppend
<1>4. FlattenSeq(u) \in Seq(S)
  BY FlattenType
<1>5. (x \o FlattenSeq(u)) \o y = x \o (FlattenSeq(u) \o y)
  <2> DEFINE m == FlattenSeq(u)
  <2>1. m \in Seq(S)
    BY <1>4
  <2> HIDE DEF m
  <2>2. (x \o m) \o y = x \o (m \o y)
    BY <2>1, ConcatAssociative
  <2> QED BY <2>2 DEF m
<1> QED BY <1>1, <1>2, <1>3, <1>5

\* One more in front comes before what is joined already.
LEMMA FlattenCons ==
    ASSUME NEW S, NEW s \in Seq(Seq(S)), NEW x \in Seq(S)
    PROVE  FlattenSeq(<<x>> \o s) = x \o FlattenSeq(s)
<1> DEFINE G == {t \in Seq(Seq(S)) : FlattenSeq(<<x>> \o t) = x \o FlattenSeq(t)}
<1>1. <<>> \in G
  <2>1. <<x>> \o <<>> = <<x>> /\ x \o <<>> = x
    BY ConcatEmptySeq
  <2> QED BY <2>1, FlattenEmpty, FlattenOne
<1>2. ASSUME NEW u \in G, NEW y \in Seq(S) PROVE Append(u, y) \in G
  <2>1. Append(u, y) \in Seq(Seq(S))
    OBVIOUS
  <2> QED BY <2>1, FlattenConsStep
<1>3. G \subseteq Seq(Seq(S))
  OBVIOUS
<1>4. Seq(Seq(S)) \subseteq G
  <2> HIDE DEF G
  <2> QED BY <1>1, <1>2, <1>3, SequenceInduction
<1> QED BY <1>4

-----------------------------------------------------------------------------
(* What is left of a sequence of byte strings behind the first k.          *)

Rest(s, k) == FlattenSeq(SubSeq(s, k + 1, Len(s)))

\* What is left is a byte string.
LEMMA RestType ==
    ASSUME NEW S, NEW s \in Seq(Seq(S)), NEW k \in 0..Len(s)
    PROVE  Rest(s, k) \in Seq(S)
<1>1. SubSeq(s, k + 1, Len(s)) \in Seq(Seq(S))
  BY TakeDrop
<1> QED BY <1>1, FlattenType DEF Rest

\* What is left begins with the next of the strings.
LEMMA RestStep ==
    ASSUME NEW S, NEW s \in Seq(Seq(S)), NEW k \in Nat, k < Len(s)
    PROVE  Rest(s, k) = s[k + 1] \o Rest(s, k + 1)
<1>1. k + 1 \in 1..Len(s) /\ Len(s) \in k + 1..Len(s) /\ k + 1 \in 0..Len(s)
  OBVIOUS
<1>2. SubSeq(s, k + 1, Len(s)) = <<s[k + 1]>> \o SubSeq(s, k + 1 + 1, Len(s))
  BY <1>1, SubSeqRecursiveFirst
<1>3. SubSeq(s, k + 1 + 1, Len(s)) \in Seq(Seq(S)) /\ s[k + 1] \in Seq(S)
  BY <1>1, TakeDrop
<1> QED BY <1>2, <1>3, FlattenCons DEF Rest

\* Behind the last nothing is left, behind none everything.
LEMMA RestAll ==
    ASSUME NEW S, NEW s \in Seq(Seq(S))
    PROVE  Rest(s, Len(s)) = <<>> /\ Rest(s, 0) = FlattenSeq(s)
<1>1. SubSeq(s, Len(s) + 1, Len(s)) = <<>>
  BY SubSeqEmpty
<1>2. SubSeq(s, 0 + 1, Len(s)) = s
  BY SubSeqFull
<1> QED BY <1>1, <1>2, FlattenEmpty DEF Rest

\* One more at the end is one more at the end of what is left.
LEMMA RestAppend ==
    ASSUME NEW S, NEW s \in Seq(Seq(S)), NEW x \in Seq(S), NEW k \in 0..Len(s)
    PROVE  Rest(Append(s, x), k) = Rest(s, k) \o x
<1> DEFINE t == Append(s, x)
<1>1. /\ t \in Seq(Seq(S)) /\ Len(t) = Len(s) + 1 /\ Len(s) \in Nat
      /\ \A i \in 1..Len(s) : t[i] = s[i]
      /\ t[Len(s) + 1] = x
  BY AppendProperties
<1> HIDE DEF t
<1>2. k + 1 \in 1..Len(t) /\ Len(t) \in k + 1..Len(t) /\ Len(t) - 1 = Len(s)
  BY <1>1
<1>3. SubSeq(t, k + 1, Len(t)) = SubSeq(t, k + 1, Len(t) - 1) \o <<t[Len(t)]>>
  BY <1>1, <1>2, SubSeqRecursiveSecond
<1> DEFINE u == SubSeq(s, k + 1, Len(s))
           v == SubSeq(t, k + 1, Len(s))
<1>4. u \in Seq(Seq(S)) /\ Len(u) = Len(s) - k
  BY TakeDrop
<1>5. v = u
  <2>1. \A i \in k + 1..Len(s) : s[i] \in Seq(S) /\ t[i] \in Seq(S) /\ t[i] = s[i]
    BY <1>1
  <2>2. k + 1 \in Int /\ Len(s) \in Int
    BY <1>1
  <2> DEFINE T == Seq(S)
  <2>3. \A i \in k + 1..Len(s) : s[i] \in T /\ t[i] = s[i]
    BY <2>1
  <2> HIDE DEF T
  <2> QED BY <2>2, <2>3, SameSlice
<1>6. SubSeq(t, k + 1, Len(t)) = Append(u, x)
  <2>1. Append(u, x) = u \o <<x>>
    BY <1>4, AppendIsConcat
  <2> QED BY <1>1, <1>2, <1>3, <1>5, <2>1
<1>7. FlattenSeq(Append(u, x)) = FlattenSeq(u) \o x
  BY <1>4, FlattenAppend
<1> QED BY <1>6, <1>7 DEF Rest, t
-----------------------------------------------------------------------------
(* What is written is read back.                                           *)

Item == {i1, i2, i4, I4, s7, s0}

\* The powers of 256, place by place.
LEMMA WeightValues ==
    Weight[1] = 1 /\ Weight[2] = 256 /\ Weight[3] = 65536 /\ Weight[4] = 16777216
  BY DEF Weight

\* The bytes of a number.
LEMMA BigEndianType ==
    ASSUME NEW v \in Int, NEW w \in {1, 2, 4}
    PROVE  BigEndian(v, w) \in Seq(Byte) /\ Len(BigEndian(v, w)) = w
<1>1. \A j \in 1..w : w - j + 1 \in 1..4 /\ Weight[w - j + 1] \in {1, 256, 65536, 16777216}
  BY WeightValues
<1>2. \A k \in {1, 256, 65536, 16777216} : (v \div k) % 256 \in Byte
  BY DEF Byte
<1>3. \A j \in 1..w : (v \div Weight[w - j + 1]) % 256 \in Byte
  BY <1>1, <1>2
<1>4. BigEndian(v, w) \in [1..w -> Byte]
  BY <1>3 DEF BigEndian
<1> QED BY <1>4, ListIsSeq

\* The byte of a number of one byte.
LEMMA BigEndian1 ==
    ASSUME NEW v \in Int
    PROVE  BigEndian(v, 1)[1] = v % 256
<1>1. BigEndian(v, 1)[1] = (v \div Weight[1]) % 256
  BY DEF BigEndian
<1> QED BY <1>1, WeightValues

\* The bytes of a number of two.
LEMMA BigEndian2 ==
    ASSUME NEW v \in Int
    PROVE  BigEndian(v, 2)[1] = (v \div 256) % 256 /\ BigEndian(v, 2)[2] = v % 256
<1>1. BigEndian(v, 2)[1] = (v \div Weight[2]) % 256 /\ BigEndian(v, 2)[2] = (v \div Weight[1]) % 256
  BY DEF BigEndian
<1> QED BY <1>1, WeightValues

\* The bytes of a number of four.
LEMMA BigEndian4 ==
    ASSUME NEW v \in Int
    PROVE  /\ BigEndian(v, 4)[1] = (v \div 16777216) % 256
           /\ BigEndian(v, 4)[2] = (v \div 65536) % 256
           /\ BigEndian(v, 4)[3] = (v \div 256) % 256
           /\ BigEndian(v, 4)[4] = v % 256
<1>1. /\ BigEndian(v, 4)[1] = (v \div Weight[4]) % 256
      /\ BigEndian(v, 4)[2] = (v \div Weight[3]) % 256
      /\ BigEndian(v, 4)[3] = (v \div Weight[2]) % 256
      /\ BigEndian(v, 4)[4] = (v \div Weight[1]) % 256
  BY DEF BigEndian
<1> QED BY <1>1, WeightValues

\* Lengths, counts and unsigned numbers come back.
LEMMA NumberBigEndian4 ==
    ASSUME NEW v \in Nat, v < Enormous
    PROVE  Number(BigEndian(v, 4)) = v
<1>1. v \in Int /\ 0 <= v /\ v < 64 * 16777216
  BY DEF Enormous
<1>2. /\ (v \div 16777216) % 256 < 64
      /\ 16777216 * ((v \div 16777216) % 256) + 65536 * ((v \div 65536) % 256)
            + 256 * ((v \div 256) % 256) + (v % 256) = v
  BY <1>1
<1> DEFINE b == BigEndian(v, 4)
<1>3. Len(b) = 4 /\ b \in Seq(Byte)
  BY <1>1, BigEndianType
<1>4. /\ b[1] = (v \div 16777216) % 256 /\ b[2] = (v \div 65536) % 256
      /\ b[3] = (v \div 256) % 256 /\ b[4] = v % 256
  BY <1>1, BigEndian4
<1> HIDE DEF b
<1>5. ~ (b[1] >= 64) /\ 16777216 * b[1] + 65536 * b[2] + 256 * b[3] + b[4] = v
  BY <1>2, <1>4
<1>6. Number(b) = 16777216 * b[1] + 65536 * b[2] + 256 * b[3] + b[4]
  BY <1>3, <1>5 DEF Number
<1> QED BY <1>5, <1>6 DEF b

\* A number comes back from its bytes: one of one byte.
LEMMA NumberBigEndian1 ==
    ASSUME NEW v \in Byte
    PROVE  Number(BigEndian(v, 1)) = v
<1>1. v \in Int /\ v % 256 = v
  BY DEF Byte
<1>2. Len(BigEndian(v, 1)) = 1
  BY <1>1, BigEndianType
<1> QED BY <1>1, <1>2, BigEndian1 DEF Number

\* Coordinates come back with their sign.
LEMMA StoredShort ==
    ASSUME NEW v \in Int, -32768 <= v, v <= 32767
    PROVE  Stored(i2, BigEndian(v, 2)) = v
<1> DEFINE b == BigEndian(v, 2)
<1>1. v \in Int /\ Len(b) = 2
  BY BigEndianType
<1>2. b[1] = (v \div 256) % 256 /\ b[2] = v % 256
  BY BigEndian2
<1>3. IF (v \div 256) % 256 >= 128 THEN 256 * ((v \div 256) % 256) + (v % 256) - 65536 = v
                                  ELSE 256 * ((v \div 256) % 256) + (v % 256) = v
  OBVIOUS
<1> HIDE DEF b
<1>4. Number(b) = 256 * b[1] + b[2]
  BY <1>1 DEF Number
<1>5. Stored(i2, b) = IF b[1] >= 128 THEN Number(b) - 65536 ELSE Number(b)
  BY DEF Stored, i2
<1> QED BY <1>2, <1>3, <1>4, <1>5 DEF b

\* What Written(item, v) has behind the count, if there is one.
Body(item, v) ==
    CASE item.conv = "I" -> FlattenSeq([j \in 1..Len(v) |-> BigEndian(v[j], item.width)])
      [] item.conv = "s" /\ item.width = 0 -> v
      [] OTHER -> Written(item, v)

\* Pieces of four bytes stay where their number says.
LEMMA FlattenFours ==
    ASSUME NEW S, NEW s \in Seq(Seq(S)), \A i \in 1..Len(s) : Len(s[i]) = 4
    PROVE  /\ Len(FlattenSeq(s)) = 4 * Len(s)
           /\ \A i \in 1..Len(s), j \in 1..4 : FlattenSeq(s)[4 * (i - 1) + j] = s[i][j]
<1> DEFINE Fours(t) == \A i \in 1..Len(t) : Len(t[i]) = 4
           Placed(t) == /\ Len(FlattenSeq(t)) = 4 * Len(t)
                        /\ \A i \in 1..Len(t), j \in 1..4 : FlattenSeq(t)[4 * (i - 1) + j] = t[i][j]
           G == {t \in Seq(Seq(S)) : Fours(t) => Placed(t)}
<1>1. <<>> \in G
  BY FlattenEmpty
<1>2. ASSUME NEW u \in G, NEW y \in Seq(S) PROVE Append(u, y) \in G
  <2> DEFINE t == Append(u, y)
             a == FlattenSeq(u)
  <2>1. u \in Seq(Seq(S)) /\ (Fours(u) => Placed(u))
    OBVIOUS
  <2>2. /\ t \in Seq(Seq(S)) /\ Len(t) = Len(u) + 1 /\ Len(u) \in Nat
        /\ (\A i \in 1..Len(u) : t[i] = u[i])
        /\ t[Len(u) + 1] = y
    BY <2>1, AppendProperties
  <2>3. FlattenSeq(t) = a \o y /\ a \in Seq(S)
    BY <2>1, FlattenAppend, FlattenType
  <2> HIDE DEF t, a
  <2>4. ASSUME Fours(t) PROVE Placed(t)
    <3>1. Fours(u)
      BY <2>2, <2>4, SMTT(30)
    <3>2. Len(y) = 4
      BY <2>2, <2>4
    <3>3. Placed(u)
      BY <2>1, <3>1
    <3>4. /\ Len(a) = 4 * Len(u)
          /\ \A i \in 1..Len(u), j \in 1..4 : a[4 * (i - 1) + j] = u[i][j]
      BY <3>3 DEF a
    <3> DEFINE n == Len(u)
               b == a \o y
    <3>5. /\ Len(b) = 4 * n + 4
          /\ \A k \in 1..4 * n : b[k] = a[k]
          /\ \A k \in 1..4 : b[4 * n + k] = y[k]
      <4>1. /\ Len(b) = Len(a) + Len(y)
            /\ \A k \in 1..Len(a) : b[k] = a[k]
            /\ \A k \in 1..Len(y) : b[Len(a) + k] = y[k]
        BY <2>3, ConcatAt
      <4>2. Len(a) = 4 * n /\ Len(y) = 4
        BY <3>2, <3>4
      <4> HIDE DEF b, n
      <4> QED BY <4>1, <4>2
    <3> HIDE DEF b, n
    <3>6. ASSUME NEW i \in 1..Len(t), NEW j \in 1..4
          PROVE  b[4 * (i - 1) + j] = t[i][j]
      <4>0. n \in Nat /\ i \in 1..n + 1 /\ (i \in 1..n => t[i] = u[i] /\ a[4 * (i - 1) + j] = u[i][j])
            /\ (i = n + 1 => t[i] = y)
        BY <2>2, <3>4 DEF n
      <4>1. CASE i \in 1..n
        <5>1. 4 * (i - 1) + j \in 1..4 * n
          <6>1. n \in Nat /\ i \in 1..n
            BY <4>0, <4>1
          <6> QED BY <6>1
        <5> QED BY <3>5, <4>0, <4>1, <5>1
      <4>2. CASE i = n + 1
        <5>1. 4 * (i - 1) + j = 4 * n + j
          <6>1. n \in Nat /\ i = n + 1
            BY <4>0, <4>2
          <6> QED BY <6>1
        <5> QED BY <3>5, <4>0, <4>2, <5>1
      <4> QED BY <4>0, <4>1, <4>2
    <3>7. Len(b) = 4 * Len(t)
      BY <2>2, <3>5 DEF n
    <3>8. FlattenSeq(t) = b
      BY <2>3 DEF b
    <3> QED BY <3>6, <3>7, <3>8
  <2> QED BY <2>2, <2>4 DEF t
<1>3. G \subseteq Seq(Seq(S))
  OBVIOUS
<1>4. Seq(Seq(S)) \subseteq G
  <2> HIDE DEF G
  <2> QED BY <1>1, <1>2, <1>3, SequenceInduction
<1> QED BY <1>4

\* A list of numbers comes back.
LEMMA StoredList ==
    ASSUME NEW v \in Seq(Nat), \A j \in 1..Len(v) : v[j] < Enormous
    PROVE  /\ Body(I4, v) \in Seq(Byte) /\ Len(Body(I4, v)) = 4 * Len(v)
           /\ Stored(I4, Body(I4, v)) = v
<1> DEFINE s == [j \in 1..Len(v) |-> BigEndian(v[j], 4)]
           raw == FlattenSeq(s)
<1>1. Len(v) \in Nat /\ \A j \in 1..Len(v) : v[j] \in Nat /\ v[j] \in Int
  OBVIOUS
<1>2. \A j \in 1..Len(v) : BigEndian(v[j], 4) \in Seq(Byte) /\ Len(BigEndian(v[j], 4)) = 4
  BY <1>1, BigEndianType
<1>3. /\ s \in Seq(Seq(Byte)) /\ Len(s) = Len(v)
      /\ \A j \in 1..Len(v) : s[j] = BigEndian(v[j], 4)
  <2>1. s \in [1..Len(v) -> Seq(Byte)]
    BY <1>2
  <2>2. s \in Seq(Seq(Byte)) /\ Len(s) = Len(v)
    <3> HIDE DEF s
    <3> QED BY <1>1, <2>1, ListIsSeq
  <2> QED BY <2>2
<1> HIDE DEF s
<1>4. raw \in Seq(Byte)
  BY <1>3, FlattenType
<1>5. /\ Len(raw) = 4 * Len(v)
      /\ \A i \in 1..Len(v), j \in 1..4 : raw[4 * (i - 1) + j] = BigEndian(v[i], 4)[j]
  <2>1. \A i \in 1..Len(s) : Len(s[i]) = 4
    BY <1>2, <1>3
  <2>2. /\ Len(raw) = 4 * Len(s)
        /\ \A i \in 1..Len(s), j \in 1..4 : raw[4 * (i - 1) + j] = s[i][j]
    BY <1>3, <2>1, FlattenFours
  <2> QED BY <1>3, <2>2
<1>6. Body(I4, v) = raw
  BY DEF Body, I4, s
<1> HIDE DEF raw
<1>7. ASSUME NEW i \in 1..Len(v)
      PROVE  Number(SubSeq(raw, 4 * (i - 1) + 1, 4 * i)) = v[i]
  <2> DEFINE piece == SubSeq(raw, 4 * (i - 1) + 1, 4 * i)
  <2>1. \A k \in 4 * (i - 1) + 1..4 * i : raw[k] \in Byte
    BY <1>1, <1>4, <1>5
  <2>2. /\ piece \in Seq(Byte) /\ Len(piece) = 4
        /\ \A j \in 1..4 : piece[j] = raw[4 * (i - 1) + 1 + j - 1]
    <3>1. 4 * (i - 1) + 1 \in Int /\ 4 * i \in Int /\ 4 * i - (4 * (i - 1) + 1) + 1 = 4
      BY <1>1
    <3> QED BY <2>1, <3>1, SubSeqProperties
  <2> HIDE DEF piece
  <2>3. \A j \in 1..4 : piece[j] = BigEndian(v[i], 4)[j]
    <3> TAKE j \in 1..4
    <3>1. 4 * (i - 1) + 1 + j - 1 = 4 * (i - 1) + j
      BY <1>1
    <3>2. piece[j] = raw[4 * (i - 1) + 1 + j - 1]
      BY <2>2
    <3>3. raw[4 * (i - 1) + j] = BigEndian(v[i], 4)[j]
      BY <1>5
    <3> QED BY <3>1, <3>2, <3>3
  <2>4. piece = BigEndian(v[i], 4)
    <3> DEFINE b == BigEndian(v[i], 4)
    <3>1. b \in Seq(Byte) /\ Len(b) = 4 /\ \A j \in 1..4 : piece[j] = b[j]
      BY <1>2, <2>3
    <3> HIDE DEF b
    <3>2. piece = b
      BY <2>2, <3>1, SeqEqual, ZenonT(30)
    <3> QED BY <3>2 DEF b
  <2> QED BY <1>1, <2>4, NumberBigEndian4 DEF piece
<1>8. Stored(I4, raw) = [j \in 1..Len(raw) \div 4 |-> Number(SubSeq(raw, 4 * (j - 1) + 1, 4 * j))]
  BY DEF Stored, I4
<1>9. Len(raw) \div 4 = Len(v)
  BY <1>1, <1>5
<1>10. [j \in 1..Len(v) |-> v[j]] = v
  OBVIOUS
<1> QED BY <1>4, <1>5, <1>6, <1>7, <1>8, <1>9, <1>10

\* Every conversion: what it writes, how much is asked for, and what is made of it.
WrittenBack(item, v) ==
    /\ Body(item, v) \in Seq(Byte)
    /\ IF Counted(item)
       THEN /\ Len(v) \in Nat /\ Len(v) <= MaxCount
            /\ Len(Body(item, v)) = Len(v) * Width(item)
            /\ Written(item, v) = BigEndian(Len(v), 4) \o Body(item, v)
       ELSE Len(Body(item, v)) = Width(item) /\ Written(item, v) = Body(item, v)
    /\ Width(item) \in 1..7
    /\ Stored(item, Body(item, v)) = v

\* readf stores what writef was given, for each conversion and each value it carries.
LEMMA ConversionComesBack ==
    ASSUME NEW item \in Item, NEW v, Carries(item, v)
    PROVE  WrittenBack(item, v)
<1>0. /\ i1.conv = "i" /\ i1.width = 1 /\ i2.conv = "i" /\ i2.width = 2
      /\ i4.conv = "i" /\ i4.width = 4 /\ I4.conv = "I" /\ I4.width = 4
      /\ s7.conv = "s" /\ s7.width = 7 /\ s0.conv = "s" /\ s0.width = 0
  BY DEF i1, i2, i4, I4, s7, s0
<1>1. CASE item = i1 /\ v \in Byte
  <2>1. v \in Int
    BY <1>1 DEF Byte
  <2>2. Body(i1, v) = BigEndian(v, 1) /\ Written(i1, v) = BigEndian(v, 1) /\ Width(i1) = 1 /\ ~ Counted(i1)
    BY <1>0 DEF Body, Written, Width, Counted
  <2>3. Stored(i1, BigEndian(v, 1)) = Number(BigEndian(v, 1))
    BY <1>0 DEF Stored
  <2> QED BY <1>1, <2>1, <2>2, <2>3, BigEndianType, NumberBigEndian1 DEF WrittenBack
<1>2. CASE item = i2 /\ v \in Int /\ -32768 <= v /\ v <= 32767
  <2>1. Body(i2, v) = BigEndian(v, 2) /\ Written(i2, v) = BigEndian(v, 2) /\ Width(i2) = 2 /\ ~ Counted(i2)
    BY <1>0 DEF Body, Written, Width, Counted
  <2> QED BY <1>2, <2>1, BigEndianType, StoredShort DEF WrittenBack
<1>3. CASE item = i4 /\ v \in Nat /\ v < Enormous
  <2>1. Body(i4, v) = BigEndian(v, 4) /\ Written(i4, v) = BigEndian(v, 4) /\ Width(i4) = 4 /\ ~ Counted(i4)
    BY <1>0 DEF Body, Written, Width, Counted
  <2>2. Stored(i4, BigEndian(v, 4)) = Number(BigEndian(v, 4))
    BY <1>0 DEF Stored
  <2> QED BY <1>3, <2>1, <2>2, BigEndianType, NumberBigEndian4 DEF WrittenBack
<1>4. CASE item = I4 /\ v \in Seq(Nat) /\ Len(v) <= MaxCount /\ \A j \in 1..Len(v) : v[j] < Enormous
  <2>1. Counted(I4) /\ Width(I4) = 4 /\ Written(I4, v) = BigEndian(Len(v), 4) \o Body(I4, v)
    BY <1>0 DEF Body, Written, Width, Counted
  <2>2. Len(v) \in Nat /\ 4 * Len(v) = Len(v) * 4
    BY <1>4
  <2> QED BY <1>4, <2>1, <2>2, StoredList DEF WrittenBack
<1>5. CASE item = s7 /\ v \in Seq(Byte) /\ Len(v) = 7
  <2>1. Body(s7, v) = Written(s7, v) /\ Width(s7) = 7 /\ ~ Counted(s7)
    BY <1>0 DEF Body, Width, Counted
  <2>2. Written(s7, v) = [j \in 1..7 |-> IF j <= Len(v) THEN v[j] ELSE 0]
    BY <1>0 DEF Written
  <2>3. [j \in 1..7 |-> IF j <= Len(v) THEN v[j] ELSE 0] = v
    BY <1>5
  <2>4. Stored(s7, v) = v
    BY <1>0 DEF Stored
  <2>5. Body(s7, v) = v /\ Written(s7, v) = v
    BY <2>1, <2>2, <2>3
  <2>6. v \in Seq(Byte) /\ Len(v) = Width(s7) /\ Width(s7) \in 1..7 /\ ~ Counted(s7) /\ item = s7
    BY <1>5, <2>1
  <2> QED BY <2>4, <2>5, <2>6, Zenon DEF WrittenBack
<1>6. CASE item = s0 /\ v \in Seq(Byte) /\ Len(v) <= MaxCount
  <2>1. /\ Body(s0, v) = v /\ Width(s0) = 1 /\ Counted(s0) /\ Written(s0, v) = BigEndian(Len(v), 4) \o v
        /\ Stored(s0, v) = v
    BY <1>0 DEF Body, Written, Width, Counted, Stored
  <2> QED BY <1>6, <2>1 DEF WrittenBack
<1> QED BY <1>1, <1>2, <1>3, <1>4, <1>5, <1>6 DEF Carries

-----------------------------------------------------------------------------
(* The keys and their formats.                                             *)

\* Every format is made of the six conversions.
LEMMA FormatItems ==
    /\ DOMAIN Format = ToSet(Keys) \cup {"Hello", "HelloBack"}
    /\ \A k \in DOMAIN Format : Format[k] \in Seq(Item)
<1>1. i1 \in Item /\ i2 \in Item /\ i4 \in Item /\ I4 \in Item /\ s7 \in Item /\ s0 \in Item
  BY DEF Item
<1>2. DOMAIN Format = ToSet(Keys) \cup {"Hello", "HelloBack"}
  BY Zenon DEF Format
<1>3. ASSUME NEW k \in DOMAIN Format
      PROVE  Format[k] \in {<<i2, i2>>, <<i1>>, <<i2, i2, i2>>, <<s0>>, <<s7, i2, i2>>, <<s7, i2, i2, s0>>,
                            <<i2, i2, i4, i2>>, <<i2, i2, i2, i2, s0>>, <<i2, i2, i2, s0>>, <<i1, i4>>,
                            <<i1, i4, i1, s0>>, <<I4>>, <<i1, s0>>, <<i2, s0>>,
                            <<i2, i2, i2, i2, i2, i2, i2>>, <<>>}
  BY <1>2 DEF Format
<1>4. /\ <<>> \in Seq(Item) /\ <<i1>> \in Seq(Item) /\ <<s0>> \in Seq(Item) /\ <<I4>> \in Seq(Item)
      /\ <<i2, i2>> \in Seq(Item) /\ <<i1, i4>> \in Seq(Item) /\ <<i1, s0>> \in Seq(Item)
      /\ <<i2, s0>> \in Seq(Item)
  BY <1>1
<1>5. /\ <<i2, i2, i2>> \in Seq(Item) /\ <<s7, i2, i2>> \in Seq(Item)
      /\ <<s7, i2, i2, s0>> \in Seq(Item) /\ <<i2, i2, i4, i2>> \in Seq(Item)
      /\ <<i2, i2, i2, s0>> \in Seq(Item) /\ <<i1, i4, i1, s0>> \in Seq(Item)
  BY <1>1
<1>6. /\ <<i2, i2, i2, i2, s0>> \in Seq(Item) /\ <<i2, i2, i2, i2, i2, i2, i2>> \in Seq(Item)
  BY <1>1
<1>7. ASSUME NEW k \in DOMAIN Format PROVE Format[k] \in Seq(Item)
  BY <1>3, <1>4, <1>5, <1>6, Zenon
<1> QED BY <1>2, <1>7

\* The keys are the strings of Keys, by their numbers.
LEMMA KeysNumbered ==
    ASSUME NEW k \in ToSet(Keys)
    PROVE  /\ KeyNumber[k] \in 1..Len(Keys) /\ Keys[KeyNumber[k]] = k
           /\ Len(Keys) = 30
<1>1. Len(Keys) = 30 /\ DOMAIN Keys = 1..30
  BY DEF Keys
<1>2. \E n \in 1..Len(Keys) : Keys[n] = k
  BY <1>1, Zenon DEF ToSet
<1>3. KeyNumber[k] = CHOOSE n \in 1..Len(Keys) : Keys[n] = k
  BY Zenon DEF KeyNumber
<1> QED BY <1>1, <1>2, <1>3, Zenon

\* None of them is one of the words kept for what is not a key.
LEMMA KeysKnown ==
    ASSUME NEW k \in ToSet(Keys)
    PROVE  k \in DOMAIN Format /\ k \notin {"unknown", "none", "Hello", "HelloBack"}
<1>1. DOMAIN Keys = 1..30
  BY DEF Keys
<1>2. \A n \in 1..30 : Keys[n] \notin {"unknown", "none", "Hello", "HelloBack"}
  BY DEF Keys
<1>3. \E n \in 1..30 : Keys[n] = k
  BY <1>1, Zenon DEF ToSet
<1> QED BY <1>2, <1>3, FormatItems

\* The four letters are read as the key they were written for.
LEMMA KeyComesBack ==
    ASSUME NEW k \in ToSet(Keys)
    PROVE  Letters(k) \in Seq(Byte) /\ Len(Letters(k)) = 4 /\ KeyOf(Letters(k)) = k
<1> DEFINE n == KeyNumber[k]
           b == Letters(k)
<1>1. n \in 1..30 /\ Keys[n] = k /\ Len(Keys) = 30
  BY KeysNumbered
<1>2. b = [j \in 1..4 |-> 64 + n]
  BY DEF Letters
<1> HIDE DEF n, b
<1>3. 64 + n \in Byte
  BY <1>1 DEF Byte
<1>4. b \in [1..4 -> Byte] /\ \A j \in 1..4 : b[j] = 64 + n
  BY <1>2, <1>3
<1>5. b \in Seq(Byte) /\ Len(b) = 4
  BY <1>4, ListIsSeq
<1>6. b[1] - 64 = n /\ \A j \in 2..4 : b[j] = b[1]
  BY <1>1, <1>4
<1>7. KeyOf(b) = Keys[n]
  BY <1>1, <1>6, Zenon DEF KeyOf
<1> QED BY <1>1, <1>5, <1>7 DEF b

-----------------------------------------------------------------------------
(* What the server sends, and its pieces.                                  *)

\* No string or vector the limit of readf admits is too long for a payload.
LEMMA Limits ==
    /\ kProtocolMaxMessageLength \in Nat /\ MaxCount \in Nat /\ Enormous \in Nat
    /\ kProtocolMaxMessageLength >= 4 * MaxCount /\ kProtocolMaxMessageLength >= 7
    /\ kProtocolMaxMessageLength < Enormous /\ MaxCount < Enormous
  BY DEF kProtocolMaxMessageLength, MaxCount, Enormous

Sent == Greeting \cup Message

\* The bytes of m's arguments, one by one, and those behind the first n.
Pieces(m) == [j \in 1..Len(Format[m.key]) |-> Written(Format[m.key][j], m.args[j])]
Suffix(m, n) == Rest(Pieces(m), n)

\* A message has its format's arguments, each of which its conversion carries.
LEMMA SentMessage ==
    ASSUME ServerSpeaks, NEW m \in Sent
    PROVE  /\ m.key \in DOMAIN Format /\ Formats[m.key] = Format[m.key]
           /\ Format[m.key] \in Seq(Item) /\ Len(Format[m.key]) \in Nat
           /\ m = [key |-> m.key, args |-> m.args]
           /\ \E S : m.args \in Seq(S)
           /\ Len(m.args) = Len(Format[m.key])
           /\ \A j \in 1..Len(Format[m.key]) : WrittenBack(Format[m.key][j], m.args[j])
<1>1. Sendable(m)
  BY Zenon DEF ServerSpeaks, Sent
<1>2. m.key \in DOMAIN Format
  BY KeysKnown, FormatItems DEF ServerSpeaks, Sent
<1>3. Format[m.key] \in Seq(Item)
  BY <1>2, FormatItems
<1> DEFINE n == Len(Format[m.key])
           a == [j \in 1..n |-> m.args[j]]
           S == {m.args[j] : j \in 1..n}
<1>4. n \in Nat
  BY <1>3
<1>5. m = [key |-> m.key, args |-> a]
  BY <1>1, Zenon DEF Sendable
<1>6. m.args = a
  <2> HIDE DEF a
  <2>1. [key |-> m.key, args |-> a].args = a
    OBVIOUS
  <2> QED BY <1>5, <2>1
<1>7. a \in Seq(S) /\ Len(a) = n
  <2>1. a \in [1..n -> S]
    OBVIOUS
  <2> HIDE DEF a, n, S
  <2> QED BY <1>4, <2>1, ListIsSeq
<1>8. \A j \in 1..n : WrittenBack(Format[m.key][j], m.args[j])
  <2> TAKE j \in 1..n
  <2>1. Format[m.key][j] \in Item
    BY <1>3, ElementOfSeq
  <2>2. Carries(Format[m.key][j], m.args[j])
    BY <1>1 DEF Sendable
  <2> QED BY <2>1, <2>2, ConversionComesBack
<1>9. Formats[m.key] = Format[m.key]
  BY <1>1 DEF Sendable
<1>10. \E X : m.args \in Seq(X)
  BY <1>6, <1>7
<1>11. m = [key |-> m.key, args |-> m.args] /\ Len(m.args) = n
  BY <1>5, <1>6, <1>7
<1> HIDE DEF a, S
<1> QED BY <1>2, <1>3, <1>4, <1>8, <1>9, <1>10, <1>11

\* There is a piece for each argument, and it is a byte string.
LEMMA PiecesType ==
    ASSUME ServerSpeaks, NEW m \in Sent
    PROVE  /\ Pieces(m) \in Seq(Seq(Byte)) /\ Len(Pieces(m)) = Len(Format[m.key])
           /\ \A j \in 1..Len(Format[m.key]) :
                 Pieces(m)[j] = Written(Format[m.key][j], m.args[j])
<1> DEFINE n == Len(Format[m.key])
           p == Pieces(m)
<1>1. n \in Nat /\ \A j \in 1..n : WrittenBack(Format[m.key][j], m.args[j])
  BY SentMessage
<1>2. p = [j \in 1..n |-> Written(Format[m.key][j], m.args[j])]
  BY DEF Pieces
<1>3. ASSUME NEW j \in 1..n PROVE Written(Format[m.key][j], m.args[j]) \in Seq(Byte)
  <2> DEFINE item == Format[m.key][j]
             v == m.args[j]
  <2>1. WrittenBack(item, v)
    BY <1>1
  <2> HIDE DEF item, v
  <2>2. CASE Counted(item)
    <3>1. /\ Len(v) \in Nat /\ Body(item, v) \in Seq(Byte)
          /\ Written(item, v) = BigEndian(Len(v), 4) \o Body(item, v)
      BY <2>1, <2>2 DEF WrittenBack
    <3>2. BigEndian(Len(v), 4) \in Seq(Byte)
      BY <3>1, BigEndianType
    <3>3. Written(item, v) \in Seq(Byte)
      BY <3>1, <3>2, ConcatProperties
    <3> QED BY <3>3 DEF item, v
  <2>3. CASE ~ Counted(item)
    BY <2>1, <2>3 DEF WrittenBack, item, v
  <2> QED BY <2>2, <2>3
<1> HIDE DEF p
<1>4. p \in [1..n -> Seq(Byte)]
  BY <1>2, <1>3
<1>5. p \in Seq(Seq(Byte)) /\ Len(p) = n
  <2> HIDE DEF n
  <2> QED BY <1>1, <1>4, ListIsSeq
<1>6. \A j \in 1..n : p[j] = Written(Format[m.key][j], m.args[j])
  BY <1>2
<1> QED BY <1>5, <1>6 DEF p

\* The bytes behind the first n arguments are those of the next one and those behind it.
LEMMA SuffixStep ==
    ASSUME ServerSpeaks, NEW m \in Sent, NEW n \in Nat, n < Len(Format[m.key])
    PROVE  /\ Suffix(m, n) = Written(Format[m.key][n + 1], m.args[n + 1]) \o Suffix(m, n + 1)
           /\ Suffix(m, n + 1) \in Seq(Byte)
<1>1. n + 1 \in 1..Len(Format[m.key]) /\ n + 1 \in 0..Len(Pieces(m)) /\ n < Len(Pieces(m))
  BY SentMessage, PiecesType
<1>2. Rest(Pieces(m), n) = Pieces(m)[n + 1] \o Rest(Pieces(m), n + 1)
  BY <1>1, PiecesType, RestStep
<1>3. Rest(Pieces(m), n + 1) \in Seq(Byte)
  BY <1>1, PiecesType, RestType
<1> QED BY <1>1, <1>2, <1>3, PiecesType DEF Suffix

\* Behind the last argument no bytes are left, behind none are all of them.
LEMMA SuffixEnds ==
    ASSUME ServerSpeaks, NEW m \in Sent
    PROVE  /\ Suffix(m, Len(Format[m.key])) = <<>>
           /\ Suffix(m, 0) = FlattenSeq(Pieces(m)) /\ Suffix(m, 0) \in Seq(Byte)
<1>1. Rest(Pieces(m), Len(Pieces(m))) = <<>> /\ Rest(Pieces(m), 0) = FlattenSeq(Pieces(m))
  BY PiecesType, RestAll
<1>2. FlattenSeq(Pieces(m)) \in Seq(Byte)
  BY PiecesType, FlattenType
<1> QED BY <1>1, <1>2, PiecesType DEF Suffix

\* The payload is the letters of the key and all the pieces; the Hello has no letters.
LEMMA PayloadParts ==
    ASSUME ServerSpeaks, NEW m \in Sent
    PROVE  /\ Payload(Formats, m) \in Seq(Byte)
           /\ Len(Payload(Formats, m)) \in Nat
           /\ Len(Payload(Formats, m)) <= kProtocolMaxMessageLength
           /\ m \in Greeting => m.key = "Hello" /\ Payload(Formats, m) = Suffix(m, 0)
           /\ m \in Message =>
                 /\ m.key \in ToSet(Keys) /\ m.key # "DINF"
                 /\ Payload(Formats, m) = Letters(m.key) \o Suffix(m, 0)
<1>1. Formats[m.key] = Format[m.key]
  BY SentMessage
<1>2. writef(Formats[m.key], m.args) = Suffix(m, 0) /\ Suffix(m, 0) \in Seq(Byte)
  BY <1>1, SuffixEnds, Zenon DEF writef, Pieces
<1>3. ASSUME m \in Greeting PROVE m.key = "Hello" /\ Payload(Formats, m) = Suffix(m, 0)
  <2>1. m.key = "Hello"
    BY <1>3 DEF ServerSpeaks
  <2>2. Payload(Formats, m) = <<>> \o Suffix(m, 0)
    BY <1>2, <2>1 DEF Payload
  <2> QED BY <1>2, <2>1, <2>2, ConcatEmptySeq
<1>4. ASSUME m \in Message
      PROVE  /\ m.key \in ToSet(Keys) /\ m.key # "DINF"
             /\ Payload(Formats, m) = Letters(m.key) \o Suffix(m, 0)
             /\ Payload(Formats, m) \in Seq(Byte)
  <2>1. m.key \in ToSet(Keys) /\ m.key # "DINF"
    BY <1>4 DEF ServerSpeaks
  <2>2. m.key \notin {"Hello", "HelloBack"}
    BY <2>1, KeysKnown
  <2>3. Payload(Formats, m) = Letters(m.key) \o Suffix(m, 0)
    BY <1>2, <2>2, Zenon DEF Payload
  <2>4. Letters(m.key) \in Seq(Byte)
    BY <2>1, KeyComesBack
  <2> QED BY <1>2, <2>1, <2>3, <2>4, ConcatProperties
<1>5. Payload(Formats, m) \in Seq(Byte)
  BY <1>2, <1>3, <1>4 DEF Sent
<1>6. Len(Payload(Formats, m)) <= kProtocolMaxMessageLength
  BY Zenon DEF ServerSpeaks, Sendable, Sent
<1> QED BY <1>3, <1>4, <1>5, <1>6

\* readFrame finds the payload's length in front of it.
LEMMA FrameParts ==
    ASSUME ServerSpeaks, NEW m \in Sent
    PROVE  LET p == Payload(Formats, m)
           IN  /\ Frame(p) = BigEndian(Len(p), 4) \o p /\ Frame(p) \in Seq(Byte)
               /\ BigEndian(Len(p), 4) \in Seq(Byte) /\ Len(BigEndian(Len(p), 4)) = 4
               /\ Number(BigEndian(Len(p), 4)) = Len(p)
<1> DEFINE p == Payload(Formats, m)
<1>1. p \in Seq(Byte) /\ Len(p) \in Nat /\ Len(p) <= kProtocolMaxMessageLength
  BY PayloadParts
<1> HIDE DEF p
<1>2. Len(p) < Enormous
  BY <1>1, Limits
<1>3. BigEndian(Len(p), 4) \in Seq(Byte) /\ Len(BigEndian(Len(p), 4)) = 4
  BY <1>1, BigEndianType
<1>4. Number(BigEndian(Len(p), 4)) = Len(p)
  BY <1>1, <1>2, NumberBigEndian4
<1>5. Frame(p) = BigEndian(Len(p), 4) \o p
  BY DEF Frame
<1>6. Frame(p) \in Seq(Byte)
  BY <1>1, <1>3, <1>5, ConcatProperties
<1> QED BY <1>3, <1>4, <1>5, <1>6 DEF p

\* The frames of the messages s, and the bytes of those behind the first k.
Frames(s) == [j \in 1..Len(s) |-> Frame(Payload(Formats, s[j]))]
Coming(s, k) == Rest(Frames(s), k)

\* There is a frame for each message, and it is a byte string.
LEMMA FramesType ==
    ASSUME ServerSpeaks, NEW s \in Seq(Sent)
    PROVE  /\ Frames(s) \in Seq(Seq(Byte)) /\ Len(Frames(s)) = Len(s)
           /\ \A j \in 1..Len(s) : Frames(s)[j] = Frame(Payload(Formats, s[j]))
<1>1. Len(s) \in Nat /\ \A j \in 1..Len(s) : s[j] \in Sent
  BY ElementOfSeq
<1>2. \A j \in 1..Len(s) : Frame(Payload(Formats, s[j])) \in Seq(Byte)
  BY <1>1, FrameParts
<1> DEFINE f == Frames(s)
<1>3. f = [j \in 1..Len(s) |-> Frame(Payload(Formats, s[j]))]
  BY DEF Frames
<1> HIDE DEF f
<1>4. f \in [1..Len(s) -> Seq(Byte)]
  BY <1>2, <1>3
<1>5. f \in Seq(Seq(Byte)) /\ Len(f) = Len(s)
  BY <1>1, <1>4, ListIsSeq
<1>6. \A j \in 1..Len(s) : f[j] = Frame(Payload(Formats, s[j]))
  BY <1>3
<1> QED BY <1>5, <1>6 DEF f

\* What is coming is the next message's frame and what comes behind that.
LEMMA ComingParts ==
    ASSUME ServerSpeaks, NEW s \in Seq(Sent), NEW k \in 0..Len(s)
    PROVE  /\ Coming(s, k) \in Seq(Byte)
           /\ k = Len(s) => Coming(s, k) = <<>>
           /\ k < Len(s) =>
                 /\ s[k + 1] \in Sent
                 /\ Coming(s, k) = Frame(Payload(Formats, s[k + 1])) \o Coming(s, k + 1)
                 /\ Coming(s, k + 1) \in Seq(Byte)
<1>1. k \in Nat /\ k \in 0..Len(Frames(s)) /\ Frames(s) \in Seq(Seq(Byte)) /\ Len(Frames(s)) = Len(s)
  BY FramesType
<1>2. Coming(s, k) \in Seq(Byte)
  BY <1>1, RestType DEF Coming
<1>3. ASSUME k = Len(s) PROVE Coming(s, k) = <<>>
  BY <1>1, <1>3, RestAll DEF Coming
<1>4. ASSUME k < Len(s)
      PROVE  /\ s[k + 1] \in Sent
             /\ Coming(s, k) = Frame(Payload(Formats, s[k + 1])) \o Coming(s, k + 1)
             /\ Coming(s, k + 1) \in Seq(Byte)
  <2>1. k + 1 \in 1..Len(s) /\ k + 1 \in 0..Len(Frames(s))
    BY <1>1, <1>4
  <2>2. s[k + 1] \in Sent
    BY <2>1, ElementOfSeq
  <2>3. Rest(Frames(s), k) = Frames(s)[k + 1] \o Rest(Frames(s), k + 1)
    BY <1>1, <1>4, RestStep
  <2>4. Frames(s)[k + 1] = Frame(Payload(Formats, s[k + 1]))
    BY <2>1, FramesType
  <2>5. Rest(Frames(s), k + 1) \in Seq(Byte)
    BY <1>1, <2>1, RestType
  <2> QED BY <2>2, <2>3, <2>4, <2>5 DEF Coming
<1> QED BY <1>2, <1>3, <1>4

\* One more message is one more frame behind everything that is coming.
LEMMA ComingAppend ==
    ASSUME ServerSpeaks, NEW s \in Seq(Sent), NEW m \in Sent, NEW k \in 0..Len(s)
    PROVE  Coming(Append(s, m), k) = Coming(s, k) \o Frame(Payload(Formats, m))
<1> DEFINE x == Frame(Payload(Formats, m))
           t == Append(s, m)
<1>1. x \in Seq(Byte)
  BY FrameParts
<1>2. /\ t \in Seq(Sent) /\ Len(t) = Len(s) + 1 /\ Len(s) \in Nat
      /\ \A j \in 1..Len(s) : t[j] = s[j]
      /\ t[Len(s) + 1] = m
  BY AppendProperties
<1>3. /\ Frames(s) \in Seq(Seq(Byte)) /\ Len(Frames(s)) = Len(s)
      /\ \A j \in 1..Len(s) : Frames(s)[j] = Frame(Payload(Formats, s[j]))
  BY FramesType
<1> HIDE DEF t, x
<1>4. /\ Frames(t) \in Seq(Seq(Byte)) /\ Len(Frames(t)) = Len(s) + 1
      /\ \A j \in 1..Len(s) + 1 : Frames(t)[j] = Frame(Payload(Formats, t[j]))
  BY <1>2, FramesType
<1> DEFINE u == Append(Frames(s), x)
<1>5. /\ u \in Seq(Seq(Byte)) /\ Len(u) = Len(s) + 1
      /\ \A j \in 1..Len(s) : u[j] = Frames(s)[j]
      /\ u[Len(s) + 1] = x
  <2> DEFINE f == Frames(s)
  <2>1. f \in Seq(Seq(Byte)) /\ Len(f) = Len(s)
    BY <1>3
  <2> HIDE DEF f
  <2>2. /\ Append(f, x) \in Seq(Seq(Byte)) /\ Len(Append(f, x)) = Len(f) + 1
        /\ \A j \in 1..Len(f) : Append(f, x)[j] = f[j]
        /\ Append(f, x)[Len(f) + 1] = x
    BY <1>1, <2>1, AppendProperties
  <2> QED BY <2>1, <2>2 DEF f
<1>6. Frames(t) = u
  <2> HIDE DEF u
  <2>1. ASSUME NEW j \in 1..Len(s) + 1 PROVE Frames(t)[j] = u[j]
    <3>1. CASE j \in 1..Len(s)
      BY <1>2, <1>3, <1>4, <1>5, <3>1
    <3>2. CASE j = Len(s) + 1
      BY <1>2, <1>4, <1>5, <3>2 DEF x
    <3> QED BY <1>2, <3>1, <3>2
  <2> QED BY <1>4, <1>5, <2>1, SeqEqual
<1>7. Rest(u, k) = Rest(Frames(s), k) \o x
  BY <1>1, <1>3, RestAppend
<1> QED BY <1>6, <1>7 DEF Coming, t, x

-----------------------------------------------------------------------------
(* The inductive invariant: where in the server's bytes the reader is.     *)

\* The message whose frame is being read, and its next argument.
Current == sent[Len(handled) + 1]
Taken == Len(message.args)
Value == Current.args[Taken + 1]

Typed ==
    /\ wire \in Seq(Byte) /\ got \in Seq(Byte) /\ m_buffer \in Seq(Byte)
    /\ want \in 0..kProtocolMaxMessageLength /\ Len(got) <= want
    /\ m_handshakeDone \in BOOLEAN /\ runtimeAtOpen \in BOOLEAN
    /\ stage \in {"closed", "length", "payload", "key", "count", "value", "leaving"}
    /\ stage \notin {"count", "value"} => message = NoMessage

\* The messages of the connection; the handled ones are the first of those sent.
Told ==
    /\ sent \in Seq(Sent) /\ handled \in Seq(Sent)
    /\ Len(sent) <= MaxSent /\ Len(handled) <= Len(sent)
    /\ \A j \in 1..Len(sent) : IF j = 1 THEN sent[j] \in Greeting ELSE sent[j] \in Message
    /\ \A j \in 1..Len(handled) : handled[j] = sent[j]
    /\ stage # "closed" => sent # <<>>

\* At a length nothing is left over; at a payload its length was the frame's.
AtLength ==
    stage = "length" =>
        want = 4 /\ m_buffer = <<>> /\ got \o wire = Coming(sent, Len(handled))
AtPayload ==
    stage = "payload" =>
        /\ Len(handled) < Len(sent)
        /\ want = Len(Payload(Formats, Current)) /\ m_buffer = <<>>
        /\ got \o wire = Payload(Formats, Current) \o Coming(sent, Len(handled) + 1)

\* Then the payload is in the buffer, and what is on the wire are the frames behind it.
Parsing ==
    stage \in {"key", "count", "value"} =>
        Len(handled) < Len(sent) /\ wire = Coming(sent, Len(handled) + 1) /\ want = Len(got)
AtKey ==
    stage = "key" =>
        /\ handled # <<>>
        /\ got = Letters(Current.key) /\ m_buffer = Suffix(Current, 0)
AtArgument ==
    stage \in {"count", "value"} =>
        /\ Taken \in Nat /\ Taken < Len(Format[Current.key])
        /\ message = [key |-> Current.key, args |-> SubSeq(Current.args, 1, Taken)]
AtCount ==
    stage = "count" =>
        /\ Counted(NextItem)
        /\ got = BigEndian(Len(Value), 4)
        /\ m_buffer = Body(NextItem, Value) \o Suffix(Current, Taken + 1)
AtValue ==
    stage = "value" =>
        got = Body(NextItem, Value) /\ m_buffer = Suffix(Current, Taken + 1)
AtClosed == stage = "closed" => m_buffer = <<>>

Position == AtLength /\ AtPayload /\ Parsing /\ AtKey /\ AtArgument /\ AtCount /\ AtValue /\ AtClosed
FramingInv == Typed /\ Told /\ Position
-----------------------------------------------------------------------------
(* readExact.                                                              *)

\* What the buffer has is taken from it, in order.
LEMMA ReadParts ==
    ASSUME NEW purpose, NEW n \in Nat, NEW buffer \in Seq(Byte), Read(purpose, n, buffer)
    PROVE  /\ stage' = purpose /\ want' = n
           /\ got' \in Seq(Byte) /\ m_buffer' \in Seq(Byte) /\ Len(got') <= n
           /\ got' \o m_buffer' = buffer
           /\ n <= Len(buffer) => Len(got') = n
<1> DEFINE k == IF n < Len(buffer) THEN n ELSE Len(buffer)
<1>1. Len(buffer) \in Nat
  OBVIOUS
<1>2. k \in 0..Len(buffer) /\ k <= n /\ (n <= Len(buffer) => k = n)
  BY <1>1
<1>3. /\ stage' = purpose /\ want' = n
      /\ got' = SubSeq(buffer, 1, k) /\ m_buffer' = SubSeq(buffer, k + 1, Len(buffer))
  BY DEF Read
<1> HIDE DEF k
<1> QED BY <1>2, <1>3, TakeDrop

\* An empty buffer gives nothing.
LEMMA ReadNothing ==
    ASSUME NEW purpose, NEW n \in Nat, Read(purpose, n, <<>>)
    PROVE  stage' = purpose /\ want' = n /\ got' = <<>> /\ m_buffer' = <<>>
<1>1. <<>> \in Seq(Byte)
  BY EmptySeq
<1>2. /\ stage' = purpose /\ want' = n /\ got' \in Seq(Byte) /\ m_buffer' \in Seq(Byte)
      /\ got' \o m_buffer' = <<>>
  BY <1>1, ReadParts
<1> QED BY <1>2, ConcatEqualIffEmpty

\* If all that is wanted is there, it is taken and nothing else.
LEMMA ReadWhole ==
    ASSUME NEW purpose, NEW n \in Nat, NEW a \in Seq(Byte), NEW b \in Seq(Byte), Len(a) = n,
           Read(purpose, n, a \o b)
    PROVE  stage' = purpose /\ want' = n /\ got' = a /\ m_buffer' = b
<1>0. Len(a) \in Nat /\ Len(b) \in Nat
  BY LenProperties
<1>1. a \o b \in Seq(Byte) /\ Len(a \o b) = Len(a) + Len(b) /\ Len(b) \in Nat
  <2>1. a \o b \in Seq(Byte) /\ Len(a \o b) = Len(a) + Len(b)
    BY ConcatProperties, Zenon
  <2> QED BY <1>0, <2>1
<1>2. /\ stage' = purpose /\ want' = n /\ got' \in Seq(Byte) /\ m_buffer' \in Seq(Byte)
      /\ got' \o m_buffer' = a \o b
      /\ n <= Len(a \o b) => Len(got') = n
  BY <1>1, ReadParts
<1>3. Len(got') = Len(a)
  BY <1>1, <1>2
<1> QED BY <1>2, <1>3, SameCut

-----------------------------------------------------------------------------
(* Steps of the reader.                                                    *)

\* What a step of the reader does to the messages of the connection.
Advances ==
    /\ UNCHANGED <<sent, runtimeAtOpen>> /\ stage' # "closed"
    /\ handled' = handled \/ handled' = Append(handled, Current)

\* The payload of a message has arrived, and nothing of the next.
Underway ==
    /\ Told /\ stage # "closed"
    /\ Len(handled) < Len(sent)
    /\ wire \in Seq(Byte) /\ wire = Coming(sent, Len(handled) + 1)
    /\ m_handshakeDone \in BOOLEAN /\ runtimeAtOpen \in BOOLEAN

\* The message being read is a Hello if and only if it is the first.
LEMMA CurrentSent ==
    ASSUME Told, Len(handled) < Len(sent)
    PROVE  /\ Current \in Sent /\ Len(handled) \in Nat /\ Len(sent) \in Nat
           /\ handled = <<>> => Current \in Greeting
           /\ handled # <<>> => Current \in Message
<1>1. sent \in Seq(Sent) /\ handled \in Seq(Sent)
  BY DEF Told
<1>2. Len(sent) \in Nat /\ Len(handled) \in Nat
  BY <1>1, LenProperties
<1>3. Len(handled) + 1 \in 1..Len(sent)
  BY <1>2
<1>4. IF Len(handled) + 1 = 1 THEN Current \in Greeting ELSE Current \in Message
  BY <1>3 DEF Told, Current
<1>5. handled = <<>> <=> Len(handled) = 0
  BY <1>1, EmptySeq
<1>6. Len(handled) = 0 <=> Len(handled) + 1 = 1
  BY <1>2
<1> QED BY <1>2, <1>4, <1>5, <1>6 DEF Sent

\* Where a step leads, stage by stage.
LEMMA ToLeaving ==
    ASSUME stage' = "leaving"
    PROVE  Position'
  BY DEF Position, AtLength, AtPayload, Parsing, AtKey, AtArgument, AtCount, AtValue, AtClosed

\* At a length.
LEMMA ToLength ==
    ASSUME stage' = "length", want' = 4, m_buffer' = <<>>,
           got' \o wire' = Coming(sent', Len(handled'))
    PROVE  Position'
  BY DEF Position, AtLength, AtPayload, Parsing, AtKey, AtArgument, AtCount, AtValue, AtClosed

\* At a payload.
LEMMA ToPayload ==
    ASSUME stage' = "payload", AtPayload'
    PROVE  Position'
  BY DEF Position, AtLength, Parsing, AtKey, AtArgument, AtCount, AtValue, AtClosed

\* At a key.
LEMMA ToKey ==
    ASSUME stage' = "key", Parsing', AtKey'
    PROVE  Position'
  BY DEF Position, AtLength, AtPayload, AtArgument, AtCount, AtValue, AtClosed

\* At a count.
LEMMA ToCount ==
    ASSUME stage' = "count", Parsing', AtArgument', AtCount'
    PROVE  Position'
  BY DEF Position, AtLength, AtPayload, AtKey, AtValue, AtClosed

\* At a value.
LEMMA ToValue ==
    ASSUME stage' = "value", Parsing', AtArgument', AtValue'
    PROVE  Position'
  BY DEF Position, AtLength, AtPayload, AtKey, AtCount, AtClosed

\* A handled message ends its frame: the reader is at the next length, or leaves.
LEMMA HandleKeeps ==
    ASSUME ServerSpeaks, Underway, Handle(Current, <<>>)
    PROVE  FramingInv' /\ Advances
<1> DEFINE h == Len(handled)
           c == Current
<1>1. Told /\ stage # "closed" /\ h < Len(sent) /\ wire \in Seq(Byte) /\ wire = Coming(sent, h + 1)
  BY DEF Underway
<1>2. c \in Sent /\ h \in Nat /\ Len(sent) \in Nat
  BY <1>1, CurrentSent
<1>3. handled' = Append(handled, c) /\ wire' = wire /\ sent' = sent /\ runtimeAtOpen' = runtimeAtOpen
  BY DEF Handle
<1>4. /\ handled' \in Seq(Sent) /\ Len(handled') = h + 1
      /\ (\A j \in 1..h : handled'[j] = handled[j]) /\ handled'[h + 1] = c
  <2>1. handled \in Seq(Sent)
    BY <1>1 DEF Told
  <2> HIDE DEF c
  <2> QED BY <1>2, <1>3, <2>1, AppendProperties
<1>5. Told'
  <2>1. \A j \in 1..h + 1 : handled'[j] = sent'[j]
    <3>1. \A j \in 1..h : handled[j] = sent[j]
      BY <1>1 DEF Told
    <3>2. c = sent[h + 1]
      BY DEF Current
    <3> QED BY <1>2, <1>3, <1>4, <3>1, <3>2
  <2>2. h + 1 <= Len(sent)
    BY <1>1, <1>2
  <2>3. /\ sent \in Seq(Sent) /\ Len(sent) <= MaxSent /\ sent # <<>>
        /\ \A j \in 1..Len(sent) : IF j = 1 THEN sent[j] \in Greeting ELSE sent[j] \in Message
    BY <1>1 DEF Told
  <2> QED BY <1>3, <1>4, <2>1, <2>2, <2>3 DEF Told
<1>6. CASE Leave(<<>>) /\ UNCHANGED <<m_handshakeDone, out>>
  <2>1. /\ stage' = "leaving" /\ want' = 0 /\ got' = <<>> /\ m_buffer' = <<>> /\ message' = NoMessage
        /\ m_handshakeDone' = m_handshakeDone
    BY <1>6 DEF Leave
  <2>2. Typed'
    BY <1>1, <1>3, <2>1, EmptySeq, Limits DEF Typed, Underway
  <2>3. Position'
    BY <2>1, ToLeaving
  <2> QED BY <1>3, <1>5, <2>1, <2>2, <2>3 DEF FramingInv, Advances
<1>7. CASE /\ m_handshakeDone' = (m_handshakeDone \/ c.key = "DSOP")
           /\ Read("length", 4, <<>>) /\ message' = NoMessage
  <2>1. stage' = "length" /\ want' = 4 /\ got' = <<>> /\ m_buffer' = <<>>
    BY <1>7, ReadNothing
  <2>2. m_handshakeDone' \in BOOLEAN /\ runtimeAtOpen' \in BOOLEAN
    BY <1>3, <1>7, Zenon DEF Underway
  <2>3. Typed'
    <3>1. <<>> \in Seq(Byte) /\ Len(<<>>) = 0 /\ 4 \in 0..kProtocolMaxMessageLength
      BY EmptySeq, Limits
    <3>2. wire' \in Seq(Byte) /\ message' = NoMessage
      BY <1>1, <1>3, <1>7
    <3> QED BY <2>1, <2>2, <3>1, <3>2 DEF Typed
  <2>4. got' \o wire' = wire
    BY <1>1, <1>3, <2>1, ConcatEmptySeq
  <2>5. Position'
    BY <1>1, <1>3, <1>4, <2>1, <2>4, ToLength
  <2> QED BY <1>3, <1>5, <2>1, <2>3, <2>5 DEF FramingInv, Advances
<1> QED BY <1>6, <1>7 DEF Handle

\* With n arguments of the message read and the rest of its bytes in the buffer, readf
\* goes on to the next argument or the message is handled.
LEMMA ProceedKeeps ==
    ASSUME ServerSpeaks, Underway, NEW n \in Nat, n <= Len(Format[Current.key]),
           NEW m, m = [key |-> Current.key, args |-> SubSeq(Current.args, 1, n)],
           Proceed(m, Suffix(Current, n))
    PROVE  FramingInv' /\ Advances
<1> DEFINE h == Len(handled)
           c == Current
           fmt == Format[c.key]
<1>1. Told /\ stage # "closed" /\ h < Len(sent) /\ wire \in Seq(Byte) /\ wire = Coming(sent, h + 1)
  BY DEF Underway
<1>2. c \in Sent /\ h \in Nat /\ Len(sent) \in Nat
  BY <1>1, CurrentSent
<1>3. /\ fmt \in Seq(Item) /\ Len(fmt) \in Nat /\ c = [key |-> c.key, args |-> c.args]
      /\ Len(c.args) = Len(fmt)
      /\ \A j \in 1..Len(fmt) : WrittenBack(fmt[j], c.args[j])
  BY <1>2, SentMessage
<1>4. PICK S : c.args \in Seq(S)
  BY <1>2, SentMessage
<1>5. m.key = c.key /\ m.args = SubSeq(c.args, 1, n) /\ Len(m.args) = n
  <2>1. n \in 0..Len(c.args)
    BY <1>3
  <2> HIDE DEF c
  <2> QED BY <1>4, <2>1, TakeDrop DEF c
<1>6. CASE n = Len(fmt)
  <2>1. m = c
    <3>1. SubSeq(c.args, 1, n) = c.args
      BY <1>3, <1>4, <1>6, SubSeqFull
    <3> QED BY <1>3, <3>1
  <2>2. Suffix(c, n) = <<>>
    BY <1>2, <1>6, SuffixEnds
  <2>3. Handle(c, <<>>)
    BY <1>5, <1>6, <2>1, <2>2 DEF Proceed
  <2> QED BY <2>3, HandleKeeps
<1>7. CASE n # Len(fmt)
  <2> DEFINE item == fmt[n + 1]
             v == c.args[n + 1]
             rest == Suffix(c, n + 1)
  <2>1. n < Len(fmt) /\ n + 1 \in 1..Len(fmt)
    BY <1>3, <1>7
  <2>2. Suffix(c, n) = Written(item, v) \o rest /\ rest \in Seq(Byte)
    BY <1>2, <2>1, SuffixStep
  <2>3. WrittenBack(item, v)
    BY <1>3, <2>1
  <2>4. /\ IF Counted(item) THEN Read("count", 4, Suffix(c, n)) ELSE Read("value", Width(item), Suffix(c, n))
        /\ message' = m
        /\ wire' = wire /\ m_handshakeDone' = m_handshakeDone /\ out' = out
        /\ sent' = sent /\ handled' = handled /\ runtimeAtOpen' = runtimeAtOpen
    BY <1>5, <1>7 DEF Proceed, history
  <2>5. Current' = c /\ Taken' = n /\ NextItem' = item /\ Value' = v
    <3>1. Current' = c
      BY <2>4 DEF Current
    <3>2. Taken' = n
      BY <1>5, <2>4 DEF Taken
    <3>3. NextItem' = item
      BY <1>5, <2>4 DEF NextItem
    <3> QED BY <3>1, <3>2, <3>3 DEF Value
  <2>6. Len(handled') < Len(sent') /\ wire' = Coming(sent', Len(handled') + 1)
    BY <1>1, <2>4
  <2>7. ASSUME stage' \in {"count", "value"} PROVE AtArgument' /\ Told'
    <3>1. AtArgument'
      BY <1>5, <2>1, <2>4, <2>5 DEF AtArgument
    <3>2. Told'
      BY <1>1, <2>4 DEF Told
    <3> QED BY <3>1, <3>2
  <2>8. wire' \in Seq(Byte) /\ m_handshakeDone' \in BOOLEAN /\ runtimeAtOpen' \in BOOLEAN
    BY <1>1, <2>4, Zenon DEF Underway
  <2> HIDE DEF item, v, rest, fmt, c
  <2>9. CASE Counted(item)
    <3> DEFINE count == BigEndian(Len(v), 4)
               body == Body(item, v)
    <3>1. /\ Len(v) \in Nat /\ body \in Seq(Byte)
          /\ Written(item, v) = count \o body
      BY <2>3, <2>9 DEF WrittenBack
    <3>2. count \in Seq(Byte) /\ Len(count) = 4
      BY <3>1, BigEndianType
    <3> HIDE DEF count, body
    <3>3. Suffix(c, n) = count \o (body \o rest) /\ body \o rest \in Seq(Byte)
      <4>1. body \o rest \in Seq(Byte)
        BY <2>2, <3>1, ConcatProperties
      <4>2. (count \o body) \o rest = count \o (body \o rest)
        BY <2>2, <3>1, <3>2, Regrouped
      <4> QED BY <2>2, <3>1, <4>1, <4>2
    <3>4. Read("count", 4, count \o (body \o rest))
      BY <2>4, <2>9, <3>3
    <3>5. stage' = "count" /\ want' = 4 /\ got' = count /\ m_buffer' = body \o rest
      BY <3>2, <3>3, <3>4, ReadWhole
    <3>6. Parsing'
      BY <2>6, <3>2, <3>5 DEF Parsing
    <3>7. AtCount'
      BY <2>5, <2>9, <3>5 DEF AtCount, count, body, rest, c
    <3>8. Position'
      BY <2>7, <3>5, <3>6, <3>7, ToCount
    <3>9. Typed'
      <4>1. 4 \in 0..kProtocolMaxMessageLength
        BY Limits
      <4>2. got' \in Seq(Byte) /\ m_buffer' \in Seq(Byte) /\ Len(got') <= want'
        <5>1. Len(got') = 4 /\ want' = 4
          BY <3>2, <3>5
        <5>2. got' \in Seq(Byte) /\ m_buffer' \in Seq(Byte)
          BY <3>2, <3>3, <3>5, Zenon
        <5> QED BY <5>1, <5>2
      <4> QED BY <2>8, <3>5, <4>1, <4>2 DEF Typed
    <3> QED BY <2>4, <2>7, <3>5, <3>8, <3>9 DEF FramingInv, Advances
  <2>10. CASE ~ Counted(item)
    <3> DEFINE body == Body(item, v)
               w == Width(item)
    <3>1. body \in Seq(Byte) /\ Len(body) = w /\ Written(item, v) = body /\ w \in 1..7
      BY <2>3, <2>10 DEF WrittenBack
    <3> HIDE DEF body
    <3>2. Read("value", w, body \o rest)
      BY <2>2, <2>4, <2>10, <3>1
    <3> HIDE DEF w
    <3>3. stage' = "value" /\ want' = w /\ got' = body /\ m_buffer' = rest
      BY <2>2, <3>1, <3>2, ReadWhole
    <3>4. Parsing'
      BY <2>6, <3>1, <3>3 DEF Parsing
    <3>5. AtValue'
      BY <2>5, <3>3 DEF AtValue, body, rest, c
    <3>6. Position'
      BY <2>7, <3>3, <3>4, <3>5, ToValue
    <3>7. Typed'
      <4>1. w \in 0..kProtocolMaxMessageLength
        BY <3>1, Limits
      <4> QED BY <2>2, <2>8, <3>1, <3>3, <4>1 DEF Typed
    <3> QED BY <2>4, <2>7, <3>3, <3>6, <3>7 DEF FramingInv, Advances
  <2> QED BY <2>9, <2>10
<1> QED BY <1>6, <1>7

\* The bytes of a sequence are told from none by its length.
LEMMA NotYet ==
    ASSUME ServerSpeaks, FramingInv, Complete("length")
    PROVE  Len(handled) < Len(sent)
<1>1. /\ sent \in Seq(Sent) /\ handled \in Seq(Sent) /\ Len(handled) <= Len(sent)
      /\ got \in Seq(Byte) /\ wire \in Seq(Byte) /\ Len(got) = 4
      /\ got \o wire = Coming(sent, Len(handled))
  BY DEF FramingInv, Told, Typed, Position, AtLength, Complete
<1>2. Len(handled) \in Nat /\ Len(sent) \in Nat /\ Len(wire) \in Nat
  BY <1>1, LenProperties
<1>3. SUFFICES ASSUME Len(handled) = Len(sent) PROVE FALSE
  BY <1>1, <1>2
<1>4. got \o wire = <<>>
  <2>1. Len(handled) \in 0..Len(sent)
    BY <1>2, <1>3
  <2> QED BY <1>1, <1>3, <2>1, ComingParts
<1>5. got = <<>>
  BY <1>1, <1>4, ConcatEqualIffEmpty
<1> QED BY <1>1, <1>5, EmptySeq

\* The length of the next frame is read, and its payload is next.
LEMMA LengthReadKeeps ==
    ASSUME ServerSpeaks, FramingInv, LengthRead
    PROVE  FramingInv' /\ Advances
<1> DEFINE h == Len(handled)
           p == Payload(Formats, Current)
           rest == Coming(sent, h + 1)
<1>1. Complete("length") /\ h < Len(sent)
  BY NotYet DEF LengthRead
<1>2. /\ Told /\ Typed /\ stage = "length" /\ Len(got) = 4
      /\ m_buffer = <<>> /\ got \o wire = Coming(sent, h)
  BY <1>1 DEF FramingInv, Position, AtLength, Complete
<1>3. Current \in Sent /\ h \in Nat /\ Len(sent) \in Nat /\ sent \in Seq(Sent)
  BY <1>1, <1>2, CurrentSent DEF Told
<1>4. /\ p \in Seq(Byte) /\ Len(p) \in Nat /\ Len(p) <= kProtocolMaxMessageLength
      /\ Frame(p) = BigEndian(Len(p), 4) \o p
      /\ BigEndian(Len(p), 4) \in Seq(Byte) /\ Len(BigEndian(Len(p), 4)) = 4
      /\ Number(BigEndian(Len(p), 4)) = Len(p)
  BY <1>3, PayloadParts, FrameParts
<1>5. Coming(sent, h) = Frame(p) \o rest /\ rest \in Seq(Byte)
  <2>1. h \in 0..Len(sent)
    BY <1>1, <1>3
  <2> QED BY <1>1, <1>3, <2>1, ComingParts DEF Current
<1> HIDE DEF p, rest
<1>6. got = BigEndian(Len(p), 4) /\ wire = p \o rest
  <2>1. (BigEndian(Len(p), 4) \o p) \o rest = BigEndian(Len(p), 4) \o (p \o rest)
    <3> DEFINE x == BigEndian(Len(p), 4)
    <3>1. x \in Seq(Byte) /\ p \in Seq(Byte) /\ rest \in Seq(Byte)
      BY <1>4, <1>5
    <3> HIDE DEF x
    <3>2. (x \o p) \o rest = x \o (p \o rest)
      BY <3>1, Regrouped
    <3> QED BY <3>2 DEF x
  <2>2. p \o rest \in Seq(Byte)
    BY <1>4, <1>5, ConcatProperties
  <2>3. got \in Seq(Byte) /\ wire \in Seq(Byte)
    BY <1>2 DEF Typed
  <2>4. got \o wire = BigEndian(Len(p), 4) \o (p \o rest)
    BY <1>2, <1>4, <1>5, <2>1
  <2> QED BY <1>2, <1>4, <2>2, <2>3, <2>4, SameCut, ZenonT(30)
<1>7. Number(got) = Len(p) /\ ~ (Number(got) > kProtocolMaxMessageLength)
  BY <1>4, <1>6, Limits
<1>8. /\ Read("payload", Len(p), <<>>) /\ message' = message
      /\ wire' = wire /\ m_handshakeDone' = m_handshakeDone
      /\ sent' = sent /\ handled' = handled /\ runtimeAtOpen' = runtimeAtOpen
  BY <1>2, <1>7 DEF LengthRead, history
<1>9. stage' = "payload" /\ want' = Len(p) /\ got' = <<>> /\ m_buffer' = <<>>
  BY <1>4, <1>8, ReadNothing
<1>10. Typed'
  <2>1. <<>> \in Seq(Byte) /\ Len(<<>>) = 0 /\ Len(p) \in 0..kProtocolMaxMessageLength
    BY <1>4, EmptySeq, Limits
  <2>2. /\ wire' \in Seq(Byte) /\ m_handshakeDone' \in BOOLEAN /\ runtimeAtOpen' \in BOOLEAN
        /\ message' = NoMessage
    BY <1>2, <1>8 DEF Typed
  <2>3. Len(got') <= want'
    BY <1>4, <1>9, <2>1
  <2> QED BY <1>9, <2>1, <2>2, <2>3 DEF Typed
<1>11. Told'
  BY <1>2, <1>8 DEF Told
<1>12. AtPayload'
  <2>1. got' \o wire' = p \o rest
    <3>1. p \o rest \in Seq(Byte)
      BY <1>4, <1>5, ConcatProperties
    <3> QED BY <1>6, <1>8, <1>9, <3>1, ConcatEmptySeq
  <2>2. Current' = Current /\ Len(handled') = h /\ sent' = sent
    BY <1>8 DEF Current
  <2> QED BY <1>1, <1>9, <2>1, <2>2 DEF AtPayload, p, rest
<1>13. Position'
  BY <1>9, <1>12, ToPayload
<1> QED BY <1>8, <1>9, <1>10, <1>11, <1>13 DEF FramingInv, Advances

\* The payload is pushed: the Hello's arguments are next, or the key of a message.
LEMMA PayloadReadKeeps ==
    ASSUME ServerSpeaks, FramingInv, PayloadRead
    PROVE  FramingInv' /\ Advances
<1> DEFINE h == Len(handled)
           c == Current
           p == Payload(Formats, c)
           rest == Coming(sent, h + 1)
<1>1. /\ Told /\ Typed /\ stage = "payload" /\ h < Len(sent)
      /\ Len(got) = Len(p) /\ m_buffer = <<>> /\ got \o wire = p \o rest
  BY DEF PayloadRead, FramingInv, Position, AtPayload, Complete
<1>2. c \in Sent /\ h \in Nat /\ Len(sent) \in Nat /\ sent \in Seq(Sent)
  BY <1>1, CurrentSent DEF Told
<1>3. p \in Seq(Byte) /\ rest \in Seq(Byte)
  <2>1. h + 1 \in 0..Len(sent)
    BY <1>1, <1>2
  <2> QED BY <1>2, <2>1, PayloadParts, ComingParts
<1> HIDE DEF p, rest
<1>4. got = p /\ wire = rest
  BY <1>1, <1>3, SameCut DEF Typed
<1>5. m_buffer \o got = p
  BY <1>1, <1>3, <1>4, ConcatEmptySeq
<1>6. Underway
  BY <1>1, <1>3, <1>4 DEF Underway, Typed, rest
<1>7. Suffix(c, 0) \in Seq(Byte) /\ 0 <= Len(Format[c.key]) /\ SubSeq(c.args, 1, 0) = <<>>
  BY <1>2, SuffixEnds, SentMessage, SubSeqEmpty
<1>8. CASE handled = <<>>
  <2>1. c \in Greeting
    BY <1>1, <1>8, CurrentSent
  <2>2. c.key = "Hello" /\ p = Suffix(c, 0)
    BY <1>2, <2>1, PayloadParts DEF p
  <2>3. Proceed([key |-> "Hello", args |-> <<>>], p)
    BY <1>5, <1>8 DEF PayloadRead
  <2>4. Proceed([key |-> c.key, args |-> SubSeq(c.args, 1, 0)], Suffix(c, 0))
    BY <1>7, <2>2, <2>3
  <2> QED BY <1>6, <1>7, <2>4, ProceedKeeps
<1>9. CASE handled # <<>>
  <2>1. c \in Message
    BY <1>1, <1>9, CurrentSent
  <2>2. c.key \in ToSet(Keys) /\ p = Letters(c.key) \o Suffix(c, 0)
    BY <1>2, <2>1, PayloadParts DEF p
  <2>3. Letters(c.key) \in Seq(Byte) /\ Len(Letters(c.key)) = 4
    BY <2>2, KeyComesBack
  <2>4. /\ Read("key", 4, Letters(c.key) \o Suffix(c, 0))
        /\ wire' = wire /\ message' = message /\ m_handshakeDone' = m_handshakeDone
        /\ sent' = sent /\ handled' = handled /\ runtimeAtOpen' = runtimeAtOpen
    BY <1>5, <1>9, <2>2 DEF PayloadRead, history
  <2>5. /\ stage' = "key" /\ want' = 4
        /\ got' = Letters(c.key) /\ m_buffer' = Suffix(c, 0)
    BY <1>7, <2>3, <2>4, ReadWhole
  <2>6. Typed'
    <3>1. 4 \in 0..kProtocolMaxMessageLength
      BY Limits
    <3>2. /\ wire' \in Seq(Byte) /\ m_handshakeDone' \in BOOLEAN /\ runtimeAtOpen' \in BOOLEAN
          /\ message' = NoMessage
      BY <1>1, <2>4 DEF Typed
    <3>3. got' \in Seq(Byte) /\ m_buffer' \in Seq(Byte) /\ Len(got') = 4
      BY <1>7, <2>3, <2>5
    <3>4. Len(got') <= want'
      BY <2>5, <3>3
    <3> QED BY <2>5, <3>1, <3>2, <3>3, <3>4 DEF Typed
  <2>7. Told'
    BY <1>1, <2>4 DEF Told
  <2>8. Current' = c /\ Len(handled') = h /\ sent' = sent /\ handled' # <<>>
    BY <1>9, <2>4 DEF Current
  <2>9. Parsing'
    BY <1>1, <1>4, <2>3, <2>4, <2>5, <2>8 DEF Parsing, rest
  <2>10. AtKey'
    BY <2>5, <2>8 DEF AtKey
  <2>11. Position'
    BY <2>5, <2>9, <2>10, ToKey
  <2> QED BY <2>4, <2>5, <2>6, <2>7, <2>11 DEF FramingInv, Advances
<1> QED BY <1>8, <1>9

\* In the middle of a message the reader is under way.
LEMMA ParsingUnderway ==
    ASSUME FramingInv, stage \in {"key", "count", "value"}
    PROVE  Underway /\ want = Len(got)
  BY DEF FramingInv, Position, Parsing, Underway, Typed

\* The key is the one that was sent.
LEMMA KeyReadKeeps ==
    ASSUME ServerSpeaks, FramingInv, KeyRead
    PROVE  FramingInv' /\ Advances
<1> DEFINE c == Current
<1>1. /\ stage = "key" /\ handled # <<>> /\ got = Letters(c.key) /\ m_buffer = Suffix(c, 0)
  BY DEF KeyRead, Complete, FramingInv, Position, AtKey
<1>2. Underway
  BY <1>1, ParsingUnderway
<1>3. c \in Message /\ c \in Sent
  BY <1>1, <1>2, CurrentSent DEF Underway
<1>4. c.key \in ToSet(Keys) /\ c.key # "DINF"
  BY <1>3, PayloadParts
<1>5. KeyOf(got) = c.key /\ c.key \notin {"unknown", "DINF"}
  BY <1>1, <1>4, KeyComesBack, KeysKnown
<1>6. Proceed([key |-> c.key, args |-> <<>>], Suffix(c, 0))
  <2> HIDE DEF c
  <2> QED BY <1>1, <1>5, Zenon DEF KeyRead
<1>7. 0 <= Len(Format[c.key]) /\ SubSeq(c.args, 1, 0) = <<>>
  BY <1>3, SentMessage, SubSeqEmpty
<1>8. Proceed([key |-> c.key, args |-> SubSeq(c.args, 1, 0)], Suffix(c, 0))
  BY <1>6, <1>7
<1> QED BY <1>2, <1>7, <1>8, ProceedKeeps

\* The argument under way, and how it was sent.
LEMMA ArgumentUnderway ==
    ASSUME ServerSpeaks, FramingInv, stage \in {"count", "value"}
    PROVE  /\ Underway /\ want = Len(got) /\ Current \in Sent
           /\ Taken \in Nat /\ Taken < Len(Format[Current.key])
           /\ message = [key |-> Current.key, args |-> SubSeq(Current.args, 1, Taken)]
           /\ NextItem = Format[Current.key][Taken + 1]
           /\ WrittenBack(NextItem, Value)
           /\ Suffix(Current, Taken + 1) \in Seq(Byte)
<1>1. Underway /\ want = Len(got)
  BY ParsingUnderway
<1>2. Current \in Sent
  BY <1>1, CurrentSent DEF Underway
<1>3. /\ Taken < Len(Format[Current.key])
      /\ message = [key |-> Current.key, args |-> SubSeq(Current.args, 1, Taken)]
  BY DEF FramingInv, Position, AtArgument
<1>4. Len(Format[Current.key]) \in Nat /\ Len(Current.args) = Len(Format[Current.key])
  BY <1>2, SentMessage
<1>5. Taken \in Nat
  BY DEF FramingInv, Position, AtArgument
<1>6. NextItem = Format[Current.key][Taken + 1]
  <2>1. message.key = Current.key
    BY <1>3
  <2> QED BY <2>1 DEF NextItem, Taken
<1>7. WrittenBack(NextItem, Value)
  <2>1. Taken + 1 \in 1..Len(Format[Current.key])
    BY <1>3, <1>4, <1>5
  <2> QED BY <1>2, <1>6, <2>1, SentMessage DEF Value
<1>8. Suffix(Current, Taken + 1) \in Seq(Byte)
  BY <1>2, <1>3, <1>5, SuffixStep
<1> QED BY <1>1, <1>2, <1>3, <1>5, <1>6, <1>7, <1>8

\* The count is the number of elements sent, and their bytes are next.
LEMMA CountReadKeeps ==
    ASSUME ServerSpeaks, FramingInv, CountRead
    PROVE  FramingInv' /\ Advances
<1> DEFINE c == Current
           v == Value
           body == Body(NextItem, Value)
           rest == Suffix(Current, Taken + 1)
           n == Len(Value) * Width(NextItem)
<1>1. /\ stage = "count" /\ Told /\ Typed /\ Counted(NextItem)
      /\ got = BigEndian(Len(v), 4) /\ m_buffer = body \o rest
  BY DEF CountRead, Complete, FramingInv, Position, AtCount
<1>2. /\ Underway /\ WrittenBack(NextItem, v) /\ rest \in Seq(Byte)
      /\ Taken < Len(Format[c.key]) /\ Taken \in Nat
      /\ message = [key |-> c.key, args |-> SubSeq(c.args, 1, Taken)]
  BY <1>1, ArgumentUnderway
<1>3. /\ Len(v) \in Nat /\ Len(v) <= MaxCount /\ body \in Seq(Byte) /\ Len(body) = n
      /\ Width(NextItem) \in 1..7
  BY <1>1, <1>2 DEF WrittenBack
<1>4. Width(NextItem) <= 4
  <2>1. NextItem \in Item
    BY <1>1, <1>2, ArgumentUnderway, SentMessage, ElementOfSeq
  <2> QED BY <1>1, <2>1 DEF Item, Counted, Width, i1, i2, i4, I4, s7, s0
<1>5. n \in Nat /\ n <= kProtocolMaxMessageLength
  <2>1. Len(v) * Width(NextItem) \in Nat
    BY <1>3
  <2>2. Len(v) * Width(NextItem) <= Len(v) * 4
    <3>1. Width(NextItem) \in {1, 2, 3, 4}
      BY <1>3, <1>4
    <3> QED BY <1>3, <3>1
  <2> QED BY <1>3, <2>1, <2>2, Limits
<1>6. Number(got) = Len(v) /\ ~ (Number(got) > MaxCount)
  <2>1. Len(v) < Enormous
    BY <1>3, Limits
  <2> QED BY <1>1, <1>3, <2>1, NumberBigEndian4, Limits
<1>7. /\ Read("value", n, m_buffer) /\ message' = message
      /\ wire' = wire /\ m_handshakeDone' = m_handshakeDone
      /\ sent' = sent /\ handled' = handled /\ runtimeAtOpen' = runtimeAtOpen
  BY <1>6 DEF CountRead, history
<1>8. Current' = c /\ Taken' = Taken /\ NextItem' = NextItem /\ Value' = v /\ Len(handled') = Len(handled)
  BY <1>7 DEF Current, Taken, NextItem, Value
<1> HIDE DEF body, rest, n
<1>9. stage' = "value" /\ want' = n /\ got' = body /\ m_buffer' = rest
  BY <1>1, <1>2, <1>3, <1>5, <1>7, ReadWhole
<1>10. Typed'
  <2>1. n \in 0..kProtocolMaxMessageLength
    BY <1>5, Limits
  <2>2. wire' \in Seq(Byte) /\ m_handshakeDone' \in BOOLEAN /\ runtimeAtOpen' \in BOOLEAN
    BY <1>1, <1>7 DEF Typed
  <2>3. got' \in Seq(Byte) /\ m_buffer' \in Seq(Byte) /\ Len(got') <= want'
    BY <1>2, <1>3, <1>5, <1>9
  <2> QED BY <1>9, <2>1, <2>2, <2>3 DEF Typed
<1>11. Told'
  BY <1>1, <1>7 DEF Told
<1>12. Parsing'
  BY <1>2, <1>3, <1>7, <1>9 DEF Parsing, Underway
<1>13. AtArgument'
  BY <1>2, <1>7, <1>8 DEF AtArgument
<1>14. AtValue'
  BY <1>8, <1>9 DEF AtValue, body, rest
<1>15. Position'
  BY <1>9, <1>12, <1>13, <1>14, ToValue
<1> QED BY <1>7, <1>9, <1>10, <1>11, <1>15 DEF FramingInv, Advances

\* readf puts one argument more behind those it has.
LEMMA ArgumentAdded ==
    ASSUME NEW k, NEW a, NEW x
    PROVE  [[key |-> k, args |-> a] EXCEPT !.args = Append(@, x)] = [key |-> k, args |-> Append(a, x)]
  OBVIOUS

\* The argument is the one that was sent.
LEMMA ValueReadKeeps ==
    ASSUME ServerSpeaks, FramingInv, ValueRead
    PROVE  FramingInv' /\ Advances
<1> DEFINE c == Current
           n == Taken + 1
<1>1. stage = "value" /\ got = Body(NextItem, Value) /\ m_buffer = Suffix(c, n)
  BY DEF ValueRead, Complete, FramingInv, Position, AtValue
<1>2. /\ Underway /\ c \in Sent /\ WrittenBack(NextItem, Value)
      /\ Taken < Len(Format[c.key]) /\ Taken \in Nat
      /\ message = [key |-> c.key, args |-> SubSeq(c.args, 1, Taken)]
  BY <1>1, ArgumentUnderway
<1>3. Stored(NextItem, got) = c.args[n]
  BY <1>1, <1>2 DEF WrittenBack, Value
<1>4. Append(SubSeq(c.args, 1, Taken), c.args[n]) = SubSeq(c.args, 1, n)
  <2>1. PICK S : c.args \in Seq(S)
    BY <1>2, SentMessage
  <2>2. Len(c.args) = Len(Format[c.key]) /\ Len(c.args) \in Nat
    BY <1>2, SentMessage
  <2>3. 1 \in 1..Len(c.args) /\ n \in 1..Len(c.args) /\ Taken \in 0..Len(c.args) /\ n - 1 = Taken
    BY <1>2, <2>2
  <2> DEFINE a == c.args
  <2> HIDE DEF a, c, n
  <2>4. SubSeq(a, 1, n) = SubSeq(a, 1, n - 1) \o <<a[n]>>
    BY <2>1, <2>3, SubSeqRecursiveSecond DEF a
  <2>5. SubSeq(a, 1, Taken) \in Seq(S) /\ a[n] \in S
    BY <2>1, <2>3, TakeDrop, ElementOfSeq DEF a
  <2>6. Append(SubSeq(a, 1, Taken), a[n]) = SubSeq(a, 1, Taken) \o <<a[n]>>
    BY <2>5, AppendIsConcat
  <2> QED BY <2>3, <2>4, <2>6 DEF a
<1> DEFINE m == [message EXCEPT !.args = Append(@, Stored(NextItem, got))]
<1>5. m = [key |-> c.key, args |-> SubSeq(c.args, 1, n)]
  <2> DEFINE a == SubSeq(c.args, 1, Taken)
             x == Stored(NextItem, got)
             k == c.key
  <2>1. Append(a, x) = SubSeq(c.args, 1, n)
    BY <1>3, <1>4
  <2>2. message = [key |-> k, args |-> a]
    BY <1>2
  <2> HIDE DEF a, x, k
  <2>3. [message EXCEPT !.args = Append(@, x)] = [key |-> k, args |-> Append(a, x)]
    BY <2>2, ArgumentAdded
  <2> QED BY <2>1, <2>3 DEF x, k
<1>6. Proceed(m, Suffix(c, n))
  BY <1>1 DEF ValueRead
<1>7. n \in Nat /\ n <= Len(Format[c.key])
  BY <1>2, SentMessage
<1> HIDE DEF m, n
<1> QED BY <1>2, <1>5, <1>6, <1>7, ProceedKeeps

\* recv() moves bytes from the wire to the reader, and only at a length or a payload.
LEMMA RecvKeeps ==
    ASSUME ServerSpeaks, FramingInv, Recv
    PROVE  FramingInv' /\ UNCHANGED <<sent, handled, runtimeAtOpen, stage>>
<1>1. Typed /\ Told /\ Position
  BY DEF FramingInv
<1>2. /\ stage' = stage /\ want' = want /\ m_buffer' = m_buffer /\ message' = message
      /\ m_handshakeDone' = m_handshakeDone /\ sent' = sent /\ handled' = handled
      /\ runtimeAtOpen' = runtimeAtOpen
  BY DEF Recv, history
<1>3. PICK n \in 1..Len(wire) : /\ n <= want - Len(got)
                                /\ got' = got \o SubSeq(wire, 1, n)
                                /\ wire' = SubSeq(wire, n + 1, Len(wire))
  BY DEF Recv
<1>4. /\ got \in Seq(Byte) /\ wire \in Seq(Byte) /\ Len(got) \in Nat /\ Len(wire) \in Nat
      /\ want \in 0..kProtocolMaxMessageLength
  BY <1>1, LenProperties DEF Typed
<1>5. /\ SubSeq(wire, 1, n) \in Seq(Byte) /\ Len(SubSeq(wire, 1, n)) = n
      /\ wire' \in Seq(Byte)
      /\ SubSeq(wire, 1, n) \o wire' = wire
  <2>1. n \in 0..Len(wire)
    BY <1>4
  <2> QED BY <1>3, <1>4, <2>1, TakeDrop
<1>6. got' \in Seq(Byte) /\ Len(got') = Len(got) + n
  BY <1>3, <1>4, <1>5, ConcatProperties
<1>7. got' \o wire' = got \o wire
  <2> DEFINE x == SubSeq(wire, 1, n)
             w == wire'
  <2>1. got' = got \o x /\ x \o w = wire /\ x \in Seq(Byte) /\ w \in Seq(Byte) /\ got \in Seq(Byte)
    BY <1>3, <1>4, <1>5
  <2> HIDE DEF x, w
  <2>2. (got \o x) \o w = got \o (x \o w)
    BY <2>1, Regrouped
  <2>3. got' \o w = got \o wire
    BY <2>1, <2>2, Zenon
  <2> QED BY <2>3 DEF w
<1>8. Typed'
  <2>1. want \in Nat
    BY <1>4, Limits
  <2>2. Len(got') <= want'
    BY <1>2, <1>3, <1>4, <1>6, <2>1
  <2> QED BY <1>1, <1>2, <1>4, <1>5, <1>6, <2>2 DEF Typed
<1>9. Told'
  BY <1>1, <1>2 DEF Told
<1>10. Position'
  <2>1. stage \in {"length", "payload"}
    <3>1. stage \notin {"closed", "leaving"} /\ Len(got) < want
      BY DEF Recv, Receiving
    <3>2. stage \notin {"key", "count", "value"}
      BY <1>1, <1>4, <3>1, Limits DEF Position, Parsing
    <3> QED BY <1>1, <3>1, <3>2 DEF Typed
  <2>2. CASE stage = "length"
    BY <1>1, <1>2, <1>7, <2>2, ToLength DEF Position, AtLength
  <2>3. CASE stage = "payload"
    <3>1. Current' = Current
      BY <1>2 DEF Current
    <3>2. AtPayload'
      BY <1>1, <1>2, <1>7, <2>3, <3>1 DEF Position, AtPayload
    <3> QED BY <1>2, <2>3, <3>2, ToPayload
  <2> QED BY <2>1, <2>2, <2>3
<1> QED BY <1>2, <1>8, <1>9, <1>10 DEF FramingInv

\* A failed recv() makes the reader leave.
LEMMA RecvFailsKeeps ==
    ASSUME FramingInv, RecvFails
    PROVE  FramingInv' /\ Advances
<1>1. Typed /\ Told
  BY DEF FramingInv
<1>2. /\ stage' = "leaving" /\ want' = 0 /\ got' = <<>> /\ m_buffer' = m_buffer
      /\ message' = NoMessage /\ wire' = wire /\ m_handshakeDone' = m_handshakeDone
      /\ sent' = sent /\ handled' = handled /\ runtimeAtOpen' = runtimeAtOpen
      /\ stage # "closed"
  BY DEF RecvFails, Receiving, Leave, history
<1>3. Typed'
  <2>1. <<>> \in Seq(Byte) /\ Len(<<>>) = 0 /\ 0 \in 0..kProtocolMaxMessageLength
    BY EmptySeq, Limits
  <2> QED BY <1>1, <1>2, <2>1 DEF Typed
<1>4. Told'
  BY <1>1, <1>2 DEF Told
<1> QED BY <1>2, <1>3, <1>4, ToLeaving DEF FramingInv, Advances

\* close() empties the buffer.
LEMMA CloseKeeps ==
    ASSUME FramingInv, Close
    PROVE  FramingInv' /\ UNCHANGED <<sent, handled, runtimeAtOpen>> /\ stage = "leaving" /\ stage' = "closed"
<1>1. Typed /\ Told
  BY DEF FramingInv
<1>2. /\ stage = "leaving" /\ stage' = "closed" /\ wire' = <<>> /\ m_buffer' = <<>>
      /\ want' = want /\ got' = got /\ message' = message /\ m_handshakeDone' = m_handshakeDone
      /\ sent' = sent /\ handled' = handled /\ runtimeAtOpen' = runtimeAtOpen
  BY DEF Close, history
<1>3. Typed'
  BY <1>1, <1>2, EmptySeq DEF Typed
<1>4. Told'
  BY <1>1, <1>2 DEF Told
<1>5. Position'
  BY <1>2 DEF Position, AtLength, AtPayload, Parsing, AtKey, AtArgument, AtCount, AtValue, AtClosed
<1> QED BY <1>2, <1>3, <1>4, <1>5 DEF FramingInv

\* connect() begins with an empty buffer, because close() left one.
LEMMA ConnectKeeps ==
    ASSUME ServerSpeaks, FramingInv, NEW hello \in Greeting, Connect(hello)
    PROVE  /\ FramingInv'
           /\ stage = "closed" /\ stage' = "length" /\ sent' = <<hello>> /\ handled' = <<>>
<1>1. Typed /\ stage = "closed" /\ m_buffer = <<>> /\ message = NoMessage
  BY DEF FramingInv, Connect, Position, AtClosed, Typed
<1>2. /\ sent' = <<hello>> /\ handled' = <<>> /\ wire' = Frame(Payload(Formats, hello))
      /\ runtimeAtOpen' = m_handshakeDone /\ message' = message /\ m_handshakeDone' = m_handshakeDone
      /\ Read("length", 4, <<>>)
  BY <1>1 DEF Connect
<1>3. stage' = "length" /\ want' = 4 /\ got' = <<>> /\ m_buffer' = <<>>
  BY <1>2, ReadNothing
<1>4. hello \in Sent /\ <<hello>> \in Seq(Sent) /\ Len(<<hello>>) = 1 /\ <<hello>>[1] = hello /\ <<hello>> # <<>>
  BY DEF Sent
<1> DEFINE s == <<hello>>
           x == Frame(Payload(Formats, hello))
<1>5. x \in Seq(Byte)
  BY <1>4, FrameParts
<1>6. Coming(s, 0) = x
  <2> HIDE DEF s
  <2>1. s \in Seq(Sent) /\ Len(s) = 1 /\ 0 \in 0..Len(s) /\ 1 \in 0..Len(s) /\ s[0 + 1] = hello
    BY <1>4 DEF s
  <2>2. Coming(s, 0) = Frame(Payload(Formats, s[0 + 1])) \o Coming(s, 0 + 1)
    <3>1. 0 < Len(s)
      BY <2>1
    <3> QED BY <2>1, <3>1, ComingParts
  <2>3. Coming(s, 0 + 1) = <<>>
    <3>1. 0 + 1 = Len(s) /\ 0 + 1 \in 0..Len(s)
      BY <2>1
    <3> QED BY <2>1, <3>1, ComingParts
  <2> QED BY <1>5, <2>1, <2>2, <2>3, ConcatEmptySeq
<1>7. Typed'
  <2>1. <<>> \in Seq(Byte) /\ Len(<<>>) = 0 /\ 4 \in 0..kProtocolMaxMessageLength
    BY EmptySeq, Limits
  <2> HIDE DEF x
  <2>2. wire' \in Seq(Byte)
    BY <1>2, <1>5 DEF x
  <2> QED BY <1>1, <1>2, <1>3, <2>1, <2>2 DEF Typed
<1>8. Told'
  <2>1. <<>> \in Seq(Sent) /\ Len(<<>>) = 0 /\ 1 <= MaxSent
    BY EmptySeq, MaxSentAssumption
  <2> QED BY <1>2, <1>4, <2>1 DEF Told
<1>9. Position'
  <2>1. got' \o wire' = Coming(sent', Len(handled'))
    <3>1. Len(<<>>) = 0
      BY EmptySeq
    <3>2. <<>> \o x = x
      BY <1>5, ConcatEmptySeq
    <3> QED BY <1>2, <1>3, <1>6, <3>1, <3>2
  <2> QED BY <1>3, <2>1, ToLength
<1> QED BY <1>1, <1>2, <1>3, <1>7, <1>8, <1>9 DEF FramingInv

\* A message more is a frame more behind everything that is coming.
LEMMA ServerSendsKeeps ==
    ASSUME ServerSpeaks, FramingInv, NEW m \in Message, ServerSends(m)
    PROVE  FramingInv' /\ UNCHANGED <<stage, handled, runtimeAtOpen>> /\ sent' = Append(sent, m)
           /\ stage # "closed"
<1> DEFINE x == Frame(Payload(Formats, m))
           h == Len(handled)
<1>1. Typed /\ Told /\ Position
  BY DEF FramingInv
<1>2. /\ stage # "closed" /\ Len(sent) < MaxSent /\ sent' = Append(sent, m) /\ wire' = wire \o x
      /\ stage' = stage /\ want' = want /\ got' = got /\ m_buffer' = m_buffer /\ message' = message
      /\ m_handshakeDone' = m_handshakeDone /\ handled' = handled /\ runtimeAtOpen' = runtimeAtOpen
  BY DEF ServerSends, reading
<1>3. m \in Sent /\ x \in Seq(Byte)
  BY FrameParts DEF Sent
<1>4. /\ sent \in Seq(Sent) /\ Len(sent) \in Nat /\ h \in Nat /\ h <= Len(sent) /\ sent # <<>>
      /\ got \in Seq(Byte) /\ wire \in Seq(Byte)
  BY <1>1, <1>2, LenProperties DEF Told, Typed
<1>5. /\ sent' \in Seq(Sent) /\ Len(sent') = Len(sent) + 1
      /\ (\A j \in 1..Len(sent) : sent'[j] = sent[j]) /\ sent'[Len(sent) + 1] = m
  BY <1>2, <1>3, <1>4, AppendProperties
<1>6. \A k \in 0..Len(sent) : Coming(sent', k) = Coming(sent, k) \o x /\ Coming(sent, k) \in Seq(Byte)
  BY <1>2, <1>3, <1>4, ComingAppend, ComingParts
<1> HIDE DEF x
<1>7. Typed'
  <2>1. wire' \in Seq(Byte)
    BY <1>2, <1>3, <1>4, ConcatProperties
  <2> QED BY <1>1, <1>2, <2>1 DEF Typed
<1>8. Told'
  <2>1. Len(sent) # 0
    BY <1>4, EmptySeq
  <2>2. \A j \in 1..Len(sent') : IF j = 1 THEN sent'[j] \in Greeting ELSE sent'[j] \in Message
    <3> TAKE j \in 1..Len(sent')
    <3>1. CASE j \in 1..Len(sent)
      BY <1>1, <1>5, <3>1 DEF Told
    <3>2. CASE j = Len(sent) + 1
      BY <1>4, <1>5, <2>1, <3>2
    <3> QED BY <1>4, <1>5, <3>1, <3>2
  <2>3. \A j \in 1..h : handled'[j] = sent'[j]
    BY <1>1, <1>2, <1>4, <1>5 DEF Told
  <2>4. Len(sent') <= MaxSent /\ h <= Len(sent') /\ sent' # <<>>
    <3>1. Len(sent') <= MaxSent /\ h <= Len(sent') /\ Len(sent') # 0
      BY <1>2, <1>4, <1>5, MaxSentAssumption
    <3>2. Len(<<>>) = 0
      BY EmptySeq
    <3> QED BY <3>1, <3>2
  <2> QED BY <1>1, <1>2, <1>5, <2>2, <2>3, <2>4 DEF Told
<1>9. h < Len(sent) => Current' = Current /\ h < Len(sent')
  BY <1>2, <1>4, <1>5 DEF Current
<1>10. Position'
  <2>1. CASE stage = "length"
    <3>1. want = 4 /\ m_buffer = <<>> /\ got \o wire = Coming(sent, h)
      BY <1>1, <2>1 DEF Position, AtLength
    <3>2. got' \o wire' = Coming(sent', h)
      <4>1. (got \o wire) \o x = got \o (wire \o x)
        BY <1>3, <1>4, ConcatAssociative
      <4>2. h \in 0..Len(sent)
        BY <1>4
      <4> QED BY <1>2, <1>6, <3>1, <4>1, <4>2
    <3> QED BY <1>2, <2>1, <3>1, <3>2, ToLength
  <2>2. CASE stage = "payload"
    <3> DEFINE p == Payload(Formats, Current)
    <3>1. h < Len(sent) /\ want = Len(p) /\ m_buffer = <<>> /\ got \o wire = p \o Coming(sent, h + 1)
      BY <1>1, <2>2 DEF Position, AtPayload
    <3>2. p \in Seq(Byte) /\ h + 1 \in 0..Len(sent)
      BY <1>1, <1>4, <3>1, CurrentSent, PayloadParts
    <3> HIDE DEF p
    <3>3. got' \o wire' = p \o Coming(sent', h + 1)
      <4>1. (got \o wire) \o x = got \o (wire \o x)
        BY <1>3, <1>4, ConcatAssociative
      <4>2. Coming(sent, h + 1) \in Seq(Byte) /\ Coming(sent', h + 1) = Coming(sent, h + 1) \o x
        BY <1>6, <3>2
      <4>3. (p \o Coming(sent, h + 1)) \o x = p \o (Coming(sent, h + 1) \o x)
        <5> DEFINE k == Coming(sent, h + 1)
        <5>1. k \in Seq(Byte) /\ p \in Seq(Byte) /\ x \in Seq(Byte)
          BY <1>3, <3>2, <4>2
        <5> HIDE DEF k
        <5>2. (p \o k) \o x = p \o (k \o x)
          BY <5>1, ConcatAssociative
        <5> QED BY <5>2 DEF k
      <4> QED BY <1>2, <3>1, <4>1, <4>2, <4>3
    <3>4. AtPayload'
      BY <1>2, <1>9, <3>1, <3>3 DEF AtPayload, p
    <3> QED BY <1>2, <2>2, <3>4, ToPayload
  <2>3. CASE stage \in {"key", "count", "value"}
    <3>1. h < Len(sent) /\ wire = Coming(sent, h + 1) /\ want = Len(got)
      BY <1>1, <2>3 DEF Position, Parsing
    <3>2. Current' = Current /\ h < Len(sent') /\ h + 1 \in 0..Len(sent)
      BY <1>4, <1>9, <3>1
    <3>3. Parsing'
      BY <1>2, <1>6, <3>1, <3>2 DEF Parsing
    <3>4. Taken' = Taken /\ NextItem' = NextItem /\ Value' = Value
      BY <1>2, <3>2 DEF Taken, NextItem, Value
    <3>5. AtKey'
      BY <1>1, <1>2, <3>2 DEF AtKey, Position
    <3>6. AtArgument'
      BY <1>1, <1>2, <3>2, <3>4 DEF AtArgument, Position
    <3>7. AtCount' /\ AtValue'
      BY <1>1, <1>2, <3>2, <3>4 DEF AtCount, AtValue, Position
    <3> QED BY <1>2, <2>3, <3>3, <3>5, <3>6, <3>7, ToKey, ToCount, ToValue
  <2>4. CASE stage = "leaving"
    BY <1>2, <2>4, ToLeaving
  <2> QED BY <1>1, <1>2, <2>1, <2>2, <2>3, <2>4 DEF Typed
<1> QED BY <1>2, <1>7, <1>8, <1>10 DEF FramingInv

-----------------------------------------------------------------------------
(* Theorems.  ServerSpeaks is what the server is taken to send.            *)

\* Without a connection there is nothing to be out of step with.
LEMMA FramingInit == Init => FramingInv
<1> SUFFICES ASSUME Init PROVE FramingInv
  OBVIOUS
<1>1. <<>> \in Seq(Byte) /\ <<>> \in Seq(Sent) /\ Len(<<>>) = 0
  BY EmptySeq
<1>2. Typed
  <2>1. 0 \in 0..kProtocolMaxMessageLength /\ 0 <= 0
    BY Limits
  <2>2. /\ wire = <<>> /\ got = <<>> /\ m_buffer = <<>> /\ want = 0 /\ message = NoMessage
        /\ stage = "closed" /\ m_handshakeDone = FALSE /\ runtimeAtOpen = FALSE
    BY DEF Init
  <2>3. want \in 0..kProtocolMaxMessageLength /\ Len(got) <= want
    BY <1>1, <2>1, <2>2
  <2> QED BY <1>1, <2>2, <2>3 DEF Typed
<1>3. Told
  BY <1>1, MaxSentAssumption DEF Init, Told
<1>4. Position
  BY DEF Init, Position, AtLength, AtPayload, Parsing, AtKey, AtArgument, AtCount, AtValue, AtClosed
<1> QED BY <1>2, <1>3, <1>4 DEF FramingInv

\* Every step of the reader and the server keeps the position.
LEMMA FramingStep ==
    ASSUME ServerSpeaks
    PROVE  FramingInv /\ [Next]_vars => FramingInv'
<1> SUFFICES ASSUME FramingInv, [Next]_vars PROVE FramingInv'
  OBVIOUS
<1>1. CASE Recv
  BY <1>1, RecvKeeps
<1>2. CASE LengthRead
  BY <1>2, LengthReadKeeps
<1>3. CASE PayloadRead
  BY <1>3, PayloadReadKeeps
<1>4. CASE KeyRead
  BY <1>4, KeyReadKeeps
<1>5. CASE CountRead
  BY <1>5, CountReadKeeps
<1>6. CASE ValueRead
  BY <1>6, ValueReadKeeps
<1>7. CASE Close
  BY <1>7, CloseKeeps
<1>8. CASE RecvFails
  BY <1>8, RecvFailsKeeps
<1>9. ASSUME NEW hello \in Greeting, Connect(hello) PROVE FramingInv'
  BY <1>9, ConnectKeeps
<1>10. ASSUME NEW m \in Message, ServerSends(m) PROVE FramingInv'
  BY <1>10, ServerSendsKeeps
<1>11. CASE UNCHANGED vars
  <2>1. /\ wire' = wire /\ stage' = stage /\ want' = want /\ got' = got /\ m_buffer' = m_buffer
        /\ message' = message /\ m_handshakeDone' = m_handshakeDone
        /\ sent' = sent /\ handled' = handled /\ runtimeAtOpen' = runtimeAtOpen
    BY <1>11 DEF vars, reading, history
  <2>2. Typed' /\ Told'
    BY <2>1 DEF FramingInv, Typed, Told
  <2>3. Current' = Current /\ Taken' = Taken /\ NextItem' = NextItem /\ Value' = Value
    BY <2>1 DEF Current, Taken, NextItem, Value
  <2>4. Position'
    BY <2>1, <2>3 DEF FramingInv, Position, AtLength, AtPayload, Parsing, AtKey, AtArgument, AtCount, AtValue, AtClosed
  <2> QED BY <2>2, <2>4 DEF FramingInv
<1> QED BY <1>1, <1>2, <1>3, <1>4, <1>5, <1>6, <1>7, <1>8, <1>9, <1>10, <1>11 DEF Next, Worker

\* The reader is always where the server's bytes say it is.
THEOREM FramingHolds == ServerSpeaks => (Spec => []FramingInv)
<1> SUFFICES ASSUME ServerSpeaks PROVE Spec => []FramingInv
  OBVIOUS
<1>1. FramingInv /\ [Next]_vars => FramingInv'
  BY FramingStep
<1> QED BY FramingInit, <1>1, PTL DEF Spec

\* A message under way has the key and the first arguments of the one that was sent.
THEOREM TypeCorrect == ServerSpeaks => (Spec => []TypeOK)
<1> SUFFICES ASSUME ServerSpeaks PROVE Spec => []TypeOK
  OBVIOUS
<1>1. FramingInv => TypeOK
  <2> SUFFICES ASSUME FramingInv PROVE TypeOK
    OBVIOUS
  <2>1. Typed /\ Told /\ Position
    BY DEF FramingInv
  <2>2. (\A j \in 1..Len(wire) : wire[j] \in Byte) /\ (\A j \in 1..Len(m_buffer) : m_buffer[j] \in Byte)
    BY <2>1, ElementOfSeq DEF Typed
  <2>3. ASSUME message # NoMessage
        PROVE  message.key \in DOMAIN Format /\ Len(message.args) < Len(Format[message.key])
    <3>1. stage \in {"count", "value"}
      BY <2>1, <2>3 DEF Typed
    <3>2. Taken < Len(Format[Current.key]) /\ message.key = Current.key /\ Len(handled) < Len(sent)
      BY <2>1, <3>1 DEF Position, AtArgument, Parsing
    <3>3. Current \in Sent
      BY <2>1, <3>2, CurrentSent
    <3> QED BY <3>2, <3>3, SentMessage DEF Taken
  <2> QED BY <2>1, <2>2, <2>3 DEF Typed, Told, TypeOK
<1>2. Spec => []FramingInv
  BY FramingHolds
<1> QED BY <1>1, <1>2, PTL

\* What is coming are the frames of the messages behind the first k.
LEMMA ComingFrames ==
    ASSUME ServerSpeaks, NEW s \in Seq(Sent), NEW k \in 0..Len(s)
    PROVE  Coming(s, k) = FlattenSeq([j \in 1..Len(s) - k |-> Frame(Payload(Formats, s[k + j]))])
<1> DEFINE f == Frames(s)
           g == [j \in 1..Len(s) - k |-> Frame(Payload(Formats, s[k + j]))]
           u == SubSeq(f, k + 1, Len(f))
<1>1. /\ f \in Seq(Seq(Byte)) /\ Len(f) = Len(s) /\ Len(s) \in Nat /\ k \in Nat /\ k <= Len(s)
      /\ \A j \in 1..Len(s) : f[j] = Frame(Payload(Formats, s[j])) /\ f[j] \in Seq(Byte)
  BY FramesType, LenProperties, ElementOfSeq
<1>2. \A j \in 1..Len(s) - k : k + j \in 1..Len(s) /\ g[j] = f[k + j]
  BY <1>1
<1>3. g \in [1..Len(s) - k -> Seq(Byte)]
  BY <1>1, <1>2
<1>4. Coming(s, k) = FlattenSeq(u)
  BY DEF Coming, Rest
<1> HIDE DEF f, g
<1>5. g \in Seq(Seq(Byte)) /\ Len(g) = Len(s) - k
  <2> DEFINE n == Len(s) - k
  <2>1. n \in Nat /\ g \in [1..n -> Seq(Byte)]
    BY <1>1, <1>3
  <2> HIDE DEF n
  <2>2. g \in Seq(Seq(Byte)) /\ Len(g) = n
    BY <2>1, ListIsSeq
  <2> QED BY <2>2 DEF n
<1>6. /\ u \in Seq(Seq(Byte)) /\ Len(u) = Len(s) - k
      /\ \A j \in 1..Len(s) - k : u[j] = f[k + j]
  <2>1. u \in Seq(Seq(Byte)) /\ Len(u) = Len(f) - k
    BY <1>1, TakeDrop
  <2>2. \A j \in 1..Len(f) - k : u[j] = f[k + j]
    BY <1>1, DropAt
  <2> QED BY <1>1, <2>1, <2>2
<1> HIDE DEF u
<1>7. u = g
  BY <1>2, <1>5, <1>6, SeqEqual
<1> QED BY <1>4, <1>7 DEF g

\* Reader and server agree on where a frame begins, for every greeting, every message
\* and every way in which recv() cuts the stream.
THEOREM InStepHolds == ServerSpeaks => (Spec => []InStep)
<1> SUFFICES ASSUME ServerSpeaks PROVE Spec => []InStep
  OBVIOUS
<1>1. FramingInv => InStep
  <2> SUFFICES ASSUME FramingInv, stage = "length"
               PROVE  /\ m_buffer = <<>>
                      /\ got \o wire = FlattenSeq([j \in 1..Len(sent) - Len(handled) |->
                                           Frame(Payload(Formats, sent[Len(handled) + j]))])
    BY DEF InStep
  <2>1. m_buffer = <<>> /\ got \o wire = Coming(sent, Len(handled))
    BY DEF FramingInv, Position, AtLength
  <2>2. sent \in Seq(Sent) /\ Len(handled) \in 0..Len(sent)
    BY LenProperties DEF FramingInv, Told
  <2> QED BY <2>1, <2>2, ComingFrames
<1>2. Spec => []FramingInv
  BY FramingHolds
<1> QED BY <1>1, <1>2, PTL

\* As long as a message sent is not handled, the bytes a readExact is short of are on
\* their way, all of them.
MissingBytesCome ==
    Receiving /\ Len(handled) < Len(sent) => want - Len(got) <= Len(wire)

\* The reader never waits for bytes nobody will send: no length, count or fixed width in
\* the code asks for more than the server's writef put there.  It is what makes a fair
\* recv() enough for EverythingIsHandled.
THEOREM NeverStarves == ServerSpeaks => (Spec => []MissingBytesCome)
<1> SUFFICES ASSUME ServerSpeaks PROVE Spec => []MissingBytesCome
  OBVIOUS
<1>1. FramingInv => MissingBytesCome
  <2> SUFFICES ASSUME FramingInv, Receiving, Len(handled) < Len(sent)
               PROVE  want - Len(got) <= Len(wire)
    BY DEF MissingBytesCome
  <2>1. /\ Told /\ got \in Seq(Byte) /\ wire \in Seq(Byte) /\ want \in Nat
        /\ stage \in {"length", "payload", "key", "count", "value"} /\ Len(got) < want
    BY Limits DEF FramingInv, Typed, Receiving
  <2>2. /\ Current \in Sent /\ sent \in Seq(Sent) /\ Len(handled) \in Nat /\ Len(sent) \in Nat
        /\ Len(got) \in Nat /\ Len(wire) \in Nat
    BY <2>1, CurrentSent, LenProperties DEF Told
  <2>3. Len(got \o wire) = Len(got) + Len(wire)
    BY <2>1, ConcatProperties
  <2> DEFINE p == Payload(Formats, Current)
             rest == Coming(sent, Len(handled) + 1)
  <2>4. /\ Coming(sent, Len(handled)) = Frame(p) \o rest
        /\ p \in Seq(Byte) /\ Len(p) \in Nat
        /\ Frame(p) \in Seq(Byte) /\ Frame(p) = BigEndian(Len(p), 4) \o p
        /\ BigEndian(Len(p), 4) \in Seq(Byte) /\ Len(BigEndian(Len(p), 4)) = 4
        /\ rest \in Seq(Byte) /\ Len(rest) \in Nat
    <3>1. Len(handled) \in 0..Len(sent)
      BY <2>2
    <3>2. /\ Coming(sent, Len(handled)) = Frame(p) \o rest /\ rest \in Seq(Byte)
      BY <2>2, <3>1, ComingParts DEF Current
    <3> HIDE DEF rest
    <3> QED BY <2>2, <3>2, PayloadParts, FrameParts, LenProperties
  <2> HIDE DEF p, rest
  <2>5. CASE stage = "length"
    <3>1. want = 4 /\ got \o wire = Frame(p) \o rest
      BY <2>4, <2>5 DEF FramingInv, Position, AtLength
    <3>2. Len(Frame(p) \o rest) = Len(Frame(p)) + Len(rest)
      BY <2>4, ConcatProperties
    <3>3. Len(Frame(p)) = 4 + Len(p)
      <4> DEFINE b == BigEndian(Len(p), 4)
      <4>1. b \in Seq(Byte) /\ Len(b) = 4 /\ Frame(p) = b \o p /\ p \in Seq(Byte)
        BY <2>4
      <4> HIDE DEF b
      <4>2. Len(b \o p) = Len(b) + Len(p)
        BY <4>1, ConcatProperties
      <4> QED BY <4>1, <4>2
    <3> QED BY <2>2, <2>3, <2>4, <3>1, <3>2, <3>3
  <2>6. CASE stage = "payload"
    <3>1. want = Len(p) /\ got \o wire = p \o rest
      BY <2>6 DEF FramingInv, Position, AtPayload, p, rest
    <3>2. Len(p \o rest) = Len(p) + Len(rest)
      BY <2>4, ConcatProperties
    <3> QED BY <2>2, <2>3, <2>4, <3>1, <3>2
  <2>7. CASE stage \in {"key", "count", "value"}
    BY <2>1, <2>2, <2>7 DEF FramingInv, Position, Parsing
  <2> QED BY <2>1, <2>5, <2>6, <2>7
<1>2. Spec => []FramingInv
  BY FramingHolds
<1> QED BY <1>1, <1>2, PTL

-----------------------------------------------------------------------------
(* The refinement: each step is a step of the channel or a stutter.        *)

\* A step that ends a message hands over the one the channel has next.
LEMMA AdvanceMapped ==
    ASSUME Told, Told', stage # "closed", Advances
    PROVE  [Channel!ChannelNext]_Channel!channel
<1>1. /\ sent' = sent /\ stage' # "closed"
      /\ handled' = handled \/ handled' = Append(handled, sent[Len(handled) + 1])
  BY DEF Advances, Current
<1>2. CASE handled' = handled
  BY <1>1, <1>2 DEF Channel!channel
<1>3. CASE handled' = Append(handled, sent[Len(handled) + 1])
  <2>1. handled \in Seq(Sent) /\ handled' \in Seq(Sent) /\ sent \in Seq(Sent) /\ Len(handled') <= Len(sent)
    BY <1>1 DEF Told
  <2>2. Len(handled') = Len(handled) + 1
    BY <1>3, <2>1
  <2>3. Len(handled) < Len(sent)
    BY <2>1, <2>2, LenProperties
  <2> QED BY <1>1, <1>3, <2>3 DEF Channel!ChannelNext, Channel!Handle
<1> QED BY <1>1, <1>2, <1>3

\* Every step of the reader and the server is a step of the channel or a stutter.
LEMMA ChannelStep ==
    ASSUME ServerSpeaks, FramingInv, FramingInv', [Next]_vars
    PROVE  [Channel!ChannelNext]_Channel!channel
<1>1. Told /\ Told'
  BY DEF FramingInv
<1>2. CASE Recv
  BY <1>2, RecvKeeps DEF Channel!channel
<1>3. CASE LengthRead
  BY <1>1, <1>3, LengthReadKeeps, AdvanceMapped DEF LengthRead, Complete
<1>4. CASE PayloadRead
  BY <1>1, <1>4, PayloadReadKeeps, AdvanceMapped DEF PayloadRead, Complete
<1>5. CASE KeyRead
  BY <1>1, <1>5, KeyReadKeeps, AdvanceMapped DEF KeyRead, Complete
<1>6. CASE CountRead
  BY <1>1, <1>6, CountReadKeeps, AdvanceMapped DEF CountRead, Complete
<1>7. CASE ValueRead
  BY <1>1, <1>7, ValueReadKeeps, AdvanceMapped DEF ValueRead, Complete
<1>8. CASE Close
  BY <1>8, CloseKeeps DEF Channel!ChannelNext, Channel!Break
<1>9. CASE RecvFails
  BY <1>1, <1>9, RecvFailsKeeps, AdvanceMapped DEF RecvFails, Receiving
<1>10. ASSUME NEW hello \in Greeting, Connect(hello)
       PROVE  Channel!ChannelNext
  <2>1. stage = "closed" /\ stage' = "length" /\ sent' = <<hello>> /\ handled' = <<>>
    BY <1>10, ConnectKeeps
  <2> QED BY <2>1 DEF Channel!ChannelNext, Channel!Open
<1>11. ASSUME NEW m \in Message, ServerSends(m)
       PROVE  Channel!ChannelNext
  <2>1. stage' = stage /\ handled' = handled /\ sent' = Append(sent, m) /\ stage # "closed"
    BY <1>11, ServerSendsKeeps
  <2> QED BY <2>1 DEF Channel!ChannelNext, Channel!Send
<1>12. CASE UNCHANGED vars
  BY <1>12 DEF vars, reading, history, Channel!channel
<1> QED BY <1>2, <1>3, <1>4, <1>5, <1>6, <1>7, <1>8, <1>9, <1>10, <1>11, <1>12 DEF Next, Worker

\* The framing implements the channel: whole messages, in the order and with the values in
\* which they were sent, each once, nothing of one connection in the next.
THEOREM Refinement == ServerSpeaks => (Spec => ImplementsChannel)
<1> SUFFICES ASSUME ServerSpeaks PROVE Spec => ImplementsChannel
  OBVIOUS
<1>1. Init => Channel!ChannelInit
  BY DEF Init, Channel!ChannelInit
<1>2. FramingInv /\ FramingInv' /\ [Next]_vars => [Channel!ChannelNext]_Channel!channel
  BY ChannelStep
<1>3. Spec => []FramingInv
  BY FramingHolds
<1> QED BY <1>1, <1>2, <1>3, PTL DEF Spec, ImplementsChannel, Channel!ChannelSpec

-----------------------------------------------------------------------------
(* The answers.                                                            *)

\* The server reads one argument back, and what is left are the bytes behind it.
LEMMA ArgumentComesBack ==
    ASSUME NEW item \in Item, NEW v, WrittenBack(item, v), NEW rest \in Seq(Byte), NEW args
    PROVE  ReadArgument(item, [args |-> args, rest |-> Written(item, v) \o rest])
              = [args |-> Append(args, v), rest |-> rest]
<1> DEFINE b == Body(item, v)
           w == Written(item, v)
           bytes == w \o rest
           n == IF Counted(item) THEN Number(SubSeq(bytes, 1, 4)) * Width(item) ELSE item.width
           from == IF Counted(item) THEN 5 ELSE 1
<1>1. b \in Seq(Byte) /\ Len(b) \in Nat /\ Stored(item, b) = v /\ Width(item) \in Nat
  BY LenProperties DEF WrittenBack
<1>2. ReadArgument(item, [args |-> args, rest |-> bytes])
         = [args |-> Append(args, Stored(item, SubSeq(bytes, from, from + n - 1))),
            rest |-> SubSeq(bytes, from + n, Len(bytes))]
  BY DEF ReadArgument
<1>3. SubSeq(bytes, from, from + n - 1) = b /\ SubSeq(bytes, from + n, Len(bytes)) = rest
  <2>1. CASE Counted(item)
    <3> DEFINE c == BigEndian(Len(v), 4)
    <3>1. /\ Len(v) \in Nat /\ Len(v) <= MaxCount /\ Len(b) = Len(v) * Width(item) /\ w = c \o b
      BY <2>1 DEF WrittenBack
    <3>2. c \in Seq(Byte) /\ Len(c) = 4
      BY <3>1, BigEndianType
    <3>3. Number(c) = Len(v)
      BY <3>1, NumberBigEndian4, Limits
    <3> HIDE DEF b, c, w, n, from
    <3>4. bytes = c \o (b \o rest) /\ b \o rest \in Seq(Byte)
      <4>1. bytes = (c \o b) \o rest
        BY <3>1
      <4>2. b \o rest \in Seq(Byte)
        BY <1>1, ConcatProperties
      <4> QED BY <1>1, <3>2, <4>1, <4>2, Regrouped
    <3>5. SubSeq(bytes, 1, 4) = c /\ SubSeq(bytes, 5, Len(bytes)) = b \o rest
      <4>1. SubSeq(c \o (b \o rest), 1, Len(c)) = c
            /\ SubSeq(c \o (b \o rest), Len(c) + 1, Len(c \o (b \o rest))) = b \o rest
        BY <3>2, <3>4, SplitConcat
      <4> HIDE DEF bytes
      <4>2. Len(c) + 1 = 5
        BY <3>2
      <4> QED BY <3>2, <3>4, <4>1, <4>2, Zenon
    <3>6. n = Len(b) /\ from = 5
      BY <2>1, <3>1, <3>3, <3>5 DEF n, from
    <3>7. bytes = (c \o b) \o rest /\ c \o b \in Seq(Byte) /\ Len(c \o b) = 4 + Len(b)
      <4>1. c \o b \in Seq(Byte) /\ Len(c \o b) = Len(c) + Len(b)
        BY <1>1, <3>2, ConcatProperties
      <4> QED BY <3>1, <3>2, <4>1
    <3>8. SubSeq(bytes, 5 + Len(b), Len(bytes)) = rest
      <4> DEFINE d == c \o b
      <4> HIDE DEF d, bytes
      <4>1. SubSeq(d \o rest, Len(d) + 1, Len(d \o rest)) = rest
        BY <3>7, SplitConcat DEF d
      <4>2. Len(d) + 1 = 5 + Len(b)
        BY <1>1, <3>7 DEF d
      <4> QED BY <3>7, <4>1, <4>2 DEF d
    <3>9. SubSeq(bytes, 5, 5 + Len(b) - 1) = b
      <4> DEFINE d == c \o b
                 k == Len(b)
      <4>1. \A i \in 1..4 + k : d[i] \in Byte /\ (i > 4 => d[i] = b[i - 4])
        <5>1. (\A i \in 1..k : d[4 + i] = b[i]) /\ \A i \in 1..Len(d) : d[i] \in Byte
          BY <1>1, <3>2, <3>7, ConcatAt
        <5>2. ASSUME NEW i \in 1..4 + k, i > 4 PROVE d[i] = b[i - 4]
          <6>1. i - 4 \in 1..k /\ 4 + (i - 4) = i
            BY <1>1, <5>2
          <6> QED BY <5>1, <6>1
        <5> QED BY <3>7, <5>1, <5>2
      <4> HIDE DEF d, k
      <4>2. bytes = d \o rest /\ d \in Seq(Byte) /\ Len(d) = 4 + k /\ k \in Nat
        BY <1>1, <3>7 DEF d, k
      <4> HIDE DEF bytes
      <4>3. /\ bytes \in Seq(Byte) /\ Len(bytes) = Len(d) + Len(rest) /\ Len(rest) \in Nat
            /\ \A i \in 1..Len(d) : bytes[i] = d[i]
        <5>1. /\ d \o rest \in Seq(Byte) /\ Len(d \o rest) = Len(d) + Len(rest)
              /\ \A i \in 1..Len(d) : (d \o rest)[i] = d[i]
          BY <4>2, ConcatAt, ConcatProperties
        <5>2. Len(rest) \in Nat
          BY LenProperties
        <5> QED BY <4>2, <5>1, <5>2
      <4>4. \A i \in 5..4 + k : bytes[i] \in Byte /\ bytes[i] = b[i - 4]
        <5> TAKE i \in 5..4 + k
        <5>1. i \in 1..4 + k /\ i > 4 /\ i \in 1..Len(d)
          BY <4>2
        <5> QED BY <4>1, <4>3, <5>1
      <4>5. /\ SubSeq(bytes, 5, 4 + k) \in Seq(Byte)
            /\ Len(SubSeq(bytes, 5, 4 + k)) = k
            /\ \A i \in 1..k : SubSeq(bytes, 5, 4 + k)[i] = bytes[5 + i - 1]
        <5>1. /\ SubSeq(bytes, 5, 4 + k) \in Seq(Byte)
              /\ Len(SubSeq(bytes, 5, 4 + k)) = IF 5 <= 4 + k THEN 4 + k - 5 + 1 ELSE 0
              /\ \A i \in 1..4 + k - 5 + 1 : SubSeq(bytes, 5, 4 + k)[i] = bytes[5 + i - 1]
          BY <4>2, <4>4, SubSeqProperties
        <5> QED BY <4>2, <5>1
      <4>6. \A i \in 1..k : SubSeq(bytes, 5, 4 + k)[i] = b[i]
        <5> TAKE i \in 1..k
        <5>1. 5 + i - 1 \in 5..4 + k /\ (5 + i - 1) - 4 = i
          BY <4>2
        <5> QED BY <4>4, <4>5, <5>1
      <4>7. SubSeq(bytes, 5, 4 + k) = b
        BY <1>1, <4>2, <4>5, <4>6, SeqEqual DEF k
      <4>8. 5 + k - 1 = 4 + k
        BY <4>2
      <4> QED BY <4>7, <4>8 DEF k
    <3> QED BY <3>6, <3>8, <3>9
  <2>2. CASE ~Counted(item)
    <3>1. w = b /\ Len(b) = Width(item)
      BY <2>2 DEF WrittenBack
    <3>2. item.width = Width(item)
      BY <2>2 DEF Counted, Width
    <3>3. n = Len(b) /\ from = 1
      BY <2>2, <3>1, <3>2
    <3> HIDE DEF b, w, n, from
    <3>4. bytes = b \o rest
      BY <3>1
    <3>5. SubSeq(b \o rest, 1, Len(b)) = b /\ SubSeq(b \o rest, Len(b) + 1, Len(b \o rest)) = rest
      BY <1>1, SplitConcat
    <3> HIDE DEF bytes
    <3>6. from + n - 1 = Len(b) /\ from + n = Len(b) + 1
      BY <1>1, <3>3
    <3> QED BY <3>3, <3>4, <3>5, <3>6
  <2> QED BY <2>1, <2>2
<1> HIDE DEF b, bytes, n, from
<1> QED BY <1>1, <1>2, <1>3 DEF bytes

\* The first n elements and the next one are the first n + 1.
LEMMA TakeOneMore ==
    ASSUME NEW S, NEW a \in Seq(S), NEW n \in 1..Len(a)
    PROVE  Append(SubSeq(a, 1, n - 1), a[n]) = SubSeq(a, 1, n)
<1>1. 1 \in 1..Len(a) /\ n - 1 \in 0..Len(a) /\ n \in 1..Len(a)
  BY LenProperties
<1>2. SubSeq(a, 1, n) = SubSeq(a, 1, n - 1) \o <<a[n]>>
  BY <1>1, SubSeqRecursiveSecond
<1>3. SubSeq(a, 1, n - 1) \in Seq(S) /\ a[n] \in S
  BY <1>1, TakeDrop, ElementOfSeq
<1>4. Append(SubSeq(a, 1, n - 1), a[n]) = SubSeq(a, 1, n - 1) \o <<a[n]>>
  BY <1>3, AppendIsConcat
<1> QED BY <1>2, <1>4

\* What writef writes of an argument are bytes.
LEMMA WrittenType ==
    ASSUME NEW item, NEW v, WrittenBack(item, v)
    PROVE  Written(item, v) \in Seq(Byte)
<1>1. CASE Counted(item)
  <2>1. /\ Len(v) \in Nat /\ Body(item, v) \in Seq(Byte)
        /\ Written(item, v) = BigEndian(Len(v), 4) \o Body(item, v)
    BY <1>1 DEF WrittenBack
  <2>2. BigEndian(Len(v), 4) \in Seq(Byte)
    BY <2>1, BigEndianType
  <2> QED BY <2>1, <2>2, ConcatProperties
<1>2. CASE ~Counted(item)
  BY <1>2 DEF WrittenBack
<1> QED BY <1>1, <1>2

\* f[n] is what the server has after n arguments.
ReadsAs(f, fmt, bytes) ==
    f = [n \in 0..Len(fmt) |->
            IF n = 0 THEN [args |-> <<>>, rest |-> bytes] ELSE ReadArgument(fmt[n], f[n - 1])]

\* There is only one way to read.
LEMMA ReadsAgree ==
    ASSUME NEW fmt \in Seq(Item), NEW bytes, NEW f, NEW g,
           ReadsAs(f, fmt, bytes), ReadsAs(g, fmt, bytes)
    PROVE  f = g
<1> DEFINE N == Len(fmt)
           T == {n \in 0..N : f[n] # g[n]}
<1>0. N \in Nat
  BY LenProperties
<1> HIDE DEF N
<1>1. /\ \A n \in 0..N : f[n] = IF n = 0 THEN [args |-> <<>>, rest |-> bytes] ELSE ReadArgument(fmt[n], f[n - 1])
      /\ \A n \in 0..N : g[n] = IF n = 0 THEN [args |-> <<>>, rest |-> bytes] ELSE ReadArgument(fmt[n], g[n - 1])
  BY Zenon DEF ReadsAs, N
<1>2. T = {}
  <2> SUFFICES ASSUME T # {} PROVE FALSE
    OBVIOUS
  <2>1. PICK n \in T : \A j \in T : n <= j
    <3>1. T \subseteq Nat
      BY <1>0
    <3> QED BY <3>1, LeastNumber
  <2>2. n \in 0..N /\ f[n] # g[n]
    OBVIOUS
  <2>3. n # 0
    BY <1>1, <2>2
  <2>4. n - 1 \in 0..N /\ n - 1 \notin T
    BY <1>0, <2>1, <2>2, <2>3
  <2>5. f[n - 1] = g[n - 1]
    BY <2>4
  <2> QED BY <1>1, <2>2, <2>3, <2>5
<1>3. \A n \in 0..N : f[n] = g[n]
  BY <1>2
<1>4. f = [n \in 0..N |-> f[n]] /\ g = [n \in 0..N |-> g[n]]
  <2>1. f = [n \in 0..N |-> f[n]]
    BY Zenon DEF ReadsAs, N
  <2>2. g = [n \in 0..N |-> g[n]]
    BY Zenon DEF ReadsAs, N
  <2> QED BY <2>1, <2>2
<1> QED BY <1>3, <1>4

\* The server reads back what was written for it, and all of it.
LEMMA ArgumentsComeBack ==
    ASSUME NEW fmt \in Seq(Item), NEW S, NEW args \in Seq(S), Len(args) = Len(fmt),
           \A j \in 1..Len(fmt) : WrittenBack(fmt[j], args[j])
    PROVE  /\ writef(fmt, args) \in Seq(Byte)
           /\ Arguments(fmt, writef(fmt, args)) = [args |-> args, rest |-> <<>>]
<1> DEFINE N == Len(fmt)
           p == [j \in 1..Len(fmt) |-> Written(fmt[j], args[j])]
           bytes == writef(fmt, args)
           F == [n \in 0..N |-> [args |-> SubSeq(args, 1, n), rest |-> Rest(p, n)]]
<1>1. N \in Nat /\ \A j \in 1..N : fmt[j] \in Item
  BY LenProperties, ElementOfSeq
<1>2. p \in Seq(Seq(Byte)) /\ Len(p) = N /\ \A j \in 1..N : p[j] = Written(fmt[j], args[j])
  <2>1. \A j \in 1..N : Written(fmt[j], args[j]) \in Seq(Byte)
    BY WrittenType
  <2>2. p \in [1..N -> Seq(Byte)] /\ \A j \in 1..N : p[j] = Written(fmt[j], args[j])
    BY <2>1
  <2> HIDE DEF p, N
  <2> QED BY <1>1, <2>2, ListIsSeq
<1>3. bytes = FlattenSeq(p)
  BY DEF writef
<1> HIDE DEF p, bytes
<1>4. bytes \in Seq(Byte)
  BY <1>2, <1>3, FlattenType
<1>5. F[0] = [args |-> <<>>, rest |-> bytes]
  <2>1. SubSeq(args, 1, 0) = <<>>
    BY SubSeqEmpty
  <2>2. Rest(p, 0) = bytes
    BY <1>2, <1>3, RestAll
  <2>3. 0 \in 0..N
    BY <1>1
  <2> QED BY <2>1, <2>2, <2>3
<1>6. ASSUME NEW n \in 1..N PROVE F[n] = ReadArgument(fmt[n], F[n - 1])
  <2>1. n \in 0..N /\ n - 1 \in 0..N /\ n - 1 \in Nat /\ n - 1 < Len(p) /\ n - 1 + 1 = n /\ n \in 1..Len(args) /\ n \in 0..Len(p)
    BY <1>1, <1>2
  <2> DEFINE a == SubSeq(args, 1, n - 1)
             r == Rest(p, n)
             w == Written(fmt[n], args[n])
  <2>2. Rest(p, n - 1) = w \o r
    <3>1. Rest(p, n - 1) = p[n - 1 + 1] \o Rest(p, n - 1 + 1)
      BY <1>2, <2>1, RestStep
    <3> QED BY <1>2, <2>1, <3>1
  <2>3. r \in Seq(Byte) /\ fmt[n] \in Item /\ WrittenBack(fmt[n], args[n])
    BY <1>1, <1>2, <2>1, RestType
  <2>4. F[n - 1] = [args |-> a, rest |-> w \o r]
    BY <2>1, <2>2
  <2>5. F[n] = [args |-> Append(a, args[n]), rest |-> r]
    <3>1. Append(a, args[n]) = SubSeq(args, 1, n)
      BY <2>1, TakeOneMore
    <3> QED BY <2>1, <3>1
  <2> HIDE DEF a, r, F
  <2>6. ReadArgument(fmt[n], [args |-> a, rest |-> w \o r]) = [args |-> Append(a, args[n]), rest |-> r]
    BY <2>3, ArgumentComesBack, ZenonT(30)
  <2> QED BY <2>4, <2>5, <2>6
<1>7. ReadsAs(F, fmt, bytes)
  <2>1. F = [n \in 0..N |-> F[n]]
    OBVIOUS
  <2> HIDE DEF F
  <2>2. \A n \in 0..N : F[n] = IF n = 0 THEN [args |-> <<>>, rest |-> bytes] ELSE ReadArgument(fmt[n], F[n - 1])
    <3> TAKE n \in 0..N
    <3>1. n = 0 \/ n \in 1..N
      BY <1>1
    <3> QED BY <1>5, <1>6, <3>1
  <2> QED BY <2>1, <2>2, Zenon DEF ReadsAs
<1> DEFINE G == CHOOSE f : ReadsAs(f, fmt, bytes)
<1>8. ReadsAs(G, fmt, bytes)
  BY <1>7, Zenon
<1>9. Arguments(fmt, bytes) = G[N]
  BY Zenon DEF Arguments, ReadsAs
<1>10. F[N] = [args |-> args, rest |-> <<>>]
  <2>1. SubSeq(args, 1, N) = args
    BY SubSeqFull
  <2>2. Rest(p, N) = <<>>
    BY <1>2, RestAll
  <2>3. N \in 0..N
    BY <1>1
  <2> QED BY <2>1, <2>2, <2>3
<1> HIDE DEF F, G
<1>11. G = F
  BY <1>7, <1>8, ReadsAgree
<1> QED BY <1>4, <1>9, <1>10, <1>11 DEF bytes

\* What the client writes once the Hello is answered.
Dinf == [key |-> "DINF", args |-> Info]
Calv == [key |-> "CALV", args |-> <<>>]
Nop == [key |-> "CNOP", args |-> <<>>]
Said == {Dinf, Calv, Nop}

\* The formats of the answers.
LEMMA AnswerFormats ==
    /\ {"DINF", "CALV", "CNOP"} \subseteq ToSet(Keys)
    /\ Format["DINF"] = <<i2, i2, i2, i2, i2, i2, i2>> /\ Format["CALV"] = <<>> /\ Format["CNOP"] = <<>>
    /\ Format["Hello"] = <<s7, i2, i2>> /\ Format["HelloBack"] = <<s7, i2, i2, s0>>
<1>1. "DINF" \in ToSet(Keys) /\ "CALV" \in ToSet(Keys) /\ "CNOP" \in ToSet(Keys)
  <2>1. \E j \in DOMAIN Keys : Keys[j] = "DINF"
    BY DEF Keys
  <2>2. \E j \in DOMAIN Keys : Keys[j] = "CALV"
    BY DEF Keys
  <2>3. \E j \in DOMAIN Keys : Keys[j] = "CNOP"
    BY DEF Keys
  <2> QED BY <2>1, <2>2, <2>3, Zenon DEF ToSet
<1>2. {"DINF", "CALV", "CNOP", "Hello", "HelloBack"} \subseteq DOMAIN Format
  BY <1>1, FormatItems
<1>3. Format["DINF"] = <<i2, i2, i2, i2, i2, i2, i2>>
  BY <1>1 DEF Format
<1>4. Format["CALV"] = <<>> /\ Format["CNOP"] = <<>>
  BY <1>1 DEF Format
<1>5. Format["Hello"] = <<s7, i2, i2>> /\ Format["HelloBack"] = <<s7, i2, i2, s0>>
  BY DEF Format
<1> QED BY <1>1, <1>3, <1>4, <1>5

\* Behind its four letters a message is read back as a whole.
LEMMA MessageReadBack ==
    ASSUME NEW k \in ToSet(Keys), NEW S, NEW args \in Seq(S), Len(args) = Len(Format[k]),
           \A j \in 1..Len(Format[k]) : WrittenBack(Format[k][j], args[j])
    PROVE  LET p == Payload(Format, [key |-> k, args |-> args])
           IN  /\ p \in Seq(Byte)
               /\ KeyOf(SubSeq(p, 1, 4)) = k
               /\ Arguments(Format[k], SubSeq(p, 5, Len(p))) = [args |-> args, rest |-> <<>>]
<1> DEFINE p == Payload(Format, [key |-> k, args |-> args])
           w == writef(Format[k], args)
<1>1. Format[k] \in Seq(Item) /\ k \notin {"Hello", "HelloBack"}
  BY KeysKnown, FormatItems
<1>2. w \in Seq(Byte) /\ Arguments(Format[k], w) = [args |-> args, rest |-> <<>>]
  BY <1>1, ArgumentsComeBack
<1>3. p = Letters(k) \o w
  BY <1>1 DEF Payload
<1>4. Letters(k) \in Seq(Byte) /\ Len(Letters(k)) = 4 /\ KeyOf(Letters(k)) = k
  BY KeyComesBack
<1> HIDE DEF p, w
<1>5. p \in Seq(Byte)
  BY <1>2, <1>3, <1>4, ConcatProperties
<1>6. SubSeq(p, 1, 4) = Letters(k) /\ SubSeq(p, 5, Len(p)) = w
  <2> DEFINE b == Letters(k)
  <2> HIDE DEF b
  <2>1. SubSeq(b \o w, 1, Len(b)) = b /\ SubSeq(b \o w, Len(b) + 1, Len(b \o w)) = w
    BY <1>2, <1>4, SplitConcat DEF b
  <2>2. Len(b) + 1 = 5 /\ Len(b) = 4
    BY <1>4 DEF b
  <2> QED BY <1>3, <2>1, <2>2, Zenon DEF b
<1> QED BY <1>2, <1>4, <1>5, <1>6, Zenon DEF p

\* So are the answers.
LEMMA SaidReadBack ==
    ASSUME ClientSpeaks, NEW a \in Said
    PROVE  LET p == Payload(Format, a)
           IN  /\ p \in Seq(Byte)
               /\ KeyOf(SubSeq(p, 1, 4)) = a.key
               /\ Arguments(Format[a.key], SubSeq(p, 5, Len(p))) = [args |-> a.args, rest |-> <<>>]
<1>1. i2 \in Item
  BY DEF Item
<1>2. Info \in Seq(Int) /\ Len(Info) = 7 /\ \A j \in 1..7 : WrittenBack(i2, Info[j])
  BY <1>1, ConversionComesBack DEF ClientSpeaks
<1>3. Len(Format["DINF"]) = 7 /\ \A j \in 1..7 : Format["DINF"][j] = i2
  BY AnswerFormats
<1>4. CASE a = Dinf
  <2>1. \A j \in 1..Len(Format["DINF"]) : WrittenBack(Format["DINF"][j], Info[j])
    BY <1>2, <1>3
  <2>2. a = [key |-> "DINF", args |-> Info] /\ a.key = "DINF" /\ a.args = Info
    BY <1>4 DEF Dinf
  <2>3. "DINF" \in ToSet(Keys) /\ Len(Info) = Len(Format["DINF"])
    BY <1>2, <1>3, AnswerFormats
  <2> QED BY <1>2, <2>1, <2>2, <2>3, MessageReadBack
<1>5. ASSUME NEW k \in {"CALV", "CNOP"}, a = [key |-> k, args |-> <<>>]
      PROVE  LET p == Payload(Format, a)
             IN  /\ p \in Seq(Byte)
                 /\ KeyOf(SubSeq(p, 1, 4)) = a.key
                 /\ Arguments(Format[a.key], SubSeq(p, 5, Len(p))) = [args |-> a.args, rest |-> <<>>]
  <2>1. k \in ToSet(Keys) /\ Format[k] = <<>> /\ Len(<<>>) = 0 /\ <<>> \in Seq(Int)
    BY AnswerFormats, EmptySeq
  <2>2. Len(<<>>) = Len(Format[k]) /\ \A j \in 1..Len(Format[k]) : WrittenBack(Format[k][j], <<>>[j])
    BY <2>1
  <2>3. a.key = k /\ a.args = <<>>
    BY <1>5
  <2> QED BY <1>5, <2>1, <2>2, <2>3, MessageReadBack
<1> QED BY <1>4, <1>5 DEF Said, Calv, Nop

\* What a Hello carries.
LEMMA HelloCarries ==
    ASSUME ServerSpeaks, NEW hello \in Greeting
    PROVE  /\ Carries(s7, hello.args[1])
           /\ hello.args[3] \in Int /\ -32768 <= hello.args[3] /\ hello.args[3] <= 32767
<1>1. hello.key = "Hello" /\ Sendable(hello)
  BY DEF ServerSpeaks
<1>2. Len(Format["Hello"]) = 3 /\ Format["Hello"][1] = s7 /\ Format["Hello"][3] = i2
  BY AnswerFormats
<1>3. \A j \in 1..3 : Carries(Format["Hello"][j], hello.args[j])
  BY <1>1, <1>2 DEF Sendable
<1>4. Carries(s7, hello.args[1]) /\ Carries(i2, hello.args[3])
  BY <1>2, <1>3
<1>5. i2 # i1 /\ i2 # i4 /\ i2 # I4 /\ i2 # s7 /\ i2 # s0
  BY DEF i1, i2, i4, I4, s7, s0
<1> QED BY <1>4, <1>5 DEF Carries

\* The server reads the greeting back: its own name, the version agreed on, the screen.
LEMMA HelloReadBack ==
    ASSUME ServerSpeaks, ClientSpeaks, NEW hello \in Greeting, Compatible(hello.args)
    PROVE  LET p == Payload(Format, HelloBack(hello.args))
               back == Arguments(Format["HelloBack"], p)
           IN  /\ p \in Seq(Byte) /\ back.rest = <<>>
               /\ back.args[1] = hello.args[1] /\ back.args[4] = ScreenName
               /\ back.args[2] = hello.args[2]
               /\ back.args[3] <= hello.args[3] /\ back.args[3] <= kProtocolMinorVersion
               /\ back.args[3] \in {hello.args[3], kProtocolMinorVersion}
<1> DEFINE minor == IF hello.args[3] < kProtocolMinorVersion THEN hello.args[3] ELSE kProtocolMinorVersion
           one == kProtocolMajorVersion
           name == hello.args[1]
           args == <<name, one, minor, ScreenName>>
           p == Payload(Format, HelloBack(hello.args))
           fmt == Format["HelloBack"]
<1>1. HelloBack(hello.args) = [key |-> "HelloBack", args |-> args]
  BY DEF HelloBack
<1>2. /\ hello.args[3] \in Int /\ minor \in Int /\ -32768 <= minor /\ minor <= 32767
      /\ minor <= hello.args[3] /\ minor <= kProtocolMinorVersion
      /\ minor \in {hello.args[3], kProtocolMinorVersion}
  BY HelloCarries DEF kProtocolMinorVersion
<1>3. one \in Int /\ -32768 <= one /\ one <= 32767 /\ hello.args[2] = one
  BY DEF kProtocolMajorVersion, Compatible
<1>4. s7 \in Item /\ i2 \in Item /\ s0 \in Item
  BY DEF Item
<1> HIDE DEF minor, one, name
<1>5. Carries(s7, name) /\ Carries(i2, one) /\ Carries(i2, minor) /\ Carries(s0, ScreenName)
  <2>1. Carries(i2, one) /\ Carries(i2, minor)
    BY <1>2, <1>3 DEF Carries
  <2> QED BY <2>1, HelloCarries DEF ClientSpeaks, name
<1>6. WrittenBack(s7, name) /\ WrittenBack(i2, one) /\ WrittenBack(i2, minor) /\ WrittenBack(s0, ScreenName)
  BY <1>4, <1>5, ConversionComesBack
<1>7. fmt = <<s7, i2, i2, s0>> /\ fmt \in Seq(Item)
  BY <1>4, AnswerFormats
<1>8. args \in Seq({name, one, minor, ScreenName}) /\ Len(args) = 4
  OBVIOUS
<1>9. Len(fmt) = 4 /\ \A j \in 1..4 : WrittenBack(fmt[j], args[j])
  <2>1. Len(fmt) = 4 /\ fmt[1] = s7 /\ fmt[2] = i2 /\ fmt[3] = i2 /\ fmt[4] = s0
    BY <1>7
  <2>2. args[1] = name /\ args[2] = one /\ args[3] = minor /\ args[4] = ScreenName
    OBVIOUS
  <2> HIDE DEF fmt, args
  <2>3. ASSUME NEW j \in 1..4 PROVE WrittenBack(fmt[j], args[j])
    <3>1. j = 1 \/ j = 2 \/ j = 3 \/ j = 4
      OBVIOUS
    <3> QED BY <1>6, <2>1, <2>2, <3>1, Zenon
  <2> QED BY <2>1, <2>3
<1>10. p = writef(fmt, args)
  <2>0. writef(fmt, args) \in Seq(Byte)
    <3> HIDE DEF args, fmt
    <3> QED BY <1>7, <1>8, <1>9, ArgumentsComeBack
  <2>1. p = <<>> \o writef(fmt, args)
    BY <1>1 DEF Payload
  <2> QED BY <2>0, <2>1, ConcatEmptySeq
<1>11. p \in Seq(Byte) /\ Arguments(fmt, p) = [args |-> args, rest |-> <<>>]
  <2> HIDE DEF args, fmt, p
  <2> QED BY <1>7, <1>8, <1>9, <1>10, ArgumentsComeBack
<1> HIDE DEF p, fmt
<1>12. Arguments(fmt, p).args = args /\ Arguments(fmt, p).rest = <<>>
  BY <1>11
<1>13. args[1] = name /\ args[2] = one /\ args[3] = minor /\ args[4] = ScreenName
  OBVIOUS
<1> QED BY <1>2, <1>3, <1>11, <1>12, <1>13 DEF p, fmt, name

-----------------------------------------------------------------------------
(* What is written answers what is handled.                                *)

\* The keys of what follows the greeting.
KeysIn(o) == [j \in 1..Len(o) - 1 |-> KeyOf(SubSeq(o[j + 1], 1, 4))]
KeysOf(ms) == [j \in 1..Len(ms) |-> ms[j].key]
SaidKey == {"DINF", "CALV", "CNOP"}

\* What has been written on the connection answers what has been handled on it.
Greeted ==
    out # <<>> =>
        /\ out \in Seq(Seq(Byte))
        /\ sent[1] \in Greeting /\ Compatible(sent[1].args)
        /\ out[1] = Payload(Format, HelloBack(sent[1].args))
        /\ \A j \in 2..Len(out) : \E a \in Said : out[j] = Payload(Format, a)
        /\ KeysIn(out) = Expected
Answered ==
    /\ handled = <<>> => out = <<>>
    /\ stage \notin {"closed", "leaving"} /\ handled # <<>> => out # <<>>
    /\ m_handshakeDone <=> Runtime(Len(handled))
    /\ Greeted

\* An answer's keys, put behind those of what is written.
LEMMA KeysAppended ==
    ASSUME ClientSpeaks, NEW o \in Seq(Seq(Byte)), o # <<>>, NEW ms \in Seq(Said)
    PROVE  LET p == [j \in 1..Len(ms) |-> Payload(Format, ms[j])]
           IN  /\ o \o p \in Seq(Seq(Byte)) /\ o \o p # <<>> /\ (o \o p)[1] = o[1]
               /\ KeysIn(o \o p) = KeysIn(o) \o KeysOf(ms)
               /\ \A j \in 2..Len(o \o p) :
                     (j \in 2..Len(o) /\ (o \o p)[j] = o[j]) \/ \E a \in Said : (o \o p)[j] = Payload(Format, a)
<1> DEFINE n == Len(ms)
           k == Len(o)
           p == [j \in 1..n |-> Payload(Format, ms[j])]
           q == o \o p
<1>1. n \in Nat /\ (\A j \in 1..n : ms[j] \in Said) /\ k \in Nat /\ k # 0
  BY LenProperties, ElementOfSeq, EmptySeq
<1>2. \A j \in 1..n : p[j] = Payload(Format, ms[j]) /\ p[j] \in Seq(Byte) /\ KeyOf(SubSeq(p[j], 1, 4)) = ms[j].key
  BY <1>1, SaidReadBack
<1>3. p \in [1..n -> Seq(Byte)]
  BY <1>2
<1> HIDE DEF p, n
<1>4. p \in Seq(Seq(Byte)) /\ Len(p) = n
  BY <1>1, <1>3, ListIsSeq
<1>5. /\ q \in Seq(Seq(Byte)) /\ Len(q) = k + n
      /\ (\A j \in 1..k : q[j] = o[j]) /\ \A j \in 1..n : q[k + j] = p[j]
  <2>1. /\ Len(o \o p) = Len(o) + Len(p)
        /\ (\A j \in 1..Len(o) : (o \o p)[j] = o[j]) /\ \A j \in 1..Len(p) : (o \o p)[Len(o) + j] = p[j]
    <3> DEFINE S == Seq(Byte)
    <3>1. o \in Seq(S) /\ p \in Seq(S)
      BY <1>4
    <3> HIDE DEF S
    <3> QED BY <3>1, ConcatAt
  <2>2. o \o p \in Seq(Seq(Byte))
    BY <1>4, ConcatProperties
  <2> QED BY <1>4, <2>1, <2>2
<1> HIDE DEF q, k
<1>6. q # <<>> /\ q[1] = o[1]
  <2>1. 1 \in 1..k /\ Len(q) # 0
    BY <1>1, <1>5
  <2> QED BY <1>5, <2>1, EmptySeq
<1>7. ASSUME NEW j \in 2..Len(q)
      PROVE  (j \in 2..k /\ q[j] = o[j]) \/ \E a \in Said : q[j] = Payload(Format, a)
  <2>1. CASE j \in 2..k
    <3>1. j \in 1..k
      BY <1>1, <2>1
    <3> QED BY <1>5, <2>1, <3>1
  <2>2. CASE j \notin 2..k
    <3>1. j - k \in 1..n /\ k + (j - k) = j
      BY <1>1, <1>5, <2>2
    <3>2. q[j] = Payload(Format, ms[j - k]) /\ ms[j - k] \in Said
      BY <1>1, <1>2, <1>5, <3>1
    <3> QED BY <3>2
  <2> QED BY <2>1, <2>2
<1>8. KeysIn(q) = KeysIn(o) \o KeysOf(ms)
  <2> DEFINE F(x) == KeyOf(SubSeq(x, 1, 4))
             S == {F(q[j]) : j \in 1..k + n} \cup {F(o[j]) : j \in 1..k} \cup {ms[j].key : j \in 1..n}
             a == [j \in 1..k - 1 |-> F(o[j + 1])]
             b == [j \in 1..n |-> ms[j].key]
             c == [j \in 1..k + n - 1 |-> F(q[j + 1])]
  <2>1. KeysIn(o) = a /\ KeysOf(ms) = b /\ KeysIn(q) = c
    <3>1. KeysIn(o) = a
      BY DEF KeysIn, k
    <3>2. KeysOf(ms) = b
      BY DEF KeysOf, n
    <3>3. KeysIn(q) = c
      <4>1. Len(q) - 1 = k + n - 1
        BY <1>1, <1>5
      <4>2. KeysIn(q) = [j \in 1..Len(q) - 1 |-> F(q[j + 1])]
        BY DEF KeysIn
      <4> QED BY <4>1, <4>2
    <3> QED BY <3>1, <3>2, <3>3
  <2>2. (\A j \in 1..k - 1 : j + 1 \in 1..k) /\ (\A j \in 1..k + n - 1 : j + 1 \in 1..k + n)
    BY <1>1
  <2>3. a \in [1..k - 1 -> S] /\ b \in [1..n -> S] /\ c \in [1..k + n - 1 -> S]
    <3> HIDE DEF F
    <3>1. a \in [1..k - 1 -> S]
      BY <2>2
    <3>2. b \in [1..n -> S]
      OBVIOUS
    <3>3. c \in [1..k + n - 1 -> S]
      BY <2>2
    <3> QED BY <3>1, <3>2, <3>3
  <2>4. /\ \A j \in 1..k - 1 : a[j] = F(o[j + 1])
        /\ \A j \in 1..n : b[j] = ms[j].key
        /\ \A j \in 1..k + n - 1 : c[j] = F(q[j + 1])
    OBVIOUS
  <2> HIDE DEF a, b, c, S
  <2>5. a \in Seq(S) /\ Len(a) = k - 1 /\ b \in Seq(S) /\ Len(b) = n /\ c \in Seq(S) /\ Len(c) = k + n - 1
    <3>1. k - 1 \in Nat /\ k + n - 1 \in Nat
      BY <1>1
    <3> DEFINE k1 == k - 1
               kn == k + n - 1
    <3>2. a \in [1..k1 -> S] /\ c \in [1..kn -> S] /\ k1 \in Nat /\ kn \in Nat
      BY <2>3, <3>1
    <3> HIDE DEF k1, kn
    <3>3. a \in Seq(S) /\ Len(a) = k1 /\ b \in Seq(S) /\ Len(b) = n /\ c \in Seq(S) /\ Len(c) = kn
      BY <1>1, <2>3, <3>2, ListIsSeq
    <3> QED BY <3>3 DEF k1, kn
  <2>6. /\ a \o b \in Seq(S) /\ Len(a \o b) = k - 1 + n
        /\ (\A j \in 1..k - 1 : (a \o b)[j] = a[j]) /\ \A j \in 1..n : (a \o b)[k - 1 + j] = b[j]
    <3>1. a \o b \in Seq(S)
      BY <2>5, ConcatProperties
    <3>2. /\ Len(a \o b) = Len(a) + Len(b)
          /\ (\A j \in 1..Len(a) : (a \o b)[j] = a[j]) /\ \A j \in 1..Len(b) : (a \o b)[Len(a) + j] = b[j]
      <4>1. a \in Seq(S) /\ b \in Seq(S)
        BY <2>5
      <4> QED BY <4>1, ConcatAt
    <3> QED BY <2>5, <3>1, <3>2
  <2>7. ASSUME NEW j \in 1..k + n - 1 PROVE c[j] = (a \o b)[j]
    <3>1. CASE j \in 1..k - 1
      <4>1. j + 1 \in 1..k
        BY <1>1, <3>1
      <4>2. q[j + 1] = o[j + 1]
        BY <1>5, <4>1
      <4> QED BY <2>4, <2>6, <3>1, <4>2
    <3>2. CASE j \notin 1..k - 1
      <4> DEFINE i == j - (k - 1)
      <4>1. i \in 1..n /\ k - 1 + i = j /\ k + i = j + 1
        BY <1>1, <3>2
      <4> HIDE DEF i
      <4>2. q[j + 1] = p[i] /\ F(p[i]) = ms[i].key
        BY <1>2, <1>5, <4>1
      <4>3. (a \o b)[j] = ms[i].key
        BY <2>4, <2>6, <4>1
      <4>4. c[j] = F(q[j + 1])
        BY <2>4
      <4> QED BY <4>2, <4>3, <4>4
    <3> QED BY <3>1, <3>2
  <2>8. Len(a \o b) = Len(c)
    BY <1>1, <2>5, <2>6
  <2>9. c = a \o b
    BY <2>5, <2>6, <2>7, <2>8, SeqEqual
  <2> QED BY <2>1, <2>9
<1> QED BY <1>5, <1>6, <1>7, <1>8 DEF p, q, n, k

\* The keys a message is answered with, from its key alone.
KeysFor(key, cnop) ==
    CASE key \in Refused -> <<>>
      [] key = "QINF" -> IF cnop THEN <<"DINF", "CNOP">> ELSE <<"DINF">>
      [] key = "CALV" -> IF cnop THEN <<"CALV", "CNOP">> ELSE <<"CALV">>
      [] OTHER -> IF cnop THEN <<"CNOP">> ELSE <<>>
RuntimeAfter(ms, run, n) == run \/ \E j \in 2..n : ms[j].key = "DSOP"
KeysAfter(ms, run) ==
    [n \in 1..Len(ms) |-> KeysFor(ms[n].key, n > 1 /\ RuntimeAfter(ms, run, n))]

\* They are keys of answers.
LEMMA KeysForType ==
    ASSUME NEW key, NEW cnop
    PROVE  KeysFor(key, cnop) \in Seq(SaidKey)
<1>1. /\ <<>> \in Seq(SaidKey) /\ <<"DINF">> \in Seq(SaidKey) /\ <<"CALV">> \in Seq(SaidKey)
      /\ <<"CNOP">> \in Seq(SaidKey) /\ <<"DINF", "CNOP">> \in Seq(SaidKey)
      /\ <<"CALV", "CNOP">> \in Seq(SaidKey)
  BY DEF SaidKey
<1>2. KeysFor(key, cnop) \in {<<>>, <<"DINF">>, <<"CALV">>, <<"CNOP">>, <<"DINF", "CNOP">>, <<"CALV", "CNOP">>}
  BY DEF KeysFor
<1> QED BY <1>1, <1>2

\* One more message handled is answered behind the others.
LEMMA KeysGrow ==
    ASSUME NEW S, NEW ms \in Seq(S), NEW c \in S, NEW run
    PROVE  LET t == Append(ms, c)
               n == Len(ms) + 1
           IN  /\ FlattenSeq(KeysAfter(t, run))
                     = FlattenSeq(KeysAfter(ms, run)) \o KeysFor(c.key, n > 1 /\ RuntimeAfter(t, run, n))
               /\ RuntimeAfter(t, run, n) <=> RuntimeAfter(ms, run, Len(ms)) \/ (n > 1 /\ c.key = "DSOP")
               /\ FlattenSeq(KeysAfter(ms, run)) \in Seq(SaidKey)
<1> DEFINE t == Append(ms, c)
           h == Len(ms)
           n == h + 1
           a == KeysAfter(ms, run)
           b == KeysAfter(t, run)
           x == KeysFor(c.key, n > 1 /\ RuntimeAfter(t, run, n))
<1>1. /\ h \in Nat /\ Len(t) = n /\ (\A j \in 1..h : t[j] = ms[j]) /\ t[n] = c
  <2>1. t \in Seq(S) /\ Len(t) = Len(ms) + 1 /\ (\A j \in 1..Len(ms) : t[j] = ms[j]) /\ t[Len(ms) + 1] = c
    BY AppendProperties
  <2> QED BY <2>1, LenProperties
<1> HIDE DEF t, h
<1>2. ASSUME NEW i \in 1..h PROVE RuntimeAfter(t, run, i) <=> RuntimeAfter(ms, run, i)
  <2>1. \A j \in 2..i : t[j] = ms[j]
    BY <1>1
  <2> QED BY <2>1 DEF RuntimeAfter
<1>3. RuntimeAfter(t, run, n) <=> RuntimeAfter(ms, run, h) \/ (n > 1 /\ c.key = "DSOP")
  <2>1. \A j \in 2..h : t[j] = ms[j]
    BY <1>1
  <2>2. (\A j \in 2..h : j \in 2..n) /\ (n > 1 => n \in 2..n) /\ (\A j \in 2..n : j \in 2..h \/ (j = n /\ n > 1))
    BY <1>1
  <2> QED BY <1>1, <2>1, <2>2 DEF RuntimeAfter
<1>4. a = [i \in 1..h |-> KeysFor(ms[i].key, i > 1 /\ RuntimeAfter(ms, run, i))]
  BY DEF KeysAfter, h
<1>5. b = [i \in 1..n |-> KeysFor(t[i].key, i > 1 /\ RuntimeAfter(t, run, i))]
  BY <1>1 DEF KeysAfter
<1> HIDE DEF a, b
<1>6. a \in [1..h -> Seq(SaidKey)] /\ b \in [1..n -> Seq(SaidKey)]
  BY <1>4, <1>5, KeysForType
<1>7. ASSUME NEW i \in 1..h PROVE b[i] = a[i]
  <2>1. i \in 1..n
    BY <1>1
  <2>2. b[i] = KeysFor(t[i].key, i > 1 /\ RuntimeAfter(t, run, i))
    BY <1>5, <2>1
  <2>3. a[i] = KeysFor(ms[i].key, i > 1 /\ RuntimeAfter(ms, run, i))
    BY <1>4
  <2>4. t[i] = ms[i]
    BY <1>1
  <2> QED BY <1>2, <2>2, <2>3, <2>4 DEF KeysFor
<1>8. b[n] = x
  <2>1. n \in 1..n
    BY <1>1
  <2> QED BY <1>1, <1>5, <2>1
<1>9. a \in Seq(Seq(SaidKey)) /\ Len(a) = h /\ b \in Seq(Seq(SaidKey)) /\ Len(b) = n
  <2>1. n \in Nat
    BY <1>1
  <2> HIDE DEF n
  <2> QED BY <1>1, <1>6, <2>1, ListIsSeq
<1>10. x \in Seq(SaidKey)
  BY KeysForType
<1> HIDE DEF x
<1>11. b = Append(a, x)
  <2> DEFINE T == Seq(SaidKey)
             d == Append(a, x)
  <2>1. a \in Seq(T) /\ x \in T /\ b \in Seq(T)
    BY <1>9, <1>10
  <2> HIDE DEF T
  <2>2. /\ d \in Seq(T) /\ Len(d) = h + 1
        /\ (\A j \in 1..h : d[j] = a[j]) /\ d[h + 1] = x
    <3>1. /\ Append(a, x) \in Seq(T) /\ Len(Append(a, x)) = Len(a) + 1
          /\ (\A j \in 1..Len(a) : Append(a, x)[j] = a[j]) /\ Append(a, x)[Len(a) + 1] = x
      BY <2>1, AppendProperties
    <3> QED BY <1>9, <3>1
  <2> HIDE DEF d
  <2>3. \A j \in 1..n : j \in 1..h \/ j = n
    BY <1>1
  <2>4. \A j \in 1..Len(b) : b[j] = d[j]
    BY <1>7, <1>8, <1>9, <2>2, <2>3
  <2>5. b = d
    BY <1>9, <2>1, <2>2, <2>4, SeqEqual
  <2> QED BY <2>5 DEF d
<1>12. FlattenSeq(b) = FlattenSeq(a) \o x /\ FlattenSeq(a) \in Seq(SaidKey)
  BY <1>9, <1>10, <1>11, FlattenAppend, FlattenType
<1> QED BY <1>3, <1>12 DEF x, a, b, t, h

\* The model's answer to a message that is not refused has these keys.
LEMMA AnswerSaid ==
    ASSUME NEW m, m.key \notin Refused, m.key # "Hello", NEW run
    PROVE  /\ Answer(m, run) \in Seq(Said)
           /\ KeysOf(Answer(m, run)) = KeysFor(m.key, run)
<1> DEFINE last == IF run THEN <<Nop>> ELSE <<>>
<1>1. Cnop(m, run) = last
  BY DEF Cnop, Nop
<1>2. Dinf \in Said /\ Calv \in Said /\ Nop \in Said /\ Dinf.key = "DINF" /\ Calv.key = "CALV" /\ Nop.key = "CNOP"
  BY DEF Said, Dinf, Calv, Nop
<1>3. Reply(m) = IF m.key = "QINF" THEN <<Dinf>> ELSE IF m.key = "CALV" THEN <<Calv>> ELSE <<>>
  BY DEF Reply, Dinf, Calv
<1>4. ASSUME NEW a \in Said, NEW b \in Said
      PROVE  /\ <<>> \in Seq(Said) /\ KeysOf(<<>>) = <<>>
             /\ <<a>> \in Seq(Said) /\ KeysOf(<<a>>) = <<a.key>>
             /\ <<a>> \o <<b>> \in Seq(Said) /\ KeysOf(<<a>> \o <<b>>) = <<a.key, b.key>>
             /\ <<a>> \o <<>> = <<a>> /\ <<>> \o <<b>> = <<b>> /\ <<>> \o <<>> = <<>>
  <2>1. <<a>> \in Seq(Said) /\ <<b>> \in Seq(Said) /\ <<>> \in Seq(Said) /\ <<a, b>> \in Seq(Said)
    BY <1>4
  <2>2. Append(<<a>>, b) = <<a, b>>
    <3> DEFINE u == <<a>>
               d == Append(u, b)
               w == <<a, b>>
    <3>1. Len(u) = 1 /\ u[1] = a /\ Len(w) = 2 /\ w[1] = a /\ w[2] = b
      OBVIOUS
    <3>2. u \in Seq(Said) /\ b \in Said /\ w \in Seq(Said)
      BY <1>4, <2>1
    <3> HIDE DEF u, w
    <3>3. d \in Seq(Said) /\ Len(d) = 2 /\ d[1] = a /\ d[2] = b
      <4>1. /\ d \in Seq(Said) /\ Len(d) = Len(u) + 1
            /\ (\A j \in 1..Len(u) : d[j] = u[j]) /\ d[Len(u) + 1] = b
        BY <3>2, AppendProperties
      <4> HIDE DEF d
      <4> QED BY <3>1, <4>1
    <3> HIDE DEF d
    <3>4. \A j \in 1..Len(d) : d[j] = w[j]
      BY <3>1, <3>3
    <3>5. d = w
      BY <3>1, <3>2, <3>3, <3>4, SeqEqual
    <3> QED BY <3>5 DEF d, u, w
  <2>3. <<a>> \o <<b>> = <<a, b>>
    BY <2>1, <2>2, AppendIsConcat
  <2>4. <<a>> \o <<>> = <<a>> /\ <<>> \o <<b>> = <<b>> /\ <<>> \o <<>> = <<>>
    BY <2>1, ConcatEmptySeq
  <2>5. KeysOf(<<a, b>>) = <<a.key, b.key>>
    BY DEF KeysOf
  <2>6. KeysOf(<<a>>) = <<a.key>>
    BY DEF KeysOf
  <2>7. KeysOf(<<>>) = <<>>
    BY DEF KeysOf
  <2> QED BY <2>1, <2>3, <2>4, <2>5, <2>6, <2>7
<1>5. Answer(m, run) = Reply(m) \o last
  BY <1>1 DEF Answer
<1>6. KeysFor(m.key, run)
         = IF m.key = "QINF" THEN IF run THEN <<"DINF", "CNOP">> ELSE <<"DINF">>
           ELSE IF m.key = "CALV" THEN IF run THEN <<"CALV", "CNOP">> ELSE <<"CALV">>
           ELSE IF run THEN <<"CNOP">> ELSE <<>>
  BY DEF KeysFor
<1>7. CASE run
  <2>1. last = <<Nop>>
    BY <1>7
  <2> HIDE DEF last
  <2>2. CASE m.key = "QINF"
    <3>1. Answer(m, run) = <<Dinf>> \o <<Nop>> /\ KeysFor(m.key, run) = <<"DINF", "CNOP">>
      BY <1>3, <1>5, <1>6, <1>7, <2>1, <2>2
    <3> QED BY <1>2, <1>4, <3>1
  <2>3. CASE m.key = "CALV"
    <3>1. Answer(m, run) = <<Calv>> \o <<Nop>> /\ KeysFor(m.key, run) = <<"CALV", "CNOP">>
      BY <1>3, <1>5, <1>6, <1>7, <2>1, <2>3
    <3> QED BY <1>2, <1>4, <3>1, ZenonT(30)
  <2>4. CASE m.key \notin {"QINF", "CALV"}
    <3>1. Answer(m, run) = <<>> \o <<Nop>> /\ KeysFor(m.key, run) = <<"CNOP">>
      BY <1>3, <1>5, <1>6, <1>7, <2>1, <2>4
    <3> QED BY <1>2, <1>4, <3>1
  <2> QED BY <2>2, <2>3, <2>4
<1>8. CASE ~run
  <2>1. last = <<>>
    BY <1>8
  <2> HIDE DEF last
  <2>2. CASE m.key = "QINF"
    <3>1. Answer(m, run) = <<Dinf>> \o <<>> /\ KeysFor(m.key, run) = <<"DINF">>
      BY <1>3, <1>5, <1>6, <1>8, <2>1, <2>2
    <3> QED BY <1>2, <1>4, <3>1
  <2>3. CASE m.key = "CALV"
    <3>1. Answer(m, run) = <<Calv>> \o <<>> /\ KeysFor(m.key, run) = <<"CALV">>
      BY <1>3, <1>5, <1>6, <1>8, <2>1, <2>3
    <3> QED BY <1>2, <1>4, <3>1
  <2>4. CASE m.key \notin {"QINF", "CALV"}
    <3>1. Answer(m, run) = <<>> \o <<>> /\ KeysFor(m.key, run) = <<>>
      BY <1>3, <1>5, <1>6, <1>8, <2>1, <2>4
    <3> QED BY <1>2, <1>4, <3>1
  <2> QED BY <2>2, <2>3, <2>4
<1> QED BY <1>7, <1>8

\* Handling a message writes what it asks for.
LEMMA HandleAnswers ==
    ASSUME ServerSpeaks, ClientSpeaks, Told, Answered, m_handshakeDone \in BOOLEAN,
           stage \notin {"closed", "leaving"}, Len(handled) < Len(sent),
           NEW b, Handle(Current, b)
    PROVE  Answered'
<1> DEFINE h == Len(handled)
           c == Current
           t == Append(handled, c)
           run == RuntimeAfter(t, runtimeAtOpen, h + 1)
           keys == KeysFor(c.key, h + 1 > 1 /\ run)
<1>1. /\ c \in Sent /\ h \in Nat
      /\ handled = <<>> => c \in Greeting
      /\ handled # <<>> => c \in Message
  BY CurrentSent
<1>2. /\ handled' = t /\ sent' = sent /\ runtimeAtOpen' = runtimeAtOpen
      /\ handled \in Seq(Sent) /\ sent \in Seq(Sent) /\ sent # <<>>
  BY DEF Handle, Told
<1> HIDE DEF c
<1>3. Len(t) = h + 1 /\ t # <<>>
  <2>1. t \in Seq(Sent) /\ Len(t) = Len(handled) + 1
    BY <1>1, <1>2, AppendProperties
  <2> HIDE DEF t
  <2>2. Len(t) # 0
    BY <1>1, <2>1
  <2> QED BY <2>1, <2>2, EmptySeq
<1> HIDE DEF h, t
<1>4. /\ Expected = FlattenSeq(KeysAfter(handled, runtimeAtOpen))
      /\ Expected' = FlattenSeq(KeysAfter(t, runtimeAtOpen))
  <2>1. Expected = FlattenSeq(KeysAfter(handled, runtimeAtOpen))
    BY DEF Expected, AnswerKeys, Runtime, KeysAfter, KeysFor, RuntimeAfter
  <2>2. Expected' = FlattenSeq(KeysAfter(handled', runtimeAtOpen'))
    BY DEF Expected, AnswerKeys, Runtime, KeysAfter, KeysFor, RuntimeAfter
  <2> QED BY <1>2, <2>1, <2>2
<1>5. /\ Runtime(Len(handled)) <=> RuntimeAfter(handled, runtimeAtOpen, h)
      /\ Runtime(Len(handled))' <=> run
  <2>1. Runtime(Len(handled)) <=> RuntimeAfter(handled, runtimeAtOpen, h)
    BY DEF Runtime, RuntimeAfter, h
  <2>2. Runtime(Len(handled))' <=> RuntimeAfter(handled', runtimeAtOpen', Len(handled'))
    BY DEF Runtime, RuntimeAfter
  <2> QED BY <1>2, <1>3, <2>1, <2>2
<1>6. /\ Expected' = Expected \o keys /\ Expected \in Seq(SaidKey)
      /\ run <=> m_handshakeDone \/ (handled # <<>> /\ c.key = "DSOP")
  <2>1. m_handshakeDone <=> RuntimeAfter(handled, runtimeAtOpen, h)
    BY <1>5, Zenon DEF Answered
  <2>2. /\ FlattenSeq(KeysAfter(t, runtimeAtOpen)) = FlattenSeq(KeysAfter(handled, runtimeAtOpen)) \o keys
        /\ run <=> RuntimeAfter(handled, runtimeAtOpen, h) \/ (h + 1 > 1 /\ c.key = "DSOP")
        /\ FlattenSeq(KeysAfter(handled, runtimeAtOpen)) \in Seq(SaidKey)
    BY <1>1, <1>2, KeysGrow DEF h, t
  <2>3. h + 1 > 1 <=> handled # <<>>
    <3>1. h = 0 <=> handled = <<>>
      BY <1>2, EmptySeq DEF h
    <3> QED BY <1>1, <3>1
  <2>4. run <=> m_handshakeDone \/ (handled # <<>> /\ c.key = "DSOP")
    <3> HIDE DEF run
    <3> QED BY <2>1, <2>2, <2>3, Zenon
  <2> QED BY <1>4, <2>2, <2>4
<1> HIDE DEF run, keys
<1>7. handled' # <<>> /\ sent'[1] = sent[1]
  BY <1>2, <1>3
<1>8. CASE handled = <<>>
  <2>1. c \in Greeting /\ c.key = "Hello" /\ h = 0 /\ c = sent[1] /\ out = <<>>
    <3>1. h = 0
      BY <1>8, EmptySeq DEF h
    <3>2. c = sent[1]
      BY <3>1 DEF c, Current, h
    <3> QED BY <1>1, <1>8, <3>1, <3>2 DEF ServerSpeaks, Answered
  <2>2. "Hello" \notin Refused
    BY DEF Refused
  <2>3. Expected' = <<>>
    <3>1. KeysAfter(handled, runtimeAtOpen) = <<>>
      BY <2>1 DEF KeysAfter, h
    <3>2. Expected = <<>>
      BY <1>4, <3>1, FlattenEmpty
    <3>3. keys = <<>>
      BY <2>1 DEF keys, KeysFor, Refused
    <3> QED BY <1>6, <3>2, <3>3, ConcatEmptySeq
  <2>4. CASE ~Compatible(c.args)
    <3>1. stage' = "leaving" /\ out' = <<>> /\ m_handshakeDone' = m_handshakeDone
      BY <2>1, <2>4 DEF Handle, Leave, c
    <3>2. (m_handshakeDone' <=> Runtime(Len(handled))')
      <4>1. c.key # "DSOP"
        BY <2>1
      <4> QED BY <1>5, <1>6, <3>1, <4>1, Zenon
    <3> QED BY <1>7, <3>1, <3>2 DEF Answered, Greeted
  <2>5. CASE Compatible(c.args)
    <3> DEFINE p == Payload(Format, HelloBack(c.args))
    <3>1. /\ m_handshakeDone' = (m_handshakeDone \/ c.key = "DSOP")
          /\ out' = out \o [j \in 1..Len(Answer(c, m_handshakeDone')) |->
                                Payload(Format, Answer(c, m_handshakeDone')[j])]
          /\ stage' = "length"
      BY <2>1, <2>2, <2>5 DEF Handle, Read, c
    <3>2. Answer(c, m_handshakeDone') = <<HelloBack(c.args)>>
      <4>1. Reply(c) = <<HelloBack(c.args)>> /\ Cnop(c, m_handshakeDone') = <<>>
        BY <2>1 DEF Reply, Cnop
      <4> QED BY <4>1 DEF Answer
    <3>3. [j \in 1..Len(<<HelloBack(c.args)>>) |-> Payload(Format, <<HelloBack(c.args)>>[j])] = <<p>>
      OBVIOUS
    <3>4. p \in Seq(Byte)
      BY <2>1, <2>5, HelloReadBack
    <3> HIDE DEF p
    <3>5. out' = <<p>>
      <4> DEFINE w == <<p>>
      <4>1. w \in Seq(Seq(Byte))
        BY <3>4
      <4>2. out' = <<>> \o w
        BY <2>1, <3>1, <3>2, <3>3
      <4> HIDE DEF w
      <4>3. out' = w
        BY <4>1, <4>2, ConcatEmptySeq
      <4> QED BY <4>3 DEF w
    <3>6. <<p>> \in Seq(Seq(Byte)) /\ <<p>> # <<>> /\ Len(<<p>>) = 1 /\ <<p>>[1] = p
      BY <3>4
    <3>7. KeysIn(<<p>>) = <<>>
      BY <3>6 DEF KeysIn
    <3>8. (m_handshakeDone' <=> Runtime(Len(handled))')
      <4>1. c.key # "DSOP"
        BY <2>1
      <4> QED BY <1>5, <1>6, <3>1, <4>1, Zenon
    <3>9. Greeted'
      BY <1>7, <2>1, <2>3, <2>5, <3>5, <3>6, <3>7 DEF Greeted, p
    <3> QED BY <1>7, <3>5, <3>6, <3>8, <3>9 DEF Answered
  <2> QED BY <2>4, <2>5
<1>9. CASE handled # <<>>
  <2>1. c \in Message /\ c.key # "Hello" /\ c.key \in ToSet(Keys)
    BY <1>1, <1>9, KeysKnown DEF ServerSpeaks
  <2>2. h + 1 > 1
    <3>1. h # 0
      BY <1>2, <1>9, EmptySeq DEF h
    <3> QED BY <1>1, <3>1
  <2>3. /\ out # <<>> /\ out \in Seq(Seq(Byte))
        /\ sent[1] \in Greeting /\ Compatible(sent[1].args)
        /\ out[1] = Payload(Format, HelloBack(sent[1].args))
        /\ \A j \in 2..Len(out) : \E a \in Said : out[j] = Payload(Format, a)
        /\ KeysIn(out) = Expected
    BY <1>9 DEF Answered, Greeted
  <2>4. CASE c.key \in Refused
    <3>1. stage' = "leaving" /\ out' = out /\ m_handshakeDone' = m_handshakeDone
      BY <2>4 DEF Handle, Leave, c
    <3>2. (m_handshakeDone' <=> Runtime(Len(handled))')
      <4>1. c.key # "DSOP"
        BY <2>4 DEF Refused
      <4> QED BY <1>5, <1>6, <3>1, <4>1, Zenon
    <3>3. Expected' = Expected
      <4>1. keys = <<>>
        BY <2>4 DEF keys, KeysFor, Refused
      <4> QED BY <1>6, <4>1, ConcatEmptySeq
    <3>4. Greeted'
      BY <1>7, <2>3, <3>1, <3>3 DEF Greeted
    <3> QED BY <1>7, <3>1, <3>2, <3>4 DEF Answered
  <2>5. CASE c.key \notin Refused
    <3> DEFINE ms == Answer(c, m_handshakeDone')
               q == [j \in 1..Len(ms) |-> Payload(Format, ms[j])]
    <3>1. /\ m_handshakeDone' = (m_handshakeDone \/ c.key = "DSOP")
          /\ out' = out \o q /\ stage' = "length"
      BY <2>1, <2>5 DEF Handle, Read, c
    <3>2. (m_handshakeDone' <=> Runtime(Len(handled))') /\ (m_handshakeDone' <=> run)
      BY <1>5, <1>6, <1>9, <3>1, Zenon
    <3>3. ms \in Seq(Said) /\ KeysOf(ms) = KeysFor(c.key, m_handshakeDone')
      BY <2>1, <2>5, AnswerSaid
    <3>4. KeysFor(c.key, m_handshakeDone') = keys
      BY <2>2, <3>2 DEF KeysFor, keys
    <3> HIDE DEF ms
    <3>5. /\ out \o q \in Seq(Seq(Byte)) /\ out \o q # <<>> /\ (out \o q)[1] = out[1]
          /\ KeysIn(out \o q) = KeysIn(out) \o KeysOf(ms)
          /\ \A j \in 2..Len(out \o q) :
                (j \in 2..Len(out) /\ (out \o q)[j] = out[j]) \/ \E a \in Said : (out \o q)[j] = Payload(Format, a)
      BY <2>3, <3>3, KeysAppended
    <3> HIDE DEF q
    <3>6. KeysIn(out') = Expected'
      BY <1>6, <2>3, <3>1, <3>3, <3>4, <3>5
    <3>7. Greeted'
      BY <1>7, <2>3, <3>1, <3>5, <3>6 DEF Greeted
    <3> QED BY <1>7, <3>1, <3>2, <3>5, <3>7 DEF Answered
  <2> QED BY <2>4, <2>5
<1> QED BY <1>8, <1>9

\* Where a message is handled, it is the next one that was sent.
LEMMA HandlesCurrent ==
    ASSUME Told, Advances, NEW m, NEW b, Handle(m, b)
    PROVE  m = Current
<1> DEFINE S == Sent \cup {m, Current}
<1>1. handled \in Seq(S) /\ m \in S /\ Current \in S
  BY DEF Told
<1>2. handled' = Append(handled, m) /\ (handled' = handled \/ handled' = Append(handled, Current))
  BY DEF Handle, Advances
<1> HIDE DEF S
<1>3. /\ Len(Append(handled, m)) = Len(handled) + 1 /\ Len(handled) \in Nat
      /\ Append(handled, m)[Len(handled) + 1] = m
      /\ Append(handled, Current)[Len(handled) + 1] = Current
  BY <1>1, AppendProperties, LenProperties
<1>4. Append(handled, m) # handled
  BY <1>3
<1> QED BY <1>2, <1>3, <1>4

\* The other steps of the worker write nothing.
LEMMA QuietKeeps ==
    ASSUME Answered, UNCHANGED <<out, m_handshakeDone, handled, runtimeAtOpen>>,
           sent'[1] = sent[1],
           stage' \notin {"closed", "leaving"} => stage \notin {"closed", "leaving"}
    PROVE  Answered'
<1>1. out' = out /\ m_handshakeDone' = m_handshakeDone /\ handled' = handled /\ runtimeAtOpen' = runtimeAtOpen
  OBVIOUS
<1>2. Expected' = Expected
  BY <1>1 DEF Expected, AnswerKeys, Runtime
<1>3. Runtime(Len(handled))' <=> Runtime(Len(handled))
  BY <1>1 DEF Runtime
<1>4. Greeted'
  BY <1>1, <1>2 DEF Answered, Greeted
<1> QED BY <1>1, <1>3, <1>4 DEF Answered

\* The next argument is asked for, or the message is handled.
LEMMA ProceedAnswers ==
    ASSUME ServerSpeaks, ClientSpeaks, FramingInv, Answered, Advances,
           stage \notin {"closed", "leaving"}, Len(handled) < Len(sent),
           NEW m, NEW b, Proceed(m, b)
    PROVE  Answered'
<1>1. Told /\ m_handshakeDone \in BOOLEAN
  BY DEF FramingInv, Typed
<1>2. CASE Handle(m, b)
  <2>1. Handle(Current, b)
    BY <1>1, <1>2, HandlesCurrent
  <2> QED BY <1>1, <2>1, HandleAnswers
<1>3. CASE UNCHANGED <<out, m_handshakeDone, handled, runtimeAtOpen>>
  BY <1>3, QuietKeeps DEF Advances
<1> QED BY <1>2, <1>3 DEF Proceed, history

\* Every step keeps what is written an answer to what is handled.
LEMMA AnsweredStep ==
    ASSUME ServerSpeaks, ClientSpeaks, FramingInv, Answered, [Next]_vars
    PROVE  Answered'
<1>0. Told /\ m_handshakeDone \in BOOLEAN
  BY DEF FramingInv, Typed
<1>1. CASE Recv
  BY <1>1, QuietKeeps DEF Recv, history
<1>2. CASE LengthRead
  <2>1. stage \notin {"closed", "leaving"}
    BY <1>2 DEF LengthRead, Complete
  <2> QED BY <1>2, <2>1, QuietKeeps DEF LengthRead, history
<1>3. CASE PayloadRead
  <2>1. Advances /\ stage = "payload" /\ Len(handled) < Len(sent)
    BY <1>3, PayloadReadKeeps DEF PayloadRead, Complete, FramingInv, Position, AtPayload
  <2>2. CASE \E m, b : Proceed(m, b)
    BY <2>1, <2>2, ProceedAnswers
  <2>3. CASE UNCHANGED <<m_handshakeDone, out, history>>
    BY <2>1, <2>3, QuietKeeps DEF history
  <2> QED BY <1>3, <2>2, <2>3 DEF PayloadRead
<1>4. CASE KeyRead
  <2>1. Advances /\ stage = "key" /\ Len(handled) < Len(sent)
    BY <1>4, KeyReadKeeps DEF KeyRead, Complete, FramingInv, Position, Parsing
  <2>2. CASE \E m, b : Proceed(m, b)
    BY <2>1, <2>2, ProceedAnswers
  <2>3. ASSUME NEW m, NEW b, Handle(m, b) PROVE Answered'
    <3>1. Handle(Current, b)
      BY <1>0, <2>1, <2>3, HandlesCurrent
    <3> QED BY <1>0, <2>1, <3>1, HandleAnswers
  <2> QED BY <1>4, <2>2, <2>3 DEF KeyRead
<1>5. CASE CountRead
  <2>1. stage \notin {"closed", "leaving"}
    BY <1>5 DEF CountRead, Complete
  <2> QED BY <1>5, <2>1, QuietKeeps DEF CountRead, history
<1>6. CASE ValueRead
  <2>1. Advances /\ stage = "value" /\ Len(handled) < Len(sent)
    BY <1>6, ValueReadKeeps DEF ValueRead, Complete, FramingInv, Position, Parsing
  <2>2. \E m, b : Proceed(m, b)
    BY <1>6 DEF ValueRead
  <2> QED BY <2>1, <2>2, ProceedAnswers
<1>7. CASE Close
  BY <1>7, QuietKeeps DEF Close, history
<1>8. CASE RecvFails
  BY <1>8, QuietKeeps DEF RecvFails, Leave, history
<1>9. ASSUME NEW hello \in Greeting, Connect(hello) PROVE Answered'
  <2>1. /\ out' = <<>> /\ handled' = <<>> /\ m_handshakeDone' = m_handshakeDone
        /\ runtimeAtOpen' = m_handshakeDone
    BY <1>9 DEF Connect
  <2>2. m_handshakeDone' <=> Runtime(Len(handled))'
    <3>1. Len(handled') = 0
      BY <2>1
    <3>2. \A j \in 2..Len(handled') : FALSE
      BY <3>1
    <3> QED BY <2>1, <3>2, Zenon DEF Runtime
  <2> QED BY <2>1, <2>2 DEF Answered, Greeted
<1>10. ASSUME NEW m \in Message, ServerSends(m) PROVE Answered'
  <2>1. /\ out' = out /\ m_handshakeDone' = m_handshakeDone /\ handled' = handled
        /\ runtimeAtOpen' = runtimeAtOpen /\ stage' = stage
        /\ sent' = Append(sent, m) /\ stage # "closed"
    BY <1>10 DEF ServerSends, reading
  <2>2. sent'[1] = sent[1]
    <3> DEFINE S == Sent
    <3>1. sent \in Seq(S) /\ m \in S /\ sent # <<>>
      BY <1>0, <2>1 DEF Told, Sent
    <3> HIDE DEF S
    <3>2. Len(sent) \in Nat /\ Len(sent) # 0
      BY <3>1, LenProperties, EmptySeq
    <3>3. 1 \in 1..Len(sent)
      BY <3>2
    <3>4. Append(sent, m)[1] = sent[1]
      BY <3>1, <3>3, AppendProperties
    <3> QED BY <2>1, <3>4
  <2> QED BY <2>1, <2>2, QuietKeeps
<1>11. CASE UNCHANGED vars
  BY <1>11, QuietKeeps DEF vars, reading, history
<1> QED BY <1>1, <1>2, <1>3, <1>4, <1>5, <1>6, <1>7, <1>8, <1>9, <1>10, <1>11 DEF Next, Worker

\* Before the first connection nothing is written.
LEMMA AnsweredInit == Init => Answered
<1> SUFFICES ASSUME Init PROVE Answered
  OBVIOUS
<1>1. out = <<>> /\ handled = <<>> /\ stage = "closed" /\ m_handshakeDone = FALSE /\ runtimeAtOpen = FALSE
  BY DEF Init
<1>2. \A j \in 2..Len(handled) : FALSE
  BY <1>1
<1>3. ~Runtime(Len(handled))
  BY <1>1, <1>2, Zenon DEF Runtime
<1> QED BY <1>1, <1>3 DEF Answered, Greeted

\* The server reads in every answer what the client meant, and finds the answers it
\* asked for in the order it asked, with the CNOPs of the runtime behind them.
THEOREM AnswersHold == ServerSpeaks /\ ClientSpeaks => (Spec => []AnswersUnderstood)
<1> SUFFICES ASSUME ServerSpeaks, ClientSpeaks PROVE Spec => []AnswersUnderstood
  OBVIOUS
<1>1. FramingInv /\ Answered /\ [Next]_vars => Answered'
  BY AnsweredStep
<1>2. Answered => AnswersUnderstood
  <2> SUFFICES ASSUME Answered, out # <<>> PROVE AnswersUnderstood
    BY DEF AnswersUnderstood
  <2>1. /\ sent[1] \in Greeting /\ Compatible(sent[1].args)
        /\ out[1] = Payload(Format, HelloBack(sent[1].args))
        /\ \A j \in 2..Len(out) : \E a \in Said : out[j] = Payload(Format, a)
        /\ KeysIn(out) = Expected
    BY DEF Answered, Greeted
  <2> DEFINE hello == sent[1]
             back == Arguments(Format["HelloBack"], out[1])
  <2>2. /\ back.rest = <<>>
        /\ back.args[1] = hello.args[1] /\ back.args[4] = ScreenName
        /\ back.args[2] = hello.args[2]
        /\ back.args[3] <= hello.args[3] /\ back.args[3] <= kProtocolMinorVersion
        /\ back.args[3] \in {hello.args[3], kProtocolMinorVersion}
    <3>1. hello \in Greeting /\ Compatible(hello.args)
      BY <2>1
    <3> HIDE DEF hello
    <3> QED BY <2>1, <3>1, HelloReadBack DEF hello
  <2>3. ASSUME NEW j \in 2..Len(out)
        PROVE  LET key == KeyOf(SubSeq(out[j], 1, 4))
                   read == Arguments(Format[key], SubSeq(out[j], 5, Len(out[j])))
               IN  read.rest = <<>> /\ (key = "DINF" => read.args = Info)
    <3>1. PICK a \in Said : out[j] = Payload(Format, a)
      BY <2>1
    <3>2. /\ KeyOf(SubSeq(out[j], 1, 4)) = a.key
          /\ Arguments(Format[a.key], SubSeq(out[j], 5, Len(out[j]))) = [args |-> a.args, rest |-> <<>>]
      BY <3>1, SaidReadBack
    <3>3. a.key = "DINF" => a.args = Info
      BY DEF Said, Dinf, Calv, Nop
    <3> QED BY <3>2, <3>3
  <2> QED BY <2>1, <2>2, <2>3 DEF AnswersUnderstood, KeysIn
<1>3. Spec => []FramingInv
  BY FramingHolds
<1> QED BY AnsweredInit, <1>1, <1>2, <1>3, PTL DEF Spec
=============================================================================
