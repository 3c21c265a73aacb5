--------------------------- MODULE FrontDoorProofs ---------------------------
(***************************************************************************)
(* Proofs about FrontDoor, for every byte size, every set of ports and of  *)
(* networks and any number of runs of the process.                         *)
(***************************************************************************)
EXTENDS FrontDoor, SequenceTheorems, WellFoundedInduction, TLAPS

-----------------------------------------------------------------------------
(* Loops *)

\* A set of naturals has a least element.
LEMMA Least ==
    ASSUME NEW T \in SUBSET Nat, T # {}
    PROVE  \E x \in T : \A y \in T : x <= y
<1> DEFINE R == OpToRel(<, Nat)
<1>1. IsWellFoundedOn(R, Nat)
  BY NatLessThanWellFounded
<1>2. PICK x \in T : \A y \in T : ~(<<y, x>> \in R)
  <2> HIDE DEF R
  <2> QED
    BY <1>1, WFMin, Zenon
<1>3. \A y \in T : ~(y < x)
  BY <1>2 DEF OpToRel
<1> QED
  BY <1>3

\* What holds of 0, and of a number up to n when it holds of the one before,
\* holds up to n.
LEMMA UpTo ==
    ASSUME NEW n \in Nat, NEW Good \in SUBSET (0..n), 0 \in Good,
           \A i \in 1..n : i - 1 \in Good => i \in Good
    PROVE  Good = 0..n
<1> SUFFICES ASSUME (0..n) \ Good # {} PROVE FALSE
  OBVIOUS
<1>1. (0..n) \ Good \in SUBSET Nat
  OBVIOUS
<1>2. PICK x \in (0..n) \ Good : \A y \in (0..n) \ Good : x <= y
  BY <1>1, Least
<1>3. x \in 1..n /\ x - 1 \in 0..n /\ x - 1 \notin (0..n) \ Good
  BY <1>2
<1> QED
  BY <1>2, <1>3

\* The results after each round of a loop that begins with a.
Runs(n, S, a, step) ==
    {f \in [0..n -> S] : f[0] = a /\ \A i \in 1..n : f[i] = step[i][f[i - 1]]}

\* Every loop of n rounds can be run.
LEMMA LoopRuns ==
    ASSUME NEW n \in Nat, NEW S, NEW a \in S, NEW step \in [1..n -> [S -> S]]
    PROVE  Runs(n, S, a, step) # {}
<1> DEFINE Ran(f, k) == /\ f \in [0..k -> S] /\ f[0] = a
                         /\ \A i \in 1..k : f[i] = step[i][f[i - 1]]
           Good == {k \in 0..n : \E f : Ran(f, k)}
<1>1. 0 \in Good
  <2>1. Ran([i \in 0..0 |-> a], 0)
    OBVIOUS
  <2> HIDE DEF Ran
  <2> QED
    BY <2>1
<1>2. ASSUME NEW k \in 1..n, k - 1 \in Good PROVE k \in Good
  <2>1. PICK f : Ran(f, k - 1)
    BY <1>2
  <2> DEFINE last == step[k][f[k - 1]]
             g == [i \in 0..k |-> IF i = k THEN last ELSE f[i]]
  <2>2. last \in S
    <3>1. f[k - 1] \in S /\ step[k] \in [S -> S]
      BY <2>1
    <3> QED
      BY <3>1
  <2> HIDE DEF last
  <2>3. \A i \in 0..k : i # k => i \in 0..k - 1
    OBVIOUS
  <2>4. g \in [0..k -> S] /\ g[0] = a
    BY <2>1, <2>2, <2>3
  <2>5. ASSUME NEW i \in 1..k PROVE g[i] = step[i][g[i - 1]]
    <3>1. i \in 0..k /\ i - 1 \in 0..k /\ g[i - 1] = f[i - 1]
      OBVIOUS
    <3>2. CASE i = k
      BY <3>1, <3>2 DEF last
    <3>3. CASE i # k
      <4>1. i \in 1..k - 1
        BY <3>3
      <4> QED
        BY <2>1, <3>1, <3>3, <4>1
    <3> QED
      BY <3>2, <3>3
  <2> HIDE DEF g
  <2>6. Ran(g, k)
    BY <2>4, <2>5
  <2> HIDE DEF Ran
  <2> QED
    BY <2>6
<1>3. n \in Good
  <2>1. Good \in SUBSET (0..n) /\ n \in 0..n
    OBVIOUS
  <2> HIDE DEF Good
  <2> QED
    BY <1>1, <1>2, <2>1, UpTo
<1> QED
  BY <1>3 DEF Runs

-----------------------------------------------------------------------------
(* The hints of a code *)

Pieces == Seq(Text)

\* Split reads its text byte by byte.
LEMMA SplitRuns ==
    ASSUME NEW s \in Text
    PROVE  \E f \in [0..Len(s) -> Pieces \ {Nil}] :
             /\ f[0] = <<Nil>> /\ Split(s) = f[Len(s)]
             /\ \A i \in 1..Len(s) : f[i] = Cut(f[i - 1], s[i])
<1> DEFINE n == Len(s)
           S == Pieces \ {Nil}
           step == [i \in 1..n |-> [p \in S |-> Cut(p, s[i])]]
           Body(g) == [i \in 0..n |-> IF i = 0 THEN <<Nil>> ELSE Cut(g[i - 1], s[i])]
           pieces == CHOOSE g : g = Body(g)
<1>1. n \in Nat /\ \A i \in 1..n : s[i] \in Nat
  BY DEF Text
<1>2. ASSUME NEW p \in S, NEW b \in Nat PROVE Cut(p, b) \in S
  <2>1. Len(p) \in DOMAIN p /\ p[Len(p)] \in Text /\ Append(p[Len(p)], b) \in Text
    BY DEF Pieces, Text, Nil
  <2>2. CASE b = Comma
    <3>1. Cut(p, b) = Append(p, Nil) /\ Nil \in Text /\ p \in Seq(Text)
      BY <2>2 DEF Cut, Pieces, Text, Nil
    <3> QED
      BY <3>1, AppendProperties DEF Pieces, Nil
  <2>3. CASE b # Comma
    <3>1. Cut(p, b) = [p EXCEPT ![Len(p)] = Append(p[Len(p)], b)] /\ p \in Seq(Text)
      BY <2>3 DEF Cut, Pieces
    <3>2. Cut(p, b) \in Seq(Text) /\ Len(Cut(p, b)) = Len(p)
      BY <2>1, <3>1, ExceptSeq
    <3>3. Len(p) # 0
      BY DEF Pieces, Nil
    <3> QED
      BY <3>2, <3>3 DEF Pieces, Nil
  <2> QED
    BY <2>2, <2>3
<1>3. <<Nil>> \in S
  BY DEF Pieces, Text, Nil
<1>4. step \in [1..n -> [S -> S]]
  <2> HIDE DEF S
  <2> QED
    BY <1>1, <1>2
<1>5. PICK f : f \in Runs(n, S, <<Nil>>, step)
  <2> HIDE DEF step, n, S
  <2> QED
    BY <1>1, <1>3, <1>4, LoopRuns
<1>6. ASSUME NEW i \in 1..n PROVE f[i] = Cut(f[i - 1], s[i])
  <2>1. f[i - 1] \in S
    BY <1>1, <1>5 DEF Runs
  <2> QED
    BY <1>5, <2>1 DEF Runs
<1>7. f = Body(f)
  <2>1. \A i \in 0..n : f[i] = IF i = 0 THEN <<Nil>> ELSE Cut(f[i - 1], s[i])
    <3>1. \A i \in 0..n : i # 0 => i \in 1..n
      BY <1>1
    <3> QED
      BY <1>5, <1>6, <3>1 DEF Runs
  <2>2. f = [i \in 0..n |-> f[i]]
    BY <1>5 DEF Runs
  <2> HIDE DEF n
  <2> QED
    BY <2>1, <2>2
<1>8. pieces = Body(pieces)
  <2> HIDE DEF Body
  <2> QED
    BY <1>7
<1>9. Split(s) = pieces[n]
  BY DEF Split
<1> HIDE DEF pieces
<1>10. pieces = f
  <2> DEFINE Good == {i \in 0..n : pieces[i] = f[i]}
  <2>1. 0 \in Good
    BY <1>1, <1>5, <1>8 DEF Runs
  <2>2. ASSUME NEW i \in 1..n, i - 1 \in Good PROVE i \in Good
    <3>1. i \in 0..n /\ i # 0
      BY <1>1
    <3>2. pieces[i] = Cut(pieces[i - 1], s[i])
      BY <1>8, <3>1
    <3> HIDE DEF n
    <3> QED
      BY <1>6, <2>2, <3>1, <3>2
  <2>3. Good = 0..n
    <3>1. Good \in SUBSET (0..n)
      OBVIOUS
    <3> HIDE DEF Good
    <3> QED
      BY <1>1, <2>1, <2>2, <3>1, UpTo
  <2>4. pieces = [i \in 0..n |-> pieces[i]] /\ f = [i \in 0..n |-> f[i]]
    BY <1>5, <1>8 DEF Runs
  <2>5. \A i \in 0..n : pieces[i] = f[i]
    BY <2>3
  <2> HIDE DEF n
  <2> QED
    BY <2>4, <2>5
<1> QED
  BY <1>5, <1>6, <1>9, <1>10 DEF Runs

\* The pieces of a text and one byte more.
LEMMA SplitAppend ==
    ASSUME NEW s \in Text, NEW b \in Nat
    PROVE  Split(Append(s, b)) = Cut(Split(s), b)
<1> DEFINE t == Append(s, b)
           n == Len(s)
<1>1. t \in Text /\ Len(t) = n + 1 /\ n \in Nat /\ t[n + 1] = b
      /\ \A i \in 1..n : t[i] = s[i]
  BY DEF Text
<1> HIDE DEF t
<1>2. PICK f \in [0..n -> Pieces \ {Nil}] :
        f[0] = <<Nil>> /\ Split(s) = f[n] /\ \A i \in 1..n : f[i] = Cut(f[i - 1], s[i])
  BY SplitRuns
<1>3. PICK g \in [0..Len(t) -> Pieces \ {Nil}] :
        /\ g[0] = <<Nil>> /\ Split(t) = g[Len(t)]
        /\ \A i \in 1..Len(t) : g[i] = Cut(g[i - 1], t[i])
  <2>1. t \in Text
    BY <1>1
  <2> QED
    BY <2>1, SplitRuns
<1> DEFINE Good == {i \in 0..n : g[i] = f[i]}
<1>4. Good = 0..n
  <2>1. 0 \in Good
    BY <1>1, <1>2, <1>3
  <2>2. \A i \in 1..n : i - 1 \in Good => i \in Good
    BY <1>1, <1>2, <1>3
  <2>3. Good \in SUBSET (0..n)
    OBVIOUS
  <2> HIDE DEF Good
  <2> QED
    BY <1>1, <2>1, <2>2, <2>3, UpTo
<1>5. g[n] = f[n] /\ g[n + 1] = Cut(g[n], t[n + 1])
  <2>1. n \in Good /\ n + 1 \in 1..Len(t) /\ n + 1 - 1 = n
    <3> HIDE DEF Good
    <3> QED
      BY <1>1, <1>4
  <2>2. g[n + 1] = Cut(g[n + 1 - 1], t[n + 1])
    BY <1>3, <2>1
  <2> QED
    BY <2>1, <2>2
<1> QED
  BY <1>1, <1>2, <1>3, <1>5 DEF t

\* A byte at the end of the second of two texts is at the end of both.
LEMMA ConcatAppend ==
    ASSUME NEW s \in Seq(Nat), NEW t \in Seq(Nat), NEW b \in Nat
    PROVE  s \o Append(t, b) = Append(s \o t, b)
<1> DEFINE l == s \o Append(t, b)
           r == Append(s \o t, b)
<1>1. l \in Seq(Nat) /\ r \in Seq(Nat) /\ Len(l) = Len(r) /\ Len(r) = Len(s) + Len(t) + 1
  OBVIOUS
<1>2. ASSUME NEW i \in 1..Len(l) PROVE l[i] = r[i]
  <2>1. CASE i <= Len(s)
    BY <1>1, <2>1
  <2>2. CASE i > Len(s) /\ i <= Len(s) + Len(t)
    BY <1>1, <2>2
  <2>3. CASE i = Len(s) + Len(t) + 1
    BY <1>1, <2>3
  <2> QED
    BY <1>1, <2>1, <2>2, <2>3
<1> HIDE DEF l, r
<1>3. l = r
  BY <1>1, <1>2, SeqEqual
<1> QED
  BY <1>3 DEF l, r

\* Bytes other than a comma go on with the last piece.
LEMMA SplitOn ==
    ASSUME NEW t \in Text, NEW ps \in Pieces, Split(t) = Append(ps, Nil),
           NEW u \in Text, \A i \in 1..Len(u) : u[i] # Comma
    PROVE  Split(t \o u) = Append(ps, u)
<1> DEFINE n == Len(u)
           v(j) == SubSeq(u, 1, j)
           Good == {j \in 0..n : Split(t \o v(j)) = Append(ps, v(j))}
<1>1. n \in Nat /\ t \in Seq(Nat) /\ u \in Seq(Nat) /\ ps \in Seq(Seq(Nat))
  BY DEF Text, Pieces
<1>2. 0 \in Good
  <2>1. v(0) = <<>> /\ t \o v(0) = t
    BY <1>1
  <2> HIDE DEF v
  <2>2. Split(t \o v(0)) = Append(ps, v(0))
    BY <2>1 DEF Nil
  <2> QED
    BY <1>1, <2>2
<1>3. ASSUME NEW j \in 1..n, j - 1 \in Good PROVE j \in Good
  <2> DEFINE w == v(j - 1)
             b == u[j]
  <2>1. w \in Seq(Nat) /\ b \in Nat /\ b # Comma
    BY <1>1
  <2>2. v(j) = Append(w, b)
    BY <1>1, SubSeqRecursiveSecond
  <2>3. Split(t \o w) = Append(ps, w)
    BY <1>3
  <2> HIDE DEF v, w, b
  <2>4. t \o Append(w, b) = Append(t \o w, b) /\ t \o w \in Text
    <3>1. t \in Seq(Nat)
      BY <1>1
    <3>2. w \in Seq(Nat)
      BY <2>1
    <3>3. b \in Nat
      BY <2>1
    <3>4. t \o Append(w, b) = Append(t \o w, b)
      BY <3>1, <3>2, <3>3, ConcatAppend
    <3> QED
      BY <3>1, <3>2, <3>4 DEF Text
  <2>5. Split(t \o Append(w, b)) = Cut(Append(ps, w), b)
    BY <2>1, <2>3, <2>4, SplitAppend
  <2>6. Cut(Append(ps, w), b) = Append(ps, Append(w, b))
    <3> DEFINE p == Append(ps, w)
               q == Append(ps, Append(w, b))
               r == [p EXCEPT ![Len(p)] = Append(@, b)]
    <3>1. /\ p \in Seq(Seq(Nat)) /\ q \in Seq(Seq(Nat)) /\ Len(p) = Len(ps) + 1
          /\ Len(q) = Len(ps) + 1 /\ p[Len(p)] = w /\ Append(w, b) \in Seq(Nat)
      BY <1>1, <2>1
    <3>2. r \in Seq(Seq(Nat)) /\ Len(r) = Len(p)
      <4>1. Len(p) \in 1..Len(p)
        BY <1>1, <3>1
      <4> QED
        BY <3>1, <4>1, ExceptSeq
    <3>3. ASSUME NEW i \in 1..Len(p) PROVE r[i] = q[i]
      <4>1. CASE i = Len(p)
        <5>1. r[i] = Append(w, b)
          BY <3>1, <4>1
        <5>2. q[i] = Append(w, b)
          <6> DEFINE x == Append(w, b)
          <6> HIDE DEF x
          <6>1. Append(ps, x)[Len(ps) + 1] = x
            BY <1>1
          <6> QED
            BY <3>1, <4>1, <6>1 DEF x
        <5> QED
          BY <5>1, <5>2
      <4>2. CASE i # Len(p)
        <5>1. i \in 1..Len(ps)
          <6> DEFINE m == Len(ps)
          <6>1. m \in Nat /\ Len(p) = m + 1
            BY <1>1, <3>1
          <6> HIDE DEF m, p
          <6>2. i \in 1..m
            BY <4>2, <6>1
          <6> QED
            BY <6>2 DEF m
        <5>2. r[i] = p[i]
          <6>1. i \in DOMAIN p
            BY <3>1
          <6> HIDE DEF p
          <6> QED
            BY <4>2, <6>1
        <5> QED
          BY <1>1, <5>1, <5>2
      <4> QED
        BY <4>1, <4>2
    <3>4. r = q
      <4> HIDE DEF r, q, p
      <4> QED
        BY <3>1, <3>2, <3>3, SeqEqual
    <3> QED
      BY <2>1, <3>4 DEF Cut
  <2>7. Split(t \o v(j)) = Append(ps, v(j))
    BY <2>2, <2>5, <2>6
  <2> QED
    BY <1>1, <2>7
<1>4. n \in Good
  <2>1. Good \in SUBSET (0..n) /\ n \in 0..n
    BY <1>1
  <2> HIDE DEF Good
  <2> QED
    BY <1>1, <1>2, <1>3, <2>1, UpTo
<1>5. v(n) = u
  BY <1>1
<1> QED
  BY <1>4, <1>5

\* Join writes address by address.
LEMMA JoinRuns ==
    ASSUME NEW addrs \in Seq(Text)
    PROVE  \E f \in [0..Len(addrs) -> Text] :
             /\ f[0] = Nil /\ Join(addrs) = f[Len(addrs)]
             /\ \A i \in 1..Len(addrs) :
                  f[i] = IF i = 1 THEN addrs[i] ELSE f[i - 1] \o <<Comma>> \o addrs[i]
<1> DEFINE n == Len(addrs)
           Next1(i, t) == IF i = 1 THEN addrs[i] ELSE t \o <<Comma>> \o addrs[i]
           step == [i \in 1..n |-> [t \in Text |-> Next1(i, t)]]
           Body(g) == [i \in 0..n |-> IF i = 0 THEN Nil ELSE Next1(i, g[i - 1])]
           joined == CHOOSE g : g = Body(g)
<1>1. n \in Nat /\ \A i \in 1..n : addrs[i] \in Text
  OBVIOUS
<1>2. ASSUME NEW i \in 1..n, NEW t \in Text PROVE Next1(i, t) \in Text
  <2>1. addrs[i] \in Seq(Nat) /\ t \in Seq(Nat) /\ <<Comma>> \in Seq(Nat)
    BY <1>1 DEF Text, Comma
  <2> QED
    BY <2>1 DEF Text
<1>3. Nil \in Text
  BY DEF Text, Nil
<1>4. Join(addrs) = joined[n]
  BY DEF Join
<1> HIDE DEF Next1
<1>5. step \in [1..n -> [Text -> Text]]
  BY <1>2
<1>6. PICK f : f \in Runs(n, Text, Nil, step)
  <2> HIDE DEF step, n
  <2> QED
    BY <1>1, <1>3, <1>5, LoopRuns
<1>7. ASSUME NEW i \in 1..n PROVE f[i] = Next1(i, f[i - 1])
  <2>1. f[i - 1] \in Text
    BY <1>1, <1>6 DEF Runs
  <2> QED
    BY <1>6, <2>1 DEF Runs
<1>8. f = Body(f)
  <2>1. \A i \in 0..n : f[i] = IF i = 0 THEN Nil ELSE Next1(i, f[i - 1])
    <3>1. \A i \in 0..n : i # 0 => i \in 1..n
      BY <1>1
    <3> QED
      BY <1>6, <1>7, <3>1 DEF Runs
  <2>2. f = [i \in 0..n |-> f[i]]
    BY <1>6 DEF Runs
  <2> HIDE DEF n
  <2> QED
    BY <2>1, <2>2
<1>9. joined = Body(joined)
  <2> HIDE DEF Body
  <2> QED
    BY <1>8
<1> HIDE DEF joined
<1>10. joined = f
  <2> DEFINE Good == {i \in 0..n : joined[i] = f[i]}
  <2>1. 0 \in Good
    BY <1>1, <1>6, <1>9 DEF Runs
  <2>2. \A i \in 1..n : i - 1 \in Good => i \in Good
    BY <1>1, <1>7, <1>9
  <2>3. Good = 0..n
    <3>1. Good \in SUBSET (0..n)
      OBVIOUS
    <3> HIDE DEF Good
    <3> QED
      BY <1>1, <2>1, <2>2, <3>1, UpTo
  <2>4. joined = [i \in 0..n |-> joined[i]] /\ f = [i \in 0..n |-> f[i]]
    BY <1>6, <1>9 DEF Runs
  <2>5. \A i \in 0..n : joined[i] = f[i]
    BY <2>3
  <2> HIDE DEF n
  <2> QED
    BY <2>4, <2>5
<1> QED
  BY <1>4, <1>6, <1>7, <1>10 DEF Runs, Next1

\* Addresses that can be joined and split again.
Hints == {t \in Text : t # Nil /\ Comma \notin Range(t)}

\* Split gives back what Join was given, and there is something to split.
LEMMA SplitJoin ==
    ASSUME NEW addrs \in Seq(Hints), addrs # Nil
    PROVE  Split(Join(addrs)) = addrs /\ Join(addrs) # Nil
<1> DEFINE n == Len(addrs)
<1>1. n \in Nat /\ n > 0 /\ addrs \in Seq(Text)
  BY DEF Hints, Nil
<1>2. \A i \in 1..n : /\ addrs[i] \in Text /\ addrs[i] # Nil
                      /\ \A j \in 1..Len(addrs[i]) : addrs[i][j] # Comma
  BY DEF Hints, Range, Text
<1>3. PICK f \in [0..n -> Text] :
        /\ f[0] = Nil /\ Join(addrs) = f[n]
        /\ \A i \in 1..n :
             f[i] = IF i = 1 THEN addrs[i] ELSE f[i - 1] \o <<Comma>> \o addrs[i]
  BY <1>1, JoinRuns
<1> DEFINE Done(k) == Split(f[k]) = SubSeq(addrs, 1, k) /\ f[k] # Nil
           Good == {k \in 0..n : k = 0 \/ Done(k)}
<1>4. Split(Nil) = Append(<<>>, Nil)
  <2>1. Nil \in Text /\ Len(Nil) = 0
    BY DEF Text, Nil
  <2>2. Split(Nil) = <<Nil>>
    BY <2>1, SplitRuns
  <2> QED
    BY <2>2 DEF Nil
<1>5. ASSUME NEW k \in 1..n, k - 1 \in Good PROVE Done(k)
  <2> DEFINE u == addrs[k]
  <2>1. u \in Text /\ u # Nil /\ \A j \in 1..Len(u) : u[j] # Comma
    BY <1>2
  <2>2. CASE k = 1
    <3>1. f[k] = u
      BY <1>1, <1>3, <2>2
    <3>2. Split(Nil \o u) = Append(<<>>, u)
      <4>1. Nil \in Text /\ <<>> \in Pieces
        BY DEF Text, Pieces, Nil
      <4> HIDE DEF u
      <4> QED
        BY <1>4, <2>1, <4>1, SplitOn
    <3>3. Nil \o u = u /\ Append(<<>>, u) = <<u>>
      BY <2>1 DEF Text, Nil
    <3>4. SubSeq(addrs, 1, k) = <<u>>
      <4>1. SubSeq(addrs, 1, 1) = <<addrs[1]>>
        BY <1>1
      <4> QED
        BY <2>2, <4>1
    <3> QED
      BY <2>1, <3>1, <3>2, <3>3, <3>4
  <2>3. CASE k # 1
    <3> DEFINE t == f[k - 1]
               ps == SubSeq(addrs, 1, k - 1)
    <3>1. t \in Text /\ ps \in Pieces /\ Split(t) = ps /\ k - 1 \in 0..n
      BY <1>1, <1>5, <2>3 DEF Pieces
    <3>2. f[k] = t \o <<Comma>> \o u
      BY <1>3, <2>3
    <3>3. SubSeq(addrs, 1, k) = Append(ps, u)
      BY <1>1, SubSeqRecursiveSecond
    <3> HIDE DEF t, ps, u
    <3>4. Append(t, Comma) \in Text /\ Split(Append(t, Comma)) = Append(ps, Nil)
      <4>1. Comma \in Nat
        BY DEF Comma
      <4> QED
        BY <3>1, <4>1, SplitAppend DEF Text, Cut
    <3>5. Split(Append(t, Comma) \o u) = Append(ps, u)
      BY <2>1, <3>1, <3>4, SplitOn
    <3>6. /\ Append(t, Comma) \o u = t \o <<Comma>> \o u
          /\ t \o <<Comma>> \o u # Nil
      <4>1. t \in Seq(Nat) /\ u \in Seq(Nat) /\ Comma \in Nat
        BY <2>1, <3>1 DEF Text, Comma
      <4>2. Len(t \o <<Comma>> \o u) > 0
        BY <4>1
      <4>3. Append(t, Comma) = t \o <<Comma>>
        BY <4>1
      <4> QED
        BY <4>2, <4>3 DEF Nil
    <3> QED
      BY <3>2, <3>3, <3>5, <3>6
  <2> QED
    BY <2>2, <2>3
<1>6. n \in Good
  <2>1. Good \in SUBSET (0..n) /\ n \in 0..n /\ 0 \in Good
    BY <1>1
  <2>2. \A k \in 1..n : k - 1 \in Good => k \in Good
    BY <1>1, <1>5
  <2> HIDE DEF Good
  <2> QED
    BY <1>1, <2>1, <2>2, UpTo
<1>7. Done(n)
  BY <1>1, <1>6
<1>8. SubSeq(addrs, 1, n) = addrs
  BY <1>1
<1> QED
  BY <1>3, <1>7, <1>8


\* Addrs looks at one interface after the other.
LEMMA AddrsAreHints ==
    ASSUME NEW ifaces \in Seq([ip : Text, v4 : BOOLEAN, loopback : BOOLEAN,
                               linkLocal : BOOLEAN]),
           \A i \in DOMAIN ifaces : ifaces[i].ip \in Hints
    PROVE  Addrs(ifaces) \in Seq(Hints)
<1> DEFINE n == Len(ifaces)
           S == Seq(Hints)
           Direct(a) == a.v4 /\ ~a.loopback /\ ~a.linkLocal
           Look(i, t) == IF Direct(ifaces[i]) THEN Append(t, ifaces[i].ip) ELSE t
           step == [i \in 1..n |-> [t \in S |-> Look(i, t)]]
           Body(g) == [i \in 0..n |-> IF i = 0 THEN Nil ELSE Look(i, g[i - 1])]
           out == CHOOSE g : g = Body(g)
<1>1. n \in Nat /\ \A i \in 1..n : ifaces[i].ip \in Hints
  OBVIOUS
<1>2. ASSUME NEW i \in 1..n, NEW t \in S PROVE Look(i, t) \in S
  BY <1>1
<1>3. Nil \in S
  BY DEF Nil
<1>4. Addrs(ifaces) = out[n]
  BY DEF Addrs
<1> HIDE DEF Look, S
<1>5. step \in [1..n -> [S -> S]]
  BY <1>2
<1>6. PICK f : f \in Runs(n, S, Nil, step)
  <2> HIDE DEF step, n
  <2> QED
    BY <1>1, <1>3, <1>5, LoopRuns
<1>7. ASSUME NEW i \in 1..n PROVE f[i] = Look(i, f[i - 1])
  <2>1. f[i - 1] \in S
    BY <1>1, <1>6 DEF Runs
  <2> QED
    BY <1>6, <2>1 DEF Runs
<1>8. f = Body(f)
  <2>1. \A i \in 0..n : f[i] = IF i = 0 THEN Nil ELSE Look(i, f[i - 1])
    <3>1. \A i \in 0..n : i # 0 => i \in 1..n
      BY <1>1
    <3> QED
      BY <1>6, <1>7, <3>1 DEF Runs
  <2>2. f = [i \in 0..n |-> f[i]]
    BY <1>6 DEF Runs
  <2> HIDE DEF n
  <2> QED
    BY <2>1, <2>2
<1>9. out = Body(out)
  <2> HIDE DEF Body
  <2> QED
    BY <1>8
<1> HIDE DEF out
<1> DEFINE Good == {i \in 0..n : out[i] \in S}
<1>10. 0 \in Good
  BY <1>1, <1>3, <1>9
<1>11. \A i \in 1..n : i - 1 \in Good => i \in Good
  BY <1>1, <1>2, <1>9
<1>12. n \in Good
  <2>1. Good \in SUBSET (0..n) /\ n \in 0..n
    BY <1>1
  <2> HIDE DEF Good
  <2> QED
    BY <1>1, <1>10, <1>11, <2>1, UpTo
<1> QED
  BY <1>4, <1>12 DEF S

-----------------------------------------------------------------------------
(* The port of a code *)

\* What is left of a number when its last digits are taken off, as in Itoa.
Rest(n) == CHOOSE g : g = [i \in 0..n + 1 |-> IF i = 0 THEN n ELSE g[i - 1] \div 10]

\* After one round more than the number has digits at most, nothing is left.
LEMMA RestRuns ==
    ASSUME NEW n \in Nat
    PROVE  /\ Rest(n) \in [0..n + 1 -> Nat]
           /\ Rest(n)[0] = n /\ Rest(n)[n + 1] = 0
           /\ \A i \in 1..n + 1 : Rest(n)[i] = Rest(n)[i - 1] \div 10
<1> DEFINE m == n + 1
           step == [i \in 1..m |-> [x \in Nat |-> x \div 10]]
           Body(g) == [i \in 0..m |-> IF i = 0 THEN n ELSE g[i - 1] \div 10]
           rest == CHOOSE g : g = Body(g)
<1>1. m \in Nat /\ m > 0
  OBVIOUS
<1>2. step \in [1..m -> [Nat -> Nat]]
  OBVIOUS
<1>3. PICK f : f \in Runs(m, Nat, n, step)
  <2> HIDE DEF step, m
  <2> QED
    BY <1>1, <1>2, LoopRuns
<1>4. ASSUME NEW i \in 1..m PROVE f[i] = f[i - 1] \div 10
  <2>1. f[i - 1] \in Nat
    BY <1>1, <1>3 DEF Runs
  <2> QED
    BY <1>3, <2>1 DEF Runs
<1>5. f = Body(f)
  <2>1. \A i \in 0..m : f[i] = IF i = 0 THEN n ELSE f[i - 1] \div 10
    <3>1. \A i \in 0..m : i # 0 => i \in 1..m
      BY <1>1
    <3> QED
      BY <1>3, <1>4, <3>1 DEF Runs
  <2>2. f = [i \in 0..m |-> f[i]]
    BY <1>3 DEF Runs
  <2> HIDE DEF m
  <2> QED
    BY <2>1, <2>2
<1>6. rest = Body(rest)
  <2> HIDE DEF Body
  <2> QED
    BY <1>5
<1> HIDE DEF rest
<1> DEFINE Good == {i \in 0..m : rest[i] \in Nat /\ (i <= n => rest[i] <= n - i)}
<1>7. rest[0] = n /\ \A i \in 1..m : rest[i] = rest[i - 1] \div 10
  BY <1>1, <1>6
<1>8. Good = 0..m
  <2>1. 0 \in Good
    BY <1>1, <1>7
  <2>2. ASSUME NEW i \in 1..m, i - 1 \in Good PROVE i \in Good
    <3> DEFINE x == rest[i - 1]
    <3>1. x \in Nat /\ rest[i] = x \div 10 /\ x <= n - (i - 1)
      BY <1>7, <2>2
    <3>2. x \div 10 \in Nat /\ (x = 0 \/ x \div 10 < x) /\ (x = 0 => x \div 10 = 0)
      BY <3>1
    <3> HIDE DEF x
    <3> QED
      BY <3>1, <3>2
  <2>3. Good \in SUBSET (0..m)
    OBVIOUS
  <2> HIDE DEF Good, m
  <2> QED
    BY <1>1, <2>1, <2>2, <2>3, UpTo
<1>9. rest \in [0..m -> Nat]
  <2>1. \A i \in 0..m : rest[i] \in Nat
    BY <1>8
  <2>2. rest = [i \in 0..m |-> rest[i]]
    BY <1>6
  <2> HIDE DEF m
  <2> QED
    BY <2>1, <2>2
<1>10. rest[m] = 0
  <2>1. n \in Good /\ m \in 1..m
    BY <1>8
  <2>2. rest[n] = 0
    BY <2>1
  <2> QED
    BY <1>7, <2>1, <2>2
<1> QED
  BY <1>7, <1>9, <1>10 DEF rest, Rest

\* Atoi reads digit by digit.
LEMMA AtoiRuns ==
    ASSUME NEW s \in Text
    PROVE  \E value \in [0..Len(s) -> Int] :
             /\ value[0] = 0 /\ Atoi(s) = value[Len(s)]
             /\ \A i \in 1..Len(s) : value[i] = 10 * value[i - 1] + (s[i] - 48)
<1> DEFINE n == Len(s)
           step == [i \in 1..n |-> [x \in Int |-> 10 * x + (s[i] - 48)]]
           Body(g) == [i \in 0..n |-> IF i = 0 THEN 0 ELSE 10 * g[i - 1] + (s[i] - 48)]
           value == CHOOSE g : g = Body(g)
<1>1. n \in Nat /\ \A i \in 1..n : s[i] \in Nat
  BY DEF Text
<1>2. step \in [1..n -> [Int -> Int]]
  BY <1>1
<1>3. PICK f : f \in Runs(n, Int, 0, step)
  <2>1. 0 \in Int
    OBVIOUS
  <2> HIDE DEF step, n
  <2> QED
    BY <1>1, <1>2, <2>1, LoopRuns
<1>4. ASSUME NEW i \in 1..n PROVE f[i] = 10 * f[i - 1] + (s[i] - 48)
  <2>1. f[i - 1] \in Int
    BY <1>1, <1>3 DEF Runs
  <2> QED
    BY <1>3, <2>1 DEF Runs
<1>5. f = Body(f)
  <2>1. \A i \in 0..n : f[i] = IF i = 0 THEN 0 ELSE 10 * f[i - 1] + (s[i] - 48)
    <3>1. \A i \in 0..n : i # 0 => i \in 1..n
      BY <1>1
    <3> QED
      BY <1>3, <1>4, <3>1 DEF Runs
  <2>2. f = [i \in 0..n |-> f[i]]
    BY <1>3 DEF Runs
  <2> HIDE DEF n
  <2> QED
    BY <2>1, <2>2
<1>6. value = Body(value)
  <2> HIDE DEF Body
  <2> QED
    BY <1>5
<1>7. Atoi(s) = value[n]
  BY DEF Atoi
<1> HIDE DEF value
<1>8. \A i \in 1..n : value[i] = 10 * value[i - 1] + (s[i] - 48)
  BY <1>1, <1>6
<1> DEFINE Good == {i \in 0..n : value[i] \in Int}
<1>9. Good = 0..n
  <2>1. 0 \in Good
    BY <1>1, <1>6
  <2>2. ASSUME NEW i \in 1..n, i - 1 \in Good PROVE i \in Good
    <3>1. value[i - 1] \in Int /\ s[i] \in Nat /\ i \in 0..n
      BY <1>1, <2>2
    <3>2. value[i] = 10 * value[i - 1] + (s[i] - 48)
      BY <1>8
    <3>3. value[i] \in Int
      BY <3>1, <3>2
    <3> QED
      BY <3>1, <3>3
  <2>3. Good \in SUBSET (0..n)
    OBVIOUS
  <2> HIDE DEF Good
  <2> QED
    BY <1>1, <2>1, <2>2, <2>3, UpTo
<1>10. value \in [0..n -> Int] /\ value[0] = 0
  <2>1. value = [i \in 0..n |-> value[i]] /\ value[0] = 0
    BY <1>1, <1>6
  <2>2. \A i \in 0..n : value[i] \in Int
    BY <1>9
  <2> HIDE DEF n
  <2> QED
    BY <2>1, <2>2
<1> QED
  BY <1>7, <1>8, <1>10

\* Atoi gives back the number Itoa was given, and there is something to read.
LEMMA AtoiItoa ==
    ASSUME NEW n \in Nat
    PROVE  Itoa(n) \in Text /\ Itoa(n) # Nil /\ Atoi(Itoa(n)) = n
<1> DEFINE rest == Rest(n)
<1>1. /\ rest \in [0..n + 1 -> Nat] /\ rest[0] = n /\ rest[n + 1] = 0
      /\ \A i \in 1..n + 1 : rest[i] = rest[i - 1] \div 10
  BY RestRuns
<1> DEFINE Final(k) == rest[k] = 0 /\ \A j \in 1..k - 1 : rest[j] # 0
           digits == CHOOSE k \in 1..n + 1 : Final(k)
           s == [i \in 1..digits |-> 48 + (rest[digits - i] % 10)]
<1>2. \E k \in 1..n + 1 : Final(k)
  <2> DEFINE T == {k \in 1..n + 1 : rest[k] = 0}
  <2>1. T \in SUBSET Nat /\ n + 1 \in T
    <3>1. n + 1 \in 1..n + 1 /\ rest[n + 1] = 0
      BY <1>1
    <3> HIDE DEF rest
    <3> QED
      BY <3>1
  <2>2. PICK k \in T : \A j \in T : k <= j
    <3>1. T \in SUBSET Nat
      BY <2>1
    <3>2. T # {}
      BY <2>1
    <3> HIDE DEF T
    <3> QED
      BY <3>1, <3>2, Least
  <2>3. Final(k)
    BY <2>2
  <2> QED
    BY <2>2, <2>3
<1>3. digits \in 1..n + 1 /\ Final(digits)
  <2> HIDE DEF Final
  <2> QED
    BY <1>2
<1>4. Itoa(n) = s
  BY DEF Itoa, Rest
<1> HIDE DEF digits, rest
<1>5. ASSUME NEW i \in 1..digits
      PROVE  rest[digits - i] \in Nat /\ 48 + (rest[digits - i] % 10) \in Nat
  <2>1. digits - i \in 0..n + 1
    BY <1>3
  <2>2. rest[digits - i] \in Nat
    BY <1>1, <2>1
  <2> HIDE DEF s
  <2> QED
    BY <2>2
<1>6. s \in Seq(Nat) /\ Len(s) = digits
  BY <1>3, <1>5
<1>7. \A i \in 1..digits : s[i] = 48 + (rest[digits - i] % 10)
  OBVIOUS
<1> HIDE DEF s
<1>8. PICK value \in [0..Len(s) -> Int] :
        /\ value[0] = 0 /\ Atoi(s) = value[Len(s)]
        /\ \A i \in 1..Len(s) : value[i] = 10 * value[i - 1] + (s[i] - 48)
  <2>1. s \in Text
    BY <1>6 DEF Text
  <2> QED
    BY <2>1, AtoiRuns
<1> DEFINE Good == {i \in 0..digits : value[i] = rest[digits - i]}
<1>9. 0 \in Good
  BY <1>3, <1>8
<1>10. ASSUME NEW i \in 1..digits, i - 1 \in Good PROVE i \in Good
  <2> DEFINE x == rest[digits - i]
             k == digits - (i - 1)
  <2>1. x \in Nat /\ k \in 1..n + 1 /\ k - 1 = digits - i
    BY <1>3, <1>5
  <2>2. rest[k] = x \div 10
    BY <1>1, <2>1
  <2>3. value[i - 1] = x \div 10
    BY <1>10, <2>2
  <2>4. s[i] - 48 = x % 10
    BY <1>7, <2>1
  <2>5. value[i] = 10 * value[i - 1] + (s[i] - 48)
    BY <1>6, <1>8
  <2> HIDE DEF x, k
  <2>6. 10 * (x \div 10) + (x % 10) = x
    BY <2>1
  <2>7. value[i] = x
    BY <2>3, <2>4, <2>5, <2>6
  <2> QED
    BY <2>7 DEF x
<1>11. digits \in Good
  <2>1. Good \in SUBSET (0..digits) /\ digits \in 0..digits
    BY <1>3
  <2>2. digits \in Nat
    BY <1>3
  <2> HIDE DEF Good
  <2> QED
    BY <1>9, <1>10, <2>1, <2>2, UpTo
<1>12. value[digits] = n
  BY <1>1, <1>3, <1>11
<1>13. s # Nil
  BY <1>3, <1>6 DEF Nil
<1> QED
  BY <1>4, <1>6, <1>8, <1>12, <1>13 DEF Text

-----------------------------------------------------------------------------
(* The code and the port in the record *)

\* A port the system may bind has two bytes.
LEMMA PortRange == \A p \in Ports : p \in 1..Octet * Octet - 1
BY FrontDoorConstants

\* The addresses of an interface can be joined and split again.
LEMMA InterfaceHints ==
    ASSUME NEW ifaces \in Interfaces
    PROVE  /\ ifaces \in Seq([ip : Text, v4 : BOOLEAN, loopback : BOOLEAN, linkLocal : BOOLEAN])
           /\ \A i \in DOMAIN ifaces : ifaces[i].ip \in Hints
<1>1. ifaces \in Seq([ip : Text, v4 : BOOLEAN, loopback : BOOLEAN, linkLocal : BOOLEAN])
  BY FrontDoorConstants
<1>2. ASSUME NEW i \in DOMAIN ifaces PROVE ifaces[i].ip \in Text
  <2> DEFINE R == [ip : Text, v4 : BOOLEAN, loopback : BOOLEAN, linkLocal : BOOLEAN]
  <2>1. ifaces[i] \in R
    <3>1. ifaces \in Seq(R)
      BY <1>1
    <3> HIDE DEF R
    <3> QED
      BY <3>1
  <2> QED
    BY <2>1
<1>3. \A i \in DOMAIN ifaces : ifaces[i].ip # Nil /\ Comma \notin Range(ifaces[i].ip)
  BY FrontDoorConstants, Zenon
<1> QED
  BY <1>1, <1>2, <1>3 DEF Hints

USE FrontDoorConstants

\* Quotient and remainder are determined by their product and sum.
LEMMA DivMod ==
    ASSUME NEW b \in Nat \ {0}, NEW q \in Nat, NEW r \in 0..b - 1
    PROVE  (q * b + r) % b = r /\ (q * b + r) \div b = q
OBVIOUS

\* Swapping the bytes of a port twice gives the port back.
LEMMA NetworkOrderTwice ==
    ASSUME NEW p \in 0..Octet * Octet - 1
    PROVE  networkOrder(networkOrder(p)) = p
<1> DEFINE q == p \div Octet
           r == p % Octet
<1>1. q \in 0..Octet - 1 /\ r \in 0..Octet - 1 /\ p = q * Octet + r
  OBVIOUS
<1> HIDE DEF q, r
<1>2. p % Octet = r /\ p \div Octet = q
  BY DEF q, r
<1>3. q % Octet = q /\ r % Octet = r
  BY <1>1
<1>4. networkOrder(p) = r * Octet + q
  BY <1>2, <1>3 DEF networkOrder
<1>5. (r * Octet + q) % Octet = q /\ (r * Octet + q) \div Octet = r
  BY <1>1, DivMod
<1> QED
  BY <1>1, <1>3, <1>4, <1>5 DEF networkOrder

\* ParseURL reads the host id and the pin from their parameters.
LEMMA ParseKeeps ==
    ASSUME NEW u, ParseURL(u) # Nil
    PROVE  /\ ParseURL(u)[1].HostID = Get(u, "hid")
           /\ ParseURL(u)[1].SPKIPin = Get(u, "spki")
BY DEF ParseURL, Fields

\* URL writes them there.
LEMMA URLKeeps ==
    ASSUME NEW q
    PROVE  /\ {"hid", "spki"} \subseteq DOMAIN URL(q)
           /\ URL(q)["hid"] = q.HostID
           /\ URL(q)["spki"] = q.SPKIPin
BY DEF URL

\* What a pairing window can put into its code.
Codes == [HostID : Text \ {Nil}, TrustDomainID : Text, HostName : Text,
          SPKIPin : Text \ {Nil}, Secret : Text \ {Nil}, Port : 1..Octet * Octet - 1,
          Addrs : Seq(Hints)]

\* What the parameters of a code say; an omitted one says nothing, as the field
\* does that it stands for.
LEMMA URLGets ==
    ASSUME NEW q \in Codes
    PROVE  /\ Get(URL(q), "v") = <<49>> /\ Get(URL(q), "hid") = q.HostID
           /\ Get(URL(q), "td") = q.TrustDomainID /\ Get(URL(q), "n") = q.HostName
           /\ Get(URL(q), "spki") = q.SPKIPin /\ Get(URL(q), "s") = q.Secret
           /\ Get(URL(q), "p") = Itoa(q.Port)
           /\ Get(URL(q), "a") = IF q.Addrs = Nil THEN Nil ELSE Join(q.Addrs)
<1> DEFINE u == URL(q)
           D == {"v", "hid", "spki", "s", "p"}
                \cup (IF q.TrustDomainID # Nil THEN {"td"} ELSE {})
                \cup (IF q.HostName # Nil THEN {"n"} ELSE {})
                \cup (IF q.Addrs # Nil THEN {"a"} ELSE {})
<1>1. DOMAIN u = D
  BY DEF URL
<1>2. ASSUME NEW k \in D
      PROVE  u[k] = CASE k = "v" -> <<49>> [] k = "hid" -> q.HostID [] k = "spki" -> q.SPKIPin
                      [] k = "s" -> q.Secret [] k = "p" -> Itoa(q.Port)
                      [] k = "td" -> q.TrustDomainID [] k = "n" -> q.HostName
                      [] k = "a" -> Join(q.Addrs)
  BY DEF URL
<1> HIDE DEF u
<1>3. /\ u["v"] = <<49>> /\ u["hid"] = q.HostID /\ u["spki"] = q.SPKIPin
      /\ u["s"] = q.Secret /\ u["p"] = Itoa(q.Port)
  BY <1>2
<1>4. q.TrustDomainID # Nil => u["td"] = q.TrustDomainID
  BY <1>2
<1>5. q.HostName # Nil => u["n"] = q.HostName
  BY <1>2
<1>6. q.Addrs # Nil => u["a"] = Join(q.Addrs)
  BY <1>2
<1>7. /\ Get(u, "v") = <<49>> /\ Get(u, "hid") = q.HostID
      /\ Get(u, "td") = q.TrustDomainID /\ Get(u, "n") = q.HostName
      /\ Get(u, "spki") = q.SPKIPin /\ Get(u, "s") = q.Secret
      /\ Get(u, "p") = Itoa(q.Port)
      /\ Get(u, "a") = IF q.Addrs = Nil THEN Nil ELSE Join(q.Addrs)
  BY <1>1, <1>3, <1>4, <1>5, <1>6 DEF Get
<1> QED
  BY <1>7 DEF u

\* ParseURL gives back what URL was given, whatever was omitted.
LEMMA ParseURLOfURL ==
    ASSUME NEW q \in Codes
    PROVE  ParseURL(URL(q)) = <<q>>
<1> DEFINE u == URL(q)
           addrs == IF Get(u, "a") = Nil THEN Nil ELSE Split(Get(u, "a"))
<1>1. /\ Get(u, "v") = <<49>> /\ Get(u, "hid") = q.HostID
      /\ Get(u, "td") = q.TrustDomainID /\ Get(u, "n") = q.HostName
      /\ Get(u, "spki") = q.SPKIPin /\ Get(u, "s") = q.Secret
      /\ Get(u, "p") = Itoa(q.Port)
      /\ Get(u, "a") = IF q.Addrs = Nil THEN Nil ELSE Join(q.Addrs)
  BY URLGets
<1> HIDE DEF u
<1>2. q.Port \in Nat /\ q.Port \in 1..Octet * Octet - 1 /\ q.Addrs \in Seq(Hints)
  BY DEF Codes
<1>3. Itoa(q.Port) # Nil /\ Atoi(Itoa(q.Port)) = q.Port
  BY <1>2, AtoiItoa
<1>4. addrs = q.Addrs
  <2>1. CASE q.Addrs = Nil
    BY <1>1, <2>1
  <2>2. CASE q.Addrs # Nil
    <3>1. Split(Join(q.Addrs)) = q.Addrs /\ Join(q.Addrs) # Nil
      BY <1>2, <2>2, SplitJoin
    <3> QED
      BY <1>1, <2>2, <3>1
  <2> QED
    BY <2>1, <2>2
<1> HIDE DEF addrs
<1>5. Complete(u)
  <2>1. q.HostID # Nil /\ q.SPKIPin # Nil /\ q.Secret # Nil
    BY DEF Codes
  <2> QED
    BY <1>1, <1>2, <1>3, <2>1 DEF Complete
<1>6. Fields(u, addrs) = q
  <2>1. q = [HostID |-> q.HostID, TrustDomainID |-> q.TrustDomainID,
             HostName |-> q.HostName, SPKIPin |-> q.SPKIPin, Secret |-> q.Secret,
             Port |-> q.Port, Addrs |-> q.Addrs]
    BY DEF Codes
  <2> QED
    BY <1>1, <1>3, <1>4, <2>1 DEF Fields
<1>7. ParseURL(u) = <<Fields(u, addrs)>>
  BY <1>5 DEF ParseURL, addrs
<1> QED
  BY <1>6, <1>7 DEF u

-----------------------------------------------------------------------------
(* The state machine *)

\* The code of an open window goes on saying who runs here, and where.
LEMMA WindowStep == IInv /\ [Next]_vars => WindowInv'
<1> SUFFICES ASSUME IInv, [Next]_vars PROVE WindowInv'
  OBVIOUS
<1>1. /\ WindowInv /\ (listener # "none" => Up)
      /\ (secret # 0 => listener # "none")
  BY DEF IInv, DoorInv, WindowInv
<1> DEFINE Stays == /\ secret' = secret /\ code' = code /\ id' = id /\ port' = port
                    /\ (listener # "none" => listener' # "none")
<1>2. secret' = 0 => WindowInv'
  BY DEF WindowInv
<1>3. Stays => WindowInv'
  BY <1>1 DEF WindowInv
<1> HIDE DEF Stays
<1>4. CASE LoadOrCreate \/ CreateBegin \/ CreateFails
  <2>1. secret' = secret /\ ~Up
    BY <1>4 DEF LoadOrCreate, CreateBegin, CreateFails, window, Up
  <2> QED
    BY <1>1, <1>2, <2>1
<1>5. CASE CreateWritten \/ CreateRename \/ Damage \/ Restore
  BY <1>3, <1>5 DEF Stays, CreateWritten, CreateRename, Damage, Restore, window, door
<1>6. CASE Die \/ CloseWindow \/ Pair
  BY <1>2, <1>6 DEF Die, CloseWindow, Pair
<1>7. ASSUME NEW p \in Ports, Listen(p) PROVE WindowInv'
  <2>1. secret' = secret /\ listener = "none"
    BY <1>7 DEF Listen, window
  <2> QED
    BY <1>1, <1>2, <2>1
<1>8. CASE ServeFails \/ Err \/ Shutdown
  BY <1>3, <1>8 DEF Stays, ServeFails, Err, Shutdown, window
<1>9. CASE Advertise \/ Stop \/ Withdraw \/ RecordExpires
  BY <1>3, <1>9 DEF Stays, Advertise, Register, Stop, Withdraw, RecordExpires, window, door
<1>10. ASSUME NEW ifaces \in Interfaces, NEW td \in {Nil, TrustDomainID(id)}, OpenWindow(ifaces, td)
       PROVE  WindowInv'
  <2> DEFINE q == [HostID |-> HostID(id), TrustDomainID |-> td, HostName |-> HostName,
                   SPKIPin |-> SPKIPin(id), Secret |-> <<secret'>>, Port |-> port,
                   Addrs |-> Addrs(ifaces)]
  <2>1. /\ code' = <<[says |-> q, url |-> URL(q)]>>
        /\ listener' = "serving" /\ id' = id /\ port' = port
    BY <1>10 DEF OpenWindow, door
  <2>2. /\ code' # Nil /\ code'[1].says = q /\ code'[1].url = URL(q)
    BY <2>1 DEF Nil
  <2> QED
    BY <2>1, <2>2 DEF WindowInv
<1>11. CASE UNCHANGED vars
  BY <1>3, <1>11 DEF Stays, vars, window, door
<1> QED
  BY <1>4, <1>5, <1>6, <1>7, <1>8, <1>9, <1>10, <1>11 DEF Next

\* Every step of a process, its death, the damage to its file and the phone
\* preserve the inductive invariant.
LEMMA IInvStep == IInv /\ [Next]_vars => IInv'
<1> SUFFICES ASSUME IInv, [Next]_vars PROVE IInv'
  OBVIOUS
<1> USE DEF IInv, IdentityInv, PinnedInv, CodeInv, DoorInv, Up, Loads,
            None, Half, Bad, Nil, disk, door, bonjour, window
<1>0. WindowInv'
  BY WindowStep
<1>1. CASE LoadOrCreate
  BY <1>0, <1>1 DEF LoadOrCreate, Resolved
<1>2. CASE CreateBegin
  BY <1>0, <1>2 DEF CreateBegin, Resolved
<1>3. CASE CreateWritten
  BY <1>0, <1>3 DEF CreateWritten, Resolved
<1>4. CASE CreateRename
  BY <1>0, <1>4 DEF CreateRename, Resolved
<1>5. CASE CreateFails
  BY <1>0, <1>5 DEF CreateFails, Resolved
<1>6. CASE Damage
  BY <1>0, <1>6 DEF Damage, Resolved
<1>7. CASE Restore
  BY <1>0, <1>7 DEF Restore, Resolved
<1>8. CASE Die
  BY <1>0, <1>8 DEF Die, Resolved
<1>9. ASSUME NEW p \in Ports, Listen(p) PROVE IInv'
  BY <1>0, <1>9 DEF Listen, Resolved
<1>10. CASE ServeFails
  BY <1>0, <1>10 DEF ServeFails, Resolved
<1>11. CASE Err
  BY <1>0, <1>11 DEF Err, Resolved
<1>12. CASE Shutdown
  BY <1>0, <1>12 DEF Shutdown, Resolved
<1>13. CASE Advertise
  <2> DEFINE r == [port |-> IF build = "darwin" THEN networkOrder(port) ELSE port, txt |-> txt(id)]
  <2>1. /\ advert' = <<r>> /\ responder' = "running" /\ listener = "serving"
        /\ UNCHANGED <<disk, proc, id, minted, door, build, window, paired>>
    BY <1>13 DEF Advertise, Register
  <2>2. port \in 0..Octet * Octet - 1
    <3>1. port \in Ports
      BY <2>1
    <3>2. port \in 1..Octet * Octet - 1
      BY ONLY <3>1, PortRange
    <3>3. \A m : port \in 1..m => port \in 0..m
      OBVIOUS
    <3> QED
      BY ONLY <3>2, <3>3
  <2>3. Resolved(r) = port
    <3> USE DEF Resolved
    <3>1. CASE build = "darwin"
      BY <2>1, <2>2, <3>1, NetworkOrderTwice
    <3>2. CASE build # "darwin"
      BY <2>1, <3>2
    <3> QED
      BY <3>1, <3>2
  <2>4. advert'[1] = r /\ r.txt = txt(id)
    BY <2>1
  <2> HIDE DEF r
  <2>5. DoorInv'
    <3>1. Resolved(advert[1])' = port /\ advert'[1].txt = txt(id)
      BY <2>1, <2>3, <2>4 DEF Resolved
    <3> QED
      BY <2>1, <3>1
  <2> QED
    BY <1>0, <2>1, <2>5
<1>14. CASE Stop \/ Withdraw \/ RecordExpires
  BY <1>0, <1>14 DEF Stop, Withdraw, RecordExpires, Resolved
<1>15. ASSUME NEW ifaces \in Interfaces, NEW td \in {Nil, TrustDomainID(id)}, OpenWindow(ifaces, td)
       PROVE  IInv'
  <2>1. PICK q : /\ q.HostID = HostID(id) /\ q.SPKIPin = SPKIPin(id)
                 /\ q.Secret = <<secret'>>
                 /\ code' = <<[says |-> q, url |-> URL(q)]>>
    BY <1>15 DEF OpenWindow
  <2>2. secret' \in 1..MaxWindows
    BY <1>15 DEF OpenWindow
  <2>3. minted' = minted /\ id \in 0..minted
    BY <1>15 DEF OpenWindow
  <2>4. CodeInv'
    BY <2>1, <2>2, <2>3, URLKeeps
  <2> QED
    BY <1>0, <1>15, <2>4 DEF OpenWindow, Resolved
<1>16. CASE CloseWindow
  BY <1>0, <1>16 DEF CloseWindow, Resolved
<1>17. CASE Pair
  <2> DEFINE u == code[1].url
             q == ParseURL(u)
  <2>1. /\ code # Nil /\ listener = "serving" /\ q # Nil /\ q[1].SPKIPin = SPKIPin(id)
        /\ paired' = paired \cup {[hid |-> q[1].HostID, spki |-> q[1].SPKIPin,
                                   td |-> TrustDomainID(id)]}
    BY <1>17 DEF Pair, HostInfo
  <2>2. q[1].HostID = u["hid"] /\ q[1].SPKIPin = u["spki"]
    BY <2>1, ParseKeeps DEF Get
  <2>3. PICK n \in 0..minted : u["hid"] = HostID(n) /\ u["spki"] = SPKIPin(n)
    BY <2>1
  <2>4. n = id
    BY <2>1, <2>2, <2>3 DEF SPKIPin
  <2>5. paired' = paired \cup {[hid |-> HostID(id), spki |-> SPKIPin(id),
                                td |-> TrustDomainID(id)]}
    BY <2>1, <2>2, <2>3, <2>4
  <2>6. PinnedInv'
    BY <1>17, <2>1, <2>5 DEF Pair
  <2> QED
    BY <1>0, <1>17, <2>6 DEF Pair, Resolved
<1>18. CASE UNCHANGED vars
  BY <1>0, <1>18 DEF vars, Resolved
<1> QED
  BY <1>1, <1>2, <1>3, <1>4, <1>5, <1>6, <1>7, <1>8, <1>9, <1>10, <1>11, <1>12, <1>13,
     <1>14, <1>15, <1>16, <1>17, <1>18 DEF Next

\* The inductive invariant holds from a machine on which no host ever ran.
THEOREM IInvHolds == Spec => []IInv
<1>1. Init => IInv
  BY DEF Init, IInv, IdentityInv, PinnedInv, CodeInv, WindowInv, DoorInv, Up,
     None, Bad, Nil
<1> QED
  BY <1>1, IInvStep, PTL DEF Spec

\* Every run of the host that comes up is, by id, certificate and trust domain,
\* the one every paired device has pinned.
THEOREM NoDeviceOrphaned == Spec => []PairedStillTrusted
<1>1. IInv => PairedStillTrusted
  BY DEF IInv, IdentityInv, PinnedInv, PairedStillTrusted, HostInfo, Up, Bad
<1> QED
  BY <1>1, IInvHolds, PTL

\* A host that is up finds its own identity again at the next start, wherever
\* this or an earlier run died in create.
THEOREM IdentityLasts == Spec => []ComesBackTheSame
<1>1. IInv => ComesBackTheSame
  BY DEF IInv, IdentityInv, ComesBackTheSame, Half, Bad
<1> QED
  BY <1>1, IInvHolds, PTL

\* A record on the network names the host that is up, whichever run put it there
\* and however that ended; its advertiser's port is the bound one, for every size
\* of a byte and every port, by either build; darwin's dies with the process.
THEOREM AdvertIsRight == Spec => []AdvertLeadsHere
<1>1. IInv => AdvertLeadsHere
  <2> SUFFICES ASSUME IInv, advert # Nil PROVE AdvertLeadsHere
    BY DEF AdvertLeadsHere
  <2>1. Up => advert[1].txt = txt(id)
    BY DEF IInv, IdentityInv, DoorInv, Up, Bad
  <2>2. advert[1].txt = txt(id) => advert[1].txt.hid = HostInfo.HostId
    BY DEF txt, HostInfo
  <2>3. /\ responder # "none" => Resolved(advert[1]) = port
        /\ build = "darwin" => Up
    BY DEF IInv, DoorInv
  <2> QED
    BY <2>1, <2>2, <2>3 DEF AdvertLeadsHere
<1> QED
  BY <1>1, IInvHolds, PTL

\* The code of an open window, read back by ParseURL, says what the host put
\* into it, hints or no hints, and leads to the port that is bound and to the
\* identity that runs here: for every port, host name and list of addresses.
THEOREM CodeIsRight == Spec => []CodeLeadsHere
<1>1. IInv => CodeLeadsHere
  <2> SUFFICES ASSUME IInv, secret # 0, listener = "serving"
               PROVE  CodeLeadsHere
    BY DEF CodeLeadsHere
  <2> DEFINE says == code[1].says
  <2>1. PICK ifaces \in Interfaces, td \in {Nil, TrustDomainID(id)} :
          says = [HostID |-> HostID(id), TrustDomainID |-> td, HostName |-> HostName,
                  SPKIPin |-> SPKIPin(id), Secret |-> <<secret>>, Port |-> port,
                  Addrs |-> Addrs(ifaces)]
    BY DEF IInv, WindowInv
  <2>2. code[1].url = URL(says)
    BY DEF IInv, WindowInv
  <2>3. port \in 1..Octet * Octet - 1
    BY DEF IInv, DoorInv
  <2>4. says \in Codes
    <3>1. Addrs(ifaces) \in Seq(Hints)
      BY InterfaceHints, AddrsAreHints
    <3>2. id \in Nat
      BY DEF IInv, IdentityInv
    <3>3. secret \in Nat
      <4>1. PICK m \in 1..MaxWindows : says.Secret = <<m>>
        BY DEF IInv, WindowInv, CodeInv
      <4> QED
        BY <2>1, <4>1
    <3>4. /\ HostID(id) \in Text \ {Nil} /\ SPKIPin(id) \in Text \ {Nil}
          /\ <<secret>> \in Text \ {Nil}
      BY <3>2, <3>3 DEF HostID, SPKIPin, Text, Nil
    <3>5. td \in Text
      <4>1. Nil \in Text /\ TrustDomainID(id) \in Text
        BY <3>2 DEF TrustDomainID, Text, Nil
      <4>2. td \in {Nil, TrustDomainID(id)}
        OBVIOUS
      <4> QED
        BY <4>1, <4>2
    <3> QED
      BY <2>1, <2>3, <3>1, <3>4, <3>5 DEF Codes
  <2> HIDE DEF says
  <2>5. ParseURL(code[1].url) = <<says>>
    BY <2>2, <2>4, ParseURLOfURL
  <2> QED
    BY <2>1, <2>5 DEF CodeLeadsHere, HostInfo, says
<1> QED
  BY <1>1, IInvHolds, PTL
=============================================================================
