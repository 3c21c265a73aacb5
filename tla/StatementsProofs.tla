-------------------------- MODULE StatementsProofs --------------------------
(***************************************************************************)
(* Proofs about Statements, for any claims, commands, events and actions.  *)
(***************************************************************************)
EXTENDS Statements, SequenceTheorems, WellFoundedInduction, TLAPS

-----------------------------------------------------------------------------
(* Induction over the naturals, with the set of the numbers that are good    *)

\* A set of naturals has a least element.
LEMMA LeastNatural ==
    ASSUME NEW T \in SUBSET Nat, T # {}
    PROVE  \E x \in T : \A y \in T : x <= y
<1> DEFINE R == OpToRel(<, Nat)
<1>1. IsWellFoundedOn(R, Nat)
  BY NatLessThanWellFounded
<1>2. PICK x \in T : \A y \in T : ~(<<y, x>> \in R)
  <2> HIDE DEF R
  <2> QED
    BY <1>1, WFMin, Zenon
<1>3. \A y \in T : ~(y < x)
  BY <1>2 DEF OpToRel
<1> QED
  BY <1>3

\* A set that holds 0 and with each number the next holds them all.
LEMMA Induction ==
    ASSUME NEW S \in SUBSET Nat, 0 \in S, \A n \in S : n + 1 \in S
    PROVE  S = Nat
<1> SUFFICES ASSUME Nat \ S # {} PROVE FALSE
  OBVIOUS
<1>1. PICK x \in Nat \ S : \A y \in Nat \ S : x <= y
  BY LeastNatural
<1>2. x # 0 /\ x - 1 \in Nat /\ x - 1 \notin Nat \ S
  BY <1>1
<1>3. x - 1 + 1 \in S
  BY <1>2
<1> QED
  BY <1>3

-----------------------------------------------------------------------------
(* Joining sequences *)

\* What concatenation does, position by position.
LEMMA Concat ==
    ASSUME NEW S, NEW s \in Seq(S), NEW t \in Seq(S)
    PROVE  /\ s \o t \in Seq(S) /\ Len(s \o t) = Len(s) + Len(t)
           /\ \A i \in 1..Len(s) : (s \o t)[i] = s[i]
           /\ \A i \in 1..Len(t) : (s \o t)[Len(s) + i] = t[i]
<1>1. /\ s \o t \in Seq(S) /\ Len(s \o t) = Len(s) + Len(t)
      /\ \A i \in 1..Len(s) + Len(t) :
           (s \o t)[i] = IF i <= Len(s) THEN s[i] ELSE t[i - Len(s)]
  BY ConcatProperties, Zenon
<1>2. Len(s) \in Nat /\ Len(t) \in Nat
  OBVIOUS
<1>3. \A i \in 1..Len(s) : i \in 1..Len(s) + Len(t) /\ i <= Len(s)
  BY <1>2
<1>4. \A i \in 1..Len(t) : /\ Len(s) + i \in 1..Len(s) + Len(t) /\ ~(Len(s) + i <= Len(s))
                           /\ (Len(s) + i) - Len(s) = i
  BY <1>2
<1> QED
  BY <1>1, <1>3, <1>4

\* Two sequences of one length that agree everywhere are equal.
LEMMA SameSequence ==
    ASSUME NEW S, NEW s \in Seq(S), NEW t \in Seq(S), Len(s) = Len(t),
           \A i \in 1..Len(s) : s[i] = t[i]
    PROVE  s = t
OBVIOUS

\* Concatenation is associative.
LEMMA Associative == \A a, b, c \in Seq(Nat) : (a \o b) \o c = a \o (b \o c)
<1> SUFFICES ASSUME NEW a \in Seq(Nat), NEW b \in Seq(Nat), NEW c \in Seq(Nat)
             PROVE  (a \o b) \o c = a \o (b \o c)
  OBVIOUS
<1>1. /\ a \o b \in Seq(Nat) /\ b \o c \in Seq(Nat)
      /\ Len(a) \in Nat /\ Len(b) \in Nat /\ Len(c) \in Nat
  BY Concat
<1> DEFINE l == a \o (b \o c)
           r == (a \o b) \o c
<1>2. l \in Seq(Nat) /\ r \in Seq(Nat)
  BY <1>1, Concat
<1>3. Len(l) = Len(r)
  OBVIOUS
<1>4. \A i \in 1..Len(l) : l[i] = r[i]
  OBVIOUS
<1> HIDE DEF l, r
<1>5. l = r
  BY <1>2, <1>3, <1>4, SameSequence
<1> QED
  BY <1>5 DEF l, r

\* s is what w begins with.
Begins(s, w) == Len(s) <= Len(w) /\ \A i \in 1..Len(s) : s[i] = w[i]

\* What begins a text begins every longer one.
LEMMA BeginsLonger ==
    ASSUME NEW s \in Seq(Nat), NEW t \in Seq(Nat), NEW u \in Seq(Nat), Begins(s, t)
    PROVE  Begins(s, t \o u)
<1>1. /\ t \o u \in Seq(Nat) /\ Len(t \o u) = Len(t) + Len(u)
      /\ \A i \in 1..Len(t) : (t \o u)[i] = t[i]
  BY Concat
<1>2. Len(s) \in Nat /\ Len(t) \in Nat /\ Len(u) \in Nat
  OBVIOUS
<1> QED
  BY <1>1, <1>2 DEF Begins

\* A field in its canonical form: its length, then itself.
LEMMA PrefixedField ==
    ASSUME NEW x \in Text
    PROVE  /\ Prefixed(x) \in Seq(Nat) /\ Len(Prefixed(x)) = 1 + Len(x)
           /\ Prefixed(x)[1] = Len(x)
           /\ \A i \in 1..Len(x) : Prefixed(x)[1 + i] = x[i]
<1>1. x \in Seq(Nat) /\ Len(x) \in Nat /\ Len(x) < Word /\ Word \in Nat
  BY StatementsConstants DEF Text
<1>2. u64(Len(x)) = <<Len(x)>>
  BY <1>1 DEF u64
<1>3. <<Len(x)>> \in Seq(Nat) /\ Len(<<Len(x)>>) = 1 /\ <<Len(x)>>[1] = Len(x)
  BY <1>1
<1> DEFINE l == <<Len(x)>>
<1>4. Prefixed(x) = l \o x
  BY <1>2 DEF Prefixed
<1> HIDE DEF l
<1>5. /\ l \o x \in Seq(Nat) /\ Len(l \o x) = Len(l) + Len(x)
      /\ \A i \in 1..Len(l) : (l \o x)[i] = l[i]
      /\ \A i \in 1..Len(x) : (l \o x)[Len(l) + i] = x[i]
  BY <1>1, <1>3, Concat DEF l
<1> QED
  BY <1>1, <1>3, <1>4, <1>5 DEF l

\* "no field can impersonate its neighbor's suffix": where one text goes on
\* with a field and with another, they are the same field.
LEMMA OneFieldFits ==
    ASSUME NEW s \in Seq(Nat), NEW w \in Seq(Nat), NEW x \in Text, NEW y \in Text,
           Begins(s \o Prefixed(x), w), Begins(s \o Prefixed(y), w)
    PROVE  x = y
<1>1. \A f \in Text : Begins(s \o Prefixed(f), w) =>
        /\ Len(s) + 1 + Len(f) <= Len(w) /\ w[Len(s) + 1] = Len(f)
        /\ \A i \in 1..Len(f) : w[Len(s) + 1 + i] = f[i]
  <2> SUFFICES ASSUME NEW f \in Text, Begins(s \o Prefixed(f), w)
               PROVE  /\ Len(s) + 1 + Len(f) <= Len(w) /\ w[Len(s) + 1] = Len(f)
                      /\ \A i \in 1..Len(f) : w[Len(s) + 1 + i] = f[i]
    OBVIOUS
  <2>1. /\ Prefixed(f) \in Seq(Nat) /\ Len(Prefixed(f)) = 1 + Len(f)
        /\ Prefixed(f)[1] = Len(f)
        /\ \A i \in 1..Len(f) : Prefixed(f)[1 + i] = f[i]
    BY PrefixedField
  <2>2. Len(f) \in Nat /\ Len(s) \in Nat
    BY DEF Text
  <2> DEFINE p == Prefixed(f)
             sp == s \o p
  <2>3. /\ sp \in Seq(Nat) /\ Len(sp) = Len(s) + 1 + Len(f)
        /\ \A i \in 1..1 + Len(f) : sp[Len(s) + i] = p[i]
    <3>1. /\ sp \in Seq(Nat) /\ Len(sp) = Len(s) + Len(p)
          /\ \A i \in 1..Len(p) : sp[Len(s) + i] = p[i]
      <4>1. p \in Seq(Nat)
        BY <2>1
      <4> HIDE DEF p
      <4> QED
        BY <4>1, Concat
    <3> QED
      BY <2>1, <2>2, <3>1
  <2>4. Len(sp) <= Len(w) /\ \A i \in 1..Len(sp) : sp[i] = w[i]
    BY DEF Begins
  <2> HIDE DEF p, sp
  <2>5. w[Len(s) + 1] = p[1]
    <3>1. 1 \in 1..1 + Len(f) /\ Len(s) + 1 \in 1..Len(sp)
      BY <2>2, <2>3
    <3> QED
      BY <2>3, <2>4, <3>1
  <2>6. ASSUME NEW i \in 1..Len(f)
        PROVE  w[Len(s) + 1 + i] = f[i]
    <3>1. 1 + i \in 1..1 + Len(f) /\ Len(s) + (1 + i) \in 1..Len(sp)
          /\ Len(s) + (1 + i) = Len(s) + 1 + i
      BY <2>2, <2>3
    <3>2. sp[Len(s) + (1 + i)] = p[1 + i]
      BY <2>3, <3>1
    <3>3. p[1 + i] = f[i]
      BY <2>1 DEF p
    <3> QED
      BY <2>4, <3>1, <3>2, <3>3
  <2> QED
    BY <2>1, <2>3, <2>4, <2>5, <2>6 DEF p
<1>2. Len(x) = Len(y) /\ \A i \in 1..Len(x) : x[i] = y[i]
  BY <1>1
<1> QED
  BY <1>2, SameSequence DEF Text

\* FlattenSeq joins from the left, one sequence after the other.
LEMMA FlattenSteps ==
    ASSUME NEW seqs \in Seq(Seq(Nat)), seqs # <<>>
    PROVE  \E F \in [1..Len(seqs) -> Seq(Nat)] :
             /\ F[1] = seqs[1] /\ FlattenSeq(seqs) = F[Len(seqs)]
             /\ \A i \in 2..Len(seqs) : F[i] = F[i - 1] \o seqs[i]
<1> DEFINE n == Len(seqs)
           Steps(f, k) == /\ f \in [1..k -> Seq(Nat)] /\ (k > 0 => f[1] = seqs[1])
                          /\ \A i \in 2..k : f[i] = f[i - 1] \o seqs[i]
           Good == {k \in Nat : k <= n => \E f : Steps(f, k)}
<1>1. n \in Nat /\ n > 0 /\ \A i \in 1..n : seqs[i] \in Seq(Nat)
  OBVIOUS
<1>2. 0 \in Good
  <2>1. [i \in 1..0 |-> <<>>] \in [1..0 -> Seq(Nat)]
    OBVIOUS
  <2>2. Steps([i \in 1..0 |-> <<>>], 0)
    BY <2>1
  <2> HIDE DEF Steps
  <2> QED
    BY <2>2
<1>3. ASSUME NEW k \in Good PROVE k + 1 \in Good
  <2> SUFFICES ASSUME k + 1 <= n PROVE \E f : Steps(f, k + 1)
    <3> HIDE DEF Steps
    <3> QED
      OBVIOUS
  <2>0. k \in Nat /\ k <= n /\ k + 1 \in 1..n
    BY <1>1
  <2>1. PICK f : Steps(f, k)
    BY <2>0
  <2> DEFINE last == IF k = 0 THEN seqs[1] ELSE f[k] \o seqs[k + 1]
             g == [i \in 1..k + 1 |-> IF i = k + 1 THEN last ELSE f[i]]
  <2>2. last \in Seq(Nat)
    <3>1. CASE k = 0
      BY <1>1, <2>0, <3>1
    <3>2. CASE k # 0
      <4>1. f[k] \in Seq(Nat) /\ seqs[k + 1] \in Seq(Nat)
        BY <1>1, <2>0, <2>1, <3>2
      <4> QED
        BY <3>2, <4>1, Concat
    <3> QED
      BY <3>1, <3>2
  <2>3. g \in [1..k + 1 -> Seq(Nat)]
    <3> HIDE DEF last
    <3>1. \A i \in 1..k + 1 : i # k + 1 => i \in 1..k
      BY <2>0
    <3> QED
      BY <2>1, <2>2, <3>1
  <2>4. g[1] = seqs[1]
    BY <2>0, <2>1
  <2>5. ASSUME NEW i \in 2..k + 1 PROVE g[i] = g[i - 1] \o seqs[i]
    <3>1. CASE i = k + 1
      <4>1. g[i] = last /\ g[i - 1] = f[k] /\ k # 0
        BY <2>0, <3>1
      <4> QED
        BY <3>1, <4>1
    <3>2. CASE i # k + 1
      <4>1. i \in 2..k /\ i - 1 \in 1..k + 1 /\ i \in 1..k + 1 /\ i - 1 # k + 1
        BY <2>0, <3>2
      <4>2. f[i] = f[i - 1] \o seqs[i]
        BY <2>1, <4>1
      <4>3. g[i] = f[i] /\ g[i - 1] = f[i - 1]
        <5> HIDE DEF last
        <5> QED
          BY <3>2, <4>1
      <4> QED
        BY <4>2, <4>3
    <3> QED
      BY <3>1, <3>2
  <2> HIDE DEF g
  <2> QED
    BY <2>3, <2>4, <2>5
<1>4. PICK f : Steps(f, n)
  <2>1. Good \in SUBSET Nat
    OBVIOUS
  <2> HIDE DEF Good
  <2>2. Good = Nat
    BY <1>2, <1>3, <2>1, Induction
  <2> HIDE DEF Steps, n
  <2>3. n \in Good /\ n <= n
    BY <1>1, <2>2
  <2> QED
    BY <2>3 DEF Good
<1> DEFINE Body(g) == [i \in 1..n |-> IF i = 1 THEN seqs[i] ELSE g[i - 1] \o seqs[i]]
           flatten == CHOOSE g : g = Body(g)
<1>5. FlattenSeq(seqs) = flatten[n]
  BY <1>1 DEF FlattenSeq
<1>6. f = Body(f)
  <2>1. \A i \in 1..n : f[i] = IF i = 1 THEN seqs[i] ELSE f[i - 1] \o seqs[i]
    <3> SUFFICES ASSUME NEW i \in 1..n PROVE f[i] = IF i = 1 THEN seqs[i] ELSE f[i - 1] \o seqs[i]
      OBVIOUS
    <3>1. CASE i = 1
      BY <1>1, <1>4, <3>1
    <3>2. CASE i # 1
      <4>1. i \in 2..n
        BY <1>1, <3>2
      <4> QED
        BY <1>4, <3>2, <4>1
    <3> QED
      BY <3>1, <3>2
  <2>2. f = [i \in 1..n |-> f[i]]
    BY <1>4
  <2> HIDE DEF n
  <2> QED
    BY <2>1, <2>2
<1>7. flatten = Body(flatten)
  <2> HIDE DEF Body
  <2> QED
    BY <1>6
<1> HIDE DEF flatten
<1>8. ASSUME NEW i \in 1..n PROVE flatten[i] = IF i = 1 THEN seqs[i] ELSE flatten[i - 1] \o seqs[i]
  <2> HIDE DEF n
  <2> QED
    BY <1>7
<1> DEFINE Same == {k \in Nat : k + 1 <= n => flatten[k + 1] = f[k + 1]}
<1>9. \A i \in 1..n : flatten[i] = f[i]
  <2>1. 0 \in Same
    BY <1>1, <1>4, <1>8
  <2>2. ASSUME NEW k \in Same PROVE k + 1 \in Same
    <3> SUFFICES ASSUME k + 1 + 1 <= n PROVE flatten[k + 1 + 1] = f[k + 1 + 1]
      OBVIOUS
    <3>1. k \in Nat /\ k + 1 <= n /\ k + 1 + 1 \in 2..n /\ k + 1 + 1 \in 1..n /\ k + 1 + 1 # 1
          /\ (k + 1 + 1) - 1 = k + 1
      BY <1>1
    <3>2. flatten[k + 1] = f[k + 1]
      BY <3>1
    <3>3. flatten[k + 1 + 1] = flatten[(k + 1 + 1) - 1] \o seqs[k + 1 + 1]
      BY <1>8, <3>1
    <3>4. f[k + 1 + 1] = f[(k + 1 + 1) - 1] \o seqs[k + 1 + 1]
      BY <1>4, <3>1
    <3> QED
      BY <3>1, <3>2, <3>3, <3>4
  <2>3. Same \in SUBSET Nat
    OBVIOUS
  <2> HIDE DEF Same
  <2>4. Same = Nat
    BY <2>1, <2>2, <2>3, Induction
  <2> SUFFICES ASSUME NEW i \in 1..n PROVE flatten[i] = f[i]
    OBVIOUS
  <2>5. i - 1 \in Same /\ (i - 1) + 1 = i /\ i <= n
    BY <1>1, <2>4
  <2> QED
    BY <2>5 DEF Same
<1>10. n \in 1..n
  BY <1>1
<1> QED
  BY <1>1, <1>4, <1>5, <1>9, <1>10

-----------------------------------------------------------------------------
(* The canonical encoding *)

\* The encoding grows by one field at a time.
LEMMA CanonicalSteps ==
    ASSUME NEW d \in Text, NEW fs \in Seq(Text), fs # <<>>
    PROVE  \E H \in [0..Len(fs) -> Seq(Nat)] :
             /\ H[0] = Prefixed(d) /\ canonical(d, fs) = H[Len(fs)]
             /\ \A k \in 1..Len(fs) : H[k] = H[k - 1] \o Prefixed(fs[k])
<1> DEFINE n == Len(fs)
           ps == [i \in DOMAIN fs |-> Prefixed(fs[i])]
<1>1. n \in Nat /\ n > 0 /\ DOMAIN fs = 1..n /\ \A i \in 1..n : fs[i] \in Text
  OBVIOUS
<1>2. \A i \in 1..n : Prefixed(fs[i]) \in Seq(Nat)
  BY <1>1, PrefixedField
<1>3. ps \in Seq(Seq(Nat)) /\ Len(ps) = n /\ ps # <<>> /\ \A i \in 1..n : ps[i] = Prefixed(fs[i])
  BY <1>1, <1>2
<1>4. canonical(d, fs) = Prefixed(d) \o FlattenSeq(ps)
  BY DEF canonical
<1> HIDE DEF n, ps
<1>5. PICK F \in [1..n -> Seq(Nat)] :
        /\ F[1] = ps[1] /\ FlattenSeq(ps) = F[n]
        /\ \A i \in 2..n : F[i] = F[i - 1] \o ps[i]
  BY <1>3, FlattenSteps
<1>6. Prefixed(d) \in Seq(Nat)
  BY PrefixedField
<1> DEFINE p == Prefixed(d)
           H == [k \in 0..n |-> IF k = 0 THEN p ELSE p \o F[k]]
<1> HIDE DEF p
<1>7. \A k \in 1..n : F[k] \in Seq(Nat) /\ p \o F[k] \in Seq(Nat)
  BY <1>5, <1>6, Concat DEF p
<1>8. H \in [0..n -> Seq(Nat)] /\ H[0] = p /\ \A k \in 1..n : H[k] = p \o F[k]
  BY <1>1, <1>6, <1>7 DEF p
<1>9. canonical(d, fs) = H[n]
  BY <1>1, <1>4, <1>5, <1>8 DEF p
<1> HIDE DEF H
<1>10. ASSUME NEW k \in 1..n PROVE H[k] = H[k - 1] \o Prefixed(fs[k])
  <2>1. CASE k = 1
    <3>1. H[1] = p \o F[1] /\ H[0] = p /\ F[1] = Prefixed(fs[1])
      <4>1. 1 \in 1..n
        BY <1>1
      <4> QED
        BY <1>3, <1>5, <1>8, <4>1
    <3>2. k - 1 = 0
      BY <2>1
    <3> QED
      BY <2>1, <3>1, <3>2
  <2>2. CASE k # 1
    <3>1. k \in 2..n /\ k - 1 \in 1..n
      BY <1>1, <2>2
    <3>2. F[k] = F[k - 1] \o Prefixed(fs[k])
      BY <1>3, <1>5, <3>1
    <3>3. H[k] = p \o F[k] /\ H[k - 1] = p \o F[k - 1]
      BY <1>8, <3>1
    <3>4. p \o (F[k - 1] \o Prefixed(fs[k])) = (p \o F[k - 1]) \o Prefixed(fs[k])
      <4>1. p \in Seq(Nat) /\ F[k - 1] \in Seq(Nat) /\ Prefixed(fs[k]) \in Seq(Nat)
        BY <1>2, <1>6, <1>7, <3>1 DEF p
      <4> QED
        BY <4>1, Associative
    <3> QED
      BY <3>2, <3>3, <3>4
  <2> QED
    BY <2>1, <2>2
<1> QED
  BY <1>8, <1>9, <1>10 DEF n, p

\* What was encoded first stays at the beginning.
LEMMA CanonicalBegins ==
    ASSUME NEW fs \in Seq(Text), NEW H \in [0..Len(fs) -> Seq(Nat)],
           \A k \in 1..Len(fs) : H[k] = H[k - 1] \o Prefixed(fs[k]),
           NEW k \in 0..Len(fs), NEW m \in 0..Len(fs), k <= m
    PROVE  Begins(H[k], H[m])
<1> DEFINE n == Len(fs)
           Good == {i \in Nat : k + i <= n => Begins(H[k], H[k + i])}
<1>1. n \in Nat /\ \A i \in 1..n : fs[i] \in Text
  OBVIOUS
<1> HIDE DEF n
<1>2. 0 \in Good
  <2>1. H[k] \in Seq(Nat) /\ k + 0 = k
    BY <1>1 DEF n
  <2>2. Len(H[k]) \in Nat
    BY <2>1
  <2> QED
    BY <2>1, <2>2 DEF Begins
<1>3. ASSUME NEW i \in Good PROVE i + 1 \in Good
  <2> SUFFICES ASSUME k + (i + 1) <= n PROVE Begins(H[k], H[k + (i + 1)])
    OBVIOUS
  <2>1. /\ i \in Nat /\ k + i <= n /\ k + (i + 1) \in 1..n /\ k + i \in 0..n
        /\ (k + (i + 1)) - 1 = k + i /\ k \in 0..n
    BY <1>1 DEF n
  <2>2. Begins(H[k], H[k + i])
    BY <2>1
  <2>3. H[k + (i + 1)] = H[k + i] \o Prefixed(fs[k + (i + 1)])
    BY <2>1 DEF n
  <2>4. H[k] \in Seq(Nat) /\ H[k + i] \in Seq(Nat) /\ Prefixed(fs[k + (i + 1)]) \in Seq(Nat)
    BY <1>1, <2>1, PrefixedField DEF n
  <2> QED
    BY <2>2, <2>3, <2>4, BeginsLonger
<1>4. Good = Nat
  <2>1. Good \in SUBSET Nat
    OBVIOUS
  <2> HIDE DEF Good
  <2> QED
    BY <1>2, <1>3, <2>1, Induction
<1>5. m - k \in Nat /\ k + (m - k) = m /\ m <= n
  BY <1>1 DEF n
<1>6. m - k \in Good
  BY <1>4, <1>5
<1> QED
  BY <1>5, <1>6

\* Every field makes the encoding longer.
LEMMA CanonicalGrows ==
    ASSUME NEW fs \in Seq(Text), NEW H \in [0..Len(fs) -> Seq(Nat)],
           \A k \in 1..Len(fs) : H[k] = H[k - 1] \o Prefixed(fs[k]),
           NEW k \in Nat, k < Len(fs)
    PROVE  Len(H[k]) < Len(H[Len(fs)])
<1> DEFINE n == Len(fs)
           f == fs[k + 1]
<1>1. n \in Nat
  OBVIOUS
<1>2. /\ k + 1 \in 1..n /\ k + 1 \in 0..n /\ k \in 0..n
      /\ (k + 1) - 1 = k /\ k + 1 <= n /\ n \in 0..n
  BY <1>1
<1>3. Begins(H[k + 1], H[n])
  BY <1>2, CanonicalBegins
<1>4. H[k + 1] = H[(k + 1) - 1] \o Prefixed(f)
  BY <1>2
<1>5. f \in Text /\ H[k] \in Seq(Nat) /\ H[n] \in Seq(Nat) /\ H[k + 1] = H[k] \o Prefixed(f)
  <2>1. f \in Text /\ H[k] \in Seq(Nat) /\ H[n] \in Seq(Nat)
    BY <1>2
  <2> HIDE DEF f
  <2> QED
    BY <1>2, <1>4, <2>1
<1> HIDE DEF n, f
<1>6. Prefixed(f) \in Seq(Nat) /\ Len(Prefixed(f)) = 1 + Len(f) /\ Len(f) \in Nat
  BY <1>5, PrefixedField DEF Text
<1>7. Len(H[k] \o Prefixed(f)) = Len(H[k]) + Len(Prefixed(f))
  <2>1. \A s, t \in Seq(Nat) : Len(s \o t) = Len(s) + Len(t)
    OBVIOUS
  <2>2. H[k] \in Seq(Nat) /\ Prefixed(f) \in Seq(Nat)
    BY <1>5, <1>6
  <2> QED
    BY <2>1, <2>2, Zenon
<1>8. Len(H[k]) \in Nat /\ Len(H[n]) \in Nat
  BY <1>5
<1>9. Len(H[k + 1]) <= Len(H[n])
  BY <1>3 DEF Begins
<1>10. Len(H[k]) < Len(H[n])
  <2>1. Len(H[k + 1]) = Len(H[k] \o Prefixed(f))
    BY <1>5
  <2> DEFINE before == Len(H[k])
             after == Len(H[k + 1])
             size == Len(f)
             all == Len(H[n])
  <2>2. before \in Nat /\ size \in Nat /\ all \in Nat
        /\ after = before + (1 + size) /\ after <= all
    BY <1>6, <1>7, <1>8, <1>9, <2>1
  <2> HIDE DEF before, after, size, all
  <2>3. before < all
    BY <2>2
  <2> QED
    BY <2>3 DEF before, all
<1> QED
  BY <1>10 DEF n

\* sign.go and edgesign.go, canonical: what it encodes can be read off the
\* bytes, the domain and every field, however many there are and whatever
\* bytes they hold.
THEOREM CanonicalInjective ==
    ASSUME NEW d \in Text, NEW e \in Text, NEW fs \in Seq(Text), NEW gs \in Seq(Text),
           fs # <<>>, gs # <<>>, canonical(d, fs) = canonical(e, gs)
    PROVE  d = e /\ fs = gs
<1> DEFINE n == Len(fs)
           m == Len(gs)
           w == canonical(d, fs)
<1>1. /\ n \in Nat /\ n > 0 /\ \A i \in 1..n : fs[i] \in Text
      /\ m \in Nat /\ m > 0 /\ \A i \in 1..m : gs[i] \in Text
  OBVIOUS
<1>2. PICK F \in [0..n -> Seq(Nat)] :
        /\ F[0] = Prefixed(d) /\ w = F[n]
        /\ \A k \in 1..n : F[k] = F[k - 1] \o Prefixed(fs[k])
  BY CanonicalSteps
<1>3. PICK G \in [0..m -> Seq(Nat)] :
        /\ G[0] = Prefixed(e) /\ w = G[m]
        /\ \A k \in 1..m : G[k] = G[k - 1] \o Prefixed(gs[k])
  <2>1. w = canonical(e, gs)
    OBVIOUS
  <2> HIDE DEF w
  <2> QED
    BY <2>1, CanonicalSteps
<1> HIDE DEF w
<1>4. /\ \A k \in 0..n : Begins(F[k], w) /\ F[k] \in Seq(Nat)
      /\ \A k \in 0..m : Begins(G[k], w) /\ G[k] \in Seq(Nat)
  <2>1. ASSUME NEW k \in 0..n PROVE Begins(F[k], F[n])
    <3>1. n \in 0..n /\ k <= n
      BY <1>1
    <3> QED
      BY <1>2, <3>1, CanonicalBegins
  <2>2. ASSUME NEW k \in 0..m PROVE Begins(G[k], G[m])
    <3>1. m \in 0..m /\ k <= m
      BY <1>1
    <3> QED
      BY <1>3, <3>1, CanonicalBegins
  <2> QED
    BY <1>2, <1>3, <2>1, <2>2
<1> HIDE DEF n, m
<1>5. w \in Seq(Nat)
  BY <1>1, <1>2
<1>6. d = e
  <2>1. /\ Prefixed(d) \in Seq(Nat) /\ Prefixed(e) \in Seq(Nat)
        /\ <<>> \in Seq(Nat)
    BY PrefixedField
  <2>2. <<>> \o Prefixed(d) = Prefixed(d) /\ <<>> \o Prefixed(e) = Prefixed(e)
    BY <2>1
  <2>3. Begins(Prefixed(d), w) /\ Begins(Prefixed(e), w)
    BY <1>1, <1>2, <1>3, <1>4
  <2> QED
    BY <1>5, <2>1, <2>2, <2>3, OneFieldFits
<1> DEFINE Good == {k \in Nat : k <= n /\ k <= m =>
                      F[k] = G[k] /\ \A i \in 1..k : fs[i] = gs[i]}
<1>7. \A k \in Nat : k <= n /\ k <= m => F[k] = G[k] /\ \A i \in 1..k : fs[i] = gs[i]
  <2>1. 0 \in Good
    BY <1>2, <1>3, <1>6
  <2>2. ASSUME NEW k \in Good PROVE k + 1 \in Good
    <3> SUFFICES ASSUME k + 1 <= n, k + 1 <= m
                 PROVE  F[k + 1] = G[k + 1] /\ \A i \in 1..k + 1 : fs[i] = gs[i]
      OBVIOUS
    <3>1. /\ k \in Nat /\ k <= n /\ k <= m /\ k + 1 \in 1..n /\ k + 1 \in 1..m
          /\ k + 1 \in 0..n /\ k + 1 \in 0..m /\ k \in 0..n /\ (k + 1) - 1 = k
      BY <1>1
    <3>2. F[k] = G[k] /\ \A i \in 1..k : fs[i] = gs[i]
      BY <3>1
    <3>3. F[k + 1] = F[k] \o Prefixed(fs[k + 1]) /\ G[k + 1] = F[k] \o Prefixed(gs[k + 1])
      BY <1>2, <1>3, <3>1, <3>2
    <3>4. Begins(F[k + 1], w) /\ Begins(G[k + 1], w) /\ F[k] \in Seq(Nat)
      BY <1>4, <3>1
    <3>5. fs[k + 1] \in Text /\ gs[k + 1] \in Text
      BY <1>1, <3>1
    <3>6. fs[k + 1] = gs[k + 1]
      BY <1>5, <3>3, <3>4, <3>5, OneFieldFits
    <3>7. \A i \in 1..k + 1 : i \in 1..k \/ i = k + 1
      BY <3>1
    <3> QED
      BY <3>2, <3>3, <3>6, <3>7
  <2>3. Good \in SUBSET Nat
    OBVIOUS
  <2> HIDE DEF Good
  <2>4. Good = Nat
    BY <2>1, <2>2, <2>3, Induction
  <2> QED
    BY <2>4 DEF Good
<1> HIDE DEF Good
<1>8. n = m
  <2>1. CASE n < m
    <3>1. Len(G[n]) < Len(G[m])
      BY <1>1, <1>3, <2>1, CanonicalGrows DEF m
    <3>2. G[n] = w /\ G[m] = w
      <4>1. F[n] = G[n]
        BY <1>1, <1>7, <2>1
      <4> QED
        BY <1>2, <1>3, <1>5, <4>1, Zenon
    <3>3. Len(w) \in Nat
      BY <1>5
    <3> QED
      BY <3>1, <3>2, <3>3
  <2>2. CASE m < n
    <3>1. Len(F[m]) < Len(F[n])
      BY <1>1, <1>2, <2>2, CanonicalGrows DEF n
    <3>2. F[m] = w /\ F[n] = w
      <4>1. F[m] = G[m]
        BY <1>1, <1>7, <2>2
      <4> QED
        BY <1>2, <1>3, <1>5, <4>1, Zenon
    <3>3. Len(w) \in Nat
      BY <1>5
    <3> QED
      BY <3>1, <3>2, <3>3
  <2> QED
    BY <1>1, <2>1, <2>2
<1>9. \A i \in 1..n : fs[i] = gs[i]
  BY <1>1, <1>7, <1>8
<1> QED
  BY <1>6, <1>8, <1>9, SameSequence DEF n, m

-----------------------------------------------------------------------------
(* The statements *)

\* What is taken of sha256: a digest is a text, never empty, and never shared.
Sha256IsFaithful ==
    \A s, t \in Seq(Nat) : /\ sha256(s) \in Text /\ sha256(s) # Nil
                           /\ sha256(s) = sha256(t) => s = t

\* A number can be read off its encoding.
LEMMA NumberField ==
    ASSUME NEW v \in Number
    PROVE  u64(v) \in Text /\ u64(v) = <<v>>
<1>1. Word \in Nat /\ Word > 1 /\ v \in Nat /\ v < Word
  BY StatementsConstants DEF Number
<1>2. v % Word = v
  BY <1>1
<1> QED
  BY <1>1, <1>2 DEF u64, Text

\* An optional value is there or not.
LEMMA OptionalValue ==
    ASSUME NEW S, NEW p \in Optional(S)
    PROVE  p = Nil \/ (p[1] \in S /\ p = <<p[1]>>)
<1>1. p \in Seq(S) /\ Len(p) \in Nat /\ Len(p) <= 1
  BY DEF Optional
<1>2. CASE Len(p) = 0
  BY <1>1, <1>2 DEF Nil
<1>3. CASE Len(p) = 1
  <2>1. p[1] \in S
    BY <1>1, <1>3
  <2>2. <<p[1]>> \in Seq(S) /\ Len(<<p[1]>>) = 1 /\ \A i \in 1..Len(p) : p[i] = <<p[1]>>[i]
    BY <1>3, <2>1
  <2> QED
    BY <1>1, <1>3, <2>1, <2>2, SameSequence
<1>4. Len(p) = 0 \/ Len(p) = 1
  <2>1. \A l \in Nat : l <= 1 => l = 0 \/ l = 1
    OBVIOUS
  <2> QED
    BY <1>1, <2>1, Zenon
<1> QED
  BY <1>2, <1>3, <1>4

\* So are the nanoseconds of a time, though not the time itself.
LEMMA TimeField ==
    ASSUME NEW t \in Optional(Time)
    PROVE  u64(nanosOf(t)) \in Text
<1>1. Word \in Nat /\ Word > 1 /\ Word \div 2 \in Int
  BY StatementsConstants
<1>2. nanosOf(t) \in Int
  <2>1. CASE t = Nil
    BY <2>1 DEF nanosOf
  <2>2. CASE t # Nil
    <3>1. t[1] \in Int /\ nanosOf(t) = int64(t[1])
      BY <2>2, OptionalValue DEF nanosOf, Time
    <3>2. (t[1] + Word \div 2) % Word \in Int
      BY <1>1, <3>1
    <3> QED
      BY <1>1, <3>1, <3>2 DEF int64
  <2> QED
    BY <2>1, <2>2
<1>3. nanosOf(t) % Word \in Nat
  BY <1>1, <1>2
<1> QED
  BY <1>1, <1>3 DEF u64, Text

\* A payload can be read off, too: no digest is empty, none is shared.
LEMMA PayloadField ==
    ASSUME Sha256IsFaithful, NEW p \in Optional(anypb)
    PROVE  /\ payloadOf(p) \in Text /\ payloadTypeOf(p) \in Text
           /\ \A q \in Optional(anypb) :
                payloadOf(p) = payloadOf(q) /\ payloadTypeOf(p) = payloadTypeOf(q) => p = q
<1>1. Nil \in Text
  BY StatementsConstants DEF Nil, Text
<1>2. ASSUME NEW q \in Optional(anypb), q # Nil
      PROVE  /\ q = <<q[1]>> /\ q[1] = [TypeUrl |-> q[1].TypeUrl, Value |-> q[1].Value]
             /\ q[1].Value \in Seq(Nat) /\ payloadTypeOf(q) = q[1].TypeUrl
             /\ payloadOf(q) = sha256(q[1].Value) /\ payloadOf(q) \in Text
             /\ payloadOf(q) # Nil /\ payloadTypeOf(q) \in Text
  <2>1. q[1] \in anypb /\ q = <<q[1]>>
    BY <1>2, OptionalValue
  <2>2. /\ q[1] = [TypeUrl |-> q[1].TypeUrl, Value |-> q[1].Value]
        /\ q[1].Value \in Text /\ q[1].TypeUrl \in Text
    BY <2>1 DEF anypb
  <2>3. q[1].Value \in Seq(Nat)
    BY <2>2 DEF Text
  <2>4. payloadTypeOf(q) = q[1].TypeUrl /\ payloadOf(q) = sha256(q[1].Value)
    BY <1>2 DEF payloadOf, payloadTypeOf
  <2>5. sha256(q[1].Value) \in Text /\ sha256(q[1].Value) # Nil
    BY <2>3 DEF Sha256IsFaithful
  <2> QED
    BY <2>1, <2>2, <2>3, <2>4, <2>5
<1>3. payloadOf(Nil) = Nil /\ payloadTypeOf(Nil) = Nil
  BY DEF payloadOf, payloadTypeOf
<1>4. ASSUME NEW q \in Optional(anypb), payloadOf(p) = payloadOf(q),
             payloadTypeOf(p) = payloadTypeOf(q)
      PROVE  p = q
  <2>1. CASE p = Nil \/ q = Nil
    BY <1>2, <1>3, <1>4, <2>1
  <2>2. CASE p # Nil /\ q # Nil
    <3>1. sha256(p[1].Value) = sha256(q[1].Value) /\ p[1].TypeUrl = q[1].TypeUrl
      BY <1>2, <1>4, <2>2
    <3>2. p[1].Value = q[1].Value
      BY <1>2, <2>2, <3>1 DEF Sha256IsFaithful
    <3>3. p[1] = q[1]
      BY <1>2, <2>2, <3>1, <3>2
    <3> QED
      BY <1>2, <2>2, <3>3
  <2> QED
    BY <2>1, <2>2
<1> QED
  BY <1>1, <1>2, <1>3, <1>4

\* The four domains are texts, and differ.
LEMMA Domains ==
    /\ {pairDomain, authDomain, commandDomain, eventDomain} \subseteq Text
    /\ pairDomain # authDomain /\ pairDomain # commandDomain /\ pairDomain # eventDomain
    /\ authDomain # commandDomain /\ authDomain # eventDomain /\ commandDomain # eventDomain
<1>1. Word \in Nat /\ Word > 1
  BY StatementsConstants
<1> QED
  BY <1>1 DEF pairDomain, authDomain, commandDomain, eventDomain, Text

\* A pairing proof says which host, secret and key it is about.
LEMMA PairEncodes ==
    ASSUME NEW c \in PairClaim
    PROVE  LET fs == <<c.HostID, c.Secret, c.Pub>> IN
           fs \in Seq(Text) /\ fs # <<>> /\ pairBytes(c) = canonical(pairDomain, fs)
BY DEF PairClaim, pairBytes

\* The answer to a challenge says which host, device and nonce it is about.
LEMMA AuthEncodes ==
    ASSUME NEW c \in AuthClaim
    PROVE  LET fs == <<c.HostID, c.DeviceID, c.Nonce>> IN
           fs \in Seq(Text) /\ fs # <<>> /\ authBytes(c) = canonical(authDomain, fs)
BY DEF AuthClaim, authBytes

\* The fields of a command as they are signed.
CommandFields(c) ==
        <<c.ProtocolVersion, c.CommandId, c.LogicalOperationId, u64(c.Attempt),
          c.DeviceId, c.TaskId, c.WorkflowRunId, c.ResourceType, c.ResourceId,
          u64(c.FencingToken), u64(c.ExpectedAggregateVersion),
          u64(nanosOf(c.ExpiresAt)), c.IdempotencyKey, c.ApprovalGrantId,
          c.PolicyContextHash, payloadTypeOf(c.Payload), payloadOf(c.Payload),
          c.PayloadDigest>>

\* Each of them is a text.
LEMMA CommandEncodes ==
    ASSUME Sha256IsFaithful, NEW c \in EdgeCommand
    PROVE  /\ CommandFields(c) \in Seq(Text) /\ CommandFields(c) # <<>>
           /\ commandBytes(c) = canonical(commandDomain, CommandFields(c))
<1>1. /\ {c.ProtocolVersion, c.CommandId, c.LogicalOperationId, c.DeviceId, c.TaskId,
          c.WorkflowRunId, c.ResourceType, c.ResourceId, c.IdempotencyKey, c.ApprovalGrantId,
          c.PolicyContextHash, c.PayloadDigest} \subseteq Text
      /\ {c.Attempt, c.FencingToken, c.ExpectedAggregateVersion} \subseteq Number
      /\ c.ExpiresAt \in Optional(Time) /\ c.Payload \in Optional(anypb)
  BY DEF EdgeCommand
<1>2. /\ u64(c.Attempt) \in Text /\ u64(c.FencingToken) \in Text
      /\ u64(c.ExpectedAggregateVersion) \in Text /\ u64(nanosOf(c.ExpiresAt)) \in Text
      /\ payloadTypeOf(c.Payload) \in Text /\ payloadOf(c.Payload) \in Text
  BY <1>1, NumberField, TimeField, PayloadField
<1> QED
  BY <1>1, <1>2 DEF CommandFields, commandBytes

\* The signed bytes of a command determine all it covers.
LEMMA CommandSaysAll ==
    ASSUME Sha256IsFaithful, NEW c \in EdgeCommand, NEW d \in EdgeCommand,
           commandBytes(c) = commandBytes(d)
    PROVE  Covered(c) = Covered(d)
<1>1. CommandFields(c) = CommandFields(d)
  <2>1. commandDomain \in Text
    BY Domains
  <2> QED
    BY <2>1, CommandEncodes, CanonicalInjective
<1>2. /\ c.ProtocolVersion = d.ProtocolVersion /\ c.CommandId = d.CommandId
      /\ c.LogicalOperationId = d.LogicalOperationId /\ c.DeviceId = d.DeviceId
      /\ c.TaskId = d.TaskId /\ c.WorkflowRunId = d.WorkflowRunId
      /\ c.ResourceType = d.ResourceType /\ c.ResourceId = d.ResourceId
      /\ c.IdempotencyKey = d.IdempotencyKey /\ c.ApprovalGrantId = d.ApprovalGrantId
      /\ c.PolicyContextHash = d.PolicyContextHash /\ c.PayloadDigest = d.PayloadDigest
      /\ u64(c.Attempt) = u64(d.Attempt) /\ u64(c.FencingToken) = u64(d.FencingToken)
      /\ u64(c.ExpectedAggregateVersion) = u64(d.ExpectedAggregateVersion)
      /\ u64(nanosOf(c.ExpiresAt)) = u64(nanosOf(d.ExpiresAt))
      /\ payloadTypeOf(c.Payload) = payloadTypeOf(d.Payload)
      /\ payloadOf(c.Payload) = payloadOf(d.Payload)
  BY <1>1 DEF CommandFields
<1>3. c.Attempt = d.Attempt /\ c.FencingToken = d.FencingToken
      /\ c.ExpectedAggregateVersion = d.ExpectedAggregateVersion
  <2>1. /\ {c.Attempt, c.FencingToken, c.ExpectedAggregateVersion} \subseteq Number
        /\ {d.Attempt, d.FencingToken, d.ExpectedAggregateVersion} \subseteq Number
    BY DEF EdgeCommand
  <2>2. \A v, w \in Number : u64(v) = u64(w) => v = w
    BY NumberField
  <2> QED
    BY <1>2, <2>1, <2>2
<1>4. c.Payload = d.Payload
  <2>1. c.Payload \in Optional(anypb) /\ d.Payload \in Optional(anypb)
    BY DEF EdgeCommand
  <2> QED
    BY <1>2, <2>1, PayloadField
<1> DEFINE F == DOMAIN c \ {"LedgerPayload", "Traceparent"}
<1>5. /\ DOMAIN c = DOMAIN d /\ "OccurredAt" \notin F
      /\ \A f \in F \ {"ExpiresAt"} : c[f] = d[f]
  BY <1>2, <1>3, <1>4 DEF EdgeCommand
<1>6. u64(nanosOf(c["ExpiresAt"])) = u64(nanosOf(d["ExpiresAt"]))
  BY <1>2
<1> QED
  BY <1>5, <1>6 DEF Covered

\* The fields of an event as they are signed.
EventFields(e) ==
        <<e.EventId, e.DeviceId, u64(e.DeviceSequence), e.CommandId, e.Type,
          u64(nanosOf(e.OccurredAt)), u64(e.FencingToken),
          payloadTypeOf(e.Payload), payloadOf(e.Payload), e.PayloadDigest>>

\* Each of them is a text.
LEMMA EventEncodes ==
    ASSUME Sha256IsFaithful, NEW e \in EdgeEvent
    PROVE  /\ EventFields(e) \in Seq(Text) /\ EventFields(e) # <<>>
           /\ eventBytes(e) = canonical(eventDomain, EventFields(e))
<1>1. /\ {e.EventId, e.DeviceId, e.CommandId, e.Type, e.PayloadDigest} \subseteq Text
      /\ {e.DeviceSequence, e.FencingToken} \subseteq Number
      /\ e.OccurredAt \in Optional(Time) /\ e.Payload \in Optional(anypb)
  BY DEF EdgeEvent
<1>2. /\ u64(e.DeviceSequence) \in Text /\ u64(e.FencingToken) \in Text
      /\ u64(nanosOf(e.OccurredAt)) \in Text
      /\ payloadTypeOf(e.Payload) \in Text /\ payloadOf(e.Payload) \in Text
  BY <1>1, NumberField, TimeField, PayloadField
<1> QED
  BY <1>1, <1>2 DEF EventFields, eventBytes

\* The signed bytes of an event determine all it covers.
LEMMA EventSaysAll ==
    ASSUME Sha256IsFaithful, NEW c \in EdgeEvent, NEW d \in EdgeEvent,
           eventBytes(c) = eventBytes(d)
    PROVE  Covered(c) = Covered(d)
<1>1. EventFields(c) = EventFields(d)
  <2>1. eventDomain \in Text
    BY Domains
  <2> QED
    BY <2>1, EventEncodes, CanonicalInjective
<1>2. /\ c.EventId = d.EventId /\ c.DeviceId = d.DeviceId /\ c.CommandId = d.CommandId
      /\ c.Type = d.Type /\ c.PayloadDigest = d.PayloadDigest
      /\ u64(c.DeviceSequence) = u64(d.DeviceSequence)
      /\ u64(c.FencingToken) = u64(d.FencingToken)
      /\ u64(nanosOf(c.OccurredAt)) = u64(nanosOf(d.OccurredAt))
      /\ payloadTypeOf(c.Payload) = payloadTypeOf(d.Payload)
      /\ payloadOf(c.Payload) = payloadOf(d.Payload)
  BY <1>1 DEF EventFields
<1>3. c.DeviceSequence = d.DeviceSequence /\ c.FencingToken = d.FencingToken
  <2>1. /\ {c.DeviceSequence, c.FencingToken} \subseteq Number
        /\ {d.DeviceSequence, d.FencingToken} \subseteq Number
    BY DEF EdgeEvent
  <2>2. \A v, w \in Number : u64(v) = u64(w) => v = w
    BY NumberField
  <2> QED
    BY <1>2, <2>1, <2>2
<1>4. c.Payload = d.Payload
  <2>1. c.Payload \in Optional(anypb) /\ d.Payload \in Optional(anypb)
    BY DEF EdgeEvent
  <2> QED
    BY <1>2, <2>1, PayloadField
<1> DEFINE F == DOMAIN c \ {"LedgerPayload", "Traceparent"}
<1>5. /\ DOMAIN c = DOMAIN d /\ "ExpiresAt" \notin F
      /\ \A f \in F \ {"OccurredAt"} : c[f] = d[f]
  BY <1>2, <1>3, <1>4 DEF EdgeEvent
<1>6. u64(nanosOf(c["OccurredAt"])) = u64(nanosOf(d["OccurredAt"]))
  BY <1>2
<1> QED
  BY <1>5, <1>6 DEF Covered

\* "domain label, then each field length-prefixed, in order" (sign.go): the
\* signed bytes determine the sort of the statement and all it covers, every
\* field but the ledger bytes and the trace, a time as its int64 of nanoseconds.
THEOREM BytesSayAll ==
    ASSUME Sha256IsFaithful, NEW a \in Sorts, NEW b \in Sorts,
           NEW x \in Bodies(a), NEW y \in Bodies(b), BytesOf(a, x) = BytesOf(b, y)
    PROVE  a = b /\ Covered(x) = Covered(y)
<1> DEFINE Domain(as) == CASE as = "pair" -> pairDomain [] as = "auth" -> authDomain
                           [] as = "command" -> commandDomain [] as = "event" -> eventDomain
<1>1. ASSUME NEW s \in Sorts, NEW z \in Bodies(s)
      PROVE  \E fs \in Seq(Text) : fs # <<>> /\ BytesOf(s, z) = canonical(Domain(s), fs)
  <2>1. CASE s = "pair"
    BY <2>1, PairEncodes DEF Bodies, BytesOf
  <2>2. CASE s = "auth"
    BY <2>2, AuthEncodes DEF Bodies, BytesOf
  <2>3. CASE s = "command"
    BY <2>3, CommandEncodes DEF Bodies, BytesOf
  <2>4. CASE s = "event"
    BY <2>4, EventEncodes DEF Bodies, BytesOf
  <2> QED
    BY <2>1, <2>2, <2>3, <2>4 DEF Sorts
<1>2. \A s \in Sorts : Domain(s) \in Text
  BY Domains DEF Sorts
<1>3. PICK fs \in Seq(Text) : fs # <<>> /\ BytesOf(a, x) = canonical(Domain(a), fs)
  BY <1>1
<1>4. PICK gs \in Seq(Text) : gs # <<>> /\ BytesOf(b, y) = canonical(Domain(b), gs)
  BY <1>1
<1>5. Domain(a) = Domain(b)
  <2> HIDE DEF Domain
  <2>1. /\ Domain(a) \in Text /\ Domain(b) \in Text
        /\ canonical(Domain(a), fs) = canonical(Domain(b), gs)
    BY <1>2, <1>3, <1>4
  <2> QED
    BY <1>3, <1>4, <2>1, CanonicalInjective
<1>6. a = b
  BY <1>5, Domains DEF Sorts
<1>7. Covered(x) = Covered(y)
  <2>1. CASE a = "pair"
    <3>1. x \in PairClaim /\ y \in PairClaim /\ pairBytes(x) = pairBytes(y) /\ pairDomain \in Text
      BY <1>6, <2>1, Domains DEF Bodies, BytesOf
    <3>2. <<x.HostID, x.Secret, x.Pub>> = <<y.HostID, y.Secret, y.Pub>>
      BY <3>1, PairEncodes, CanonicalInjective
    <3>3. x = y
      BY <3>1, <3>2 DEF PairClaim
    <3> QED
      BY <3>3
  <2>2. CASE a = "auth"
    <3>1. x \in AuthClaim /\ y \in AuthClaim /\ authBytes(x) = authBytes(y) /\ authDomain \in Text
      BY <1>6, <2>2, Domains DEF Bodies, BytesOf
    <3>2. <<x.HostID, x.DeviceID, x.Nonce>> = <<y.HostID, y.DeviceID, y.Nonce>>
      BY <3>1, AuthEncodes, CanonicalInjective
    <3>3. x = y
      BY <3>1, <3>2 DEF AuthClaim
    <3> QED
      BY <3>3
  <2>3. CASE a = "command"
    BY <1>6, <2>3, CommandSaysAll DEF Bodies, BytesOf
  <2>4. CASE a = "event"
    BY <1>6, <2>4, EventSaysAll DEF Bodies, BytesOf
  <2> QED
    BY <2>1, <2>2, <2>3, <2>4 DEF Sorts
<1> QED
  BY <1>6, <1>7

-----------------------------------------------------------------------------
(* The action a grant is for *)

\* What follows the same beginning is the same.
LEMMA CancelLeft ==
    ASSUME NEW s \in Seq(Nat), NEW t \in Seq(Nat), NEW u \in Seq(Nat), s \o t = s \o u
    PROVE  t = u
<1> DEFINE l == s \o t
           r == s \o u
<1>0. l = r
  OBVIOUS
<1>1. /\ Len(l) = Len(s) + Len(t) /\ \A i \in 1..Len(t) : l[Len(s) + i] = t[i]
      /\ Len(r) = Len(s) + Len(u) /\ \A i \in 1..Len(u) : r[Len(s) + i] = u[i]
  <2>1. \A q \in Seq(Nat) : /\ Len(s \o q) = Len(s) + Len(q)
                            /\ \A i \in 1..Len(q) : (s \o q)[Len(s) + i] = q[i]
    BY Concat
  <2> QED
    BY <2>1, Zenon
<1> HIDE DEF l, r
<1>2. Len(s) \in Nat /\ Len(t) \in Nat /\ Len(u) \in Nat
  OBVIOUS
<1>3. Len(t) = Len(u)
  BY <1>0, <1>1, <1>2
<1>4. \A i \in 1..Len(t) : t[i] = u[i]
  BY <1>0, <1>1, <1>3
<1> QED
  BY <1>3, <1>4, SameSequence

\* A text begins with its first part.
LEMMA BeginsPart ==
    ASSUME NEW t \in Seq(Nat), NEW q \in Seq(Nat)
    PROVE  Begins(t, t \o q)
<1>1. Begins(t, t)
  BY DEF Begins
<1> QED
  BY <1>1, BeginsLonger

\* The symbol at which s ends and t goes on.
LEMMA GoesOn ==
    ASSUME NEW s \in Seq(Nat), NEW t \in Seq(Nat), NEW p \in Seq(Nat),
           Begins(t, s \o p), Len(p) > 0, Len(s) < Len(t)
    PROVE  t[Len(s) + 1] = p[1]
<1> DEFINE l == s \o p
<1>1. \A i \in 1..Len(p) : l[Len(s) + i] = p[i]
  BY Concat
<1>2. \A i \in 1..Len(t) : t[i] = l[i]
  BY DEF Begins
<1> HIDE DEF l
<1>3. Len(s) + 1 \in 1..Len(t) /\ 1 \in 1..Len(p)
  OBVIOUS
<1> QED
  BY <1>1, <1>2, <1>3

\* A word that a bar ends in one text and a colon in another is the same word.
SameWord(s, t, x, y, u, v) ==
    s \o (Bar \o x) = t \o (Bar \o y) /\ s \o (Colon \o u) = t \o (Colon \o v) => s = t

\* What delimits a type in the text digested and in a scope finds its end.
LEMMA WordEnds == \A s, t, x, y, u, v \in Seq(Nat) : SameWord(s, t, x, y, u, v)
<1> TAKE s, t, x, y, u, v \in Seq(Nat)
<1> SUFFICES ASSUME s \o (Bar \o x) = t \o (Bar \o y), s \o (Colon \o u) = t \o (Colon \o v)
             PROVE  s = t
  BY DEF SameWord
<1>1. \A z \in Seq(Nat) : /\ Bar \o z \in Seq(Nat) /\ Len(Bar \o z) > 0 /\ (Bar \o z)[1] = 2
                          /\ Colon \o z \in Seq(Nat) /\ Len(Colon \o z) > 0 /\ (Colon \o z)[1] = 3
  BY DEF Bar, Colon
<1> DEFINE bx == Bar \o x
           by == Bar \o y
           cu == Colon \o u
           cv == Colon \o v
<1>2. /\ bx \in Seq(Nat) /\ Len(bx) > 0 /\ bx[1] = 2 /\ by \in Seq(Nat) /\ Len(by) > 0 /\ by[1] = 2
      /\ cu \in Seq(Nat) /\ Len(cu) > 0 /\ cu[1] = 3 /\ cv \in Seq(Nat) /\ Len(cv) > 0 /\ cv[1] = 3
  BY <1>1, Zenon
<1>3. s \o bx = t \o by /\ s \o cu = t \o cv
  OBVIOUS
<1>4. /\ Begins(t, t \o by) /\ Begins(t, t \o cv)
      /\ Begins(s, s \o bx) /\ Begins(s, s \o cu)
  BY <1>2, BeginsPart, Zenon
<1>5. /\ Begins(t, s \o bx) /\ Begins(t, s \o cu)
      /\ Begins(s, t \o by) /\ Begins(s, t \o cv)
  BY <1>3, <1>4, Zenon
<1> HIDE DEF bx, by, cu, cv
<1>6. CASE Len(s) < Len(t)
  <2>1. t[Len(s) + 1] = bx[1]
    <3>1. Begins(t, s \o bx) /\ Len(bx) > 0 /\ bx \in Seq(Nat)
      BY <1>2, <1>5
    <3> QED
      BY <1>6, <3>1, GoesOn
  <2>2. t[Len(s) + 1] = cu[1]
    <3>1. Begins(t, s \o cu) /\ Len(cu) > 0 /\ cu \in Seq(Nat)
      BY <1>2, <1>5
    <3> QED
      BY <1>6, <3>1, GoesOn
  <2> QED
    <3>1. bx[1] = 2 /\ cu[1] = 3
      BY <1>2
    <3>2. bx[1] = cu[1]
      BY <2>1, <2>2, Zenon
    <3> QED
      BY <3>1, <3>2
<1>7. CASE Len(t) < Len(s)
  <2>1. s[Len(t) + 1] = by[1]
    <3>1. Begins(s, t \o by) /\ Len(by) > 0 /\ by \in Seq(Nat)
      BY <1>2, <1>5
    <3> QED
      BY <1>7, <3>1, GoesOn
  <2>2. s[Len(t) + 1] = cv[1]
    <3>1. Begins(s, t \o cv) /\ Len(cv) > 0 /\ cv \in Seq(Nat)
      BY <1>2, <1>5
    <3> QED
      BY <1>7, <3>1, GoesOn
  <2> QED
    <3>1. by[1] = 2 /\ cv[1] = 3
      BY <1>2
    <3>2. by[1] = cv[1]
      BY <2>1, <2>2, Zenon
    <3> QED
      BY <3>1, <3>2
<1>8. CASE Len(s) = Len(t)
  <2>1. \A i \in 1..Len(s) : (s \o bx)[i] = s[i]
    BY <1>2, Concat
  <2>2. \A i \in 1..Len(t) : (t \o by)[i] = t[i]
    BY <1>2, Concat
  <2> QED
    BY <1>3, <1>8, <2>1, <2>2, SameSequence
<1> QED
  BY <1>6, <1>7, <1>8

\* A resource type is not "device", and "device:" does not begin it.
OrdinaryType(w) == Bar[1] \notin Range(w) /\ ~IsPrefix(DeviceWord \o Colon, w \o Colon)

\* So no text begins with "device:" and with an ordinary type and a colon.
LEMMA NotDevice ==
    ASSUME NEW w \in Seq(Nat), OrdinaryType(w)
    PROVE  ~(Len(w) > 0 /\ w[1] = 4 /\ (Len(w) > 1 => w[2] = 3))
<1> SUFFICES ASSUME Len(w) > 0, w[1] = 4, Len(w) > 1 => w[2] = 3
             PROVE  FALSE
  OBVIOUS
<1> DEFINE wc == w \o Colon
           dc == DeviceWord \o Colon
<1>1. /\ Colon \in Seq(Nat) /\ Len(Colon) = 1 /\ Colon[1] = 3
      /\ DeviceWord \in Seq(Nat) /\ Len(DeviceWord) = 1 /\ DeviceWord[1] = 4
  BY DEF Colon, DeviceWord
<1>2. \A v \in Seq(Nat) : /\ v \o Colon \in Seq(Nat) /\ Len(v \o Colon) = Len(v) + Len(Colon)
                          /\ \A k \in 1..Len(v) : (v \o Colon)[k] = v[k]
                          /\ \A k \in 1..Len(Colon) : (v \o Colon)[Len(v) + k] = Colon[k]
  <2> SUFFICES ASSUME NEW v \in Seq(Nat)
               PROVE  /\ v \o Colon \in Seq(Nat) /\ Len(v \o Colon) = Len(v) + Len(Colon)
                      /\ \A k \in 1..Len(v) : (v \o Colon)[k] = v[k]
                      /\ \A k \in 1..Len(Colon) : (v \o Colon)[Len(v) + k] = Colon[k]
    OBVIOUS
  <2>1. Colon \in Seq(Nat)
    BY <1>1
  <2> QED
    BY <2>1, Concat
<1>3. /\ wc \in Seq(Nat) /\ Len(wc) = Len(w) + 1 /\ \A k \in 1..Len(w) : wc[k] = w[k]
      /\ wc[Len(w) + 1] = 3
  BY <1>1, <1>2
<1>4. dc \in Seq(Nat) /\ Len(dc) = 2 /\ dc[1] = 4 /\ dc[2] = 3
  BY <1>1, <1>2
<1> HIDE DEF wc, dc
<1>5. Len(w) \in Nat
  OBVIOUS
<1>6. Len(w) = 1 \/ Len(w) > 1
  <2>1. \A l \in Nat : l > 0 => l = 1 \/ l > 1
    OBVIOUS
  <2> QED
    BY <1>5, <2>1, Zenon
<1>7. Len(wc) >= 2 /\ wc[1] = 4
  BY <1>3, <1>5, <1>6
<1>8. wc[2] = 3
  <2>1. CASE Len(w) = 1
    BY <1>3, <2>1
  <2>2. CASE Len(w) > 1
    <3>1. 2 \in 1..Len(w) /\ w[2] = 3
      BY <1>5, <2>2
    <3>2. \A k \in 1..Len(w) : wc[k] = w[k]
      BY <1>3
    <3> QED
      BY <3>1, <3>2, Zenon
  <2> QED
    BY <1>6, <2>1, <2>2
<1>9. /\ SubSeq(wc, 1, 2) \in Seq(Nat) /\ Len(SubSeq(wc, 1, 2)) = 2
      /\ SubSeq(wc, 1, 2)[1] = 4 /\ SubSeq(wc, 1, 2)[2] = 3
  BY <1>3, <1>7, <1>8
<1>10. /\ SubSeq(dc, 1, 2) \in Seq(Nat) /\ Len(SubSeq(dc, 1, 2)) = 2
       /\ SubSeq(dc, 1, 2)[1] = 4 /\ SubSeq(dc, 1, 2)[2] = 3
  BY <1>4
<1>11. SubSeq(dc, 1, 2) = SubSeq(wc, 1, 2)
  <2> DEFINE a == SubSeq(dc, 1, 2)
             b == SubSeq(wc, 1, 2)
  <2> HIDE DEF a, b
  <2>1. a \in Seq(Nat) /\ b \in Seq(Nat) /\ Len(a) = Len(b) /\ \A k \in 1..Len(a) : a[k] = b[k]
    BY <1>9, <1>10 DEF a, b
  <2>2. a = b
    BY <2>1, SameSequence
  <2> QED
    BY <2>2 DEF a, b
<1>12. IsPrefix(dc, wc)
  BY <1>4, <1>7, <1>11 DEF IsPrefix
<1> QED
  BY <1>12 DEF OrdinaryType, wc, dc

\* Concatenation, for the provers to reason about without looking into it.
Symbols(s) == s \in Seq(Nat)
Join(u, v) == u \o v

\* Two texts joined are a text.
LEMMA Joined == \A u, v : Symbols(u) /\ Symbols(v) => Symbols(Join(u, v))
<1> TAKE u, v
<1> SUFFICES ASSUME u \in Seq(Nat), v \in Seq(Nat) PROVE u \o v \in Seq(Nat)
  BY DEF Symbols, Join
<1> QED
  OBVIOUS

\* Moving the bracket in a text of three parts.
LEMMA Regroup ==
    \A u, v, w : Symbols(u) /\ Symbols(v) /\ Symbols(w) =>
        Join(Join(u, v), w) = Join(u, Join(v, w))
BY Associative, Zenon DEF Symbols, Join

\* The text an action is digested as can be read from the left.
FromTheLeft(r, d, t, i, p, b) ==
    r \o b \o d \o b \o t \o b \o i \o b \o p
      = r \o (b \o (d \o (b \o (t \o (b \o (i \o (b \o p)))))))

\* The brackets of five fields joined with bars.
LEMMA JoinedAction ==
    \A r, d, t, i, p, b :
        Symbols(r) /\ Symbols(d) /\ Symbols(t) /\ Symbols(i) /\ Symbols(p) /\ Symbols(b)
          => FromTheLeft(r, d, t, i, p, b)
<1> TAKE r, d, t, i, p, b
<1> SUFFICES ASSUME Symbols(r), Symbols(d), Symbols(t), Symbols(i), Symbols(p), Symbols(b)
             PROVE  FromTheLeft(r, d, t, i, p, b)
  OBVIOUS
<1> DEFINE x1 == Join(r, b)
           x2 == Join(x1, d)
           x3 == Join(x2, b)
           x4 == Join(x3, t)
           x5 == Join(x4, b)
           x6 == Join(x5, i)
           y7 == Join(b, p)
           y6 == Join(i, y7)
           y5 == Join(b, y6)
           y4 == Join(t, y5)
           y3 == Join(b, y4)
           y2 == Join(d, y3)
<1>1. /\ Symbols(x1) /\ Symbols(x2) /\ Symbols(x3) /\ Symbols(x4) /\ Symbols(x5) /\ Symbols(x6)
      /\ Symbols(y7) /\ Symbols(y6) /\ Symbols(y5) /\ Symbols(y4) /\ Symbols(y3) /\ Symbols(y2)
  BY Joined
<1>2. Join(Join(x6, b), p) = Join(x6, y7)
  BY <1>1, Regroup
<1>3. Join(x6, y7) = Join(x5, y6)
  BY <1>1, Regroup
<1>4. Join(x5, y6) = Join(x4, y5)
  BY <1>1, Regroup
<1>5. Join(x4, y5) = Join(x3, y4)
  BY <1>1, Regroup
<1>6. Join(x3, y4) = Join(x2, y3)
  BY <1>1, Regroup
<1>7. Join(x2, y3) = Join(x1, y2)
  BY <1>1, Regroup
<1>8. Join(x1, y2) = Join(r, Join(b, y2))
  BY <1>1, Regroup
<1>9. Join(Join(x6, b), p) = Join(r, Join(b, y2))
  BY <1>2, <1>3, <1>4, <1>5, <1>6, <1>7, <1>8
<1> QED
  BY <1>9 DEF Join, FromTheLeft

\* The first two symbols of w, which is s and then a part that begins with c.
Starts(s, c, w) == /\ Len(s) = 0 => w[1] = c
                   /\ Len(s) > 0 => w[1] = s[1]
                   /\ Len(s) = 1 => w[2] = c
                   /\ Len(s) > 1 => w[2] = s[2]

\* The first two symbols of a text of two parts.
LEMMA FirstTwo ==
    \A s, p \in Seq(Nat) : \A w : w = s \o p /\ Len(p) > 0 => Starts(s, p[1], w)
<1> SUFFICES ASSUME NEW s \in Seq(Nat), NEW p \in Seq(Nat), NEW w, w = s \o p, Len(p) > 0
             PROVE  Starts(s, p[1], w)
  OBVIOUS
<1>1. /\ \A i \in 1..Len(s) : w[i] = s[i]
      /\ \A i \in 1..Len(p) : w[Len(s) + i] = p[i]
  BY Concat
<1>2. Len(s) \in Nat /\ Len(p) \in Nat
  OBVIOUS
<1>3. w[Len(s) + 1] = p[1]
  BY <1>1, <1>2
<1>4. Len(s) > 0 => 1 \in 1..Len(s)
  BY <1>2
<1>5. Len(s) > 1 => 2 \in 1..Len(s)
  BY <1>2
<1>6. Len(s) = 0 => w[1] = p[1]
  BY <1>3
<1>7. Len(s) = 1 => w[2] = p[1]
  BY <1>3
<1> QED
  BY <1>1, <1>4, <1>5, <1>6, <1>7 DEF Starts

\* No scope of an action of an ordinary type names another device's resource.
LEMMA NotTheDeviceScope ==
    ASSUME NEW t \in Seq(Nat), OrdinaryType(t), NEW i \in Seq(Nat), NEW d \in Seq(Nat)
    PROVE  DeviceWord \o (Colon \o d) # t \o (Colon \o i)
<1> DEFINE p == Colon \o d
           q == Colon \o i
<1>1. \A z \in Seq(Nat) : Colon \o z \in Seq(Nat) /\ Len(Colon \o z) > 0 /\ (Colon \o z)[1] = 3
  BY DEF Colon
<1>2. p \in Seq(Nat) /\ Len(p) > 0 /\ p[1] = 3 /\ q \in Seq(Nat) /\ Len(q) > 0 /\ q[1] = 3
  BY <1>1, Zenon
<1>3. DeviceWord \in Seq(Nat) /\ Len(DeviceWord) = 1 /\ DeviceWord[1] = 4
  BY DEF DeviceWord
<1> HIDE DEF p, q
<1>4. ASSUME NEW w, w = DeviceWord \o p, w = t \o q
      PROVE  FALSE
  <2>1. Starts(DeviceWord, 3, w) /\ Starts(t, 3, w)
    <3>1. Starts(DeviceWord, p[1], w) /\ Starts(t, q[1], w)
      BY <1>2, <1>3, <1>4, FirstTwo, Zenon
    <3> QED
      BY <1>2, <3>1
  <2>2. w[1] = 4 /\ w[2] = 3
    BY <1>3, <2>1 DEF Starts
  <2>3. Len(t) \in Nat
    OBVIOUS
  <2>4. Len(t) > 0 /\ t[1] = 4 /\ (Len(t) > 1 => t[2] = 3)
    BY <2>1, <2>2, <2>3 DEF Starts
  <2> QED
    BY <2>4, NotDevice
<1> QED
  BY <1>4 DEF p, q

\* Nor does the type of another action spell "device" where a bar ends the
\* ordinary type.
NoDisguise(t, s, x, y, i, d) ==
    OrdinaryType(t) /\ s \o (Bar \o x) = t \o (Bar \o y)
      => s \o (Colon \o i) # DeviceWord \o (Colon \o d)

\* A scope of a resource is no scope of a device.
LEMMA NotTheDeviceType == \A t, s, x, y, i, d \in Seq(Nat) : NoDisguise(t, s, x, y, i, d)
<1> TAKE t, s, x, y, i, d \in Seq(Nat)
<1> SUFFICES
      ASSUME OrdinaryType(t), s \o (Bar \o x) = t \o (Bar \o y)
      PROVE  s \o (Colon \o i) # DeviceWord \o (Colon \o d)
  BY DEF NoDisguise
<1> DEFINE bx == Bar \o x
           by == Bar \o y
           ci == Colon \o i
           cd == Colon \o d
<1>1. \A z \in Seq(Nat) : /\ Bar \o z \in Seq(Nat) /\ Len(Bar \o z) > 0 /\ (Bar \o z)[1] = 2
                          /\ Colon \o z \in Seq(Nat) /\ Len(Colon \o z) > 0 /\ (Colon \o z)[1] = 3
  BY DEF Bar, Colon
<1>2. /\ bx \in Seq(Nat) /\ Len(bx) > 0 /\ bx[1] = 2 /\ by \in Seq(Nat) /\ Len(by) > 0 /\ by[1] = 2
      /\ ci \in Seq(Nat) /\ Len(ci) > 0 /\ ci[1] = 3 /\ cd \in Seq(Nat) /\ Len(cd) > 0 /\ cd[1] = 3
  BY <1>1, Zenon
<1>3. DeviceWord \in Seq(Nat) /\ Len(DeviceWord) = 1 /\ DeviceWord[1] = 4
  BY DEF DeviceWord
<1>4. Len(t) > 1 => t[2] # 2
  <2>1. \A k \in DOMAIN t : t[k] # 2
    BY DEF OrdinaryType, Range, Bar
  <2>2. Len(t) > 1 => 2 \in DOMAIN t
    OBVIOUS
  <2> QED
    BY <2>1, <2>2
<1>5. Len(t) \in Nat /\ Len(s) \in Nat
  OBVIOUS
<1> HIDE DEF bx, by, ci, cd
<1>6. ASSUME NEW w, w = s \o ci, w = DeviceWord \o cd, NEW v, v = s \o bx, v = t \o by
      PROVE  FALSE
  <2>1. /\ Starts(s, 3, w) /\ Starts(DeviceWord, 3, w)
        /\ Starts(s, 2, v) /\ Starts(t, 2, v)
    <3>1. /\ Starts(s, ci[1], w) /\ Starts(DeviceWord, cd[1], w)
          /\ Starts(s, bx[1], v) /\ Starts(t, by[1], v)
      BY <1>2, <1>3, <1>6, FirstTwo, Zenon
    <3> QED
      BY <1>2, <3>1
  <2>2. w[1] = 4 /\ w[2] = 3
    BY <1>3, <2>1 DEF Starts
  <2>3. Len(s) > 0 /\ s[1] = 4 /\ (Len(s) > 1 => s[2] = 3)
    <3>1. Len(s) # 0
      BY <2>1, <2>2 DEF Starts
    <3>2. Len(s) > 0
      BY <1>5, <3>1
    <3> QED
      BY <2>1, <2>2, <3>2 DEF Starts
  <2>5. v[1] = 4 /\ (v[2] = 2 \/ v[2] = 3)
    <3>1. \A l \in Nat : l > 0 => l = 1 \/ l > 1
      OBVIOUS
    <3> QED
      BY <1>5, <2>1, <2>3, <3>1 DEF Starts
  <2>7. Len(t) > 0 /\ t[1] = 4 /\ (Len(t) > 1 => t[2] = 3)
    <3>1. Len(t) # 0
      BY <2>1, <2>5 DEF Starts
    <3>2. Len(t) > 0
      BY <1>5, <3>1
    <3> QED
      BY <1>4, <2>1, <2>5, <3>2 DEF Starts
  <2> QED
    BY <2>7, NotDevice
<1> QED
  BY <1>6 DEF bx, by, ci, cd

\* What VerifyCommandGrant compares, the digest of the joined fields and the two
\* scopes, pins every part of an action of an ordinary type.
LEMMA GrantBindsAction ==
    ASSUME Sha256IsFaithful, NEW a \in Action, NEW c \in Action, OrdinaryType(a.type),
           a.run = c.run, ActionDigest(a) = ActionDigest(c),
           Scopes(c.device, c.type, c.id) \subseteq Scopes(a.device, a.type, a.id)
    PROVE  a = c
<1>1. /\ Symbols(a.run) /\ Symbols(a.device) /\ Symbols(a.type) /\ Symbols(a.id) /\ Symbols(a.payload)
      /\ Symbols(c.run) /\ Symbols(c.device) /\ Symbols(c.type) /\ Symbols(c.id) /\ Symbols(c.payload)
  BY DEF Action, Text, Symbols
<1>2. Symbols(Bar) /\ Symbols(Colon) /\ Symbols(DeviceWord)
  BY DEF Bar, Colon, DeviceWord, Symbols
<1> DEFINE Rest(b) == Join(b.id, Join(Bar, b.payload))
           Line(b) == Join(b.run, Join(Bar, Join(b.device, Join(Bar, Join(b.type, Join(Bar, Rest(b)))))))
<1>3. Symbols(Rest(a)) /\ Symbols(Rest(c)) /\ Symbols(Line(a)) /\ Symbols(Line(c))
  <2>1. Symbols(Rest(a)) /\ Symbols(Rest(c))
    BY <1>1, <1>2, Joined, Zenon
  <2> HIDE DEF Rest
  <2>2. Symbols(Line(a))
    BY <1>1, <1>2, <2>1, Joined, Zenon
  <2>3. Symbols(Line(c))
    BY <1>1, <1>2, <2>1, Joined, Zenon
  <2> QED
    BY <2>1, <2>2, <2>3
<1>4. Line(a) = Line(c)
  <2>1. /\ ActionDigest(a) = sha256(Line(a)) /\ ActionDigest(c) = sha256(Line(c))
    <3>1. /\ FromTheLeft(a.run, a.device, a.type, a.id, a.payload, Bar)
          /\ FromTheLeft(c.run, c.device, c.type, c.id, c.payload, Bar)
      BY <1>1, <1>2, JoinedAction, Zenon
    <3> QED
      BY <3>1 DEF ActionDigest, Join, FromTheLeft
  <2> QED
    BY <1>3, <2>1, Zenon DEF Sha256IsFaithful, Symbols
<1> DEFINE Cancels(u, v, w) == Join(u, v) = Join(u, w) => v = w
<1>5. \A u, v, w : Symbols(u) /\ Symbols(v) /\ Symbols(w) => Cancels(u, v, w)
  BY CancelLeft, Zenon DEF Symbols, Join
<1> HIDE DEF Cancels
<1> DEFINE Tail3(b) == Join(b.type, Join(Bar, Rest(b)))
           Scope(b) == Join(b.type, Join(Colon, b.id))
           Own(b) == Join(DeviceWord, Join(Colon, b.device))
<1>6. /\ Scopes(a.device, a.type, a.id) = {Own(a), Scope(a)}
      /\ Scopes(c.device, c.type, c.id) = {Own(c), Scope(c)}
  <2> DEFINE Same(u, v, w) == u \o v \o w = Join(u, Join(v, w))
  <2>1. \A u, v, w : Symbols(u) /\ Symbols(v) /\ Symbols(w) => Same(u, v, w)
    BY Regroup DEF Join
  <2> QED
    <3> HIDE DEF Same
    <3>1. /\ Same(DeviceWord, Colon, a.device) /\ Same(a.type, Colon, a.id)
          /\ Same(DeviceWord, Colon, c.device) /\ Same(c.type, Colon, c.id)
      BY <1>1, <1>2, <2>1, Zenon
    <3> QED
      BY <3>1, Zenon DEF Scopes, Same
<1>7. Own(c) # Scope(a)
  BY <1>1, NotTheDeviceScope, Zenon DEF Symbols, Join
<1>8. Own(c) = Own(a)
  BY <1>6, <1>7
<1>9. c.device = a.device
  <2>1. Symbols(Join(Colon, a.device)) /\ Symbols(Join(Colon, c.device))
    BY <1>1, <1>2, Joined, Zenon
  <2>2. Join(Colon, c.device) = Join(Colon, a.device)
    <3>1. Cancels(DeviceWord, Join(Colon, c.device), Join(Colon, a.device))
      BY <1>2, <1>5, <2>1, Zenon
    <3> QED
      BY <1>8, <3>1 DEF Cancels
  <2>3. Cancels(Colon, c.device, a.device)
    BY <1>1, <1>2, <1>5, Zenon
  <2> QED
    BY <2>2, <2>3 DEF Cancels
<1>10. Tail3(c) = Tail3(a)
  <2> DEFINE R1(b) == Join(Bar, Tail3(b))
             R2(b) == Join(b.device, R1(b))
             R3(b) == Join(Bar, R2(b))
  <2>1. Symbols(Tail3(a)) /\ Symbols(Tail3(c))
    BY <1>1, <1>2, <1>3, Joined, Zenon
  <2> HIDE DEF Tail3
  <2>2. /\ Symbols(R1(a)) /\ Symbols(R2(a)) /\ Symbols(R3(a))
        /\ Symbols(R1(c)) /\ Symbols(R2(c)) /\ Symbols(R3(c))
    BY <1>1, <1>2, <2>1, Joined, Zenon
  <2>3. Join(a.run, R3(a)) = Join(a.run, R3(c))
    BY <1>4 DEF Tail3
  <2>4. /\ Cancels(a.run, R3(a), R3(c)) /\ Cancels(Bar, R2(a), R2(c))
        /\ Cancels(a.device, R1(a), R1(c)) /\ Cancels(Bar, Tail3(a), Tail3(c))
    <3> HIDE DEF R1, R2, R3
    <3> QED
      BY <1>1, <1>2, <1>5, <2>1, <2>2, Zenon
  <2>5. R2(a) = R2(c)
    BY <2>3, <2>4 DEF Cancels
  <2>6. Join(a.device, R1(a)) = Join(a.device, R1(c))
    BY <1>9, <2>5
  <2> QED
    BY <2>4, <2>6 DEF Cancels
<1>11. Scope(c) # Own(a)
  <2> HIDE DEF Rest
  <2>1. c.type \o (Bar \o Rest(c)) = a.type \o (Bar \o Rest(a))
    BY <1>10 DEF Join
  <2>2. NoDisguise(a.type, c.type, Rest(c), Rest(a), c.id, a.device)
    BY <1>1, <1>3, NotTheDeviceType, Zenon DEF Symbols
  <2> QED
    BY <2>1, <2>2 DEF NoDisguise, Join
<1>12. Scope(c) = Scope(a)
  BY <1>6, <1>11
<1>13. c.type = a.type
  <2> HIDE DEF Rest
  <2>1. /\ c.type \o (Bar \o Rest(c)) = a.type \o (Bar \o Rest(a))
        /\ c.type \o (Colon \o c.id) = a.type \o (Colon \o a.id)
    BY <1>10, <1>12 DEF Join
  <2>2. SameWord(c.type, a.type, Rest(c), Rest(a), c.id, a.id)
    BY <1>1, <1>3, WordEnds, Zenon DEF Symbols
  <2> QED
    BY <2>1, <2>2 DEF SameWord
<1>14. c.id = a.id
  <2>1. Symbols(Join(Colon, a.id)) /\ Symbols(Join(Colon, c.id))
    BY <1>1, <1>2, Joined, Zenon
  <2>2. Cancels(a.type, Join(Colon, c.id), Join(Colon, a.id)) /\ Cancels(Colon, c.id, a.id)
    BY <1>1, <1>2, <1>5, <2>1, Zenon
  <2> QED
    BY <1>12, <1>13, <2>2 DEF Cancels
<1>15. c.payload = a.payload
  <2> DEFINE P(b) == Join(Bar, b.payload)
             Q(b) == Join(Bar, Rest(b))
  <2>1. Symbols(P(a)) /\ Symbols(P(c)) /\ Symbols(Q(a)) /\ Symbols(Q(c))
    <3> HIDE DEF Rest
    <3> QED
      BY <1>1, <1>2, <1>3, Joined, Zenon
  <2>2. /\ Cancels(a.type, Q(c), Q(a)) /\ Cancels(Bar, Rest(c), Rest(a))
        /\ Cancels(a.id, P(c), P(a)) /\ Cancels(Bar, c.payload, a.payload)
    <3> HIDE DEF P, Q, Rest
    <3> QED
      BY <1>1, <1>2, <1>3, <1>5, <2>1, Zenon
  <2>3. Rest(c) = Rest(a)
    <3> HIDE DEF Rest
    <3> QED
      BY <1>10, <1>13, <2>2 DEF Cancels
  <2> QED
    BY <1>14, <2>2, <2>3 DEF Cancels
<1> QED
  BY <1>9, <1>13, <1>14, <1>15 DEF Action

-----------------------------------------------------------------------------
(* The parties *)

\* A signature that verifies is one of those made, over these very bytes.
LEMMA SignatureFrom ==
    ASSUME NEW sig \in Signatures, NEW key, NEW bytes, Verify(key, bytes, sig)
    PROVE  \E s \in signed : s.by = key /\ BytesOf(s.as, s.body) = bytes
<1>1. PICK s \in signed : sig = SignatureOf(s)
  BY DEF Signatures, Verify
<1>2. Sign(s.by, BytesOf(s.as, s.body)) = Sign(key, bytes)
  BY <1>1 DEF SignatureOf, Verify
<1> QED
  BY <1>2 DEF Sign

\* It vouches for a statement of the sort it is beside, with the same content.
LEMMA VouchesFor ==
    ASSUME Sha256IsFaithful, SignedInv, NEW sig \in Signatures, NEW key,
           NEW sort \in Sorts, NEW body \in Bodies(sort),
           Verify(key, BytesOf(sort, body), sig)
    PROVE  \E s \in signed : /\ s.by = key /\ s.as = sort /\ s.body \in Bodies(sort)
                             /\ Covered(s.body) = Covered(body)
<1>1. PICK s \in signed : s.by = key /\ BytesOf(s.as, s.body) = BytesOf(sort, body)
  BY SignatureFrom
<1>2. s.as \in Sorts /\ s.body \in Bodies(s.as)
  BY <1>1 DEF SignedInv
<1>3. s.as = sort /\ Covered(s.body) = Covered(body)
  BY <1>1, <1>2, BytesSayAll
<1> QED
  BY <1>1, <1>2, <1>3

\* A command with other ledger bytes is still a command.
LEMMA StillACommand ==
    ASSUME NEW c \in EdgeCommand, NEW p \in Text, NEW b, b = [c EXCEPT !.LedgerPayload = p]
    PROVE  b \in EdgeCommand
BY DEF EdgeCommand

\* Commands that agree in what a signature covers have the same ledger digest.
LEMMA CoveredDigest ==
    ASSUME NEW c \in EdgeCommand, NEW d \in EdgeCommand, Covered(c) = Covered(d)
    PROVE  c.PayloadDigest = d.PayloadDigest
<1>1. /\ "PayloadDigest" \in DOMAIN c \ {"LedgerPayload", "Traceparent"}
      /\ "PayloadDigest" \in DOMAIN d \ {"LedgerPayload", "Traceparent"}
  BY DEF EdgeCommand
<1>2. /\ Covered(c)["PayloadDigest"] = c["PayloadDigest"]
      /\ Covered(d)["PayloadDigest"] = d["PayloadDigest"]
  BY <1>1 DEF Covered
<1> QED
  BY <1>2

\* A check was made: of a statement, beside a signature and perhaps a grant.
Judged ==
    /\ UNCHANGED <<signed, approved, now>>
    /\ verdict'.as \in Sorts /\ verdict'.body \in Bodies(verdict'.as)
    /\ verdict'.sig \in Signatures /\ verdict'.grant \in Grants
    /\ verdict'.as = "command" =>
         /\ verdict'.key \in {Nil, <<Cloud>>}
         /\ verdict'.ok <=> Admits(verdict'.key, verdict'.body, verdict'.sig, verdict'.grant, now)
    /\ verdict'.as # "command" =>
         (verdict'.ok <=> Verify(verdict'.key[1], BytesOf(verdict'.as, verdict'.body), verdict'.sig))
    /\ verdict'.as = "pair" => verdict'.key = verdict'.body.Pub
    /\ verdict'.as \in {"auth", "event"} => verdict'.key = <<verdict'.key[1]>>

\* One check of a sort other than a command.
LEMMA LinkJudged ==
    ASSUME NEW sort \in Sorts, sort # "command", NEW body \in Bodies(sort), NEW key,
           NEW sig \in Signatures, sort = "pair" => key = body.Pub,
           sort # "pair" => key = <<key[1]>>,
           Judge(sort, key, body, sig, Nil, Verify(key[1], BytesOf(sort, body), sig))
    PROVE  Judged
<1>1. /\ UNCHANGED <<signed, approved, now>>
      /\ verdict' = [as |-> sort, key |-> key, body |-> body, sig |-> sig,
                     grant |-> Nil, ok |-> Verify(key[1], BytesOf(sort, body), sig)]
  BY DEF Judge
<1>2. Nil \in Grants
  BY DEF Grants
<1>3. verdict'.ok <=> Verify(key[1], BytesOf(sort, body), sig)
  BY <1>1, Zenon
<1>4. /\ verdict'.as = sort /\ verdict'.key = key /\ verdict'.body = body /\ verdict'.sig = sig
      /\ verdict'.grant = Nil
  BY <1>1, Zenon
<1> QED
  BY <1>1, <1>2, <1>3, <1>4 DEF Judged

\* A step leaves everything, ends a check, goes on between checks, or makes one.
LEMMA StepKinds ==
    ASSUME [Next]_vars
    PROVE  UNCHANGED vars \/ verdict' = NoVerdict \/ Judged
<1>1. CASE UNCHANGED vars
  BY <1>1
<1>2. ASSUME NEW as, NEW key, NEW body, SignAs(as, key, body)
      PROVE  verdict' = NoVerdict
  BY <1>2 DEF SignAs, MayGoOn
<1>3. ASSUME NEW a, NEW id, NEW t, Approve(a, id, t)
      PROVE  verdict' = NoVerdict
  BY <1>3 DEF Approve, MayGoOn
<1>4. Tick \/ Proceed => verdict' = NoVerdict
  BY DEF Tick, Proceed, MayGoOn
<1>5. ASSUME NEW sig \in Signatures, NEW c \in PairClaims, VerifyPairProof(c, sig)
      PROVE  Judged
  <2>1. "pair" \in Sorts /\ c \in Bodies("pair") /\ pairBytes(c) = BytesOf("pair", c)
    BY StatementsConstants DEF Sorts, Bodies, BytesOf
  <2> QED
    BY <1>5, <2>1, LinkJudged DEF VerifyPairProof
<1>6. ASSUME NEW sig \in Signatures, NEW k \in Devices, NEW c \in AuthClaims, VerifyAuth(k, c, sig)
      PROVE  Judged
  <2>1. "auth" \in Sorts /\ c \in Bodies("auth") /\ authBytes(c) = BytesOf("auth", c)
    BY StatementsConstants DEF Sorts, Bodies, BytesOf
  <2>2. Judge("auth", <<k>>, c, sig, Nil, Verify(<<k>>[1], BytesOf("auth", c), sig))
    BY <1>6, <2>1 DEF VerifyAuth
  <2>3. <<k>> = << <<k>>[1] >>
    OBVIOUS
  <2> QED
    BY <2>1, <2>2, <2>3, LinkJudged
<1>7. ASSUME NEW sig \in Signatures, NEW k \in Devices, NEW e \in Events, VerifyEvent(k, e, sig)
      PROVE  Judged
  <2>1. "event" \in Sorts /\ e \in Bodies("event") /\ eventBytes(e) = BytesOf("event", e)
    BY StatementsConstants DEF Sorts, Bodies, BytesOf
  <2>2. Judge("event", <<k>>, e, sig, Nil, Verify(<<k>>[1], BytesOf("event", e), sig))
    BY <1>7, <2>1 DEF VerifyEvent
  <2>3. <<k>> = << <<k>>[1] >>
    OBVIOUS
  <2> QED
    BY <2>1, <2>2, <2>3, LinkJudged
<1>8. ASSUME NEW sig \in Signatures, NEW c \in Commands, NEW d \in Commands,
             NEW cloudKey \in {Nil, <<Cloud>>}, NEW grant \in Grants,
             Check(cloudKey, [c EXCEPT !.LedgerPayload = d.LedgerPayload], sig, grant)
      PROVE  Judged
  <2> DEFINE b == [c EXCEPT !.LedgerPayload = d.LedgerPayload]
  <2>1. b \in EdgeCommand
    <3>1. c \in EdgeCommand /\ d \in EdgeCommand
      BY StatementsConstants
    <3>2. d.LedgerPayload \in Text
      BY <3>1 DEF EdgeCommand
    <3> QED
      BY <3>1, <3>2, StillACommand
  <2> HIDE DEF b
  <2>2. /\ UNCHANGED <<signed, approved, now>>
        /\ verdict' = [as |-> "command", key |-> cloudKey, body |-> b, sig |-> sig,
                       grant |-> grant, ok |-> Admits(cloudKey, b, sig, grant, now)]
    BY <1>8 DEF Check, Judge, b
  <2>3. verdict'.ok <=> Admits(cloudKey, b, sig, grant, now)
    BY <2>2, Zenon
  <2>4. /\ verdict'.as = "command" /\ verdict'.key = cloudKey /\ verdict'.body = b
        /\ verdict'.sig = sig /\ verdict'.grant = grant
    BY <2>2, Zenon
  <2>5. "command" \in Sorts /\ b \in Bodies("command")
    BY <2>1 DEF Sorts, Bodies
  <2> QED
    BY <2>2, <2>3, <2>4, <2>5 DEF Judged
<1>9. CASE Next
  BY <1>2, <1>3, <1>4, <1>5, <1>6, <1>7, <1>8, <1>9
  DEF Next, SignPairProof, SignAuth, SignCommand, SignEvent
<1> QED
  BY <1>1, <1>9

\* One more statement is signed.
LEMMA SignStep ==
    ASSUME BooksInv, NEW as \in Sorts, NEW key \in Devices \cup {Cloud}, NEW body \in Bodies(as),
           as = "pair" => body.Pub = <<key>>, as = "command" => body \in Commands,
           SignAs(as, key, body)
    PROVE  BooksInv'
<1> DEFINE new == [as |-> as, by |-> key, body |-> body]
<1>1. signed' = signed \cup {new} /\ UNCHANGED <<approved, now>>
  BY DEF SignAs
<1>2. new.as = as /\ new.by = key /\ new.body = body
  OBVIOUS
<1> HIDE DEF new
<1>3. SignedInv'
  BY <1>1, <1>2 DEF BooksInv, SignedInv
<1>4. ApprovedInv' /\ (now \in Nat \ {0})'
  BY <1>1 DEF BooksInv, ApprovedInv
<1> QED
  BY <1>3, <1>4 DEF BooksInv

\* Every step keeps the books.
LEMMA BooksStep ==
    ASSUME BooksInv, [Next]_vars
    PROVE  BooksInv'
<1>1. ASSUME UNCHANGED <<signed, approved, now>> PROVE BooksInv'
  BY <1>1 DEF BooksInv, SignedInv, ApprovedInv
<1>2. ASSUME NEW k \in Devices, NEW c \in PairClaims, SignPairProof(k, c) PROVE BooksInv'
  <2>1. "pair" \in Sorts /\ c \in Bodies("pair")
    BY StatementsConstants DEF Sorts, Bodies
  <2> QED
    BY <1>2, <2>1, SignStep DEF SignPairProof
<1>3. ASSUME NEW k \in Devices, NEW c \in AuthClaims, SignAuth(k, c) PROVE BooksInv'
  <2>1. "auth" \in Sorts /\ c \in Bodies("auth")
    BY StatementsConstants DEF Sorts, Bodies
  <2> QED
    BY <1>3, <2>1, SignStep DEF SignAuth
<1>4. ASSUME NEW k \in Devices, NEW e \in Events, SignEvent(k, e) PROVE BooksInv'
  <2>1. "event" \in Sorts /\ e \in Bodies("event")
    BY StatementsConstants DEF Sorts, Bodies
  <2> QED
    BY <1>4, <2>1, SignStep DEF SignEvent
<1>5. ASSUME NEW c \in Commands, SignCommand(c) PROVE BooksInv'
  <2>1. "command" \in Sorts /\ c \in Bodies("command")
    BY StatementsConstants DEF Sorts, Bodies
  <2> QED
    BY <1>5, <2>1, SignStep DEF SignCommand
<1>6. ASSUME NEW a \in Actions, NEW c \in Commands, NEW t \in now..MaxNow,
             Approve(a, c.ApprovalGrantId, t)
      PROVE  BooksInv'
  <2> DEFINE new == [action |-> a, grant |-> SignGrant(Cloud, GrantFor(a, c.ApprovalGrantId, t))]
  <2>1. approved' = approved \cup {new} /\ UNCHANGED <<signed, now>>
    BY <1>6 DEF Approve
  <2>2. new.action = a /\ new.grant = SignGrant(Cloud, GrantFor(a, c.ApprovalGrantId, t))
    OBVIOUS
  <2>3. t \in 1..MaxNow
    BY StatementsConstants DEF BooksInv
  <2> HIDE DEF new
  <2>4. ApprovedInv'
    BY <2>1, <2>2, <2>3 DEF BooksInv, ApprovedInv
  <2> QED
    BY <2>1, <2>4 DEF BooksInv, SignedInv
<1>7. CASE Tick
  <2>1. UNCHANGED <<signed, approved>> /\ now' = now + 1
    BY <1>7 DEF Tick
  <2> QED
    BY <2>1 DEF BooksInv, SignedInv, ApprovedInv
<1>8. CASE Proceed
  BY <1>1, <1>8 DEF Proceed
<1>9. ASSUME NEW as, NEW key, NEW body, NEW sig, NEW grant, NEW ok,
             Judge(as, key, body, sig, grant, ok)
      PROVE  BooksInv'
  BY <1>1, <1>9 DEF Judge
<1>10. CASE UNCHANGED vars
  BY <1>1, <1>10 DEF vars
<1>11. CASE Next
  BY <1>2, <1>3, <1>4, <1>5, <1>6, <1>7, <1>8, <1>9, <1>11
  DEF Next, VerifyPairProof, VerifyAuth, VerifyEvent, Check
<1> QED
  BY <1>10, <1>11

\* What a verdict says does not change while it stands, and NoVerdict says
\* nothing: only a check can make it untrue.
LEMMA NothingSaid ==
    ASSUME SignedInv', verdict' = NoVerdict
    PROVE  AcceptedAsMeant' /\ LedgerIsTheClouds' /\ GrantIsForThisAction' /\ MeantIsAccepted'
<1>1. verdict'.as = "nothing"
  BY DEF NoVerdict
<1>2. AcceptedAsMeant'
  BY <1>1 DEF AcceptedAsMeant, Accepted
<1>3. LedgerIsTheClouds' /\ GrantIsForThisAction'
  BY <1>1 DEF LedgerIsTheClouds, GrantIsForThisAction, Accepted
<1>4. MeantIsAccepted'
  BY <1>1 DEF MeantIsAccepted, SignedInv, Sorts
<1> QED
  BY <1>2, <1>3, <1>4

\* A check that accepts was given a signature that vouches for what it accepts.
LEMMA AcceptedVouched ==
    ASSUME Sha256IsFaithful, SignedInv, Judged, verdict'.ok, verdict'.key # Nil
    PROVE  \E s \in signed : /\ s.as = verdict'.as /\ <<s.by>> = verdict'.key
                             /\ s.body \in Bodies(s.as)
                             /\ Covered(s.body) = Covered(verdict'.body)
<1> DEFINE v == verdict'
<1>1. /\ v.as \in Sorts /\ v.body \in Bodies(v.as) /\ v.sig \in Signatures
      /\ v.as = "command" => /\ v.key \in {Nil, <<Cloud>>}
                             /\ Admits(v.key, v.body, v.sig, v.grant, now)
      /\ v.as # "command" => Verify(v.key[1], BytesOf(v.as, v.body), v.sig)
      /\ v.as = "pair" => v.key = v.body.Pub
      /\ v.as \in {"auth", "event"} => v.key = <<v.key[1]>>
      /\ v.key # Nil
  BY DEF Judged
<1> HIDE DEF v
<1>2. Verify(v.key[1], BytesOf(v.as, v.body), v.sig)
  BY <1>1 DEF Admits, BytesOf
<1>3. PICK s \in signed : /\ s.by = v.key[1] /\ s.as = v.as /\ s.body \in Bodies(v.as)
                          /\ Covered(s.body) = Covered(v.body)
  BY <1>1, <1>2, VouchesFor
<1>4. <<s.by>> = v.key
  <2>1. CASE v.as = "pair"
    <3>1. s.body.Pub = <<s.by>>
      BY <1>3, <2>1 DEF SignedInv
    <3>2. s.body \in PairClaim /\ v.body \in PairClaim
      BY <1>1, <1>3, <2>1 DEF Bodies
    <3>3. s.body.Pub = v.body.Pub
      <4>1. /\ DOMAIN s.body = {"HostID", "Secret", "Pub"}
            /\ DOMAIN v.body = {"HostID", "Secret", "Pub"}
        BY <3>2 DEF PairClaim
      <4>2. Covered(s.body)["Pub"] = s.body["Pub"] /\ Covered(v.body)["Pub"] = v.body["Pub"]
        BY <4>1 DEF Covered
      <4> QED
        BY <1>3, <4>2
    <3> QED
      BY <1>1, <2>1, <3>1, <3>3
  <2>2. CASE v.as = "command"
    BY <1>1, <1>3, <2>2
  <2>3. CASE v.as \in {"auth", "event"}
    BY <1>1, <1>3, <2>3
  <2> QED
    BY <1>1, <2>1, <2>2, <2>3 DEF Sorts
<1> QED
  BY <1>3, <1>4 DEF v

\* AcceptedAsMeant after a check.
LEMMA AcceptedStep ==
    ASSUME Sha256IsFaithful, SignedInv, Judged
    PROVE  AcceptedAsMeant'
<1> SUFFICES ASSUME verdict'.ok, verdict'.key # Nil
             PROVE  \E s \in signed' : /\ s.as = verdict'.as /\ <<s.by>> = verdict'.key
                                       /\ Covered(s.body) = Covered(verdict'.body)
  BY DEF AcceptedAsMeant, Accepted
<1>1. signed' = signed
  BY DEF Judged
<1> QED
  BY <1>1, AcceptedVouched

\* The command a verdict admits under the cloud's key, and its ledger bytes.
LEMMA LedgerStep ==
    ASSUME Sha256IsFaithful, SignedInv, Judged
    PROVE  LedgerIsTheClouds'
<1> SUFFICES ASSUME verdict'.as = "command", verdict'.ok, verdict'.key # Nil,
                    verdict'.body.LedgerPayload # Nil
             PROVE  \E s \in signed' : /\ s.as = "command" /\ Covered(s.body) = Covered(verdict'.body)
                                       /\ s.body.LedgerPayload = verdict'.body.LedgerPayload
  BY DEF LedgerIsTheClouds, Accepted
<1> DEFINE b == verdict'.body
<1>1. PICK s \in signed : s.as = "command" /\ Covered(s.body) = Covered(b)
  BY AcceptedVouched
<1>2. signed' = signed /\ b \in EdgeCommand
  BY DEF Judged, Bodies
<1>3. VerifiedLedgerPayload(b)
  BY DEF Judged, Admits
<1> HIDE DEF b
<1>4. s.body \in Commands /\ s.body \in EdgeCommand
  BY <1>1, StatementsConstants DEF SignedInv
<1>5. s.body.PayloadDigest = sha256(s.body.LedgerPayload)
  BY <1>4, StatementsConstants
<1>6. s.body.PayloadDigest = b.PayloadDigest
  BY <1>1, <1>2, <1>4, CoveredDigest
<1>7. s.body.LedgerPayload \in Seq(Nat) /\ b.LedgerPayload \in Seq(Nat)
  BY <1>2, <1>4 DEF EdgeCommand, Text
<1>8. s.body.LedgerPayload = b.LedgerPayload
  BY <1>3, <1>5, <1>6, <1>7 DEF VerifiedLedgerPayload, Sha256IsFaithful
<1> QED
  BY <1>1, <1>2, <1>8 DEF b

\* A grant document that verifies is one the cloud signed, to the letter.
LEMMA GrantFrom ==
    ASSUME ApprovedInv, NEW grant \in Grants, grant # Nil, VerifyGrantSignature(Cloud, grant[1])
    PROVE  \E g \in approved, c \in Commands, t \in 1..MaxNow :
             /\ g.action \in Actions /\ g.grant.doc = grant[1].doc
             /\ grant[1].doc = GrantFor(g.action, c.ApprovalGrantId, t)
<1>1. PICK g \in approved, u \in 1..MaxNow :
           grant = <<[g.grant EXCEPT !.doc.ExpiresAt = <<u>>]>>
  BY DEF Grants
<1>2. PICK c \in Commands, t \in 1..MaxNow :
           g.grant = SignGrant(Cloud, GrantFor(g.action, c.ApprovalGrantId, t))
  BY DEF ApprovedInv
<1>3. g.action \in Actions
  BY DEF ApprovedInv
<1> DEFINE doc == GrantFor(g.action, c.ApprovalGrantId, t)
<1> HIDE DEF doc
<1>4. g.grant = [doc |-> doc, ServerSignature |-> <<Sign(Cloud, doc)>>]
  BY <1>2 DEF SignGrant, doc
<1>5. grant[1].ServerSignature = <<Sign(Cloud, doc)>>
  BY <1>1, <1>4
<1>6. Sign(Cloud, doc) = Sign(Cloud, grant[1].doc)
  BY <1>5 DEF VerifyGrantSignature, Verify
<1>7. doc = grant[1].doc
  BY <1>6 DEF Sign
<1> QED
  BY <1>3, <1>4, <1>7 DEF doc

\* GrantIsForThisAction after a check.
LEMMA GrantStep ==
    ASSUME Sha256IsFaithful, ApprovedInv, Judged
    PROVE  GrantIsForThisAction'
<1> SUFFICES ASSUME verdict'.as = "command", verdict'.ok, verdict'.key # Nil,
                    verdict'.body.ApprovalGrantId # Nil
             PROVE  \E g \in approved' : /\ g.action = ActionOf(verdict'.body)
                                         /\ g.grant.doc = verdict'.grant[1].doc
                                         /\ now' <= g.grant.doc.ExpiresAt[1]
  BY DEF GrantIsForThisAction, Accepted
<1> DEFINE b == verdict'.body
           grant == verdict'.grant
<1>1. approved' = approved /\ now' = now /\ b \in EdgeCommand /\ grant \in Grants
      /\ verdict'.key = <<Cloud>>
  BY DEF Judged, Bodies
<1>2. VerifyCommandGrant(<<Cloud>>, b, grant, now)
  BY <1>1 DEF Judged, Admits
<1> HIDE DEF b, grant
<1>3. /\ grant # Nil /\ VerifyGrantSignature(Cloud, grant[1])
      /\ now <= grant[1].doc.ExpiresAt[1] /\ grant[1].doc.WorkflowRunID = b.WorkflowRunId
      /\ grant[1].doc.ActionDigest = SumWord \o ActionDigest(ActionOf(b))
      /\ Scopes(b.DeviceId, b.ResourceType, b.ResourceId) \subseteq grant[1].doc.ResourceScope
  BY <1>2 DEF VerifyCommandGrant, GrantHolds, Nil
<1>4. PICK g \in approved, c \in Commands, t \in 1..MaxNow :
           /\ g.action \in Actions /\ g.grant.doc = grant[1].doc
           /\ grant[1].doc = GrantFor(g.action, c.ApprovalGrantId, t)
  BY <1>1, <1>3, GrantFrom
<1> DEFINE a == g.action
           e == ActionOf(b)
<1>5. /\ grant[1].doc.WorkflowRunID = a.run
      /\ grant[1].doc.ActionDigest = SumWord \o ActionDigest(a)
      /\ grant[1].doc.ResourceScope = Scopes(a.device, a.type, a.id)
  BY <1>4 DEF GrantFor
<1>6. /\ e.run = b.WorkflowRunId /\ e.device = b.DeviceId /\ e.type = b.ResourceType
      /\ e.id = b.ResourceId /\ e \in Action
  BY <1>1 DEF ActionOf, Action, EdgeCommand
<1>7. a \in Action /\ OrdinaryType(a.type)
  BY <1>4, StatementsConstants DEF OrdinaryType
<1> HIDE DEF a, e
<1>8. \A x \in Action : ActionDigest(x) \in Seq(Nat)
  <2> SUFFICES ASSUME NEW x \in Action PROVE ActionDigest(x) \in Seq(Nat)
    OBVIOUS
  <2>1. /\ x.run \in Seq(Nat) /\ x.device \in Seq(Nat) /\ x.type \in Seq(Nat) /\ x.id \in Seq(Nat)
        /\ x.payload \in Seq(Nat) /\ Bar \in Seq(Nat)
    BY DEF Action, Text, Bar
  <2>2. x.run \o Bar \o x.device \o Bar \o x.type \o Bar \o x.id \o Bar \o x.payload \in Seq(Nat)
    BY <2>1
  <2> QED
    BY <2>2 DEF ActionDigest, Sha256IsFaithful, Text
<1>9. ActionDigest(a) = ActionDigest(e)
  <2>1. SumWord \o ActionDigest(a) = SumWord \o ActionDigest(e)
    BY <1>3, <1>5 DEF e
  <2>2. SumWord \in Seq(Nat)
    BY DEF SumWord
  <2> QED
    BY <1>6, <1>7, <1>8, <2>1, <2>2, CancelLeft
<1>10. a.run = e.run /\ Scopes(e.device, e.type, e.id) \subseteq Scopes(a.device, a.type, a.id)
  BY <1>3, <1>5, <1>6
<1>11. a = e
  BY <1>6, <1>7, <1>9, <1>10, GrantBindsAction
<1> QED
  BY <1>1, <1>3, <1>4, <1>11 DEF a, e, b, grant

\* MeantIsAccepted after a check.
LEMMA MeantStep ==
    ASSUME SignedInv, ApprovedInv, Judged
    PROVE  MeantIsAccepted'
<1> SUFFICES ASSUME NEW s \in signed, verdict'.as = s.as, ~verdict'.ok,
                    verdict'.key = <<s.by>>, verdict'.body = s.body,
                    verdict'.sig = SignatureOf(s)
             PROVE  /\ s.as = "command" /\ s.body.ApprovalGrantId # Nil
                    /\ ~\E g \in approved : /\ s.body.LedgerPayload # Nil
                                            /\ verdict'.grant = <<g.grant>>
                                            /\ g.action = ActionOf(s.body)
                                            /\ g.grant.doc.GrantID = s.body.ApprovalGrantId
                                            /\ now <= g.grant.doc.ExpiresAt[1]
  <2>1. signed' = signed /\ approved' = approved /\ now' = now
    BY DEF Judged
  <2> QED
    BY <2>1 DEF MeantIsAccepted, SignatureOf
<1> DEFINE grant == verdict'.grant
           b == s.body
<1>1. \A key, bytes : Verify(key, bytes, <<Sign(key, bytes)>>)
  BY DEF Verify, Nil
<1>2. s.as # "command" => FALSE
  <2>1. ASSUME s.as # "command" PROVE ~Verify(s.by, BytesOf(s.as, s.body), SignatureOf(s))
    BY <2>1 DEF Judged
  <2> QED
    BY <1>1, <2>1 DEF SignatureOf
<1>3. s.as = "command" /\ b \in Commands /\ s.by = Cloud
  <2>1. s.as = "command"
    BY <1>2
  <2>2. b \in Commands
    BY <2>1 DEF SignedInv
  <2>3. <<s.by>> \in {Nil, <<Cloud>>}
    BY <2>1 DEF Judged
  <2> QED
    BY <2>1, <2>2, <2>3 DEF Nil
<1>4. ~Admits(<<Cloud>>, b, SignatureOf(s), grant, now)
  BY <1>3 DEF Judged
<1>5. Verify(Cloud, commandBytes(b), SignatureOf(s))
  BY <1>1, <1>3 DEF SignatureOf, BytesOf
<1>6. b.LedgerPayload # Nil => VerifiedLedgerPayload(b)
  BY <1>3, StatementsConstants DEF VerifiedLedgerPayload
<1> HIDE DEF b, grant
<1>7. b.ApprovalGrantId # Nil /\ ~VerifyCommandGrant(<<Cloud>>, b, grant, now)
  BY <1>4, <1>5, <1>6 DEF Admits
<1>8. ASSUME NEW g \in approved, b.LedgerPayload # Nil, grant = <<g.grant>>,
             g.action = ActionOf(b), g.grant.doc.GrantID = b.ApprovalGrantId,
             now <= g.grant.doc.ExpiresAt[1]
      PROVE  FALSE
  <2>1. PICK c \in Commands, t \in 1..MaxNow :
             g.grant = SignGrant(Cloud, GrantFor(g.action, c.ApprovalGrantId, t))
    BY DEF ApprovedInv
  <2> DEFINE doc == GrantFor(g.action, c.ApprovalGrantId, t)
  <2>2. grant[1] = SignGrant(Cloud, doc) /\ grant # Nil /\ grant[1].doc = doc
    BY <1>8, <2>1 DEF SignGrant, Nil
  <2>3. VerifyGrantSignature(Cloud, grant[1])
    <3> HIDE DEF doc
    <3>1. grant[1].ServerSignature = <<Sign(Cloud, doc)>>
      BY <2>2 DEF SignGrant
    <3> QED
      BY <1>1, <2>2, <3>1 DEF VerifyGrantSignature
  <2>4. /\ doc.Schema = GrantSchema /\ doc.ExpiresAt = <<t>>
        /\ doc.WorkflowRunID = g.action.run
        /\ doc.ActionDigest = SumWord \o ActionDigest(g.action)
        /\ doc.ResourceScope = Scopes(g.action.device, g.action.type, g.action.id)
    BY DEF GrantFor
  <2> HIDE DEF doc
  <2>5. doc.GrantID = b.ApprovalGrantId /\ now <= doc.ExpiresAt[1]
    BY <1>8, <2>2
  <2>6. /\ doc.WorkflowRunID = b.WorkflowRunId
        /\ doc.ActionDigest = SumWord \o ActionDigest(ActionOf(b))
        /\ doc.ResourceScope = Scopes(b.DeviceId, b.ResourceType, b.ResourceId)
    <3>1. /\ g.action.run = b.WorkflowRunId /\ g.action.device = b.DeviceId
          /\ g.action.type = b.ResourceType /\ g.action.id = b.ResourceId
      BY <1>8 DEF ActionOf
    <3> QED
      BY <1>8, <2>4, <3>1
  <2>7. doc.ExpiresAt # Nil
    BY <2>4 DEF Nil
  <2>8. VerifyCommandGrant(<<Cloud>>, b, grant, now)
    BY <1>6, <1>8, <2>2, <2>3, <2>4, <2>5, <2>6, <2>7 DEF VerifyCommandGrant, GrantHolds, Nil
  <2> QED
    BY <1>7, <2>8
<1> QED
  BY <1>3, <1>7, <1>8 DEF b, grant

-----------------------------------------------------------------------------
(* The theorems *)

\* Nothing is signed, granted or said at first.
LEMMA InitHolds == Init => IInv
<1> SUFFICES ASSUME Init PROVE IInv
  OBVIOUS
<1>1. BooksInv /\ MeantIsAccepted
  BY DEF Init, BooksInv, SignedInv, ApprovedInv, MeantIsAccepted
<1>2. verdict.as = "nothing"
  BY DEF Init, NoVerdict
<1>3. AcceptedAsMeant /\ LedgerIsTheClouds /\ GrantIsForThisAction
  BY <1>2 DEF AcceptedAsMeant, LedgerIsTheClouds, GrantIsForThisAction, Accepted
<1> QED
  BY <1>1, <1>3 DEF IInv

\* The books, and what every verdict says of them, are kept by every step of the
\* signers, the cloud, the clock and the checks of sign.go, edgesign.go, grant.go.
THEOREM IInvHolds ==
    ASSUME Sha256IsFaithful
    PROVE  Spec => []IInv
<1>1. Init => IInv
  BY InitHolds
<1>2. IInv /\ [Next]_vars => IInv'
  <2> SUFFICES ASSUME IInv, [Next]_vars PROVE IInv'
    OBVIOUS
  <2>1. BooksInv'
    BY BooksStep DEF IInv
  <2>2. CASE UNCHANGED vars
    <3>1. UNCHANGED <<signed, approved, now, verdict>>
      BY <2>2 DEF vars
    <3>2. AcceptedAsMeant' /\ LedgerIsTheClouds'
      BY <3>1 DEF IInv, AcceptedAsMeant, LedgerIsTheClouds, Accepted
    <3>3. GrantIsForThisAction' /\ MeantIsAccepted'
      BY <3>1 DEF IInv, GrantIsForThisAction, MeantIsAccepted, Accepted, SignatureOf
    <3> QED
      BY <2>1, <3>2, <3>3 DEF IInv
  <2>3. CASE verdict' = NoVerdict
    BY <2>1, <2>3, NothingSaid DEF IInv, BooksInv
  <2>4. CASE Judged
    <3>1. SignedInv /\ ApprovedInv
      BY DEF IInv, BooksInv
    <3> QED
      BY <2>1, <2>4, <3>1, AcceptedStep, LedgerStep, GrantStep, MeantStep DEF IInv
  <2> QED
    BY <2>2, <2>3, <2>4, StepKinds
<1> QED
  BY <1>1, <1>2, PTL DEF Spec

\* AcceptedAsMeant, for any number of keys, statements and signatures: what
\* VerifyPairProof, VerifyAuth, VerifyCommand and VerifyEvent accept under a key
\* was signed with it, as that sort of statement, with these fields and, of the
\* times, these nanoseconds; which time it was is more than the bytes say.
THEOREM AcceptedWasMeant ==
    ASSUME Sha256IsFaithful
    PROVE  Spec => []AcceptedAsMeant
<1>1. IInv => AcceptedAsMeant
  BY DEF IInv
<1> QED
  BY <1>1, IInvHolds, PTL

\* LedgerIsTheClouds: a command that is admitted carries the ledger bytes the
\* cloud digested, although no signature covers them (VerifiedLedgerPayload).
THEOREM LedgerFromTheCloud ==
    ASSUME Sha256IsFaithful
    PROVE  Spec => []LedgerIsTheClouds
<1>1. IInv => LedgerIsTheClouds
  BY DEF IInv
<1> QED
  BY <1>1, IInvHolds, PTL

\* GrantIsForThisAction: VerifyCommandGrant admits the approved action and no
\* other, whatever texts the fields hold.
THEOREM GrantBinds ==
    ASSUME Sha256IsFaithful
    PROVE  Spec => []GrantIsForThisAction
<1>1. IInv => GrantIsForThisAction
  BY DEF IInv
<1> QED
  BY <1>1, IInvHolds, PTL

\* MeantIsAccepted: refuse has a cause whenever it refuses.  This needs nothing
\* of sha256.
THEOREM RefusalHasACause == Spec => []MeantIsAccepted
<1> DEFINE I == BooksInv /\ MeantIsAccepted
<1>1. Init => I
  BY InitHolds DEF IInv
<1>2. I /\ [Next]_vars => I'
  <2> SUFFICES ASSUME I, [Next]_vars PROVE I'
    OBVIOUS
  <2>1. BooksInv' /\ SignedInv /\ ApprovedInv /\ SignedInv'
    BY BooksStep DEF BooksInv
  <2>2. CASE UNCHANGED vars
    <3>1. UNCHANGED <<signed, approved, now, verdict>>
      BY <2>2 DEF vars
    <3>2. MeantIsAccepted'
      BY <3>1 DEF MeantIsAccepted, SignatureOf
    <3> QED
      BY <2>1, <3>2
  <2>3. CASE verdict' = NoVerdict
    BY <2>1, <2>3, NothingSaid
  <2>4. CASE Judged
    BY <2>1, <2>4, MeantStep
  <2> QED
    BY <2>2, <2>3, <2>4, StepKinds
<1> QED
  BY <1>1, <1>2, PTL DEF Spec
====
